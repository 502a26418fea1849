--------------------------- MODULE RemoteHub_proofs ---------------------------
(***************************************************************************)
(* Proofs about RemoteHub, for any number of clients, connections and      *)
(* changes: the queue is never left for a loop that sleeps, a screenshot   *)
(* is as new as its request, a stream at rest shows the screen, a tap      *)
(* leaves no button held.                                                  *)
(***************************************************************************)
EXTENDS RemoteHub, FiniteSetTheorems, TLAPS

\* Before on_start nothing was painted, and no wake has found a waker.
NotStarted == /\ ~waker => ui = "starting"
              /\ ui = "starting" => painted = 0

\* What is published was painted.
FrameInv == /\ frame.version <= painted /\ painted <= want
            /\ frame.seq = 0 => frame.version = 0

\* A screenshot on its way: a frame newer than the one it saw is as new as
\* its request.
ShotOK(n) ==
  n.kind = "shot" =>
    /\ n.phase \in {"push", "poke", "await"} =>
         /\ n.before <= frame.seq
         /\ n.asked <= painted
         /\ frame.seq > n.before => frame.version >= n.asked
    /\ n.phase = "served" => n.shown >= n.asked

\* A stream: what it was sent is what it saw.
SentOK(n) ==
  n.kind = "stream" =>
    /\ n.phase \in {"push", "poke"} =>
         n.todo = <<"refresh">> /\ n.before = 0 /\ n.shown = 0
    /\ n.before <= frame.seq
    /\ n.before = frame.seq => n.shown = frame.version

Early == {"away", "accepted", "busy", "request"}
Watching == {"poke", "await", "send"}
StreamPhases == {"push", "poke", "await", "send", "leave"}

ConnOK(n) == /\ n.phase \in Early => n.kind = "tree"
             /\ n.phase \in {"send", "leave"} => n.kind = "stream"
             /\ n.todo # <<>> <=> n.phase \in {"push", "poke"}
             /\ ShotOK(n) /\ SentOK(n)

Refresh(s) == \E i \in DOMAIN s : s[i].name = "refresh"

\* The frame is the screen, or the loop is on its way to publish it, or a
\* refresh is queued that the loop knows of or is about to be told of.
StreamOK(n) ==
  n.kind = "stream" /\ n.phase \in Watching =>
    \/ frame.version = painted
    \/ ui \in {"painted", "publish", "exited"}
    \/ Refresh(commands) /\ (ping \/ ui = "take" \/ n.phase = "poke")
    \/ Refresh(batch)

Inv == /\ TypeOK
       /\ NotStarted
       /\ FrameInv
       /\ \A c \in Clients : ConnOK(conn[c])
       /\ \A c \in Clients : StreamOK(conn[c])
       /\ WakeIsOwed
       /\ WatchersCounted
       /\ ConnectionsCounted

Streams == {c \in Clients : Streaming(c)}

--------------------------------------------------------------------------------
LEMMA RefreshAppend ==
  ASSUME NEW s \in Seq(CommandSet), NEW m \in CommandSet,
         Refresh(s) \/ m.name = "refresh"
  PROVE  Refresh(Append(s, m))
<1>1. /\ DOMAIN Append(s, m) = 1 .. Len(s) + 1
      /\ Append(s, m)[Len(s) + 1] = m
      /\ \A i \in DOMAIN s : i \in 1 .. Len(s) /\ Append(s, m)[i] = s[i]
  OBVIOUS
<1>2. CASE m.name = "refresh"
  <2>1. Len(s) + 1 \in DOMAIN Append(s, m)
    BY <1>1
  <2> QED
    BY <1>1, <1>2, <2>1 DEF Refresh
<1>3. CASE Refresh(s)
  <2>1. PICK i \in DOMAIN s : s[i].name = "refresh"
    BY <1>3 DEF Refresh
  <2>2. i \in DOMAIN Append(s, m) /\ Append(s, m)[i].name = "refresh"
    BY <1>1, <2>1
  <2> QED
    BY <2>2 DEF Refresh
<1> QED
  BY <1>2, <1>3

LEMMA RefreshTail ==
  ASSUME NEW s \in Seq(CommandSet), s # <<>>, Refresh(s),
         Head(s).name # "refresh"
  PROVE  Refresh(Tail(s))
<1>1. PICK i \in DOMAIN s : s[i].name = "refresh"
  BY DEF Refresh
<1>2. i \in 1 .. Len(s) /\ i # 1
  BY <1>1
<1>3. i - 1 \in DOMAIN Tail(s) /\ Tail(s)[i - 1] = s[i]
  BY <1>2
<1> QED
  BY <1>1, <1>3 DEF Refresh

\* A peer that is counted, and open, before and after leaves the counts alone.
LEMMA CountKept ==
  ASSUME TypeOK, ConnectionsCounted, NEW c \in Clients, NEW n, Becomes(c, n),
         n.phase = "away" <=> conn[c].phase = "away",
         n.phase \in {"away", "busy"} <=> conn[c].phase \in {"away", "busy"},
         UNCHANGED <<clients, leaked>>
  PROVE  ConnectionsCounted'
<1>1. \A d \in Clients : conn'[d] = IF d = c THEN n ELSE conn[d]
  BY DEF TypeOK, Becomes
<1>2. Counted' = Counted /\ Open' = Open
  BY <1>1 DEF Counted, Open
<1> QED
  BY <1>2 DEF ConnectionsCounted

LEMMA CountedFinite ==
  ASSUME NEW S \in SUBSET Clients
  PROVE  IsFiniteSet(S) /\ Cardinality(S) \in Nat
BY RemoteAssumption, FS_Subset, FS_CardinalityType

\* A peer that is uncounted goes down with the counter.
LEMMA CountDown ==
  ASSUME TypeOK, ConnectionsCounted, NEW c \in Clients, Becomes(c, NoConn),
         conn[c].phase # "away",
         \/ clients' = clients - 1 /\ leaked' = leaked
         \/ clients' = clients /\ leaked' = leaked + 1
  PROVE  ConnectionsCounted' /\ clients' \in Nat
<1>1. \A d \in Clients : conn'[d] = IF d = c THEN NoConn ELSE conn[d]
  BY DEF TypeOK, Becomes
<1>2. NoConn.phase = "away"
  BY DEF NoConn
<1>3. /\ Counted \in SUBSET Clients /\ Open \in SUBSET Clients
      /\ Open' \in SUBSET Clients /\ Open' \subseteq Open
      /\ c \in Counted /\ Counted' = Counted \ {c}
  BY <1>1, <1>2 DEF Counted, Open
<1>4. Cardinality(Counted') = Cardinality(Counted) - 1
  BY <1>3, CountedFinite, FS_RemoveElement
<1>5. Cardinality(Open') <= Cardinality(Open)
  BY <1>3, CountedFinite, FS_Subset
<1>6. /\ Cardinality(Counted) \in Nat /\ Cardinality(Open) \in Nat
      /\ Cardinality(Open') \in Nat /\ Cardinality(Counted') \in Nat
  BY <1>3, CountedFinite
<1>7. Cardinality(Open') <= MaxConnections
  BY <1>5, <1>6, RemoteAssumption DEF ConnectionsCounted
<1>8. clients' = Cardinality(Counted') + leaked' /\ clients' \in Nat
  BY <1>4, <1>6 DEF ConnectionsCounted, TypeOK
<1> QED
  BY <1>7, <1>8 DEF ConnectionsCounted

\* An accepted connection keeps the bound, because no more are open than are
\* counted.
LEMMA CountUp ==
  ASSUME TypeOK, ConnectionsCounted, NEW c \in Clients, Accept(c)
  PROVE  ConnectionsCounted'
<1> DEFINE n == [NoConn EXCEPT !.phase = Admission]
<1>1. /\ conn[c].phase = "away" /\ clients' = clients + 1 /\ leaked' = leaked
      /\ Becomes(c, n) /\ n.phase = Admission
  BY DEF Accept, NoConn
<1> HIDE DEF n
<1>2. \A d \in Clients : conn'[d] = IF d = c THEN n ELSE conn[d]
  BY <1>1 DEF TypeOK, Becomes
<1>3. /\ Admission = "busy" \/ Admission = "accepted"
      /\ Admission = "accepted" => ~(clients >= MaxConnections)
  BY DEF Admission
<1>4. /\ Counted \in SUBSET Clients /\ Open \in SUBSET Clients
      /\ c \notin Counted /\ c \notin Open /\ Open \subseteq Counted
      /\ Counted' = Counted \cup {c}
  BY <1>1, <1>2, <1>3 DEF Counted, Open
<1>5. Cardinality(Counted') = Cardinality(Counted) + 1
  BY <1>4, CountedFinite, FS_AddElement
<1>6. /\ Cardinality(Counted) \in Nat /\ Cardinality(Open) \in Nat
      /\ Cardinality(Open) <= Cardinality(Counted)
  BY <1>4, CountedFinite, FS_Subset
<1>7. CASE Admission = "busy"
  <2>1. Open' = Open
    BY <1>1, <1>2, <1>4, <1>7 DEF Open
  <2> QED
    BY <1>1, <1>5, <1>6, <2>1 DEF ConnectionsCounted, TypeOK
<1>8. CASE Admission = "accepted"
  <2>1. Open' = Open \cup {c}
    BY <1>1, <1>2, <1>8 DEF Open
  <2>2. Cardinality(Open') = Cardinality(Open) + 1
    BY <1>4, <2>1, CountedFinite, FS_AddElement
  <2>3. Cardinality(Open) < MaxConnections
    BY <1>3, <1>6, <1>8, RemoteAssumption DEF ConnectionsCounted, TypeOK
  <2> QED
    BY <1>1, <1>5, <1>6, <2>2, <2>3, RemoteAssumption DEF ConnectionsCounted, TypeOK
<1> QED
  BY <1>3, <1>7, <1>8

--------------------------------------------------------------------------------
LEMMA WatchersKept ==
  ASSUME TypeOK, WatchersCounted, NEW c \in Clients, NEW n, Becomes(c, n),
         n.kind = "stream" /\ n.phase \in StreamPhases <=> Streaming(c),
         watchers' = watchers
  PROVE  WatchersCounted'
<1>1. \A d \in Clients : conn'[d] = IF d = c THEN n ELSE conn[d]
  BY DEF TypeOK, Becomes
<1>2. \A d \in Clients : Streaming(d)' <=> Streaming(d)
  BY <1>1 DEF Streaming, StreamPhases
<1>3. Streams' = Streams
  BY <1>2 DEF Streams
<1> QED
  BY <1>3 DEF WatchersCounted, Streams

\* One connection moves on and nothing else does, as long as it neither owed
\* the loop a wake nor changes what is counted.
LEMMA PeerStep ==
  ASSUME Inv, NEW c \in Clients, NEW n \in Conns, Becomes(c, n),
         UNCHANGED <<hub, ping, thread, missed>>,
         leaked' \in Nat, asks' \in 0 .. MaxAsks, clients' \in Nat,
         ConnectionsCounted',
         ConnOK(n), StreamOK(n), conn[c].phase # "poke",
         n.kind = "stream" /\ n.phase \in StreamPhases <=> Streaming(c)
  PROVE  Inv'
<1>1. \A d \in Clients : conn'[d] = IF d = c THEN n ELSE conn[d]
  BY DEF Inv, TypeOK, Becomes
<1>2. conn' \in [Clients -> Conns]
  BY DEF Inv, TypeOK, Becomes
<1>3. \A d \in Clients : ConnOK(conn[d])' /\ StreamOK(conn[d])'
  <2> TAKE d \in Clients
  <2>1. ConnOK(conn[d]) /\ StreamOK(conn[d])
    BY DEF Inv
  <2> QED
    BY <1>1, <2>1 DEF ConnOK, ShotOK, SentOK, StreamOK, Refresh, hub, thread
<1>4. TypeOK'
  BY <1>2, <1>3 DEF Inv, TypeOK, ConnOK, hub, thread
<1>5. NotStarted' /\ FrameInv'
  BY DEF Inv, NotStarted, FrameInv, hub, thread
<1>6. WakeIsOwed'
  BY <1>1 DEF Inv, WakeIsOwed, hub, thread
<1>7. WatchersCounted'
  BY WatchersKept DEF Inv, hub
<1> QED
  BY <1>3, <1>4, <1>5, <1>6, <1>7 DEF Inv

LEMMA Blank ==
  /\ NoConn \in Conns /\ ConnOK(NoConn) /\ StreamOK(NoConn)
  /\ Done \in Conns /\ ConnOK(Done) /\ StreamOK(Done)
  /\ NoConn.kind = "tree" /\ NoConn.phase = "away"
  /\ Done.kind = "tree" /\ Done.phase = "served"
<1>1. /\ NoConn.kind = "tree" /\ NoConn.phase = "away" /\ NoConn.todo = <<>>
      /\ Done.kind = "tree" /\ Done.phase = "served" /\ Done.todo = <<>>
  BY DEF NoConn, Done
<1>2. <<>> \in Seq(CommandNames)
  OBVIOUS
<1>3. NoConn \in Conns
  BY <1>2, RemoteAssumption DEF NoConn, Conns, Phases, Requests
<1>4. Done \in Conns
  BY <1>3 DEF Done, Conns, Phases
<1> QED
  BY <1>1, <1>3, <1>4 DEF ConnOK, ShotOK, SentOK, StreamOK, Early, Watching

\* What the invariant says of one connection.
LEMMA ConnFacts ==
  ASSUME Inv, NEW c \in Clients
  PROVE  /\ conn[c] \in Conns /\ ConnOK(conn[c]) /\ StreamOK(conn[c])
         /\ frame \in [seq : Nat, version : Nat] /\ painted \in Nat
         /\ clients \in Nat /\ leaked \in Nat /\ asks \in 0 .. MaxAsks
BY DEF Inv, TypeOK

LEMMA ListenerKeeps ==
  ASSUME Inv, NEW c \in Clients, Listener(c)
  PROVE  Inv'
<1> USE ConnFacts, Blank
<1>1. CASE Accept(c)
  <2> DEFINE n == [NoConn EXCEPT !.phase = Admission]
  <2>1. /\ n \in Conns /\ ConnOK(n) /\ StreamOK(n)
        /\ n.phase \in {"busy", "accepted"} /\ n.kind = "tree"
    BY RemoteAssumption DEF NoConn, Admission, Conns, Phases, Requests,
       CommandNames, ConnOK, ShotOK, SentOK, StreamOK, Watching
  <2>2. /\ Becomes(c, n) /\ UNCHANGED <<hub, ping, thread, missed>>
        /\ clients' \in Nat /\ leaked' \in Nat /\ asks' \in 0 .. MaxAsks
        /\ conn[c].phase = "away"
    BY <1>1, RemoteAssumption DEF Accept
  <2>3. ~Streaming(c)
    BY <2>2 DEF Streaming
  <2>4. ConnectionsCounted'
    BY <1>1, CountUp DEF Inv
  <2> HIDE DEF n
  <2> QED
    BY <2>1, <2>2, <2>3, <2>4, PeerStep
<1>2. CASE Refuse(c) \/ SpawnFails(c)
  <2>1. /\ Becomes(c, NoConn) /\ UNCHANGED <<hub, ping, thread, missed>>
        /\ leaked' \in Nat /\ asks' \in 0 .. MaxAsks
        /\ conn[c].phase \in {"busy", "accepted"}
        /\ \/ clients' = clients - 1 /\ leaked' = leaked
           \/ clients' = clients /\ leaked' = leaked + 1
    BY <1>2 DEF Refuse, SpawnFails
  <2>2. ConnectionsCounted' /\ clients' \in Nat
    BY <2>1, CountDown DEF Inv
  <2>3. ~Streaming(c)
    BY <2>1 DEF Streaming
  <2> QED
    BY <2>1, <2>2, <2>3, PeerStep
<1>3. CASE Spawn(c)
  <2> DEFINE n == [conn[c] EXCEPT !.phase = "request"]
  <2>1. /\ Becomes(c, n) /\ UNCHANGED <<hub, ping, thread, missed>>
        /\ clients' \in Nat /\ leaked' \in Nat /\ asks' \in 0 .. MaxAsks
        /\ conn[c].phase = "accepted" /\ UNCHANGED <<clients, leaked>>
    BY <1>3 DEF Spawn
  <2>2. conn[c].kind = "tree" /\ conn[c].todo = <<>>
    BY <2>1 DEF ConnOK, Early
  <2>3. /\ n \in Conns /\ n.phase = "request" /\ n.kind = "tree" /\ n.todo = <<>>
    BY <2>2 DEF Conns, Phases
  <2> HIDE DEF n
  <2>4. ConnOK(n) /\ StreamOK(n) /\ ~Streaming(c)
    BY <2>1, <2>3 DEF ConnOK, ShotOK, SentOK, StreamOK, Watching, Streaming
  <2>5. ConnectionsCounted'
    BY <2>1, <2>3, CountKept DEF Inv
  <2> QED
    BY <2>1, <2>3, <2>4, <2>5, PeerStep
<1> QED
  BY <1>1, <1>2, <1>3 DEF Listener

\* A counted peer that stays open, as one operation for the cases below.
LEMMA OpenPeerStep ==
  ASSUME Inv, NEW c \in Clients, NEW n \in Conns, Becomes(c, n),
         UNCHANGED <<hub, ping, thread, missed, clients, asks, leaked>>,
         ConnOK(n), StreamOK(n),
         conn[c].phase \notin {"away", "busy", "poke"},
         n.phase \notin {"away", "busy"},
         n.kind = "stream" /\ n.phase \in StreamPhases <=> Streaming(c)
  PROVE  Inv'
<1>1. ConnectionsCounted'
  BY CountKept DEF Inv
<1>2. clients' \in Nat /\ leaked' \in Nat /\ asks' \in 0 .. MaxAsks
  BY ConnFacts
<1> QED
  BY <1>1, <1>2, PeerStep

LEMMA ReaderKeeps ==
  ASSUME Inv, NEW c \in Clients,
         \/ Dismiss(c) \/ TakeShot(c) \/ TakeReply(c) \/ GiveUp(c)
         \/ StreamWait(c) \/ StreamSend(c) \/ Hangup(c)
  PROVE  Inv'
<1> USE ConnFacts, Blank DEF Moves
<1>1. CASE Dismiss(c) \/ TakeReply(c) \/ GiveUp(c)
  <2>1. /\ Becomes(c, Done)
        /\ UNCHANGED <<hub, ping, thread, missed, clients, asks, leaked>>
        /\ \/ conn[c].phase = "request"
           \/ conn[c].phase = "await" /\ conn[c].kind # "stream"
    BY <1>1 DEF Dismiss, TakeReply, GiveUp
  <2>2. ~Streaming(c)
    BY <2>1 DEF Streaming
  <2> QED
    BY <2>1, <2>2, OpenPeerStep
<1>2. CASE TakeShot(c)
  <2> DEFINE n == [conn[c] EXCEPT !.phase = "served", !.shown = frame.version]
  <2>1. /\ Becomes(c, n)
        /\ UNCHANGED <<hub, ping, thread, missed, clients, asks, leaked>>
        /\ conn[c].phase = "await" /\ conn[c].kind = "shot"
        /\ frame.seq > conn[c].before
    BY <1>2 DEF TakeShot, Newer
  <2>2. /\ n \in Conns /\ n.phase = "served" /\ n.kind = "shot"
        /\ n.todo = conn[c].todo /\ n.shown = frame.version
        /\ n.asked = conn[c].asked
    BY <2>1 DEF Conns, Phases
  <2> HIDE DEF n
  <2>3. conn[c].todo = <<>> /\ frame.version >= conn[c].asked
    BY <2>1 DEF ConnOK, ShotOK
  <2>4. ConnOK(n) /\ StreamOK(n) /\ ~Streaming(c)
    BY <2>1, <2>2, <2>3
       DEF ConnOK, ShotOK, SentOK, StreamOK, Early, Streaming
  <2> QED
    BY <2>1, <2>2, <2>4, OpenPeerStep
<1>3. CASE StreamWait(c)
  <2> DEFINE n == [conn[c] EXCEPT !.phase = "send"]
  <2>1. /\ Becomes(c, n)
        /\ UNCHANGED <<hub, ping, thread, missed, clients, asks, leaked>>
        /\ conn[c].phase = "await" /\ conn[c].kind = "stream"
    BY <1>3 DEF StreamWait
  <2>2. /\ n \in Conns /\ n.phase = "send" /\ n.kind = "stream"
        /\ n.todo = conn[c].todo /\ n.shown = conn[c].shown
        /\ n.before = conn[c].before
    BY <2>1 DEF Conns, Phases
  <2> HIDE DEF n
  <2>3. ConnOK(n) /\ StreamOK(n) /\ Streaming(c)
    BY <2>1, <2>2
       DEF ConnOK, ShotOK, SentOK, StreamOK, Early, Watching, Streaming
  <2> QED
    BY <2>1, <2>2, <2>3, OpenPeerStep DEF StreamPhases
<1>4. CASE StreamSend(c)
  <2> DEFINE n == [conn[c] EXCEPT !.phase = "await", !.before = frame.seq,
                                  !.shown = frame.version]
  <2>1. /\ Becomes(c, n)
        /\ UNCHANGED <<hub, ping, thread, missed, clients, asks, leaked>>
        /\ conn[c].phase = "send"
    BY <1>4 DEF StreamSend
  <2>2. /\ n \in Conns /\ n.phase = "await" /\ n.kind = conn[c].kind
        /\ n.todo = conn[c].todo /\ n.shown = frame.version
        /\ n.before = frame.seq
    BY <2>1 DEF Conns, Phases
  <2>3. conn[c].kind = "stream"
    BY <2>1 DEF ConnOK
  <2> HIDE DEF n
  <2>4. ConnOK(n) /\ StreamOK(n) /\ Streaming(c)
    BY <2>1, <2>2, <2>3
       DEF ConnOK, ShotOK, SentOK, StreamOK, Early, Watching, Streaming
  <2> QED
    BY <2>1, <2>2, <2>3, <2>4, OpenPeerStep DEF StreamPhases
<1>5. CASE Hangup(c)
  <2> DEFINE n == [NoConn EXCEPT !.phase = "leave", !.kind = "stream"]
  <2>1. /\ Becomes(c, n)
        /\ UNCHANGED <<hub, ping, thread, missed, clients, asks, leaked>>
        /\ conn[c].phase \in {"push", "await", "send"} /\ conn[c].kind = "stream"
    BY <1>5 DEF Hangup
  <2>2. /\ n \in Conns /\ n.phase = "leave" /\ n.kind = "stream"
        /\ n.todo = <<>> /\ n.shown = 0 /\ n.before = 0
    BY DEF Conns, Phases, Requests, NoConn
  <2> HIDE DEF n
  <2>3. frame.seq = 0 => frame.version = 0
    BY DEF Inv, FrameInv
  <2>4. ConnOK(n) /\ StreamOK(n) /\ Streaming(c)
    BY <2>1, <2>2, <2>3
       DEF ConnOK, ShotOK, SentOK, StreamOK, Early, Watching, Streaming
  <2> QED
    BY <2>1, <2>2, <2>4, OpenPeerStep DEF StreamPhases
<1> QED
  BY <1>1, <1>2, <1>3, <1>4, <1>5

LEMMA CloseKeeps ==
  ASSUME Inv, NEW c \in Clients, Close(c)
  PROVE  Inv'
<1>1. /\ Becomes(c, NoConn) /\ conn[c].phase = "served"
      /\ UNCHANGED <<hub, ping, thread, missed, asks, leaked>>
      /\ clients' = clients - 1
  BY DEF Close, Moves
<1>2. ConnectionsCounted' /\ clients' \in Nat
  BY <1>1, CountDown DEF Inv
<1>3. ~Streaming(c)
  BY <1>1 DEF Streaming
<1>4. leaked' \in Nat /\ asks' \in 0 .. MaxAsks
  BY <1>1, ConnFacts
<1> QED
  BY <1>1, <1>2, <1>3, <1>4, Blank, PeerStep

LEMMA PushesAre ==
  ASSUME NEW kind \in Requests
  PROVE  Pushes(kind) \in Seq(CommandNames) /\ Pushes(kind) # <<>>
<1>1. CASE kind \in {"shot", "stream"}
  <2>1. Pushes(kind) = <<"refresh">>
    BY <1>1 DEF Pushes
  <2> QED
    BY <2>1 DEF CommandNames
<1>2. CASE kind = "tree"
  <2>1. Pushes(kind) = <<"inspect">>
    BY <1>2 DEF Pushes
  <2> QED
    BY <2>1 DEF CommandNames
<1>3. CASE kind = "tap"
  <2>1. Pushes(kind) = <<"down", "up">>
    BY <1>3 DEF Pushes
  <2> QED
    BY <2>1 DEF CommandNames
<1>4. CASE kind = "key"
  <2>1. Pushes(kind) = <<"key">>
    BY <1>4 DEF Pushes
  <2> QED
    BY <2>1 DEF CommandNames
<1> QED
  BY <1>1, <1>2, <1>3, <1>4 DEF Requests

\* A request changes at most the watcher count.
LEMMA RequestKeeps ==
  ASSUME Inv, NEW c \in Clients, NEW kind \in Requests, Request(c, kind)
  PROVE  Inv'
<1> DEFINE n == [NoConn EXCEPT
       !.phase = "push", !.kind = kind, !.todo = Pushes(kind),
       !.before = IF kind = "shot" THEN frame.seq ELSE 0,
       !.asked = IF kind = "shot" THEN painted ELSE 0,
       !.ask = IF kind = "tree" THEN asks ELSE 0]
<1>1. /\ Becomes(c, n) /\ conn[c].phase = "request"
      /\ watchers' = IF kind = "stream" THEN watchers + 1 ELSE watchers
      /\ UNCHANGED <<frame, commands, waker, ping, thread, missed, clients, asks, leaked>>
  BY DEF Request, Moves
<1>2. Pushes(kind) \in Seq(CommandNames) /\ Pushes(kind) # <<>>
  BY PushesAre
<1>3. /\ n.phase = "push" /\ n.kind = kind /\ n.todo = Pushes(kind) /\ n.shown = 0
      /\ kind = "shot" => n.before = frame.seq /\ n.asked = painted
      /\ kind = "stream" => n.before = 0
  BY DEF NoConn
<1>4. n \in Conns
  BY <1>2, ConnFacts, Blank, RemoteAssumption DEF Conns, Phases, NoConn
<1> HIDE DEF n
<1>5. \A d \in Clients : conn'[d] = IF d = c THEN n ELSE conn[d]
  BY <1>1 DEF Inv, TypeOK, Becomes
<1>6. ConnOK(n) /\ StreamOK(n)
  <2>1. kind = "stream" => Pushes(kind) = <<"refresh">>
    BY DEF Pushes
  <2>2. frame.seq = 0 => frame.version = 0
    BY DEF Inv, FrameInv
  <2> QED
    BY <1>2, <1>3, <2>1, <2>2, ConnFacts
       DEF ConnOK, ShotOK, SentOK, StreamOK, Early, Watching
<1>7. \A d \in Clients : ConnOK(conn[d])' /\ StreamOK(conn[d])'
  <2> TAKE d \in Clients
  <2>1. ConnOK(conn[d]) /\ StreamOK(conn[d])
    BY DEF Inv
  <2> QED
    BY <1>1, <1>5, <1>6, <2>1 DEF ConnOK, ShotOK, SentOK, StreamOK, Refresh, thread
<1>8. watchers' \in Nat
  BY <1>1 DEF Inv, TypeOK
<1>9. TypeOK'
  BY <1>1, <1>4, <1>7, <1>8 DEF Inv, TypeOK, ConnOK, Becomes, thread
<1>10. NotStarted' /\ FrameInv'
  BY <1>1 DEF Inv, NotStarted, FrameInv, thread
<1>11. WakeIsOwed'
  BY <1>1, <1>5 DEF Inv, WakeIsOwed, thread
<1>12. WatchersCounted'
  <2>1. ~Streaming(c)
    BY <1>1 DEF Streaming
  <2>2. CASE kind # "stream"
    BY <1>1, <1>3, <2>1, <2>2, WatchersKept DEF Inv
  <2>3. CASE kind = "stream"
    <3>1. Streams \in SUBSET Clients /\ c \notin Streams
      BY <2>1 DEF Streams
    <3>2. \A d \in Clients : Streaming(d)' <=> d = c \/ Streaming(d)
      BY <1>3, <1>5, <2>3 DEF Streaming
    <3>3. Streams' = Streams \cup {c}
      BY <3>2 DEF Streams
    <3>4. Cardinality(Streams') = Cardinality(Streams) + 1
      BY <3>1, <3>3, CountedFinite, FS_AddElement
    <3> QED
      BY <1>1, <2>3, <3>4 DEF Inv, WatchersCounted, Streams
  <2> QED
    BY <2>2, <2>3
<1>13. ConnectionsCounted'
  <2>1. conn[c].phase = "request" /\ n.phase = "push"
    BY <1>1, <1>3
  <2> QED
    BY <1>1, <2>1, CountKept DEF Inv
<1> QED
  BY <1>7, <1>9, <1>10, <1>11, <1>12, <1>13 DEF Inv

LEMMA LeaveKeeps ==
  ASSUME Inv, NEW c \in Clients, Leave(c)
  PROVE  Inv'
<1>1. /\ Becomes(c, Done) /\ conn[c].phase = "leave"
      /\ watchers' = IF watchers = 0 THEN 0 ELSE watchers - 1
      /\ UNCHANGED <<frame, commands, waker, ping, thread, missed, clients, asks, leaked>>
  BY DEF Leave, Moves
<1>2. \A d \in Clients : conn'[d] = IF d = c THEN Done ELSE conn[d]
  BY <1>1 DEF Inv, TypeOK, Becomes
<1>3. \A d \in Clients : ConnOK(conn[d])' /\ StreamOK(conn[d])'
  <2> TAKE d \in Clients
  <2>1. ConnOK(conn[d]) /\ StreamOK(conn[d])
    BY DEF Inv
  <2> QED
    BY <1>1, <1>2, <2>1, Blank DEF ConnOK, ShotOK, SentOK, StreamOK, Refresh, thread
<1>4. watchers' \in Nat
  BY <1>1 DEF Inv, TypeOK
<1>5. TypeOK'
  BY <1>1, <1>3, <1>4, Blank DEF Inv, TypeOK, ConnOK, Becomes, thread
<1>6. NotStarted' /\ FrameInv'
  BY <1>1 DEF Inv, NotStarted, FrameInv, thread
<1>7. WakeIsOwed'
  BY <1>1, <1>2 DEF Inv, WakeIsOwed, thread
<1>8. WatchersCounted'
  <2>1. Streaming(c)
    BY <1>1 DEF Inv, ConnOK, Streaming
  <2>2. Streams \in SUBSET Clients /\ c \in Streams
    BY <2>1 DEF Streams
  <2>3. \A d \in Clients : Streaming(d)' <=> d # c /\ Streaming(d)
    BY <1>2, Blank DEF Streaming
  <2>4. Streams' = Streams \ {c}
    BY <2>3 DEF Streams
  <2>5. Cardinality(Streams') = Cardinality(Streams) - 1
    BY <2>2, <2>4, CountedFinite, FS_RemoveElement
  <2>6. Cardinality(Streams') \in Nat /\ Cardinality(Streams) \in Nat
    BY <2>2, <2>4, CountedFinite
  <2> QED
    BY <1>1, <2>5, <2>6 DEF Inv, WatchersCounted, Streams
<1>9. ConnectionsCounted'
  BY <1>1, Blank, CountKept DEF Inv
<1> QED
  BY <1>3, <1>5, <1>6, <1>7, <1>8, <1>9 DEF Inv

\* A push appends, and leaves its thread owing a wake.
LEMMA PushKeeps ==
  ASSUME Inv, NEW c \in Clients, Push(c)
  PROVE  Inv'
<1> DEFINE n == [conn[c] EXCEPT !.phase = "poke"]
           m == [name |-> Head(conn[c].todo), from |-> c, ask |-> conn[c].ask]
<1>1. /\ Becomes(c, n) /\ conn[c].phase = "push"
      /\ commands' = Append(commands, m)
      /\ UNCHANGED <<frame, watchers, waker, ping, thread, missed, clients, asks, leaked>>
  BY DEF Push, Moves
<1>2. conn[c].todo # <<>> /\ conn[c].todo \in Seq(CommandNames)
  BY <1>1, ConnFacts DEF ConnOK, Conns
<1>3. m \in CommandSet /\ m.name = Head(conn[c].todo)
  BY <1>2, ConnFacts DEF CommandSet, Conns
<1>4. /\ n \in Conns /\ n.phase = "poke" /\ n.kind = conn[c].kind
      /\ n.todo = conn[c].todo /\ n.shown = conn[c].shown
      /\ n.before = conn[c].before /\ n.asked = conn[c].asked
  BY ConnFacts DEF Conns, Phases
<1> HIDE DEF n, m
<1>5. \A d \in Clients : conn'[d] = IF d = c THEN n ELSE conn[d]
  BY <1>1 DEF Inv, TypeOK, Becomes
<1>6. commands \in Seq(CommandSet) /\ commands' \in Seq(CommandSet) /\ commands' # <<>>
  BY <1>1, <1>3 DEF Inv, TypeOK
<1>7. Refresh(commands) \/ m.name = "refresh" => Refresh(commands)'
  BY <1>1, <1>3, <1>6, RefreshAppend DEF Refresh
<1>8. \A d \in Clients : ConnOK(conn[d])'
  <2> TAKE d \in Clients
  <2>1. ConnOK(conn[d]) /\ ConnOK(conn[c])
    BY DEF Inv
  <2> QED
    BY <1>1, <1>2, <1>4, <1>5, <2>1 DEF ConnOK, ShotOK, SentOK, Early, thread
<1>9. \A d \in Clients : StreamOK(conn[d])'
  <2> TAKE d \in Clients
  <2>1. CASE d = c
    <3>1. n.kind = "stream" => m.name = "refresh"
      <4>1. n.kind = "stream" => conn[c].todo = <<"refresh">>
        BY <1>1, <1>4, ConnFacts DEF ConnOK, SentOK
      <4>2. Head(<<"refresh">>) = "refresh"
        OBVIOUS
      <4> QED
        BY <1>3, <4>1, <4>2
    <3> QED
      BY <1>4, <1>5, <1>7, <2>1, <3>1 DEF StreamOK
  <2>2. CASE d # c
    <3>1. StreamOK(conn[d])
      BY DEF Inv
    <3> QED
      BY <1>1, <1>5, <1>7, <2>2, <3>1 DEF StreamOK, Refresh, thread
  <2> QED
    BY <2>1, <2>2
<1>10. TypeOK'
  BY <1>1, <1>4, <1>6, <1>8 DEF Inv, TypeOK, ConnOK, Becomes, thread
<1>11. NotStarted' /\ FrameInv'
  BY <1>1 DEF Inv, NotStarted, FrameInv, thread
<1>12. WakeIsOwed'
  BY <1>4, <1>5 DEF WakeIsOwed
<1>13. WatchersCounted'
  BY <1>1, <1>4, WatchersKept DEF Inv, Streaming, StreamPhases
<1>14. ConnectionsCounted'
  BY <1>1, <1>4, CountKept DEF Inv
<1> QED
  BY <1>8, <1>9, <1>10, <1>11, <1>12, <1>13, <1>14 DEF Inv

LEMMA LongTail ==
  ASSUME NEW S, NEW s \in Seq(S), Len(s) > 1
  PROVE  Tail(s) \in Seq(S) /\ Tail(s) # <<>> /\ Len(s) # 1
<1>1. s # <<>>
  OBVIOUS
<1>2. Tail(s) \in Seq(S) /\ Len(Tail(s)) = Len(s) - 1
  BY <1>1
<1>3. Len(Tail(s)) # 0
  BY <1>2
<1>4. Tail(s) # <<>>
  <2>1. Len(<<>>) = 0
    OBVIOUS
  <2> QED
    BY <1>3, <2>1
<1>5. Len(s) # 1
  <2>1. Len(s) \in Int /\ Len(s) > 1
    OBVIOUS
  <2>2. \A k \in Int : k > 1 => k # 1
    OBVIOUS
  <2> QED
    BY <2>1, <2>2
<1> QED
  BY <1>2, <1>4, <1>5

\* A wake raises the ping, or finds the loop not started.
LEMMA PokeKeeps ==
  ASSUME Inv, NEW c \in Clients, Poke(c)
  PROVE  Inv'
<1> DEFINE n == Poked(c)
<1>1. /\ Becomes(c, n) /\ conn[c].phase = "poke"
      /\ ping' = (ping \/ waker) /\ missed' = (missed \/ ~waker)
      /\ UNCHANGED <<hub, thread, clients, asks, leaked>>
  BY DEF Poke, Moves
<1>2. conn[c].todo # <<>> /\ conn[c].todo \in Seq(CommandNames)
  BY <1>1, ConnFacts DEF ConnOK, Conns
<1>3. \/ /\ Len(conn[c].todo) > 1
         /\ n = [conn[c] EXCEPT !.phase = "push", !.todo = Tail(conn[c].todo)]
      \/ /\ Len(conn[c].todo) = 1
         /\ n = [conn[c] EXCEPT !.phase = "await", !.todo = <<>>]
      \/ n = Done /\ ~(Len(conn[c].todo) = 1 /\ conn[c].kind = "stream")
  BY DEF Poked
<1> HIDE DEF n
<1>4. conn[c].kind = "stream" => Len(conn[c].todo) = 1
  <2>1. conn[c].kind = "stream" => conn[c].todo = <<"refresh">>
    BY <1>1, ConnFacts DEF ConnOK, SentOK
  <2>2. Len(<<"refresh">>) = 1
    OBVIOUS
  <2> QED
    BY <2>1, <2>2
<1>5. /\ n \in Conns
      /\ n.todo # <<>> <=> n.phase \in {"push", "poke"}
      /\ n.phase \in {"push", "await", "served"}
      /\ n.phase = "served" => n = Done
      /\ n.phase # "served" =>
           /\ n.kind = conn[c].kind /\ n.shown = conn[c].shown
           /\ n.before = conn[c].before /\ n.asked = conn[c].asked
           /\ n.kind = "stream" => n.phase = "await"
      /\ conn[c].kind = "stream" => n.phase = "await"
  <2>1. CASE /\ Len(conn[c].todo) > 1
             /\ n = [conn[c] EXCEPT !.phase = "push", !.todo = Tail(conn[c].todo)]
    <3>1. Tail(conn[c].todo) \in Seq(CommandNames) /\ Tail(conn[c].todo) # <<>>
      BY <1>2, <2>1, LongTail
    <3>2. n \in Conns /\ n.phase = "push" /\ n.todo # <<>>
      BY <2>1, <3>1, ConnFacts DEF Conns, Phases
    <3>3. /\ n.kind = conn[c].kind /\ n.shown = conn[c].shown
          /\ n.before = conn[c].before /\ n.asked = conn[c].asked
      BY <2>1, ConnFacts DEF Conns
    <3>4. conn[c].kind # "stream"
      <4>1. Len(conn[c].todo) # 1
        BY <1>2, <2>1, LongTail
      <4> QED
        BY <1>4, <4>1
    <3> QED
      BY <3>2, <3>3, <3>4
  <2>2. CASE /\ Len(conn[c].todo) = 1
             /\ n = [conn[c] EXCEPT !.phase = "await", !.todo = <<>>]
    <3>1. n.phase = "await" /\ n.todo = <<>>
      BY <2>2, ConnFacts DEF Conns
    <3>2. <<>> \in Seq(CommandNames)
      OBVIOUS
    <3>3. n \in Conns
      BY <2>2, <3>2, ConnFacts DEF Conns, Phases
    <3>4. /\ n.kind = conn[c].kind /\ n.shown = conn[c].shown
          /\ n.before = conn[c].before /\ n.asked = conn[c].asked
      BY <2>2, ConnFacts DEF Conns
    <3> QED
      BY <3>1, <3>3, <3>4
  <2>3. CASE n = Done /\ ~(Len(conn[c].todo) = 1 /\ conn[c].kind = "stream")
    BY <1>4, <2>3, Blank DEF ConnOK
  <2> QED
    BY <1>3, <2>1, <2>2, <2>3
<1>6. \A d \in Clients : conn'[d] = IF d = c THEN n ELSE conn[d]
  BY <1>1 DEF Inv, TypeOK, Becomes
<1>7. \A d \in Clients : ConnOK(conn[d])'
  <2> TAKE d \in Clients
  <2>1. ConnOK(conn[d]) /\ ConnOK(conn[c])
    BY DEF Inv
  <2>2. CASE d = c /\ n.phase = "served"
    BY <1>1, <1>5, <1>6, <2>2, Blank DEF ConnOK, ShotOK, SentOK, Early, hub, thread
  <2>3. CASE d = c /\ n.phase # "served"
    <3>1. UNCHANGED <<frame, painted>>
      BY <1>1 DEF hub, thread
    <3>2. conn'[d] = n
      BY <1>6, <2>3
    <3>3. ShotOK(n)
      BY <1>1, <1>5, <2>1, <2>3 DEF ConnOK, ShotOK
    <3>4. SentOK(n)
      BY <1>1, <1>5, <2>1, <2>3 DEF ConnOK, SentOK
    <3>5. n.phase \notin Early /\ n.phase \notin {"send", "leave"}
      BY <1>5 DEF Early
    <3> QED
      BY <1>5, <3>1, <3>2, <3>3, <3>4, <3>5 DEF ConnOK, ShotOK, SentOK
  <2>4. CASE d # c
    BY <1>1, <1>6, <2>1, <2>4 DEF ConnOK, ShotOK, SentOK, hub, thread
  <2> QED
    BY <2>2, <2>3, <2>4
<1>8. \A d \in Clients : StreamOK(conn[d])'
  <2> TAKE d \in Clients
  <2>1. StreamOK(conn[d]) /\ StreamOK(conn[c])
    BY DEF Inv
  <2>2. CASE d = c
    <3>1. CASE ~waker
      <4>1. frame.version = painted
        BY <3>1 DEF Inv, TypeOK, NotStarted, FrameInv
      <4> QED
        BY <1>1, <4>1 DEF StreamOK, hub, thread
    <3>2. CASE waker /\ n.phase = "await" /\ n.kind = "stream"
      <4>1. conn[c].kind = "stream" /\ conn[c].phase \in Watching
        BY <1>1, <1>5, <3>2 DEF Watching
      <4>2. ping'
        BY <1>1, <3>2
      <4> QED
        BY <1>1, <2>1, <4>1, <4>2 DEF StreamOK, Refresh, hub, thread
    <3>3. CASE ~(n.phase = "await" /\ n.kind = "stream")
      BY <1>5, <1>6, <2>2, <3>3, Blank DEF StreamOK, Watching
    <3> QED
      BY <3>1, <3>2, <3>3
  <2>3. CASE d # c
    BY <1>1, <1>6, <2>1, <2>3 DEF StreamOK, Refresh, hub, thread
  <2> QED
    BY <2>2, <2>3
<1>9. ping' \in BOOLEAN /\ missed' \in BOOLEAN
  BY <1>1 DEF Inv, TypeOK
<1>10. TypeOK'
  BY <1>1, <1>5, <1>7, <1>9 DEF Inv, TypeOK, ConnOK, Becomes, hub, thread
<1>11. NotStarted' /\ FrameInv'
  BY <1>1 DEF Inv, NotStarted, FrameInv, hub, thread
<1>12. WakeIsOwed'
  <2>1. CASE waker
    <3>1. ping'
      BY <1>1, <2>1
    <3> QED
      BY <3>1 DEF WakeIsOwed
  <2>2. CASE ~waker
    <3>1. missed'
      BY <1>1, <2>2
    <3> QED
      BY <3>1 DEF WakeIsOwed
  <2> QED
    BY <2>1, <2>2
<1>13. WatchersCounted'
  <2>1. n.kind = "stream" /\ n.phase \in StreamPhases <=> Streaming(c)
    BY <1>1, <1>5, Blank DEF StreamPhases, Streaming
  <2>2. watchers' = watchers
    BY <1>1 DEF hub
  <2> QED
    BY <1>1, <2>1, <2>2, WatchersKept DEF Inv
<1>14. ConnectionsCounted'
  BY <1>1, <1>5, CountKept DEF Inv
<1> QED
  BY <1>7, <1>8, <1>10, <1>11, <1>12, <1>13, <1>14 DEF Inv

LEMMA ConnectionKeeps ==
  ASSUME Inv, NEW c \in Clients, Connection(c)
  PROVE  Inv'
<1>1. CASE \E kind \in Requests : Request(c, kind)
  BY <1>1, RequestKeeps
<1>2. CASE \/ Dismiss(c) \/ TakeShot(c) \/ TakeReply(c) \/ GiveUp(c)
           \/ StreamWait(c) \/ StreamSend(c) \/ Hangup(c)
  BY <1>2, ReaderKeeps
<1> QED
  BY <1>1, <1>2, PushKeeps, PokeKeeps, LeaveKeeps, CloseKeeps DEF Connection
--------------------------------------------------------------------------------
\* The loop's steps leave the connections and the counters alone.
LEMMA CountsKept ==
  ASSUME WatchersCounted, ConnectionsCounted, UNCHANGED <<watchers, peers>>
  PROVE  WatchersCounted' /\ ConnectionsCounted'
BY DEF WatchersCounted, ConnectionsCounted, Streaming, Counted, Open, peers

\* A publish hands out what is painted, under a number of its own.
LEMMA PublishKeeps ==
  ASSUME Inv, frame' = Published,
         UNCHANGED <<watchers, commands, waker, ping, painted, peers, missed, want>>
  PROVE  /\ FrameInv' /\ frame' \in [seq : Nat, version : Nat]
         /\ \A c \in Clients : ConnOK(conn[c])' /\ StreamOK(conn[c])'
<1>1. frame'.seq = frame.seq + 1 /\ frame'.version = painted
  BY DEF Published
<1>2. /\ frame \in [seq : Nat, version : Nat]
      /\ frame.seq \in Nat /\ painted \in Nat
      /\ frame' \in [seq : Nat, version : Nat]
  BY DEF Inv, TypeOK, Published
<1>3. FrameInv'
  BY <1>1, <1>2 DEF Inv, FrameInv
<1>4. ASSUME NEW c \in Clients PROVE ConnOK(conn[c])' /\ StreamOK(conn[c])'
  <2>1. ConnOK(conn[c]) /\ conn[c] \in Conns /\ conn' = conn
    BY ConnFacts DEF peers
  <2>2. conn[c].before \in Nat /\ conn[c].asked \in Nat
    BY <2>1 DEF Conns
  <2>3. ShotOK(conn[c])'
    BY <1>1, <1>2, <2>1, <2>2 DEF ConnOK, ShotOK
  <2>4. SentOK(conn[c])'
    BY <1>1, <1>2, <2>1, <2>2 DEF ConnOK, SentOK
  <2>5. StreamOK(conn[c])'
    BY <1>1 DEF StreamOK
  <2> QED
    BY <2>1, <2>3, <2>4, <2>5 DEF ConnOK
<1> QED
  BY <1>2, <1>3, <1>4

LEMMA ServeKeeps ==
  ASSUME Inv, Serve
  PROVE  Inv'
<1> USE DEF Inv
<1>1. CASE ServeRefresh
  <2>1. /\ ui = "serve" /\ batch # <<>> /\ frame' = Published /\ batch' = Tail(batch)
        /\ UNCHANGED <<watchers, commands, waker, ping, ui, want, painted, held,
                       peers, missed>>
    BY <1>1 DEF ServeRefresh, Serving
  <2>2. /\ FrameInv' /\ frame' \in [seq : Nat, version : Nat]
        /\ \A c \in Clients : ConnOK(conn[c])' /\ StreamOK(conn[c])'
    BY <2>1, PublishKeeps
  <2>3. batch' \in Seq(CommandSet)
    BY <2>1 DEF TypeOK
  <2>4. TypeOK'
    BY <2>1, <2>2, <2>3 DEF TypeOK, CommandSet, peers
  <2> QED
    BY <2>1, <2>2, <2>4, CountsKept DEF NotStarted, WakeIsOwed, peers
<1>2. CASE ServeInspect
  <2> DEFINE c == Head(batch).from
             n == [conn[c] EXCEPT !.reply = @ \/ conn[c].ask = Head(batch).ask]
  <2>1. /\ ui = "serve" /\ batch # <<>> /\ batch' = Tail(batch) /\ Becomes(c, n)
        /\ Head(batch).name = "inspect"
        /\ UNCHANGED <<hub, ping, ui, want, painted, held, clients, asks, leaked, missed>>
    BY <1>2 DEF ServeInspect, Serving
  <2>2. batch \in Seq(CommandSet) /\ batch' \in Seq(CommandSet) /\ c \in Clients
    <3>1. Head(batch) \in CommandSet
      BY <2>1 DEF TypeOK
    <3>2. batch \in Seq(CommandSet) /\ batch' \in Seq(CommandSet)
      BY <2>1 DEF TypeOK
    <3> QED
      BY <3>1, <3>2 DEF CommandSet
  <2>3. /\ n \in Conns /\ n.phase = conn[c].phase /\ n.kind = conn[c].kind
        /\ n.todo = conn[c].todo /\ n.before = conn[c].before
        /\ n.asked = conn[c].asked /\ n.shown = conn[c].shown
    BY <2>2, ConnFacts DEF Conns
  <2> HIDE DEF n, c
  <2>4. \A d \in Clients : conn'[d] = IF d = c THEN n ELSE conn[d]
    BY <2>1 DEF TypeOK, Becomes
  <2>5. Refresh(batch) => Refresh(batch)'
    BY <2>1, <2>2, RefreshTail DEF Refresh
  <2>6. ASSUME NEW d \in Clients PROVE ConnOK(conn[d])' /\ StreamOK(conn[d])'
    BY <2>1, <2>2, <2>3, <2>4, <2>5
       DEF ConnOK, ShotOK, SentOK, StreamOK, Refresh, hub
  <2>7. TypeOK'
    BY <2>1, <2>2, <2>3, <2>6 DEF TypeOK, ConnOK, Becomes, hub
  <2>8. WakeIsOwed'
    BY <2>1, <2>2, <2>3, <2>4 DEF WakeIsOwed, hub
  <2>9. NotStarted' /\ FrameInv'
    BY <2>1 DEF NotStarted, FrameInv, hub
  <2>10. WatchersCounted'
    BY <2>1, <2>2, <2>3, WatchersKept DEF Streaming, StreamPhases, hub
  <2>11. ConnectionsCounted'
    BY <2>1, <2>2, <2>3, CountKept
  <2> QED
    BY <2>6, <2>7, <2>8, <2>9, <2>10, <2>11
<1>3. CASE ServeInput
  <2>1. /\ ui = "serve" /\ batch # <<>> /\ batch' = Tail(batch)
        /\ Head(batch).name # "refresh" /\ want' \in {want, want + 1}
        /\ held' \in {TRUE, FALSE, held}
        /\ UNCHANGED <<hub, ping, ui, painted, peers, missed>>
    BY <1>3 DEF ServeInput, Serving
  <2>2. batch \in Seq(CommandSet) /\ batch' \in Seq(CommandSet)
    BY <2>1 DEF TypeOK
  <2>3. Refresh(batch) => Refresh(batch)'
    BY <2>1, <2>2, RefreshTail DEF Refresh
  <2>4. ASSUME NEW d \in Clients PROVE ConnOK(conn[d])' /\ StreamOK(conn[d])'
    BY <2>1, <2>3 DEF ConnOK, ShotOK, SentOK, StreamOK, Refresh, hub, peers
  <2>5. TypeOK'
    <3>1. want' \in Nat
      BY <2>1 DEF TypeOK
    <3>2. held' \in BOOLEAN
      BY <2>1 DEF TypeOK
    <3> QED
      BY <2>1, <2>2, <3>1, <3>2 DEF TypeOK, hub, peers
  <2>6. NotStarted' /\ FrameInv' /\ WakeIsOwed'
    BY <2>1 DEF TypeOK, NotStarted, FrameInv, WakeIsOwed, hub, peers
  <2> QED
    BY <2>1, <2>4, <2>5, <2>6, CountsKept DEF hub
<1>4. CASE ServeExit
  <2>1. /\ ui' = "exited" /\ batch' = <<>> /\ ui = "serve"
        /\ UNCHANGED <<hub, ping, want, painted, held, peers, missed>>
    BY <1>4 DEF ServeExit, Serving
  <2>2. ASSUME NEW d \in Clients PROVE ConnOK(conn[d])' /\ StreamOK(conn[d])'
    BY <2>1 DEF ConnOK, ShotOK, SentOK, StreamOK, hub, peers
  <2>3. TypeOK'
    <3>1. batch' \in Seq(CommandSet)
      BY <2>1
    <3> QED
      BY <2>1, <3>1 DEF TypeOK, Places, hub, peers
  <2> QED
    BY <2>1, <2>2, <2>3, CountsKept DEF NotStarted, FrameInv, WakeIsOwed, hub
<1>5. CASE Served
  <2>1. /\ ui' = "turn" /\ batch = <<>> /\ ui = "serve"
        /\ UNCHANGED <<hub, ping, batch, want, painted, held, peers, missed>>
    BY <1>5 DEF Served
  <2>2. ASSUME NEW d \in Clients PROVE ConnOK(conn[d])' /\ StreamOK(conn[d])'
    BY <2>1 DEF ConnOK, ShotOK, SentOK, StreamOK, Refresh, hub, peers
  <2>3. TypeOK'
    BY <2>1 DEF TypeOK, Places, hub, peers
  <2> QED
    BY <2>1, <2>2, <2>3, CountsKept DEF NotStarted, FrameInv, WakeIsOwed, hub, peers
<1> QED
  BY <1>1, <1>2, <1>3, <1>4, <1>5 DEF Serve

LEMMA LoopKeeps ==
  ASSUME Inv, Loop
  PROVE  Inv'
<1> USE DEF Inv
<1>1. CASE Start
  <2>1. /\ ui = "starting" /\ ui' = "turn" /\ waker' = TRUE
        /\ UNCHANGED <<frame, watchers, commands, ping, batch, want, painted, held,
                       peers, missed>>
    BY <1>1 DEF Start
  <2>2. frame.version = painted
    BY <2>1 DEF TypeOK, NotStarted, FrameInv
  <2>3. \A c \in Clients : ConnOK(conn[c])' /\ StreamOK(conn[c])'
    BY <2>1, <2>2 DEF ConnOK, ShotOK, SentOK, StreamOK, peers
  <2>4. TypeOK'
    BY <2>1 DEF TypeOK, Places, peers
  <2> QED
    BY <2>1, <2>3, <2>4, CountsKept DEF NotStarted, FrameInv, WakeIsOwed, peers
<1>2. CASE Paint
  <2>1. /\ ui = "turn" /\ ui' = "painted" /\ painted' = want /\ painted < want
        /\ UNCHANGED <<hub, ping, batch, want, held, peers, missed>>
    BY <1>2 DEF Paint
  <2>2. ASSUME NEW c \in Clients PROVE ConnOK(conn[c])' /\ StreamOK(conn[c])'
    <3>1. ConnOK(conn[c]) /\ conn[c] \in Conns /\ conn' = conn /\ frame' = frame
      BY <2>1, ConnFacts DEF peers, hub
    <3>2. conn[c].asked <= painted => conn[c].asked <= painted'
      BY <2>1, <3>1 DEF Conns, TypeOK
    <3> QED
      BY <2>1, <3>1, <3>2 DEF ConnOK, ShotOK, SentOK, StreamOK
  <2>3. TypeOK'
    BY <2>1 DEF TypeOK, Places, peers, hub
  <2>4. FrameInv' /\ NotStarted' /\ WakeIsOwed'
    BY <2>1 DEF TypeOK, FrameInv, NotStarted, WakeIsOwed, peers, hub
  <2> QED
    BY <2>1, <2>2, <2>3, <2>4, CountsKept DEF hub
<1>3. CASE AskWatchers
  <2>1. /\ ui = "painted" /\ ui' = IF watchers > 0 THEN "publish" ELSE "turn"
        /\ UNCHANGED <<hub, ping, batch, want, painted, held, peers, missed>>
    BY <1>3 DEF AskWatchers
  <2>2. ASSUME NEW c \in Clients PROVE ConnOK(conn[c])' /\ StreamOK(conn[c])'
    <3>1. CASE watchers > 0
      BY <2>1, <3>1 DEF ConnOK, ShotOK, SentOK, StreamOK, peers, hub
    <3>2. CASE ~(watchers > 0)
      <4>1. Streams \in SUBSET Clients /\ Cardinality(Streams) = 0
        BY <3>2, CountedFinite DEF Streams, WatchersCounted, TypeOK
      <4>2. Streams = {}
        BY <4>1, CountedFinite, FS_EmptySet
      <4>3. ~Streaming(c)
        BY <4>2 DEF Streams
      <4> QED
        BY <2>1, <4>3 DEF ConnOK, ShotOK, SentOK, StreamOK, Streaming, Watching, peers, hub
    <3> QED
      BY <3>1, <3>2
  <2>3. TypeOK'
    BY <2>1 DEF TypeOK, Places, peers, hub
  <2>4. FrameInv' /\ NotStarted' /\ WakeIsOwed'
    BY <2>1 DEF TypeOK, FrameInv, NotStarted, WakeIsOwed, peers, hub
  <2> QED
    BY <2>1, <2>2, <2>3, <2>4, CountsKept DEF hub
<1>4. CASE Publish
  <2>1. /\ ui = "publish" /\ frame' = Published /\ ui' = "turn"
        /\ UNCHANGED <<watchers, commands, waker, ping, batch, want, painted, held,
                       peers, missed>>
    BY <1>4 DEF Publish
  <2>2. /\ FrameInv' /\ frame' \in [seq : Nat, version : Nat]
        /\ \A c \in Clients : ConnOK(conn[c])' /\ StreamOK(conn[c])'
    BY <2>1, PublishKeeps
  <2>3. TypeOK'
    BY <2>1, <2>2 DEF TypeOK, Places, peers
  <2> QED
    BY <2>1, <2>2, <2>3, CountsKept DEF NotStarted, WakeIsOwed, peers
<1>5. CASE OnWake
  <2>1. /\ ui = "turn" /\ ui' = "take" /\ ping' = FALSE /\ batch = <<>>
        /\ UNCHANGED <<hub, batch, want, painted, held, peers, missed>>
    BY <1>5 DEF OnWake, TypeOK
  <2>2. ASSUME NEW c \in Clients PROVE ConnOK(conn[c])' /\ StreamOK(conn[c])'
    BY <2>1 DEF ConnOK, ShotOK, SentOK, StreamOK, Refresh, peers, hub
  <2>3. TypeOK'
    BY <2>1 DEF TypeOK, Places, peers, hub
  <2> QED
    BY <2>1, <2>2, <2>3, CountsKept DEF FrameInv, NotStarted, WakeIsOwed, hub
<1>6. CASE TakeCommands
  <2>1. /\ ui = "take" /\ ui' = "serve" /\ batch' = commands /\ commands' = <<>>
        /\ missed' = FALSE /\ batch = <<>>
        /\ UNCHANGED <<frame, watchers, waker, ping, want, painted, held, peers>>
    BY <1>6 DEF TakeCommands, TypeOK
  <2>2. ASSUME NEW c \in Clients PROVE ConnOK(conn[c])' /\ StreamOK(conn[c])'
    <3>1. ~Refresh(batch)
      BY <2>1 DEF Refresh
    <3>2. Refresh(commands) => Refresh(batch)'
      BY <2>1 DEF Refresh
    <3> QED
      BY <2>1, <3>1, <3>2 DEF ConnOK, ShotOK, SentOK, StreamOK, peers
  <2>3. TypeOK'
    BY <2>1 DEF TypeOK, Places, CommandSet, peers
  <2> QED
    BY <2>1, <2>2, <2>3, CountsKept DEF FrameInv, NotStarted, WakeIsOwed
<1>7. CASE Serve
  BY <1>7, ServeKeeps
<1> QED
  BY <1>1, <1>2, <1>3, <1>4, <1>5, <1>6, <1>7 DEF Loop

--------------------------------------------------------------------------------
LEMMA InitInv ==
  ASSUME Init
  PROVE  Inv
<1> USE DEF Init
<1>1. \A c \in Clients : conn[c] = NoConn
  OBVIOUS
<1>2. \A c \in Clients : ConnOK(conn[c]) /\ StreamOK(conn[c]) /\ conn[c] \in Conns
  BY <1>1, Blank
<1>3. TypeOK
  <2>1. commands \in Seq(CommandSet) /\ batch \in Seq(CommandSet) /\ batch = <<>>
    OBVIOUS
  <2>2. /\ waker \in BOOLEAN /\ ping \in BOOLEAN
        /\ held \in BOOLEAN /\ missed \in BOOLEAN
    OBVIOUS
  <2>3. frame \in [seq : Nat, version : Nat]
    OBVIOUS
  <2>4. watchers \in Nat /\ clients \in Nat /\ leaked \in Nat /\ want \in Nat /\ painted \in Nat
    OBVIOUS
  <2>5. asks \in 0 .. MaxAsks /\ ui \in Places
    BY RemoteAssumption DEF Places
  <2>6. conn \in [Clients -> Conns]
    BY Blank
  <2> QED
    BY <1>2, <2>1, <2>2, <2>3, <2>4, <2>5, <2>6 DEF TypeOK, ConnOK
<1>4. NotStarted /\ FrameInv /\ WakeIsOwed
  BY DEF NotStarted, FrameInv, WakeIsOwed
<1>5. Streams = {} /\ Counted = {} /\ Open = {}
  BY <1>1, Blank DEF Streams, Streaming, Counted, Open
<1>6. WatchersCounted /\ ConnectionsCounted
  <2>1. Cardinality({}) = 0
    BY FS_EmptySet
  <2>2. Cardinality(Streams) = 0 /\ Cardinality(Counted) = 0 /\ Cardinality(Open) = 0
    BY <1>5, <2>1
  <2> QED
    BY <2>2, RemoteAssumption DEF WatchersCounted, ConnectionsCounted, Streams
<1> QED
  BY <1>2, <1>3, <1>4, <1>6 DEF Inv

LEMMA StepKeeps ==
  ASSUME Inv, [Next]_vars
  PROVE  Inv'
<1>1. CASE Change \/ OtherPing
  <2>1. /\ UNCHANGED <<hub, ui, batch, painted, held, peers, missed>>
        /\ \/ want' = want /\ ping' = TRUE
           \/ want' = want + 1 /\ ping' = ping
    BY <1>1 DEF Change, OtherPing, thread
  <2>2. ASSUME NEW d \in Clients PROVE ConnOK(conn[d])' /\ StreamOK(conn[d])'
    BY <2>1 DEF Inv, ConnOK, ShotOK, SentOK, StreamOK, Refresh, hub, peers
  <2>3. TypeOK'
    <3>1. want' \in Nat
      BY <2>1 DEF Inv, TypeOK
    <3>2. ping' \in BOOLEAN
      BY <2>1 DEF Inv, TypeOK
    <3> QED
      BY <2>1, <3>1, <3>2 DEF Inv, TypeOK, hub, peers
  <2>4. NotStarted' /\ FrameInv' /\ WakeIsOwed'
    BY <2>1 DEF Inv, TypeOK, NotStarted, FrameInv, WakeIsOwed, hub, peers
  <2> QED
    BY <2>1, <2>2, <2>3, <2>4, CountsKept DEF Inv, hub
<1>2. CASE UNCHANGED vars
  BY <1>2 DEF vars, Inv, TypeOK, NotStarted, FrameInv, ConnOK, ShotOK, SentOK,
     StreamOK, Refresh, WakeIsOwed, WatchersCounted, ConnectionsCounted,
     Streaming, Counted, Open
<1> QED
  BY <1>1, <1>2, LoopKeeps, ListenerKeeps, ConnectionKeeps DEF Next

THEOREM Invariance == Spec => []Inv
BY InitInv, StepKeeps, PTL DEF Spec

\* Every variable keeps its type, and a connection has something left to push
\* exactly while it is pushing.
THEOREM TypeCorrect == Spec => []TypeOK
<1>1. Inv => TypeOK
  BY DEF Inv
<1> QED
  BY <1>1, Invariance, PTL

\* No queued command is left for a loop that sleeps, for any number of clients
\* that push and wake in any order.
THEOREM NoCommandIsForgotten == Spec => []WakeIsOwed
<1>1. Inv => WakeIsOwed
  BY DEF Inv
<1> QED
  BY <1>1, Invariance, PTL

\* The watcher count and the connection counter are exact and the limit holds,
\* whichever way streams end, for any number of peers and any limit.
THEOREM CountersHold == Spec => []CountersAreExact
<1>1. Inv => CountersAreExact
  BY DEF Inv, CountersAreExact
<1> QED
  BY <1>1, Invariance, PTL

\* A screenshot that did not time out is as new as its request.
THEOREM ShotsAreFresh == Spec => []ShotIsFresh
<1>1. Inv => ShotIsFresh
  BY DEF Inv, ShotIsFresh, ConnOK, ShotOK
<1> QED
  BY <1>1, Invariance, PTL

\* A stream at rest shows what is in the shadow surface.
THEOREM StreamsAreCurrent == Spec => []StreamIsCurrent
<1>1. ASSUME Inv PROVE StreamIsCurrent
  <2> SUFFICES ASSUME NEW c \in Clients, ui = "turn", ~ping,
                      conn[c].kind = "stream", conn[c].phase = "await", ~Newer(c)
               PROVE  conn[c].shown = painted
    BY DEF StreamIsCurrent
  <2>1. conn[c].before \in Nat /\ frame.seq \in Nat
    BY <1>1, ConnFacts DEF Conns
  <2>2. conn[c].before = frame.seq
    BY <1>1, <2>1, ConnFacts DEF Newer, ConnOK, SentOK
  <2>3. conn[c].shown = frame.version
    BY <1>1, <2>2, ConnFacts DEF ConnOK, SentOK
  <2>4. ~Refresh(batch)
    BY <1>1 DEF Inv, TypeOK, Refresh
  <2>5. frame.version = painted
    BY <1>1, <2>4, ConnFacts DEF StreamOK, Watching
  <2> QED
    BY <2>3, <2>5
<1> QED
  BY <1>1, Invariance, PTL

-----------------------------------------------------------------------------
(* The taps that clients inject: a tap is two commands, pushed apart and   *)
(* drained in any batches, and no interleaving leaves the pointer's button *)
(* held.                                                                   *)

Up(s) == \E i \in DOMAIN s : s[i].name = "up"

\* Every press in s has a release after it, whoever pushed it.
Paired(s) ==
  \A i \in DOMAIN s : s[i].name = "down" => \E j \in DOMAIN s : i < j /\ s[j].name = "up"

\* A tap whose release is not yet pushed.
Unfinished(n) ==
  n.kind = "tap" /\ (n.phase = "push" \/ (n.phase = "poke" /\ Len(n.todo) > 1))

Owed == \E c \in Clients : Unfinished(conn[c])

TodoOK(n) ==
  n.phase \in {"push", "poke"} =>
    n.todo = Pushes(n.kind) \/ (n.kind = "tap" /\ n.todo = <<"up">>)

\* A press is followed by a release in its own batch, or in the queue behind
\* it, or a thread has yet to push one, which then lies behind every press.
TapInv ==
  /\ \A c \in Clients : TodoOK(conn[c])
  /\ Paired(commands) \/ Owed
  /\ Paired(batch) \/ Up(commands) \/ Owed
  /\ held => Up(batch) \/ Up(commands) \/ Owed \/ ui = "exited"

-----------------------------------------------------------------------------
(* Queues.                                                                 *)

LEMMA Appending ==
  ASSUME NEW s \in Seq(CommandSet), NEW m \in CommandSet
  PROVE  /\ m.name = "up" => Up(Append(s, m)) /\ Paired(Append(s, m))
         /\ Up(s) => Up(Append(s, m))
         /\ Paired(s) /\ m.name # "down" => Paired(Append(s, m))
<1> DEFINE q == Append(s, m)
           n == Len(s) + 1
<1>1. /\ DOMAIN s = 1..Len(s) /\ DOMAIN q = 1..n /\ q[n] = m
      /\ \A i \in DOMAIN s : q[i] = s[i] /\ i \in DOMAIN q /\ i < n
      /\ n \in DOMAIN q /\ Len(s) \in Nat
  OBVIOUS
<1>2. \A i \in DOMAIN q : i \in DOMAIN s \/ i = n
  BY <1>1
<1> HIDE DEF q, n
<1>3. ASSUME m.name = "up"
      PROVE  Up(q) /\ Paired(q)
  BY <1>1, <1>2, <1>3 DEF Up, Paired
<1>4. ASSUME Up(s)
      PROVE  Up(q)
  BY <1>1, <1>4 DEF Up
<1>5. ASSUME Paired(s), m.name # "down"
      PROVE  Paired(q)
  BY <1>1, <1>2, <1>5 DEF Paired
<1> QED
  BY <1>3, <1>4, <1>5 DEF q

LEMMA Taking ==
  ASSUME NEW s \in Seq(CommandSet), s # <<>>
  PROVE  /\ Tail(s) \in Seq(CommandSet)
         /\ Paired(s) => Paired(Tail(s))
         /\ Paired(s) /\ Head(s).name = "down" => Up(Tail(s))
         /\ Up(s) /\ Head(s).name # "up" => Up(Tail(s))
<1> DEFINE q == Tail(s)
           n == Len(s)
<1>1. /\ DOMAIN s = 1..n /\ n \in Nat /\ n >= 1 /\ Head(s) = s[1]
      /\ q \in Seq(CommandSet) /\ DOMAIN q = 1..(n - 1)
      /\ \A i \in DOMAIN q : q[i] = s[i + 1]
  OBVIOUS
<1> HIDE DEF q, n
<1>2. \A i \in DOMAIN q : i \in Nat /\ i + 1 \in DOMAIN s /\ i + 1 > 1
  BY <1>1
<1>3. \A i \in DOMAIN s : i \in Nat /\ (i > 1 => i - 1 \in DOMAIN q /\ q[i - 1] = s[i])
  BY <1>1
<1>4. 1 \in DOMAIN s
  BY <1>1
<1>5. ASSUME Paired(s)
      PROVE  Paired(q)
  <2> SUFFICES ASSUME NEW i \in DOMAIN q, q[i].name = "down"
               PROVE  \E j \in DOMAIN q : i < j /\ q[j].name = "up"
    BY DEF Paired
  <2>1. PICK j \in DOMAIN s : i + 1 < j /\ s[j].name = "up"
    BY <1>1, <1>2, <1>5 DEF Paired
  <2>2. j - 1 \in DOMAIN q /\ q[j - 1] = s[j] /\ i < j - 1
    BY <1>2, <1>3, <2>1
  <2> QED
    BY <2>1, <2>2
<1>6. ASSUME Paired(s), Head(s).name = "down"
      PROVE  Up(q)
  <2>1. PICK j \in DOMAIN s : 1 < j /\ s[j].name = "up"
    BY <1>1, <1>4, <1>6 DEF Paired
  <2> QED
    BY <1>3, <2>1 DEF Up
<1>7. ASSUME Up(s), Head(s).name # "up"
      PROVE  Up(q)
  <2>1. PICK j \in DOMAIN s : s[j].name = "up"
    BY <1>7 DEF Up
  <2>2. j > 1
    BY <1>1, <1>7, <2>1
  <2> QED
    BY <1>3, <2>1, <2>2 DEF Up
<1> QED
  BY <1>1, <1>5, <1>6, <1>7 DEF q

LEMMA EmptyQueue == Paired(<<>>) /\ ~Up(<<>>)
BY DEF Paired, Up

LEMMA PushLists ==
  /\ \A kind \in Requests : kind # "tap" => /\ ~(Len(Pushes(kind)) > 1)
                                            /\ Head(Pushes(kind)) \notin {"down", "up"}
  /\ Pushes("tap") = <<"down", "up">>
  /\ Len(<<"down", "up">>) > 1 /\ Head(<<"down", "up">>) = "down"
  /\ Tail(<<"down", "up">>) = <<"up">>
  /\ ~(Len(<<"up">>) > 1) /\ Head(<<"up">>) = "up"
<1>1. \A kind \in {"shot", "stream"} : Pushes(kind) = <<"refresh">>
  BY DEF Pushes
<1>2. Pushes("tree") = <<"inspect">> /\ Pushes("key") = <<"key">>
  BY DEF Pushes
<1>3. Pushes("tap") = <<"down", "up">>
  BY DEF Pushes
<1>4. \A x \in {"refresh", "inspect", "key", "up"} : ~(Len(<<x>>) > 1) /\ Head(<<x>>) = x
  OBVIOUS
<1>5. /\ Len(<<"down", "up">>) > 1 /\ Head(<<"down", "up">>) = "down"
      /\ Tail(<<"down", "up">>) = <<"up">>
  OBVIOUS
<1> QED
  BY <1>1, <1>2, <1>3, <1>4, <1>5 DEF Requests

-----------------------------------------------------------------------------
(* The steps.                                                              *)

\* A peer that moves with no command pushed.
LEMMA PeerQuiet ==
  ASSUME Inv, TapInv, NEW c \in Clients, NEW n, Becomes(c, n), TodoOK(n),
         Unfinished(conn[c]) => Unfinished(n), UNCHANGED <<commands, batch, held, ui>>
  PROVE  TapInv'
<1>1. \A d \in Clients : conn'[d] = IF d = c THEN n ELSE conn[d]
  BY DEF Inv, TypeOK, Becomes
<1>2. Owed => Owed'
  BY <1>1 DEF Owed, Unfinished
<1>3. \A d \in Clients : TodoOK(conn[d])'
  BY <1>1 DEF TapInv, TodoOK
<1> QED
  BY <1>2, <1>3 DEF TapInv, Paired, Up

\* Whatever a connection does but read its request, push and wake.
LEMMA OthersQuiet ==
  ASSUME Inv, TapInv, NEW c \in Clients,
         \/ Listener(c) \/ Dismiss(c) \/ TakeShot(c) \/ TakeReply(c) \/ GiveUp(c)
         \/ StreamWait(c) \/ StreamSend(c) \/ Hangup(c) \/ Leave(c) \/ Close(c)
  PROVE  TapInv'
<1>1. conn[c] \in Conns /\ NoConn \in Conns /\ NoConn.phase = "away" /\ Done.phase = "served"
  BY ConnFacts, Blank
<1>2. ASSUME NEW n \in Conns, NEW phase \in Phases
      PROVE  [n EXCEPT !.phase = phase].phase = phase
  BY DEF Conns
<1>3. \E n : /\ Becomes(c, n) /\ n.phase \notin {"push", "poke"}
             /\ ~Unfinished(conn[c]) /\ UNCHANGED <<commands, batch, held, ui>>
  <2>1. CASE Accept(c)
    BY <1>1, <1>2, <2>1 DEF Accept, Admission, Phases, Unfinished, hub, thread
  <2>2. CASE Refuse(c) \/ SpawnFails(c) \/ Close(c)
    BY <1>1, <2>2 DEF Refuse, SpawnFails, Close, Moves, Unfinished, hub, thread
  <2>3. CASE Spawn(c) \/ StreamWait(c)
    BY <1>1, <1>2, <2>3 DEF Spawn, StreamWait, Moves, Phases, Unfinished, hub, thread
  <2>4. CASE Dismiss(c) \/ TakeReply(c) \/ GiveUp(c) \/ Leave(c)
    BY <1>1, <2>4 DEF Dismiss, TakeReply, GiveUp, Leave, Moves, Unfinished, hub, thread
  <2>5. CASE TakeShot(c)
    <3> DEFINE n == [conn[c] EXCEPT !.phase = "served", !.shown = frame.version]
    <3>1. n.phase = "served"
      BY <1>1 DEF Conns
    <3>2. /\ Becomes(c, n) /\ conn[c].phase = "await"
          /\ UNCHANGED <<commands, batch, held, ui>>
      BY <2>5 DEF TakeShot, Moves, hub, thread
    <3> HIDE DEF n
    <3> QED
      BY <3>1, <3>2 DEF Unfinished
  <2>6. CASE StreamSend(c)
    <3> DEFINE n == [conn[c] EXCEPT !.phase = "await", !.before = frame.seq,
                                    !.shown = frame.version]
    <3>1. n.phase = "await"
      BY <1>1 DEF Conns
    <3>2. /\ Becomes(c, n) /\ conn[c].phase = "send"
          /\ UNCHANGED <<commands, batch, held, ui>>
      BY <2>6 DEF StreamSend, Moves, hub, thread
    <3> HIDE DEF n
    <3> QED
      BY <3>1, <3>2 DEF Unfinished
  <2>7. CASE Hangup(c)
    <3> DEFINE n == [NoConn EXCEPT !.phase = "leave", !.kind = "stream"]
    <3>1. n.phase = "leave"
      BY <1>1 DEF Conns
    <3>2. /\ Becomes(c, n) /\ conn[c].kind = "stream"
          /\ UNCHANGED <<commands, batch, held, ui>>
      BY <2>7 DEF Hangup, Moves, hub, thread
    <3> HIDE DEF n
    <3> QED
      BY <3>1, <3>2 DEF Unfinished
  <2> QED
    BY <2>1, <2>2, <2>3, <2>4, <2>5, <2>6, <2>7 DEF Listener
<1>4. \A n : n.phase \notin {"push", "poke"} => TodoOK(n)
  BY DEF TodoOK
<1> QED
  BY <1>3, <1>4, PeerQuiet

LEMMA RequestTap ==
  ASSUME Inv, TapInv, NEW c \in Clients, NEW kind \in Requests, Request(c, kind)
  PROVE  TapInv'
<1> DEFINE n == [NoConn EXCEPT
       !.phase = "push", !.kind = kind, !.todo = Pushes(kind),
       !.before = IF kind = "shot" THEN frame.seq ELSE 0,
       !.asked = IF kind = "shot" THEN painted ELSE 0,
       !.ask = IF kind = "tree" THEN asks ELSE 0]
<1>1. n.kind = kind /\ n.todo = Pushes(kind)
  BY DEF NoConn
<1>2. /\ Becomes(c, n) /\ conn[c].phase = "request"
      /\ UNCHANGED <<commands, batch, held, ui>>
  BY DEF Request, Moves, thread
<1> HIDE DEF n
<1> QED
  BY <1>1, <1>2, PeerQuiet DEF TodoOK, Unfinished

\* A thread goes on to the release, or has pushed all it had.
LEMMA PokeTap ==
  ASSUME Inv, TapInv, NEW c \in Clients, Poke(c)
  PROVE  TapInv'
<1> DEFINE n == Poked(c)
<1>1. /\ Becomes(c, n) /\ conn[c].phase = "poke" /\ conn[c] \in Conns
      /\ UNCHANGED <<commands, batch, held, ui>> /\ TodoOK(conn[c])
  BY ConnFacts DEF Poke, Moves, hub, thread, TapInv
<1>2. \/ conn[c].todo = Pushes(conn[c].kind)
      \/ conn[c].kind = "tap" /\ conn[c].todo = <<"up">>
  BY <1>1 DEF TodoOK
<1>3. conn[c].kind \in Requests
  BY <1>1 DEF Conns
<1>4. \/ /\ Len(conn[c].todo) > 1
         /\ n = [conn[c] EXCEPT !.phase = "push", !.todo = Tail(conn[c].todo)]
      \/ /\ Len(conn[c].todo) = 1
         /\ n = [conn[c] EXCEPT !.phase = "await", !.todo = <<>>]
      \/ ~(Len(conn[c].todo) > 1) /\ n = Done
  BY DEF Poked
<1> HIDE DEF n
<1>5. Len(conn[c].todo) = 1 => ~(Len(conn[c].todo) > 1)
  OBVIOUS
<1>6. CASE Len(conn[c].todo) > 1
  <2>1. conn[c].kind = "tap" /\ conn[c].todo = <<"down", "up">>
    BY <1>2, <1>3, <1>6, PushLists
  <2>2. n = [conn[c] EXCEPT !.phase = "push", !.todo = Tail(conn[c].todo)]
    BY <1>4, <1>5, <1>6
  <2>3. n.kind = "tap" /\ n.phase = "push" /\ n.todo = <<"up">>
    BY <1>1, <2>1, <2>2, PushLists DEF Conns
  <2>4. TodoOK(n) /\ Unfinished(n)
    BY <2>3 DEF TodoOK, Unfinished
  <2> QED
    BY <1>1, <2>4, PeerQuiet
<1>7. CASE ~(Len(conn[c].todo) > 1)
  <2>1. n = Done \/ n = [conn[c] EXCEPT !.phase = "await", !.todo = <<>>]
    BY <1>4, <1>7
  <2>2. n.phase \in {"served", "await"}
    BY <1>1, <2>1, Blank DEF Conns
  <2>3. TodoOK(n) /\ ~Unfinished(conn[c])
    BY <1>1, <1>7, <2>2 DEF TodoOK, Unfinished
  <2> QED
    BY <1>1, <2>3, PeerQuiet
<1> QED
  BY <1>6, <1>7

\* A press leaves its thread owing the release; a release lies behind every
\* press of the queue.
LEMMA PushTap ==
  ASSUME Inv, TapInv, NEW c \in Clients, Push(c)
  PROVE  TapInv'
<1> DEFINE n == [conn[c] EXCEPT !.phase = "poke"]
           m == [name |-> Head(conn[c].todo), from |-> c, ask |-> conn[c].ask]
<1>1. /\ Becomes(c, n) /\ conn[c].phase = "push" /\ conn[c] \in Conns
      /\ commands' = Append(commands, m) /\ UNCHANGED <<batch, held, ui>>
      /\ TodoOK(conn[c]) /\ ConnOK(conn[c])
  BY ConnFacts DEF Push, Moves, thread, TapInv
<1>2. n.phase = "poke" /\ n.kind = conn[c].kind /\ n.todo = conn[c].todo
  BY <1>1 DEF Conns
<1>3. m \in CommandSet /\ m.name = Head(conn[c].todo)
  BY <1>1 DEF CommandSet, Conns, ConnOK
<1> HIDE DEF n, m
<1>4. \A d \in Clients : conn'[d] = IF d = c THEN n ELSE conn[d]
  BY <1>1 DEF Inv, TypeOK, Becomes
<1>5. /\ m.name = "up" => Up(commands)' /\ Paired(commands)'
      /\ Up(commands) => Up(commands)'
      /\ Paired(commands) /\ m.name # "down" => Paired(commands)'
  <2>1. commands \in Seq(CommandSet)
    BY DEF Inv, TypeOK
  <2>2. (Up(commands)' <=> Up(commands')) /\ (Paired(commands)' <=> Paired(commands'))
    BY DEF Up, Paired
  <2> QED
    BY <1>1, <1>3, <2>1, <2>2, Appending
<1>6. \/ conn[c].kind # "tap" /\ m.name \notin {"down", "up"}
      \/ conn[c].kind = "tap" /\ m.name = "down" /\ Len(conn[c].todo) > 1
      \/ m.name = "up"
  <2>1. conn[c].kind \in Requests
    BY <1>1 DEF Conns
  <2>2. \/ conn[c].todo = Pushes(conn[c].kind)
        \/ conn[c].todo = <<"up">>
    BY <1>1 DEF TodoOK
  <2> QED
    BY <1>3, <2>1, <2>2, PushLists
<1>7. m.name = "down" => Owed'
  BY <1>2, <1>4, <1>6 DEF Owed, Unfinished
<1>8. Owed => Owed' \/ m.name = "up"
  <2>1. CASE Unfinished(conn[c])
    BY <1>6, <1>7, <2>1 DEF Unfinished
  <2>2. CASE ~Unfinished(conn[c])
    BY <1>4, <2>2 DEF Owed, Unfinished
  <2> QED
    BY <2>1, <2>2
<1>9. \A d \in Clients : TodoOK(conn[d])'
  BY <1>1, <1>2, <1>4 DEF TapInv, TodoOK
<1>10. /\ Paired(commands)' \/ Owed'
       /\ Up(commands) \/ Owed => Up(commands)' \/ Owed'
  BY <1>5, <1>7, <1>8 DEF TapInv
<1> QED
  BY <1>1, <1>9, <1>10 DEF TapInv, Paired, Up

\* service_remote: what the loop has taken is served in its order.
LEMMA ServeTap ==
  ASSUME Inv, TapInv, Serve
  PROVE  TapInv'
<1>1. commands' = commands
  BY DEF Serve, ServeRefresh, ServeInspect, ServeInput, ServeExit, Served, hub
<1>2. \A d \in Clients : /\ conn'[d].kind = conn[d].kind /\ conn'[d].phase = conn[d].phase
                         /\ conn'[d].todo = conn[d].todo
  <2>1. CASE ServeInspect
    <3> DEFINE c == Head(batch).from
               n == [conn[c] EXCEPT !.reply = @ \/ conn[c].ask = Head(batch).ask]
    <3>1. Becomes(c, n)
      BY <2>1 DEF ServeInspect
    <3>2. c \in Clients
      <4>1. batch \in Seq(CommandSet) /\ batch # <<>>
        BY <2>1 DEF ServeInspect, Serving, Inv, TypeOK
      <4>2. Head(batch) \in CommandSet
        BY <4>1
      <4> QED
        BY <4>2 DEF CommandSet
    <3>3. conn[c] \in Conns
      BY <3>2, ConnFacts
    <3>4. n.kind = conn[c].kind /\ n.phase = conn[c].phase /\ n.todo = conn[c].todo
      BY <3>3 DEF Conns
    <3> HIDE DEF c, n
    <3> QED
      BY <3>1, <3>4 DEF Inv, TypeOK, Becomes
  <2>2. CASE ~ServeInspect
    BY <2>2 DEF Serve, ServeRefresh, ServeInput, ServeExit, Served, peers
  <2> QED
    BY <2>1, <2>2
<1>3. (Owed' <=> Owed) /\ \A d \in Clients : TodoOK(conn[d])'
  BY <1>2 DEF Owed, Unfinished, TapInv, TodoOK
<1>4. CASE Served
  BY <1>1, <1>3, <1>4 DEF Served, TapInv, Paired, Up
<1>5. CASE ServeExit
  BY <1>1, <1>3, <1>5 DEF ServeExit, TapInv, Paired, Up
<1>6. CASE ServeRefresh \/ ServeInspect \/ ServeInput
  <2>1. batch # <<>> /\ batch \in Seq(CommandSet) /\ batch' = Tail(batch)
    BY <1>6 DEF ServeRefresh, ServeInspect, ServeInput, Serving, Inv, TypeOK
  <2>2. \/ Head(batch).name = "down" /\ held'
        \/ Head(batch).name = "up" /\ ~held'
        \/ Head(batch).name \notin {"down", "up"} /\ held' = held
    BY <1>6 DEF ServeRefresh, ServeInspect, ServeInput, Serving
  <2>3. ui' = ui
    BY <1>6 DEF ServeRefresh, ServeInspect, ServeInput
  <2>4. (Up(batch)' <=> Up(Tail(batch))) /\ (Paired(batch)' <=> Paired(Tail(batch)))
    BY <2>1 DEF Up, Paired
  <2>5. Paired(batch)' \/ Up(commands) \/ Owed
    BY <2>1, <2>4, Taking DEF TapInv
  <2>6. held' => Up(batch)' \/ Up(commands) \/ Owed \/ ui = "exited"
    BY <2>1, <2>2, <2>4, Taking DEF TapInv
  <2>7. /\ (Up(commands)' <=> Up(commands)) /\ (Paired(commands)' <=> Paired(commands))
    BY <1>1 DEF Up, Paired
  <2> QED
    BY <1>3, <2>3, <2>5, <2>6, <2>7 DEF TapInv
<1> QED
  BY <1>4, <1>5, <1>6 DEF Serve

LEMMA TakeTap ==
  ASSUME Inv, TapInv, TakeCommands
  PROVE  TapInv'
<1>1. batch = <<>> /\ batch' = commands /\ commands' = <<>> /\ UNCHANGED <<held, conn>>
      /\ ui # "exited"
  BY DEF TakeCommands, Inv, TypeOK, peers
<1>2. /\ (Up(batch)' <=> Up(commands)) /\ (Paired(batch)' <=> Paired(commands))
      /\ Paired(commands)' /\ ~Up(batch)
  BY <1>1, EmptyQueue DEF Up, Paired
<1>3. (Owed' <=> Owed) /\ \A d \in Clients : TodoOK(conn[d])'
  BY <1>1 DEF Owed, TapInv
<1> QED
  BY <1>1, <1>2, <1>3 DEF TapInv

LEMMA StepTap ==
  ASSUME Inv, TapInv, [Next]_vars
  PROVE  TapInv'
<1>1. ASSUME NEW c \in Clients, Listener(c) \/ Connection(c)
      PROVE  TapInv'
  BY <1>1, OthersQuiet, RequestTap, PushTap, PokeTap DEF Connection
<1>2. CASE TakeCommands \/ Serve
  BY <1>2, TakeTap, ServeTap
<1>3. CASE \/ Start \/ Paint \/ AskWatchers \/ Publish \/ OnWake \/ Change \/ OtherPing
           \/ UNCHANGED vars
  <2>1. UNCHANGED <<commands, batch, held, conn>> /\ (ui = "exited" => ui' = "exited")
    BY <1>3 DEF Start, Paint, AskWatchers, Publish, OnWake, Change, OtherPing, vars, hub,
       thread, peers
  <2>2. (Owed' <=> Owed) /\ \A d \in Clients : TodoOK(conn[d])'
    BY <2>1 DEF Owed, TapInv
  <2> QED
    BY <2>1, <2>2 DEF TapInv, Up, Paired
<1> QED
  BY <1>1, <1>2, <1>3 DEF Next, Loop

LEMMA InitTap == Init => TapInv
<1> SUFFICES ASSUME Init PROVE TapInv
  OBVIOUS
<1>1. commands = <<>> /\ batch = <<>> /\ ~held
  BY DEF Init
<1>2. \A c \in Clients : conn[c].phase = "away"
  BY Blank DEF Init
<1> QED
  BY <1>1, <1>2, EmptyQueue DEF TapInv, TodoOK

\* Taps of any number of clients, whose halves interleave in the queue and are
\* drained in any batches, leave no button held once all of them were handled.
THEOREM NoButtonStaysHeld == Spec => []TapsComplete
<1>1. TapInv => TapsComplete
  BY DEF TapInv, TapsComplete, Up, Owed, Unfinished
<1>2. Init => Inv /\ TapInv
  BY InitInv, InitTap
<1>3. (Inv /\ TapInv) /\ [Next]_vars => (Inv /\ TapInv)'
  BY StepKeeps, StepTap
<1> QED
  BY <1>1, <1>2, <1>3, PTL DEF Spec

=============================================================================
