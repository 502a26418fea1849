------------------------------- MODULE RemoteHub -------------------------------
(***************************************************************************)
(* The remote console: HTTP connection threads and the UI thread meeting   *)
(* in the Hub (src/fbui/src/remote/hub.rs, src/fbui/src/remote/http.rs,    *)
(* the runner's side in src/fbui/src/run.rs).                              *)
(*                                                                         *)
(* Every critical section of the Hub's mutex is a step of its own, and so  *)
(* is every use of the connection counter. A frame is the version of the   *)
(* shadow surface it was taken from; the runner never raises the refresh   *)
(* flag (request_refresh has no caller in src/), so the flag is left out.  *)
(***************************************************************************)
EXTENDS Integers, Sequences, FiniteSets

CONSTANTS Clients,         \* peers; each has at most one connection open
          MaxConnections,  \* MAX_CONNECTIONS
          MaxAsks,         \* bound: requests ever made
          MaxVersion       \* bound: changes of the application's picture

ASSUME RemoteAssumption == /\ IsFiniteSet(Clients)
                           /\ MaxConnections \in Nat \ {0}
                           /\ MaxAsks \in Nat
                           /\ MaxVersion \in Nat \ {0}

VARIABLES
  frame,     \* Inner.frame and Inner.seq; seq 0 is None
  watchers,  \* Inner.watchers
  commands,  \* Inner.commands
  waker,     \* Inner.waker is installed
  clients,   \* Hub.clients
  ping,      \* the loop's ping: raised and not yet read
  ui,        \* where the UI thread is
  batch,     \* what take_commands returned and service_remote has yet to do
  want,      \* version of the picture the widget tree asks for
  painted,   \* version in the shadow surface
  held,      \* the injected pointer button is down
  conn,      \* the connections, by peer
  asks,      \* connections made so far
  missed,    \* history: some queued command's wake found no waker
  leaked     \* history: admissions whose thread never started

vars == <<frame, watchers, commands, waker, clients, ping, ui, batch, want,
          painted, held, conn, asks, missed, leaked>>

hub == <<frame, watchers, commands, waker>>
thread == <<ui, batch, want, painted, held>>
peers == <<clients, conn, asks, leaked>>

Requests == {"shot", "stream", "tree", "tap", "key"}

(* What a handler pushes. A move, wheel or text command is one command of  *)
(* the same path as a key; Escape is a key.                                *)
Pushes(kind) == CASE kind \in {"shot", "stream"} -> <<"refresh">>
                  [] kind = "tree" -> <<"inspect">>
                  [] kind = "tap" -> <<"down", "up">>
                  [] kind = "key" -> <<"key">>

CommandNames == {"refresh", "inspect", "down", "up", "key"}
CommandSet == [name : CommandNames, from : Clients, ask : 0 .. MaxAsks]

(* A connection: accepted and counted, or counted and about to be refused; *)
(* reading its request; pushing; between a push and its wake; waiting for  *)
(* the UI thread; holding a frame to send; leaving the stream; served.     *)
Phases == {"away", "accepted", "busy", "request", "push", "poke", "await",
           "send", "leave", "served"}
Conns == [phase : Phases, kind : Requests, todo : Seq(CommandNames),
          ask : 0 .. MaxAsks, before : Nat, asked : Nat, shown : Nat,
          reply : BOOLEAN]
NoConn == [phase |-> "away", kind |-> "tree", todo |-> <<>>, ask |-> 0,
           before |-> 0, asked |-> 0, shown |-> 0, reply |-> FALSE]
Done == [NoConn EXCEPT !.phase = "served"]

Places == {"starting", "turn", "painted", "publish", "take", "serve", "exited"}

TypeOK ==
  /\ frame \in [seq : Nat, version : Nat]
  /\ watchers \in Nat /\ clients \in Nat /\ leaked \in Nat
  /\ commands \in Seq(CommandSet) /\ batch \in Seq(CommandSet)
  /\ waker \in BOOLEAN /\ ping \in BOOLEAN
  /\ held \in BOOLEAN /\ missed \in BOOLEAN
  /\ ui \in Places
  /\ want \in Nat /\ painted \in Nat
  /\ conn \in [Clients -> Conns]
  /\ asks \in 0 .. MaxAsks
  /\ batch # <<>> => ui = "serve"
  /\ \A c \in Clients : conn[c].todo # <<>> <=> conn[c].phase \in {"push", "poke"}

Init ==
  /\ frame = [seq |-> 0, version |-> 0]
  /\ watchers = 0 /\ clients = 0 /\ leaked = 0
  /\ commands = <<>> /\ batch = <<>>
  /\ waker = FALSE /\ ping = FALSE
  /\ ui = "starting"
  /\ want = 1 /\ painted = 0
  /\ held = FALSE /\ missed = FALSE
  /\ conn = [c \in Clients |-> NoConn]
  /\ asks = 0
--------------------------------------------------------------------------------
(* The listener thread: one connection at a time, counted before it is     *)
(* compared; a refused one is counted down again.                          *)

Becomes(c, n) == conn' = [conn EXCEPT ![c] = n]

Listening == \A c \in Clients : conn[c].phase \notin {"accepted", "busy"}

Admission == IF clients >= MaxConnections THEN "busy" ELSE "accepted"

Accept(c) ==
  /\ ui # "exited" /\ Listening
  /\ conn[c].phase = "away" /\ asks < MaxAsks
  /\ clients' = clients + 1
  /\ asks' = asks + 1
  /\ Becomes(c, [NoConn EXCEPT !.phase = Admission])
  /\ UNCHANGED <<hub, ping, thread, missed, leaked>>

Refuse(c) ==
  /\ ui # "exited" /\ conn[c].phase = "busy"
  /\ clients' = clients - 1
  /\ Becomes(c, NoConn)
  /\ UNCHANGED <<hub, ping, thread, asks, missed, leaked>>

Spawn(c) ==
  /\ ui # "exited" /\ conn[c].phase = "accepted"
  /\ Becomes(c, [conn[c] EXCEPT !.phase = "request"])
  /\ UNCHANGED <<hub, ping, thread, clients, asks, missed, leaked>>

(* The error of a failed thread spawn is dropped, and the count with it.   *)
SpawnFails(c) ==
  /\ ui # "exited" /\ conn[c].phase = "accepted"
  /\ Becomes(c, NoConn)
  /\ leaked' = leaked + 1
  /\ UNCHANGED <<hub, ping, thread, clients, asks, missed>>
--------------------------------------------------------------------------------
(* A connection thread.                                                    *)

Moves(c, phases) == ui # "exited" /\ conn[c].phase \in phases

(* The request line arrives: the handler takes its first look at the Hub.  *)
Request(c, kind) ==
  /\ Moves(c, {"request"})
  /\ Becomes(c, [NoConn EXCEPT
       !.phase = "push", !.kind = kind, !.todo = Pushes(kind),
       !.before = IF kind = "shot" THEN frame.seq ELSE 0,
       !.asked = IF kind = "shot" THEN painted ELSE 0,
       !.ask = IF kind = "tree" THEN asks ELSE 0])
  /\ watchers' = IF kind = "stream" THEN watchers + 1 ELSE watchers
  /\ UNCHANGED <<frame, commands, waker, ping, thread, clients, asks, missed, leaked>>

(* The endpoints that answer from what they can read, bad requests, and a  *)
(* peer that goes away.                                                    *)
Dismiss(c) ==
  /\ Moves(c, {"request"})
  /\ Becomes(c, Done)
  /\ UNCHANGED <<hub, ping, thread, clients, asks, missed, leaked>>

Push(c) ==
  /\ Moves(c, {"push"})
  /\ commands' = Append(commands, [name |-> Head(conn[c].todo), from |-> c,
                                   ask |-> conn[c].ask])
  /\ Becomes(c, [conn[c] EXCEPT !.phase = "poke"])
  /\ UNCHANGED <<frame, watchers, waker, ping, thread, clients, asks, missed, leaked>>

Poked(c) ==
  CASE Len(conn[c].todo) > 1 ->
         [conn[c] EXCEPT !.phase = "push", !.todo = Tail(@)]
    [] Len(conn[c].todo) = 1 /\ conn[c].kind \in {"shot", "stream", "tree"} ->
         [conn[c] EXCEPT !.phase = "await", !.todo = <<>>]
    [] OTHER -> Done

(* Hub::wake, after the command is queued and the lock was released.       *)
Poke(c) ==
  /\ Moves(c, {"poke"})
  /\ ping' = (ping \/ waker)
  /\ missed' = (missed \/ ~waker)
  /\ Becomes(c, Poked(c))
  /\ UNCHANGED <<hub, thread, clients, asks, leaked>>

NewerOrSame(c) == frame.seq >= conn[c].before
Newer(c) == frame.seq > conn[c].before

TakeShot(c) ==
  /\ Moves(c, {"await"}) /\ conn[c].kind = "shot" /\ Newer(c)
  /\ Becomes(c, [conn[c] EXCEPT !.phase = "served", !.shown = frame.version])
  /\ UNCHANGED <<hub, ping, thread, clients, asks, missed, leaked>>

(* UI_REPLY_TIMEOUT passes. A screenshot then settles for the last frame,  *)
(* however old, which no property is about.                                *)
GiveUp(c) ==
  /\ Moves(c, {"await"}) /\ conn[c].kind \in {"shot", "tree"}
  /\ Becomes(c, Done)
  /\ UNCHANGED <<hub, ping, thread, clients, asks, missed, leaked>>

TakeReply(c) ==
  /\ Moves(c, {"await"}) /\ conn[c].kind = "tree" /\ conn[c].reply
  /\ Becomes(c, Done)
  /\ UNCHANGED <<hub, ping, thread, clients, asks, missed, leaked>>

StreamWait(c) ==
  /\ Moves(c, {"await"}) /\ conn[c].kind = "stream" /\ Newer(c)
  /\ Becomes(c, [conn[c] EXCEPT !.phase = "send"])
  /\ UNCHANGED <<hub, ping, thread, clients, asks, missed, leaked>>

(* After the pacing sleep: the latest frame, not the one that ended it.    *)
StreamSend(c) ==
  /\ Moves(c, {"send"})
  /\ Becomes(c, [conn[c] EXCEPT !.phase = "await", !.before = frame.seq,
                                !.shown = frame.version])
  /\ UNCHANGED <<hub, ping, thread, clients, asks, missed, leaked>>

HangupUncounted(c) ==
  /\ Moves(c, {"push", "await", "send"}) /\ conn[c].kind = "stream"
  /\ Becomes(c, Done)
  /\ UNCHANGED <<hub, ping, thread, clients, asks, missed, leaked>>

(* A write fails: of the head, of a heartbeat, or of a frame's part.       *)
Hangup(c) ==
  /\ Moves(c, {"push", "await", "send"}) /\ conn[c].kind = "stream"
  /\ Becomes(c, [NoConn EXCEPT !.phase = "leave", !.kind = "stream"])
  /\ UNCHANGED <<hub, ping, thread, clients, asks, missed, leaked>>

Leave(c) ==
  /\ Moves(c, {"leave"})
  /\ watchers' = IF watchers = 0 THEN 0 ELSE watchers - 1
  /\ Becomes(c, Done)
  /\ UNCHANGED <<frame, commands, waker, ping, thread, clients, asks, missed, leaked>>

Close(c) ==
  /\ Moves(c, {"served"})
  /\ clients' = clients - 1
  /\ Becomes(c, NoConn)
  /\ UNCHANGED <<hub, ping, thread, asks, missed, leaked>>
--------------------------------------------------------------------------------
(* The UI thread.                                                          *)

Published == [seq |-> frame.seq + 1, version |-> painted]

(* on_start. The server has been listening since before the display came   *)
(* up, so connections may already have come and gone.                      *)
Start ==
  /\ ui = "starting"
  /\ waker' = TRUE
  /\ ui' = "turn"
  /\ UNCHANGED <<frame, watchers, commands, ping, batch, want, painted, held,
                 peers, missed>>

(* Local input, a message, an animation: the picture should change.        *)
Change ==
  /\ ui = "turn" /\ want < MaxVersion
  /\ want' = want + 1
  /\ UNCHANGED <<hub, ping, ui, batch, painted, held, peers, missed>>

Paint ==
  /\ ui = "turn" /\ painted < want
  /\ painted' = want
  /\ ui' = "painted"
  /\ UNCHANGED <<hub, ping, batch, want, held, peers, missed>>

AskWatchersTwo ==
  /\ ui = "painted"
  /\ ui' = IF watchers > 1 THEN "publish" ELSE "turn"
  /\ UNCHANGED <<hub, ping, batch, want, painted, held, peers, missed>>

(* render's last lines: ask who is watching, then publish.                 *)
AskWatchers ==
  /\ ui = "painted"
  /\ ui' = IF watchers > 0 THEN "publish" ELSE "turn"
  /\ UNCHANGED <<hub, ping, batch, want, painted, held, peers, missed>>

Publish ==
  /\ ui = "publish"
  /\ frame' = Published
  /\ ui' = "turn"
  /\ UNCHANGED <<watchers, commands, waker, ping, batch, want, painted, held,
                 peers, missed>>

(* A Proxy of the application pings the same loop.                         *)
OtherPing ==
  /\ waker /\ ui # "exited" /\ ~ping
  /\ ping' = TRUE
  /\ UNCHANGED <<hub, thread, peers, missed>>

(* calloop reads the ping, then calls on_wake.                             *)
OnWake ==
  /\ ui = "turn" /\ ping
  /\ ping' = FALSE
  /\ ui' = "take"
  /\ UNCHANGED <<hub, batch, want, painted, held, peers, missed>>

TakeOneCommand ==
  /\ ui = "take"
  /\ batch' = IF commands = <<>> THEN <<>> ELSE <<Head(commands)>>
  /\ commands' = IF commands = <<>> THEN <<>> ELSE Tail(commands)
  /\ missed' = FALSE
  /\ ui' = "serve"
  /\ UNCHANGED <<frame, watchers, waker, ping, want, painted, held, peers>>

TakeLastFirst ==
  /\ ui = "take"
  /\ batch' = [i \in DOMAIN commands |-> commands[Len(commands) + 1 - i]]
  /\ commands' = <<>>
  /\ missed' = FALSE
  /\ ui' = "serve"
  /\ UNCHANGED <<frame, watchers, waker, ping, want, painted, held, peers>>

TakeCommands ==
  /\ ui = "take"
  /\ batch' = commands
  /\ commands' = <<>>
  /\ missed' = FALSE
  /\ ui' = "serve"
  /\ UNCHANGED <<frame, watchers, waker, ping, want, painted, held, peers>>

Serving(names) == ui = "serve" /\ batch # <<>> /\ Head(batch).name \in names

ServeRefresh ==
  /\ Serving({"refresh"})
  /\ frame' = Published
  /\ batch' = Tail(batch)
  /\ UNCHANGED <<watchers, commands, waker, ping, ui, want, painted, held,
                 peers, missed>>

(* The reply goes down the channel of the request that asked; a client     *)
(* that gave up has dropped its end, and the send's error is ignored.      *)
ServeInspect ==
  /\ Serving({"inspect"})
  /\ LET c == Head(batch).from
     IN Becomes(c, [conn[c] EXCEPT !.reply = @ \/ conn[c].ask = Head(batch).ask])
  /\ batch' = Tail(batch)
  /\ UNCHANGED <<hub, ping, ui, want, painted, held, clients, asks, leaked, missed>>

(* Injected input goes through handle_input, which may ask for a redraw    *)
(* that happens after service_remote is done.                              *)
ServeInput ==
  /\ Serving({"down", "up", "key"})
  /\ held' = CASE Head(batch).name = "down" -> TRUE
               [] Head(batch).name = "up" -> FALSE
               [] OTHER -> held
  /\ want' \in {want, want + 1} /\ want' <= MaxVersion
  /\ batch' = Tail(batch)
  /\ UNCHANGED <<hub, ping, ui, painted, peers, missed>>

(* Escape: the rest of the batch is dropped and the loop ends.             *)
ServeExit ==
  /\ Serving({"key"})
  /\ ui' = "exited"
  /\ batch' = <<>>
  /\ UNCHANGED <<hub, ping, want, painted, held, peers, missed>>

Served ==
  /\ ui = "serve" /\ batch = <<>>
  /\ ui' = "turn"
  /\ UNCHANGED <<hub, ping, batch, want, painted, held, peers, missed>>

Serve == ServeRefresh \/ ServeInspect \/ ServeInput \/ ServeExit \/ Served
--------------------------------------------------------------------------------
Listener(c) == Accept(c) \/ Refuse(c) \/ Spawn(c) \/ SpawnFails(c)

Connection(c) ==
  \/ \E kind \in Requests : Request(c, kind)
  \/ Dismiss(c) \/ Push(c) \/ Poke(c)
  \/ TakeShot(c) \/ TakeReply(c) \/ GiveUp(c)
  \/ StreamWait(c) \/ StreamSend(c) \/ Hangup(c) \/ Leave(c) \/ Close(c)

Loop == Start \/ Paint \/ AskWatchers \/ Publish \/ OnWake \/ TakeCommands \/ Serve

Next == \/ Loop \/ Change \/ OtherPing
        \/ \E c \in Clients : Listener(c) \/ Connection(c)

Spec == Init /\ [][Next]_vars

--------------------------------------------------------------------------------
(* Properties.                                                             *)

Streaming(c) == /\ conn[c].kind = "stream"
                /\ conn[c].phase \in {"push", "poke", "await", "send", "leave"}
Counted == {c \in Clients : conn[c].phase # "away"}
Open == {c \in Clients : conn[c].phase \notin {"away", "busy"}}

(* A queued command is never left for a loop that sleeps: as long as every *)
(* wake found the waker, either the ping is up, or the loop is on its way  *)
(* to take_commands, or the thread that pushed has yet to wake it.         *)
WakeIsOwed ==
  commands # <<>> /\ ~missed /\ ui # "exited" =>
    ping \/ ui = "take" \/ \E c \in Clients : conn[c].phase = "poke"

(* The watcher count, which decides whether the runner copies every frame, *)
(* is the number of streams being served: a stream that ends by any of its *)
(* error returns is counted out.                                           *)
WatchersCounted == watchers = Cardinality({c \in Clients : Streaming(c)})

(* No more than MAX_CONNECTIONS connections are served, and the counter is *)
(* exact but for admissions whose thread could not be started.             *)
ConnectionsCounted == /\ clients = Cardinality(Counted) + leaked
                      /\ Cardinality(Open) <= MaxConnections

(* Both counters tell the truth, whichever way connections begin and end.  *)
CountersAreExact == WatchersCounted /\ ConnectionsCounted

(* A screenshot that did not time out was taken after it was asked for: it *)
(* shows at least what had been painted when the request was read, also    *)
(* when it is another client's refresh that ends the wait.                 *)
ShotIsFresh ==
  \A c \in Clients :
    conn[c].kind = "shot" /\ conn[c].phase = "served" =>
      conn[c].shown >= conn[c].asked

(* Taps of any number of clients, interleaved and drained in any batches,  *)
(* leave no button held once all of them have been handled.                *)
TapsComplete ==
  held => \/ \E i \in DOMAIN commands : commands[i].name = "up"
          \/ \E i \in DOMAIN batch : batch[i].name = "up"
          \/ \E c \in Clients : conn[c].kind = "tap" /\ conn[c].phase \in {"push", "poke"}
          \/ ui = "exited"

(* A stream shows the screen: once the loop has nothing left to do, every  *)
(* stream that has sent what there was has sent the picture in the shadow  *)
(* surface, also when it connects before the waker is installed, between a *)
(* frame's paint and its watcher check, or while another one leaves.       *)
StreamIsCurrent ==
  \A c \in Clients :
    /\ ui = "turn" /\ ~ping
    /\ conn[c].kind = "stream" /\ conn[c].phase = "await" /\ ~Newer(c)
    => conn[c].shown = painted
================================================================================
