------------------------------ MODULE DiskVerify ------------------------------
(* disk-verify, after apps/disk-verify/src/main.rs and scan.rs: the operator    *)
(* chooses a disk, a pattern and what to skip, and starts and stops a scan that *)
(* runs on a thread of its own and reports through the message queue, while     *)
(* disks come and go and may fail to read.                                      *)
EXTENDS SurfaceScan, FiniteSets

CONSTANTS Paths,        \* where a disk may be
          Media,        \* what a disk may hold
          PatternTexts, \* what the operator may type in the two fields
          SkipTexts,
          NoMedium,     \* nothing is at a path
          MaxScans,     \* bound: scans started
          MaxEdits      \* bound: inputs other than Start and Stop

\* What may be on a disk, and what may be typed.
Mediums == [data : Seq(Nat), dead : SUBSET Nat, flaky : SUBSET Nat]
HexTexts == [prefix : BOOLEAN, digits : Seq(0..15)]
Items == [form : {"one", "on"}, a : Nat] \cup [form : {"to", "plus"}, a : Nat, b : Nat]

ASSUME VerifyAssumption == /\ MaxScans \in Nat /\ MaxEdits \in Nat
                           /\ Paths \subseteq Nat /\ IsFiniteSet(Paths)
                           /\ Media \subseteq Mediums /\ NoMedium \notin Media
                           /\ PatternTexts \subseteq HexTexts /\ SkipTexts \subseteq Seq(Items)

VARIABLES disks,      \* what is at each path
          targets,    \* the list, as last enumerated: [path, sectors]
          selected,   \* index in the list, 0 for none
          fields,     \* [pattern, skips]: the two texts
          running,    \* the scan in flight [scan, planned], or NotRunning
          cancelled,  \* scans whose cancel flag is set
          worker,     \* the thread of each scan, and where it is in its plan
          tally,      \* what it has counted: [report, totals, kept]
          inbox,      \* messages of the threads to the application
          panel,      \* what the right half of the window shows
          plan,       \* the label that says what Start would do
          edits,      \* inputs so far
          trial       \* ghost: what the last scan was asked, and what it met

verifyVars == <<disks, targets, selected, fields, running, cancelled, worker, tally, inbox,
                panel, plan, edits, trial>>

Scans == 1..MaxScans
NotRunning == [scan |-> 0, planned |-> 0]
NoThread == [pc |-> "none"]
NoTally == [report |-> NoReport, totals |-> NoTotals, kept |-> 0]
Ended == [pc |-> "ended"]

--------------------------------------------------------------------------------
\* block_devices: the disks there are, by their paths.
Listings(d) ==
  LET there == {p \in Paths : d[p] # NoMedium}
  IN  {[k \in 1..Len(order) |-> [path |-> order[k], sectors |-> Size(d[order[k]])]] :
         order \in {o \in [1..Cardinality(there) -> there] :
                     \A j, k \in 1..Len(o) : j < k => o[j] < o[k]}}

\* validate: what Start would scan, or nothing if an input is wrong.
Setups(ts, i, f) ==
  IF i = 0 THEN {}
  ELSE {s \in {[target |-> ts[i], pattern |-> p, skips |-> k,
                plan |-> Plan(ts[i].sectors, k)] :
                  p \in Patterns(f.pattern), k \in SkipLists(f.skips, ts[i].sectors)} :
          s.plan # <<>>}

\* preview: silent while a scan runs.
Preview(ts, i, f) == IF running = NotRunning THEN plan' = Setups(ts, i, f)
                     ELSE UNCHANGED plan

\* The selection follows its path; a single disk is selected.
Kept(old, i, new) ==
  LET same == {j \in DOMAIN new : i # 0 /\ new[j].path = old[i].path}
  IN  CASE same # {} -> CHOOSE j \in same : \A k \in same : j <= k
        [] same = {} /\ Len(new) = 1 -> 1
        [] OTHER -> 0

SectorsAt(ts, i) == IF i = 0 THEN 0 ELSE ts[i].sectors

EmptyPanel == [map |-> FreshMap(0), issues |-> <<>>, unlisted |-> 0, rows |-> 0,
               totals |-> NoTotals, skipped |-> 0, stats |-> "idle", button |-> "Start"]

NoTrial == [map |-> FALSE, total |-> 0, skips |-> <<>>, pattern |-> <<>>, met |-> <<>>]

VerifyInit ==
  /\ disks \in [Paths -> Media \cup {NoMedium}]
  /\ targets \in Listings(disks)
  /\ selected = IF Len(targets) = 1 THEN 1 ELSE 0
  /\ fields \in [pattern : PatternTexts, skips : SkipTexts]
  /\ running = NotRunning /\ cancelled = {}
  /\ worker = [k \in Scans |-> NoThread] /\ tally = [k \in Scans |-> NoTally]
  /\ inbox = <<>>
  /\ panel = [EmptyPanel EXCEPT !.map = FreshMap(SectorsAt(targets, selected))]
  /\ plan = Setups(targets, selected, fields)
  /\ edits = 0 /\ trial = NoTrial

thread == <<worker, tally, inbox, cancelled>>

Edit == edits < MaxEdits /\ edits' = edits + 1

\* The map shows another disk, or the same one afresh.
Remapped(sectors) == /\ panel' = [panel EXCEPT !.map = FreshMap(sectors)]
                     /\ trial' = [trial EXCEPT !.map = FALSE]

\* Msg::Select.
Select == /\ Edit
          /\ \E i \in DOMAIN targets :
               IF running = NotRunning
               THEN /\ selected' = i /\ Remapped(targets[i].sectors)
                    /\ Preview(targets, i, fields)
               ELSE UNCHANGED <<selected, panel, trial, plan>>
          /\ UNCHANGED <<disks, targets, fields, running, thread>>

\* Msg::Pattern and Msg::Skips.
Type == /\ Edit
        /\ \/ \E t \in PatternTexts : fields' = [fields EXCEPT !.pattern = t]
           \/ \E t \in SkipTexts : fields' = [fields EXCEPT !.skips = t]
        /\ Preview(targets, selected, fields')
        /\ UNCHANGED <<disks, targets, selected, running, thread, panel, trial>>

\* Msg::Rescan.
Rescan == /\ Edit /\ running = NotRunning
          /\ \E ts \in Listings(disks) :
               LET i == Kept(targets, selected, ts)
               IN  /\ targets' = ts /\ selected' = i
                   /\ Remapped(SectorsAt(ts, i)) /\ Preview(ts, i, fields)
          /\ UNCHANGED <<disks, fields, running, thread>>

\* start: a refused input is said, anything else starts a thread.
Start(k) ==
  /\ running = NotRunning /\ worker[k] = NoThread
  /\ \A j \in 1..(k - 1) : worker[j] # NoThread
  /\ LET found == Setups(targets, selected, fields)
     IN  IF found = {} THEN plan' = {} /\ UNCHANGED <<running, worker, panel, trial>>
         ELSE \E s \in found :
           /\ running' = [scan |-> k, planned |-> Length(s.plan)]
           /\ worker' = [worker EXCEPT ![k] = [pc |-> "open", setup |-> s]]
           /\ panel' = [EmptyPanel EXCEPT
                !.map = AllMarked(FreshMap(s.target.sectors),
                                  [j \in 1..Len(s.skips) |->
                                     [range |-> s.skips[j], status |-> "skipped"]]),
                !.skipped = Length(s.skips), !.stats = "opening", !.button = "Stop"]
           /\ trial' = [map |-> TRUE, total |-> s.target.sectors, skips |-> fields.skips,
                        pattern |-> s.pattern, met |-> <<>>]
           /\ UNCHANGED plan
  /\ UNCHANGED <<disks, targets, selected, fields, cancelled, tally, inbox, edits>>

\* Mutant of Stop: the application forgets the scan before it is over.
StopForgets == /\ running # NotRunning
               /\ cancelled' = cancelled \cup {running.scan}
               /\ running' = NotRunning
               /\ panel' = [panel EXCEPT !.button = "Start", !.stats = "stopped"]
               /\ UNCHANGED <<disks, targets, selected, fields, worker, tally, inbox, plan,
                              edits, trial>>

\* Msg::StartStop under a scan: the flag, and nothing else until it is over.
Stop == /\ running # NotRunning
        /\ cancelled' = cancelled \cup {running.scan}
        /\ UNCHANGED <<disks, targets, selected, fields, running, worker, tally, inbox, panel,
                       plan, edits, trial>>

--------------------------------------------------------------------------------
idle == <<disks, targets, selected, fields, running, cancelled, panel, plan, edits>>

Sends(msg) == inbox' = Append(inbox, msg)
Failure == [failed |-> TRUE, report |-> NoReport]
Reported(report) == [failed |-> FALSE, report |-> report]

\* The thread opens the disk, or fails to and says so; a pattern of no bytes
\* makes it panic (i % 0), and it says nothing.
Opened(k) ==
  LET s == worker[k].setup
      m == disks[s.target.path]
  IN  {Ended} \cup IF m = NoMedium \/ s.pattern = <<>> THEN {}
                   ELSE {[pc |-> "scan", setup |-> s, medium |-> m, range |-> 1,
                          s |-> s.plan[1].start]}

Panics(k) == worker[k].setup.pattern = <<>> /\ disks[worker[k].setup.target.path] # NoMedium

Open(k) ==
  /\ worker[k].pc = "open"
  /\ \E w \in Opened(k) :
       /\ worker' = [worker EXCEPT ![k] = w]
       /\ \/ w = Ended /\ Sends(Failure)
          \/ (w # Ended \/ Panics(k)) /\ UNCHANGED inbox
  /\ UNCHANGED <<idle, tally, trial>>

\* The position after a chunk, and the range it is in.
Advanced(w, n) ==
  LET s == w.s + n
  IN  IF s < w.setup.plan[w.range].end \/ w.range = Len(w.setup.plan)
      THEN [w EXCEPT !.s = s]
      ELSE [w EXCEPT !.range = @ + 1, !.s = w.setup.plan[w.range + 1].start]

AtEnd(w) == w.s >= w.setup.plan[w.range].end

\* The report is sent when the interval has gone by, with the position read to.
Emitted(t, s) == [t.report EXCEPT !.pos = s, !.totals = t.totals]

\* What a read of the disk really met, byte by byte (ghost).
Truth(m, p, s, failed) ==
  CASE s \in failed -> "unreadable"
    [] s \notin failed /\ \A b \in 0..(SectorSize - 1) :
         m.data[s * SectorSize + b + 1] = p[((s * SectorSize + b) % Len(p)) + 1] -> "ok"
    [] OTHER -> "mismatch"

Met(w, n, failed) ==
  trial' = [trial EXCEPT !.met = @ \o
    [i \in 1..n |-> [sector |-> w.s + i - 1,
                     status |-> Truth(w.medium, w.setup.pattern, w.s + i - 1, failed)]]]

\* The thread has a chunk to read: some of the plan is left and no flag is seen.
Reading(k) == worker[k].pc = "scan" /\ ~AtEnd(worker[k]) /\ k \notin cancelled

Request(w) == Least(ChunkSectors, w.setup.plan[w.range].end - w.s)

\* One turn of the loop of run: a chunk, whole or sector by sector.
Chunk(k) ==
  LET w == worker[k]
      n == Request(w)
      here == w.s..(w.s + n - 1)
  IN
  /\ Reading(k)
  /\ \E failed \in {F \in SUBSET here : \A s \in F : MayFail(w.medium, s)} :
     \E retried \in BOOLEAN :
       /\ failed # {} => retried
       /\ retried => \E s \in here : MayFail(w.medium, s)
       /\ \A s \in here : Fails(w.medium, s) => s \in failed
       /\ Met(w, n, failed)
       /\ LET t == IF retried
                   THEN BySector(tally[k], w.medium, w.setup.pattern, w.s, n, failed)
                   ELSE ReadWhole(tally[k], w.medium, w.setup.pattern, w.s, n)
          IN  \/ /\ Sends(Reported(Emitted(t, w.s + n)))
                 /\ tally' = [tally EXCEPT ![k] = [t EXCEPT !.report = NoReport]]
              \/ tally' = [tally EXCEPT ![k] = t] /\ UNCHANGED inbox
  /\ worker' = [worker EXCEPT ![k] = Advanced(w, n)]
  /\ UNCHANGED idle

\* Mutant of Finish: a scan that was stopped leaves without a word.
FinishSilent(k) ==
  LET w == worker[k] IN
  /\ w.pc = "scan" /\ ~Reading(k)
  /\ IF AtEnd(w)
     THEN Sends(Reported([Emitted(tally[k], Last(w.setup.plan).end) EXCEPT
                            !.end = "completed"]))
     ELSE UNCHANGED inbox
  /\ worker' = [worker EXCEPT ![k] = Ended] /\ tally' = [tally EXCEPT ![k] = NoTally]
  /\ UNCHANGED <<idle, trial>>

\* The plan is through, or the flag was seen: the last report.
Finish(k) ==
  LET w == worker[k] IN
  /\ w.pc = "scan" /\ ~Reading(k)
  /\ Sends(Reported([Emitted(tally[k], Last(w.setup.plan).end) EXCEPT
                       !.end = IF AtEnd(w) THEN "completed" ELSE "cancelled"]))
  /\ worker' = [worker EXCEPT ![k] = Ended] /\ tally' = [tally EXCEPT ![k] = NoTally]
  /\ UNCHANGED <<idle, trial>>

--------------------------------------------------------------------------------
Verdict(report) ==
  CASE report.end = "cancelled" -> "stopped"
    [] report.end = "completed" /\ Bad(report.totals) = 0 -> "PASS"
    [] OTHER -> "FAIL"

\* Verify::report, on a report of the scan in flight.
Applied(r) ==
  LET issues == SubSeq(panel.issues \o r.issues, 1,
                       Least(MAX_ISSUES, Len(panel.issues) + Len(r.issues)))
      unlisted == Most(0, Bad(r.totals) - Len(issues))
  IN  [map      |-> AllMarked(panel.map, r.done),
       issues   |-> issues,
       unlisted |-> unlisted,
       rows     |-> IF r.issues # <<>> \/ r.end # "none" THEN Len(issues) + unlisted
                    ELSE panel.rows,
       totals   |-> r.totals,
       skipped  |-> SectorsAt(targets, selected) - running.planned,
       stats    |-> IF r.end = "none" THEN "scanning" ELSE Verdict(r),
       button   |-> IF r.end = "none" THEN panel.button ELSE "Start"]

\* The application takes the next message.
Deliver ==
  /\ inbox # <<>> /\ inbox' = Tail(inbox)
  /\ IF Head(inbox).failed
     THEN /\ running' = NotRunning
          /\ panel' = [panel EXCEPT !.button = "Start", !.stats = "failed"]
     ELSE LET r == Head(inbox).report
          IN  IF running = NotRunning THEN UNCHANGED <<running, panel>>
              ELSE /\ panel' = Applied(r)
                   /\ running' = IF r.end = "none" THEN running ELSE NotRunning
  /\ UNCHANGED <<disks, targets, selected, fields, cancelled, worker, tally, plan, edits,
                 trial>>

\* A disk is plugged in, pulled out or swapped.
Swap == /\ Edit
        /\ \E p \in Paths, m \in Media \cup {NoMedium} :
             disks[p] # m /\ disks' = [disks EXCEPT ![p] = m]
        /\ UNCHANGED <<targets, selected, fields, running, thread, panel, plan, trial>>

VerifyNext == \/ Select \/ Type \/ Rescan \/ Swap
              \/ (\E k \in Scans : Start(k)) \/ Stop
              \/ (\E k \in Scans : Open(k) \/ Chunk(k) \/ Finish(k)) \/ Deliver

VerifySpec == VerifyInit /\ [][VerifyNext]_verifyVars

\* What the fairness is about, without what a step counts.
Proceeds(k) ==
  \/ worker[k].pc = "open" /\ \E w \in Opened(k) : worker' = [worker EXCEPT ![k] = w]
  \/ Reading(k) /\ worker' = [worker EXCEPT ![k] = Advanced(@, Request(@))]
  \/ worker[k].pc = "scan" /\ ~Reading(k) /\ worker' = [worker EXCEPT ![k] = Ended]

Drains == inbox # <<>> /\ inbox' = Tail(inbox)

\* A read of the disk returns, and the loop drains its queue.
FairVerifySpec == VerifySpec /\ (\A k \in Scans : WF_worker(Proceeds(k))) /\ WF_inbox(Drains)
--------------------------------------------------------------------------------
VerifyTypeOK == /\ selected \in 0..Len(targets) /\ edits \in 0..MaxEdits
                /\ running.scan \in 0..MaxScans /\ cancelled \subseteq Scans
                /\ panel.button \in {"Start", "Stop"}
                /\ panel.stats \in {"idle", "opening", "scanning", "stopped", "PASS", "FAIL", "failed"}

\* The sectors the operator asked to skip, as the items say it.
Skipped == {s \in 0..(trial.total - 1) :
              \E k \in 1..Len(trial.skips) : s \in Sectors(Item(trial.skips[k], trial.total))}

Planned == (0..(trial.total - 1)) \ Skipped

MetSectors == {trial.met[k].sector : k \in 1..Len(trial.met)}
BadAmong(n) ==
  LET bad[k \in 0..n] == IF k = 0 THEN <<>>
                         ELSE IF trial.met[k].status = "ok" THEN bad[k - 1]
                         ELSE Append(bad[k - 1], trial.met[k])
  IN  bad[n]

Started == trial # NoTrial

\* PASS is said only when every sector the operator did not skip was read and
\* holds the pattern anchored at byte 0 of the disk, FAIL only when all were
\* read and one does not, and no sector he skipped is ever read.
VerdictIsTrue ==
  Started =>
    /\ MetSectors \cap Skipped = {}
    /\ panel.stats \in {"PASS", "FAIL"} =>
         /\ MetSectors = Planned /\ Len(trial.met) = Cardinality(Planned)
         /\ (panel.stats = "PASS") <=> (BadAmong(Len(trial.met)) = <<>>)

\* What the map must show of a sector once n sectors were reported.
ShownAs(s, n) ==
  IF s \in Skipped THEN "skipped"
  ELSE LET at == {k \in 1..n : trial.met[k].sector = s}
       IN  IF at = {} THEN "pending" ELSE trial.met[CHOOSE k \in at : TRUE].status

\* The counts, the list and the map tell of the sectors reported so far, and
\* only of the scan the operator started last: a bucket shows the worst sector
\* in it, the first MAX_ISSUES bad sectors are listed, the others counted.
PanelIsTrue ==
  Started /\ panel.stats # "idle" =>
    LET n == Checked(panel.totals)
    IN  /\ n <= Len(trial.met)
        /\ Bad(panel.totals) = Len(BadAmong(n))
        /\ panel.issues = [k \in 1..Least(MAX_ISSUES, Len(BadAmong(n))) |->
                             BadAmong(n)[k].sector]
        /\ Len(panel.issues) + panel.unlisted = Bad(panel.totals)
        /\ panel.stats \in {"PASS", "FAIL", "stopped"} => panel.rows = Bad(panel.totals)
        /\ panel.skipped = Cardinality(Skipped)
        /\ trial.map => \A b \in DOMAIN panel.map.cells :
             LET inside == {s \in 0..(trial.total - 1) : BucketOf(panel.map, s) = b - 1}
             IN  /\ \E s \in inside : ShownAs(s, n) = panel.map.cells[b]
                 /\ \A s \in inside : Rank(ShownAs(s, n)) <= Rank(panel.map.cells[b])

\* A scan that was started ends, and the button is Start again.
ScanEnds == panel.button = "Stop" ~> panel.button = "Start"
==============================================================================
