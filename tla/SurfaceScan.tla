----------------------------- MODULE SurfaceScan -----------------------------
(* The parts of disk-verify that compute: what the operator typed, the plan     *)
(* left of the disk (ranges.rs, pattern.rs), the reading of one chunk (scan.rs) *)
(* and the surface map (map.rs).  A reading of a text is a set: empty when the  *)
(* text is refused.                                                             *)
EXTENDS Integers, Sequences, SequencesExt

CONSTANTS SectorSize,     \* bytes in a sector
          ChunkSectors,   \* sectors read per request
          BUCKETS,        \* resolution of the map
          MAX_ISSUES,     \* bad sectors a scan lists
          MAX_LEN         \* bytes of a pattern

ASSUME ScanAssumption == /\ {SectorSize, ChunkSectors, BUCKETS} \subseteq Nat \ {0}
                         /\ MAX_ISSUES \in Nat /\ MAX_LEN \in Nat

Least(a, b) == IF a <= b THEN a ELSE b
Most(a, b) == IF a <= b THEN b ELSE a

--------------------------------------------------------------------------------
\* Pattern::parse: pairs of hex digits, behind an optional 0x.
Patterns(text) ==
  LET n == Len(text.digits) \div 2
  IN  IF \/ text.digits = <<>> /\ ~text.prefix
         \/ Len(text.digits) % 2 # 0 \/ n > MAX_LEN
      THEN {}
      ELSE {[k \in 1..n |-> 16 * text.digits[2 * k - 1] + text.digits[2 * k]]}

\* Reference::new: enough of the cycle for a chunk at any phase.
Reference(pattern) ==
  [i \in 0..(ChunkSectors * SectorSize + Len(pattern) - 1) |->
     pattern[(i % Len(pattern)) + 1]]

\* Mutant of Window: the pattern starts over with every read.
WindowOfRead(pattern, offset, len) == [k \in 1..len |-> Reference(pattern)[k - 1]]

\* Reference::window: the bytes expected at an offset of the disk.
Window(pattern, offset, len) ==
  [k \in 1..len |-> Reference(pattern)[(offset % Len(pattern)) + k - 1]]

--------------------------------------------------------------------------------
Span(start, end) == [start |-> start, end |-> end]
Sectors(r) == r.start..(r.end - 1)
Length(ranges) ==
  LET sum[k \in 0..Len(ranges)] ==
        IF k = 0 THEN 0 ELSE sum[k - 1] + (ranges[k].end - ranges[k].start)
  IN  sum[Len(ranges)]

\* An item of the skip list: A, A-B, A-, A+N.
Item(i, total) == Span(i.a, CASE i.form = "one"  -> i.a + 1
                               [] i.form = "to"   -> i.b + 1
                               [] i.form = "on"   -> total
                               [] i.form = "plus" -> i.a + i.b)

ItemIsFine(i, total) == Item(i, total).end > i.a /\ i.a < total

\* merge: a range that overlaps or touches the last one extends it.
Coalesced(out, r) ==
  IF out # <<>> /\ r.start <= Last(out).end
  THEN Append(Front(out), Span(Last(out).start, Most(Last(out).end, r.end)))
  ELSE Append(out, r)

Merged(ranges) ==
  LET out[k \in 0..Len(ranges)] == IF k = 0 THEN <<>> ELSE Coalesced(out[k - 1], ranges[k])
  IN  out[Len(ranges)]

\* What sort_by_key may make of them: sorted by their start.
Sortings(ranges) ==
  {s \in {[k \in 1..Len(ranges) |-> ranges[p[k]]] :
            p \in Bijection(1..Len(ranges), 1..Len(ranges))} :
     \A k \in 2..Len(ranges) : s[k - 1].start <= s[k].start}

\* parse_skips: one item that makes no sense refuses the list.
SkipLists(items, total) ==
  IF \E k \in 1..Len(items) : ~ItemIsFine(items[k], total) THEN {}
  ELSE {Merged(s) : s \in Sortings([k \in 1..Len(items) |->
          Span(items[k].a, Least(Item(items[k], total).end, total))])}

\* plan: what is left of the disk between the skips.
Between(left, skip) ==
  [out |-> IF skip.start > left.at THEN Append(left.out, Span(left.at, skip.start)) ELSE left.out,
   at  |-> Most(left.at, skip.end)]

Remaining(skips) ==
  LET left[k \in 0..Len(skips)] == IF k = 0 THEN [out |-> <<>>, at |-> 0]
                                   ELSE Between(left[k - 1], skips[k])
  IN  left[Len(skips)]

Plan(total, skips) ==
  LET end == Remaining(skips)
  IN  IF end.at < total THEN Append(end.out, Span(end.at, total)) ELSE end.out

--------------------------------------------------------------------------------
\* The cells of the map, by severity.
Rank(cell) == CASE cell = "pending" -> 0 [] cell = "skipped" -> 1 [] cell = "ok" -> 2
                [] cell = "mismatch" -> 3 [] cell = "unreadable" -> 4
Worse(a, b) == IF Rank(a) >= Rank(b) THEN a ELSE b

\* SurfaceMap::reset.
FreshMap(sectors) ==
  [sectors |-> sectors, cells |-> [b \in 1..Least(sectors, BUCKETS) |-> "pending"]]

BucketOf(map, sector) == (sector * Len(map.cells)) \div Most(map.sectors, 1)

\* SurfaceMap::mark: no bucket is lowered.
Marked(map, r, cell) ==
  [map EXCEPT !.cells = [b \in DOMAIN @ |->
     IF b - 1 \in BucketOf(map, r.start)..BucketOf(map, r.end - 1)
     THEN Worse(@[b], cell) ELSE @[b]]]

AllMarked(map, runs) ==
  LET marked[k \in 0..Len(runs)] ==
        IF k = 0 THEN map ELSE Marked(marked[k - 1], runs[k].range, runs[k].status)
  IN  marked[Len(runs)]

--------------------------------------------------------------------------------
NoTotals == [ok |-> 0, mismatch |-> 0, unreadable |-> 0]
Checked(totals) == totals.ok + totals.mismatch + totals.unreadable
Bad(totals) == totals.mismatch + totals.unreadable

NoReport == [pos |-> 0, done |-> <<>>, issues |-> <<>>, totals |-> NoTotals, end |-> "none"]

\* Report::push_done: adjacent runs of one status are one run.
PushDone(done, r, status) ==
  IF done # <<>> /\ Last(done).status = status /\ Last(done).range.end = r.start
  THEN Append(Front(done), [range |-> Span(Last(done).range.start, r.end), status |-> status])
  ELSE Append(done, [range |-> r, status |-> status])

Counted(totals, status) ==
  CASE status = "ok"         -> [totals EXCEPT !.ok = @ + 1]
    [] status = "mismatch"   -> [totals EXCEPT !.mismatch = @ + 1]
    [] status = "unreadable" -> [totals EXCEPT !.unreadable = @ + 1]

\* The closure record of run, on the tally [report, totals, kept].
Recorded(tally, sector, status) ==
  LET lists == status # "ok" /\ tally.kept < MAX_ISSUES
  IN  [report |-> [tally.report EXCEPT
                     !.done = PushDone(@, Span(sector, sector + 1), status),
                     !.issues = IF lists THEN Append(@, sector) ELSE @],
       totals |-> Counted(tally.totals, status),
       kept   |-> IF lists THEN tally.kept + 1 ELSE tally.kept]

\* A whole chunk that matches is recorded at once.
RecordedWhole(tally, s, n) ==
  [tally EXCEPT !.report.done = PushDone(@, Span(s, s + n), "ok"), !.totals.ok = @ + n]

\* A medium: the bytes it holds, sectors that never read, sectors that may not.
Size(medium) == Len(medium.data) \div SectorSize
Holds(medium, s, n) == SubSeq(medium.data, s * SectorSize + 1, (s + n) * SectorSize)
Fails(medium, s) == s \in medium.dead \/ s >= Size(medium)
MayFail(medium, s) == Fails(medium, s) \/ s \in medium.flaky

Matches(medium, pattern, s, n) ==
  Holds(medium, s, n) = Window(pattern, s * SectorSize, n * SectorSize)

StatusOf(medium, pattern, s, failed) ==
  CASE s \in failed -> "unreadable"
    [] s \notin failed /\ Matches(medium, pattern, s, 1) -> "ok"
    [] OTHER -> "mismatch"

BySector(tally, medium, pattern, s, n, failed) ==
  LET told[i \in 0..n] ==
        IF i = 0 THEN tally
        ELSE Recorded(told[i - 1], s + i - 1, StatusOf(medium, pattern, s + i - 1, failed))
  IN  told[n]

\* A chunk that was read: compared whole, then by sector if something differs.
ReadWhole(tally, medium, pattern, s, n) ==
  IF Matches(medium, pattern, s, n) THEN RecordedWhole(tally, s, n)
  ELSE BySector(tally, medium, pattern, s, n, {})
==============================================================================
