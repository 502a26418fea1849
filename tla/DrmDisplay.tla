------------------------------ MODULE DrmDisplay ------------------------------
(***************************************************************************)
(* The double-buffered DRM/KMS display of fbui-platform                    *)
(* (src/fbui-platform/src/display/drm.rs) together with the part of the    *)
(* kernel card it drives.                                                  *)
(*                                                                         *)
(* The display is a value: a record with the fields of DrmDisplay, the     *)
(* state of the card behind it (which buffer is scanned out, which flip is *)
(* queued, whether a completion event waits on the card's fd) and the      *)
(* pixels of its two buffers. Each method is an operator from the display  *)
(* before the call to the display after it, so that a callback of the      *)
(* event loop is the composition of the calls it makes.                    *)
(*                                                                         *)
(* Pixels are abstracted to what the properties tell apart: the screen is  *)
(* a set of Regions, and a buffer is known by the regions in which it      *)
(* differs from the shadow surface and those in which an arrow (the        *)
(* software cursor) was composited.                                        *)
(***************************************************************************)
EXTENDS Integers

CONSTANTS Regions,       \* the parts of the screen that damage tells apart
          HISTORY,       \* frames of damage the tracker remembers (damage.rs)
          None           \* Option::None

ASSUME RegionsAssumption == Regions # {} /\ None \notin Regions /\ None \notin Int
ASSUME HistoryAssumption == HISTORY \in Nat /\ HISTORY >= 1

Buffers == {0, 1}        \* the indices of DrmDisplay::buffers

(***************************************************************************)
(* present_count - last_present of a buffer, 0 when last_present is None.  *)
(* Every age above HISTORY asks for the same full repaint, so ages stop    *)
(* at HISTORY + 1.                                                         *)
(***************************************************************************)
Ages == 0 .. (HISTORY + 1)

DrmDisplay ==
  [ master       : BOOLEAN,               \* we hold DRM master
    back         : Buffers,               \* the buffer the caller draws into
    flip_pending : BOOLEAN,               \* a flip is queued, no buffer is free
    age          : [Buffers -> Ages],
    \* the card
    scanout      : Buffers,               \* the buffer the CRTC scans out
    queued       : Buffers \cup {None},   \* target of the flip in flight
    readable     : BOOLEAN,               \* a PageFlip event waits on the fd
    dpms         : BOOLEAN,               \* the panel is lit
    \* the pixels
    stale        : [Buffers -> SUBSET Regions],   \* differ from the shadow
    arrow        : [Buffers -> SUBSET Regions],   \* hold a cursor sprite
    \* history variables of the model, read by no operation
    shown        : Buffers \cup {None},   \* last buffer presented since Modeset
    orphan       : BOOLEAN ]              \* see Modeset

(***************************************************************************)
(* The kernel (external).                                                  *)
(***************************************************************************)

\* The vblank at which the flip in flight takes effect: its buffer is scanned
\* out and the event requested by PageFlipFlags::EVENT is queued on the fd.
FlipDone(d) ==
  [d EXCEPT !.scanout = d.queued, !.queued = None, !.readable = TRUE]

\* set_crtc on buffer 0. It is a blocking commit, so a flip in flight completes
\* (and posts its event) first; it lights the connector. The card then owes us
\* the completion of a flip the driver no longer counts exactly when an event is
\* still unread: the display is "orphaned" until the next modeset without one.
Modeset(d) ==
  LET owed == d.queued # None \/ d.readable
  IN  [d EXCEPT !.scanout = 0, !.queued = None, !.readable = owed,
                !.dpms = TRUE, !.shown = None, !.orphan = owed]

(***************************************************************************)
(* DrmDisplay.                                                             *)
(***************************************************************************)

\* DrmDisplay::new: two fresh buffers, the CRTC on buffer 0, the caller on 1.
NewDisplay ==
  [ master |-> TRUE, back |-> 1, flip_pending |-> FALSE,
    age |-> [b \in Buffers |-> 0],
    scanout |-> 0, queued |-> None, readable |-> FALSE, dpms |-> TRUE,
    stale |-> [b \in Buffers |-> Regions], arrow |-> [b \in Buffers |-> {}],
    shown |-> None, orphan |-> FALSE ]

\* begin_frame hands out the back buffer, with its age, only then.
BufferFree(d) == ~d.flip_pending /\ d.master

Age(d) == d.age[d.back]

\* The ages after one more present, of buffer back.
Aged(age, back) ==
  [b \in Buffers |-> IF b = back THEN 1
                     ELSE IF age[b] \in {0, HISTORY + 1} THEN age[b]
                     ELSE age[b] + 1]

\* Mutant of Presented: the buffers are swapped at the call, as if it blocked.
PresentedAndSwapped(d) ==
  [d EXCEPT !.age = Aged(d.age, d.back), !.flip_pending = TRUE,
            !.queued = d.back, !.shown = d.back, !.back = 1 - d.back]

\* present, once page_flip succeeded: the back buffer is queued; `back` is not
\* swapped until the flip completes.
Presented(d) ==
  [d EXCEPT !.age = Aged(d.age, d.back),
            !.flip_pending = TRUE,
            !.queued = d.back,
            !.shown = d.back]

\* Mutant of Dispatched: the completion swaps the buffers and resets nothing.
DispatchedStillPending(d) ==
  IF d.readable THEN [d EXCEPT !.readable = FALSE, !.back = 1 - d.back] ELSE d

\* dispatch_present: drain the fd; any completion frees the other buffer.
Dispatched(d) ==
  IF d.readable
    THEN [d EXCEPT !.readable = FALSE, !.flip_pending = FALSE, !.back = 1 - d.back]
    ELSE d

\* set_power does nothing without master.
Powered(d, on) == IF d.master THEN [d EXCEPT !.dpms = on] ELSE d

Suspended(d) ==
  IF d.master THEN [d EXCEPT !.master = FALSE, !.flip_pending = FALSE] ELSE d

\* resume: master again, the mode re-established, no buffer trusted.
Resumed(d) ==
  [Modeset([d EXCEPT !.master = TRUE])
     EXCEPT !.age = [b \in Buffers |-> 0], !.flip_pending = FALSE, !.back = 1]

\* reconfigure on a changed mode: two fresh buffers replace the old ones.
Reconfigured(d) ==
  Modeset([d EXCEPT !.age = [b \in Buffers |-> 0],
                    !.stale = [b \in Buffers |-> Regions],
                    !.arrow = [b \in Buffers |-> {}],
                    !.back = 1, !.flip_pending = FALSE])
===============================================================================
