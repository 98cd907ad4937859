------------------------- MODULE SegmentPublication -------------------------
(***************************************************************************)
(* What the segmenter promises the readers of durable storage (spec 4.C,  *)
(* 4.D and 8), with no buffer, no channel and no block in it: the set of  *)
(* segment keys written, the published snapshot document, and whether the *)
(* task has ended.                                                         *)
(*                                                                         *)
(*   - a segment key is written once and never rewritten (4.D: segment/{s} *)
(*     is immutable once written);                                        *)
(*   - each publication accounts for exactly one new segment, and moves    *)
(*     the snapshot by one revision with either one more extra segment or  *)
(*     one more group and no extra segment (8);                           *)
(*   - a segment can be written without being published only as the last  *)
(*     act of a task that fails before its snapshot write (4.C step 7 and  *)
(*     7: Io propagates and the snapshot is not published);               *)
(*   - nothing is written or published after the task has ended.          *)
(*                                                                         *)
(* Module SegmenterSpec shows that the segmenter implements it.           *)
(***************************************************************************)
EXTENDS Naturals

CONSTANT SegmentKeys    \* the keys segment/{s} a segment can be written at

VARIABLES
    segs,       \* keys of the segments in durable storage
    pub,        \* the published snapshot document
    halted      \* the segmenter task has returned or panicked

pubVars == <<segs, pub, halted>>

EmptySnapshot == [revision |-> 0, groupCount |-> 0, extraSegmentCount |-> 0]

(* The snapshot after one more segment: an extra segment, or the segment  *)
(* that completes a group.                                                *)
Advanced(p, newGroup) ==
    [revision |-> p.revision + 1,
     groupCount |-> p.groupCount + (IF newGroup THEN 1 ELSE 0),
     extraSegmentCount |-> IF newGroup THEN 0 ELSE p.extraSegmentCount + 1]

PubInit ==
    /\ segs = {}
    /\ pub = EmptySnapshot
    /\ halted = FALSE

(* A new segment is written and a snapshot that accounts for it published. *)
Publish ==
    /\ ~halted
    /\ \E s \in SegmentKeys \ segs, newGroup \in BOOLEAN :
          /\ segs' = segs \cup {s}
          /\ pub' = Advanced(pub, newGroup)
    /\ UNCHANGED halted

(* A new segment is written and the task fails before publishing it. *)
WriteThenHalt ==
    /\ ~halted
    /\ \E s \in SegmentKeys \ segs : segs' = segs \cup {s}
    /\ halted' = TRUE
    /\ UNCHANGED pub

(* The task ends: Ok, a Fatal or Io error, or a panic. *)
Halt ==
    /\ ~halted
    /\ halted' = TRUE
    /\ UNCHANGED <<segs, pub>>

PubNext == Publish \/ WriteThenHalt \/ Halt

PubSpec == PubInit /\ [][PubNext]_pubVars
=============================================================================
