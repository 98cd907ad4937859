---------------------------- MODULE MCSegmenter ----------------------------
(***************************************************************************)
(* Model-checking instance of SegmenterSpec: segments of 2 blocks, groups  *)
(* of 2 segments, blocks 0..7, so that two groups are sealed, a Finalized  *)
(* can overtake several segments at once, and Ingested can run a whole     *)
(* segment ahead of finalization across a group boundary.                  *)
(***************************************************************************)
EXTENDS SegmenterSpec

MCSegmentSize == 2
MCGroupSize == 4
MCFirstBlock == 0
MCMaxBlock == 7
MCOutCap == 2

(***************************************************************************)
(* The split of the cursor buffer at every next_segment_start that can     *)
(* occur is the filter the loop at segmenter.rs:274-280 computes: the      *)
(* cursors below the bound, in order, go to the segment and the others are *)
(* kept.                                                                   *)
(***************************************************************************)
SplitMatchesFilter ==
    \A b \in 0 .. MaxBlock + 1 :
        /\ CursorsToSegment(cursors, b) = SelectSeq(cursors, LAMBDA c : c < b)
        /\ CursorsToKeep(cursors, b) = SelectSeq(cursors, LAMBDA c : c >= b)
=============================================================================
