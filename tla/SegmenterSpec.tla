--------------------------- MODULE SegmenterSpec ---------------------------
(***************************************************************************)
(* The segmenter on its own: its BlockEvent input comes from a source that *)
(* keeps the downloader's contract (spec 4.B): Started{finalized} first    *)
(* with finalized >= FirstBlock, then Ingested for FirstBlock,             *)
(* FirstBlock + 1, ... in order, Finalized strictly advancing, and         *)
(* Invalidate at any time.  The source only hands the next event over      *)
(* when the segmenter reads it, which is all the segmenter can observe of  *)
(* the channel in between.  Module Pipeline replaces this source by the    *)
(* downloader itself.                                                      *)
(***************************************************************************)
EXTENDS Segmenter, FiniteSets

VARIABLES
    srcStarted,     \* the source has produced Started
    nextBlock,      \* number of the next block the source will report
    srcFinalized    \* last finalized number the source reported

srcVars == <<srcStarted, nextBlock, srcFinalized>>
vars == <<segVars, chanVars, srcVars>>

(* The events the source may produce next. *)
SourceEvents ==
    IF ~srcStarted
      THEN {Ev("Started", f) : f \in FirstBlock .. MaxBlock}
      ELSE {Ev("Ingested", b) : b \in {nextBlock} \cap Blocks}
           \cup {Ev("Finalized", f) : f \in srcFinalized + 1 .. MaxBlock}
           \cup {Ev("Invalidate", 0)}

SourceAfter(e) ==
    /\ srcStarted' = TRUE
    /\ nextBlock' = IF e.kind = "Ingested" THEN nextBlock + 1 ELSE nextBlock
    /\ srcFinalized' = IF e.kind \in {"Started", "Finalized"}
                         THEN e.cursor ELSE srcFinalized

Init ==
    /\ SegInit
    /\ out = <<>>
    /\ rxOpen = TRUE
    /\ srcStarted = FALSE
    /\ nextBlock = FirstBlock
    /\ srcFinalized = 0

(* The segmenter reads the next event of the source. *)
Receive ==
    \E e \in SourceEvents :
        /\ HandleEvent(e)
        /\ SourceAfter(e)

(* The source's sender is dropped (the downloader returned). *)
SourceEnds ==
    /\ InputEnded
    /\ UNCHANGED srcVars

(* Once the task has exited nothing of it changes any more. *)
Exit ==
    /\ phase \in Exited
    /\ UNCHANGED vars

Next ==
    \/ Receive
    \/ SourceEnds
    \/ SegmenterStep /\ UNCHANGED srcVars
    \/ ConsumerStep /\ UNCHANGED <<segVars, srcVars>>
    \/ Exit

Spec == Init /\ [][Next]_vars

-----------------------------------------------------------------------------
(***************************************************************************)
(* Type invariant.  The channel bound is part of it: tx.send blocks on a   *)
(* full channel, so the queue never holds more than its capacity.          *)
(***************************************************************************)
TypeOK ==
    /\ phase \in Phases
    /\ finalized \in Blocks
    /\ segOpen \in BOOLEAN
    /\ groupStart \in Blocks
    /\ cursors \in Seq(Blocks)
    /\ snapshot \in Snapshots
    /\ published \in Snapshots
    /\ store \in [Blocks -> Seq(Blocks)]
    /\ groupStore \subseteq Blocks
    /\ out \in Seq(Changes)
    /\ Len(out) <= OutCap
    /\ rxOpen \in BOOLEAN
    /\ srcStarted \in BOOLEAN
    /\ nextBlock \in FirstBlock .. MaxBlock + 1
    /\ srcFinalized \in Nat

(***************************************************************************)
(* Segments only hold finalized data (segmenter.rs:87 and :173), and each  *)
(* stored segment/{s} is the SegmentSize consecutive blocks from s, s a    *)
(* segment start: what a reader of the segment store relies on.  It takes  *)
(* the buffer discipline of Ingested, Finalized and the seal loop together *)
(* to hold.                                                                *)
(***************************************************************************)
StoredSegmentsValid ==
    \A s \in Blocks : Written(s) =>
        /\ s % SegmentSize = 0
        /\ store[s] = [i \in 1 .. SegmentSize |-> s + i - 1]
        /\ s + SegmentSize - 1 <= finalized

(***************************************************************************)
(* Every published revision stands for exactly one new segment key: the   *)
(* number of segments in the store equals the published revision, except  *)
(* after the task died between the segment write and the snapshot write,  *)
(* when the store is one ahead.  A seal that rewrote a segment, skipped a  *)
(* snapshot write, or published before writing breaks it.                  *)
(***************************************************************************)
RevisionCountsSegments ==
    LET written == Cardinality({s \in Blocks : Written(s)}) IN
    IF phase = "error"
      THEN written \in {published.revision, published.revision + 1}
      ELSE written = published.revision

(***************************************************************************)
(* Spec 3: every segment a published snapshot accounts for exists in the   *)
(* store: the segment starts from FirstBlock up to                         *)
(* group_start(FirstBlock) + group_count*M + extra_segment_count*N.        *)
(***************************************************************************)
SnapshotSegmentsStored ==
    \A s \in Blocks :
        ( /\ s % SegmentSize = 0
          /\ FirstBlock <= s
          /\ s < GroupStart(FirstBlock) + published.groupCount * GroupSize
                   + published.extraSegmentCount * SegmentSize )
        => Written(s)

(* A sequence of block numbers that is a run of consecutive numbers. *)
Contiguous(cs) == \A i \in 1 .. Len(cs) : cs[i] = cs[1] + i - 1

(***************************************************************************)
(* The buffer of SegmentData holds a run of consecutive block numbers      *)
(* ending just before the next block the source will report: no block is  *)
(* lost or repeated across the splits of do_write_segment_if_needed and   *)
(* the group resets, which the filter at segmenter.rs:274-280 and the     *)
(* record count assert rely on.                                           *)
(***************************************************************************)
BufferContiguous ==
    /\ Contiguous(cursors)
    /\ cursors # <<>> => nextBlock = cursors[Len(cursors)] + 1
-----------------------------------------------------------------------------
(***************************************************************************)
(* The refinement mapping to SegmentPublication: the written segment keys *)
(* of the store, the snapshot document, and the task having exited.       *)
(***************************************************************************)
Pub == INSTANCE SegmentPublication
           WITH SegmentKeys <- {s \in Blocks : s % SegmentSize = 0},
                segs <- {s \in Blocks : Written(s)},
                pub <- published,
                halted <- phase \in Exited

(***************************************************************************)
(* The segmenter implements SegmentPublication: do_write_segment_if_needed *)
(* never rewrites a segment key, writes the snapshot document after the   *)
(* segment with one revision and one segment more (a group closed or one  *)
(* more extra segment), and leaves a segment unpublished only when its    *)
(* write_snapshot fails and the task returns.                             *)
(***************************************************************************)
PublicationRefined == Pub!PubSpec
=============================================================================
