------------------------------ MODULE Pipeline ------------------------------
(***************************************************************************)
(* The EVM ingestion pipeline: the chain tracker feeds the block           *)
(* downloader, whose BlockEvent channel feeds the segmenter, whose         *)
(* SnapshotChange channel feeds the stream server.  One cancellation token *)
(* is shared by the downloader and the segmenter (spec 5).                 *)
(*                                                                         *)
(* The components are the module DownloaderSpec (the downloader with its  *)
(* chain tracker), extended, and Segmenter, instantiated over the         *)
(* variables here.                                                         *)
(* What the composition adds is where they meet:                           *)
(*   - the segmenter reads the head of the downloader's event channel;     *)
(*   - a segmenter that returns drops that channel's receiver, so the     *)
(*     downloader's next send fails;                                      *)
(*   - a downloader that returns drops the sender, and the segmenter sees  *)
(*     the end of its input once the channel is drained;                  *)
(*   - the seal reads each sealed block back from the staged files the     *)
(*     downloader wrote; a missing one is an error of the seal;           *)
(*   - each task's select loop observes the shared token.                 *)
(***************************************************************************)
EXTENDS DownloaderSpec

CONSTANTS SegmentSize, GroupSize, OutCap

(* What the proofs use of the assumptions of Segmenter. *)
ASSUME PipelineAssumption ==
    /\ SegmentSize \in Nat \ {0}
    /\ OutCap \in Nat \ {0}

VARIABLES
    \* the segmenter and its output channel (module Segmenter)
    phase, finalized, segOpen, groupStart, cursors, snapshot, published,
    store, groupStore, out, rxOpen,
    \* the cancellation token
    cancelled

S == INSTANCE Segmenter

segVars == <<phase, finalized, segOpen, groupStart, cursors, snapshot,
             published, store, groupStore>>
outVars == <<out, rxOpen>>
pvars == <<dVars, chVars, segVars, outVars, cancelled>>

(* The downloader variables other than the event channel. *)
dOwnVars == <<dPhase, head, current, isDownloading, fetch, pending, staged,
              ingestedLog>>

PInit ==
    /\ Init
    /\ S!SegInit
    /\ out = <<>>
    /\ rxOpen = TRUE
    /\ cancelled = FALSE

(* The token is cancelled (ctrl-c or a failing sibling task). *)
Cancel ==
    /\ ~cancelled
    /\ cancelled' = TRUE
    /\ UNCHANGED <<dVars, chVars, segVars, outVars>>

-----------------------------------------------------------------------------
(***************************************************************************)
(* The downloader's steps.  Cancellation is only observed by the select   *)
(* loop, and only once the token is cancelled.                             *)
(***************************************************************************)
DownloaderReceives ==
    /\ ReceiveChange
    /\ UNCHANGED <<segVars, outVars, cancelled>>

DownloaderChainEnds ==
    /\ ChainEnded
    /\ UNCHANGED <<chVars, segVars, outVars, cancelled>>

DownloaderCancelled ==
    /\ cancelled
    /\ DCancelled
    /\ UNCHANGED <<chVars, segVars, outVars, cancelled>>

DownloaderWorks ==
    /\ \/ AnnounceStarted
       \/ FetchSucceeds
       \/ FetchFails
       \/ SendIngested
       \/ SendForwarded
    /\ UNCHANGED <<chVars, segVars, outVars, cancelled>>

-----------------------------------------------------------------------------
(* Mutant: the event stream outlives the segmenter task. *)
EvReceiverKept == evRxOpen' = evRxOpen

(* The receiver of the event channel lives as long as the segmenter task. *)
EvReceiverAfter == evRxOpen' = (evRxOpen /\ phase' \notin S!Exited)

(***************************************************************************)
(* The segmenter reads the next event of the channel (the first one        *)
(* outside the select loop) and handles it, seal loop included.            *)
(***************************************************************************)
SegmenterReceives ==
    /\ events # <<>>
    /\ S!HandleEvent(Head(events))
    /\ events' = Tail(events)
    /\ EvReceiverAfter
    /\ UNCHANGED <<dOwnVars, chVars, cancelled>>

(* The downloader has returned and the channel is drained. *)
SegmenterInputEnds ==
    /\ dPhase \in DExited
    /\ events = <<>>
    /\ S!InputEnded
    /\ EvReceiverAfter
    /\ UNCHANGED <<dOwnVars, events, chVars, cancelled>>

SegmenterCancelled ==
    /\ cancelled
    /\ S!Cancelled
    /\ EvReceiverAfter
    /\ UNCHANGED <<dOwnVars, events, chVars, cancelled>>

(* Every block the seal takes is read back from its staged file. *)
SealedBlocksReadable ==
    \A i \in 1 .. Len(S!ToSegment) : S!ToSegment[i] \in staged

(* The seal loop and the StateChanged send; a seal whose staged blocks    *)
(* are not all there can only fail.                                       *)
SegmenterWorks ==
    /\ \/ S!NothingToSeal
       \/ S!WriteSegment /\ SealedBlocksReadable
       \/ S!SealFails
       \/ S!NotifyStateChanged
    /\ EvReceiverAfter
    /\ UNCHANGED <<dOwnVars, events, chVars, cancelled>>

(* The stream server reads SnapshotChange, or drops its receiver. *)
ServerConsumes ==
    /\ S!ConsumeChange
    /\ UNCHANGED <<dVars, chVars, segVars, cancelled>>

ServerDrops ==
    /\ S!DropReceiver
    /\ UNCHANGED <<dVars, chVars, segVars, cancelled>>

(* Both tasks have returned. *)
Stopped ==
    /\ dPhase \in DExited
    /\ phase \in S!Exited
    /\ UNCHANGED pvars

PNext ==
    \/ Cancel
    \/ DownloaderReceives
    \/ DownloaderChainEnds
    \/ DownloaderCancelled
    \/ DownloaderWorks
    \/ SegmenterReceives
    \/ SegmenterInputEnds
    \/ SegmenterCancelled
    \/ SegmenterWorks
    \/ ServerConsumes
    \/ ServerDrops
    \/ Stopped

(***************************************************************************)
(* Fairness.  As in DownloaderSpec for the downloader and its tracker;     *)
(* each select! eventually takes a branch that stays ready (the token, an  *)
(* event, a resolved download); a seal step and a send with room complete; *)
(* the stream server keeps reading.  Nothing obliges anyone to cancel.     *)
(***************************************************************************)
PFairness ==
    /\ WF_pvars(DownloaderReceives)
    /\ WF_pvars(DownloaderCancelled)
    /\ WF_pvars(DownloaderWorks)
    /\ WF_pvars(SegmenterReceives)
    /\ WF_pvars(SegmenterInputEnds)
    /\ WF_pvars(SegmenterCancelled)
    /\ WF_pvars(SegmenterWorks)
    /\ WF_pvars(ServerConsumes)

PSpec == PInit /\ [][PNext]_pvars /\ PFairness

-----------------------------------------------------------------------------
(* Type invariant of the composition. *)
PTypeOK ==
    /\ DTypeOK
    /\ chHead \in DBlocks
    /\ chFinal \in DBlocks
    /\ phase \in S!Phases
    /\ finalized \in S!Blocks
    /\ segOpen \in BOOLEAN
    /\ cursors \in Seq(S!Blocks)
    /\ store \in [S!Blocks -> Seq(S!Blocks)]
    /\ out \in Seq(S!Changes)
    /\ Len(out) <= OutCap
    /\ rxOpen \in BOOLEAN
    /\ cancelled \in BOOLEAN

(***************************************************************************)
(* Every cursor the segmenter has buffered has its staged block file: the *)
(* downloader writes blocks/{n}-{hash} before it sends Ingested(n), the   *)
(* channel keeps the order, and the seal reads those files back.          *)
(***************************************************************************)
BufferedBlocksStaged ==
    \A i \in 1 .. Len(cursors) : cursors[i] \in staged

(***************************************************************************)
(* The assert_eq! of do_write_segment_if_needed (segmenter.rs:318): a     *)
(* segment the seal takes holds exactly segment_size blocks.              *)
(***************************************************************************)
SealTakesFullSegment ==
    (phase = "seal" /\ S!SealReady) => Len(S!ToSegment) = SegmentSize

(***************************************************************************)
(* Spec 5: once the shared token is cancelled, both the downloader and the *)
(* segmenter return, wherever each of them is blocked.                    *)
(***************************************************************************)
CancellationStopsPipeline ==
    cancelled ~> (dPhase \in DExited /\ phase \in S!Exited)
=============================================================================
