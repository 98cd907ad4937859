-------------------------- MODULE DownloaderSpec --------------------------
(***************************************************************************)
(* The downloader on its own, fed by a chain tracker that keeps its        *)
(* contract (spec 4.A): Initialize{head, finalized} exactly once with      *)
(* finalized <= head, then NewHead with a higher head, NewFinalized with a *)
(* higher finalized block not above the head, and a bounded number of      *)
(* Invalidate.  The tracker is back-pressured: a change is handed over     *)
(* when the select loop reads it.  The BlockEvent consumer (the segmenter) *)
(* takes events or drops its receiver.                                     *)
(***************************************************************************)
EXTENDS Downloader

CONSTANT MaxInvalidations   \* model bound on Invalidate changes

ASSUME InvalidationAssumption == MaxInvalidations \in Nat

VARIABLES
    chStarted,      \* the tracker has produced Initialize
    chHead,         \* last head it reported
    chFinal,        \* last finalized block it reported
    chInvalidations \* Invalidate changes produced so far

chVars == <<chStarted, chHead, chFinal, chInvalidations>>
vars == <<dVars, chVars>>

(* The changes the tracker may produce next. *)
ChainOffers ==
    IF ~chStarted
      THEN UNION {{CC("Initialize", h, f) : f \in 0 .. h} : h \in DBlocks}
      ELSE {CC("NewHead", h, chFinal) : h \in chHead + 1 .. MaxBlock}
           \cup {CC("NewFinalized", chHead, f) : f \in chFinal + 1 .. chHead}
           \cup (IF chInvalidations < MaxInvalidations
                   THEN {CC("Invalidate", chHead, chFinal)} ELSE {})

ChainAfter(ch) ==
    /\ chStarted' = TRUE
    /\ chHead' = ch.head
    /\ chFinal' = ch.finalized
    /\ chInvalidations' = chInvalidations
                          + (IF ch.kind = "Invalidate" THEN 1 ELSE 0)

Init ==
    /\ DInit
    /\ chStarted = FALSE
    /\ chHead = 0
    /\ chFinal = 0
    /\ chInvalidations = 0

(* The downloader reads the next chain change. *)
ReceiveChange ==
    \E ch \in ChainOffers :
        /\ HandleInitialize(ch) \/ HandleChainChange(ch)
        /\ ChainAfter(ch)

(* The BlockEvent consumer. *)
ConsumeEvent ==
    /\ events # <<>>
    /\ events' = Tail(events)
    /\ UNCHANGED <<dPhase, head, current, isDownloading, fetch, pending,
                   staged, evRxOpen, ingestedLog>>

DropEventReceiver ==
    /\ evRxOpen
    /\ evRxOpen' = FALSE
    /\ UNCHANGED <<dPhase, head, current, isDownloading, fetch, pending,
                   staged, events, ingestedLog>>

DExit ==
    /\ dPhase \in DExited
    /\ UNCHANGED vars

Next ==
    \/ ReceiveChange
    \/ ChainEnded /\ UNCHANGED chVars
    \/ DownloaderStep /\ UNCHANGED chVars
    \/ (ConsumeEvent \/ DropEventReceiver) /\ UNCHANGED chVars
    \/ DExit

(***************************************************************************)
(* Fairness.  select! polls every ready branch, so a download that has     *)
(* resolved is eventually taken; a send with room completes; the consumer  *)
(* keeps reading, and the tracker, which polls the RPC on an interval,    *)
(* eventually hands over the change it has.  The RPC answering at all is  *)
(* an assumption: the code sets no timeout on download_block.  Nothing    *)
(* obliges anyone to cancel.                                               *)
(***************************************************************************)
Fairness ==
    /\ WF_vars(ReceiveChange)
    /\ WF_dVars(FetchSucceeds \/ FetchFails)
    /\ WF_dVars(SendIngested)
    /\ WF_dVars(SendForwarded)
    /\ WF_dVars(AnnounceStarted)
    /\ WF_dVars(ConsumeEvent)

Spec == Init /\ [][Next]_vars /\ Fairness

-----------------------------------------------------------------------------
(* Type invariant, the BlockEvent channel within its capacity. *)
DTypeOK ==
    /\ dPhase \in DPhases
    /\ head \in DBlocks
    /\ current \in DBlocks
    /\ isDownloading \in BOOLEAN
    /\ fetch \in DBlocks \cup {NoFetch}
    /\ pending \in DBlocks
    /\ staged \subseteq DBlocks
    /\ events \in Seq(BlockEvents)
    /\ Len(events) <= EvCap
    /\ evRxOpen \in BOOLEAN
    /\ ingestedLog \in Seq(DBlocks)
    /\ chStarted \in BOOLEAN
    /\ chInvalidations \in 0 .. MaxInvalidations

(***************************************************************************)
(* Spec 5: Ingested events are delivered in strictly increasing block      *)
(* order.  The continuation after a download and the restart on NewHead    *)
(* must never both download the same block.                                *)
(***************************************************************************)
IngestedIncreasing ==
    \A i, j \in 1 .. Len(ingestedLog) :
        i < j => ingestedLog[i] < ingestedLog[j]

(***************************************************************************)
(* The downloader never asks the RPC for a block above the head it knows:  *)
(* the initial download, the continuation after Ingested and the restart   *)
(* on NewHead each compare current_block_number with head before they     *)
(* start one.                                                              *)
(***************************************************************************)
NeverFetchesBeyondHead ==
    fetch # NoFetch => fetch <= head

(***************************************************************************)
(* Spec 8: the Ingested block numbers are contiguous from                  *)
(* first_block_number.                                                     *)
(***************************************************************************)
IngestedContiguous ==
    \A i \in 1 .. Len(ingestedLog) : ingestedLog[i] = FirstBlock + i - 1

(***************************************************************************)
(* Progress: once the tracker has said all it will, the downloader ends up *)
(* idle with current_block_number at the head, or has exited: a download   *)
(* that completes while NewHead raised the head, or a NewHead that arrives *)
(* while idle, is never left without a next download.                      *)
(***************************************************************************)
DownloadsReachHead ==
    <>[](dPhase \in DExited \/ (dPhase = "loop" /\ fetch = NoFetch
                                /\ current >= head))
=============================================================================
