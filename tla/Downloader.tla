---------------------------- MODULE Downloader ----------------------------
(***************************************************************************)
(* The EVM block downloader task (dna/evm/src/ingestion/downloader.rs,     *)
(* download_loop and download_block).                                      *)
(*                                                                         *)
(* It reads ChainChange values, keeps (head, current_block_number), has at *)
(* most one download_block future, stages every downloaded block in local  *)
(* storage and reports BlockEvents on a bounded channel.  A cursor is its  *)
(* block number.                                                           *)
(*                                                                         *)
(* Every tx.send(..).await is a control point of its own: while it waits   *)
(* for room the select loop polls neither the chain changes nor the        *)
(* cancellation token.  The handlers are operators of a ChainChange ch so  *)
(* that a composition can feed them from any chain tracker.                *)
(***************************************************************************)
EXTENDS Naturals, Sequences

CONSTANTS
    FirstBlock,     \* first_block_number given to start
    MaxBlock,       \* model bound on block numbers
    EvCap           \* capacity of the BlockEvent channel (128 in the code)

ASSUME DownloaderAssumption ==
    /\ FirstBlock \in Nat
    /\ MaxBlock \in Nat
    /\ FirstBlock <= MaxBlock
    /\ EvCap \in Nat \ {0}

DBlocks == 0 .. MaxBlock

(* ChainChange and BlockEvent, every variant a record of one shape. *)
ChainKinds == {"Initialize", "NewHead", "NewFinalized", "Invalidate"}
ChainChanges == [kind : ChainKinds, head : Nat, finalized : Nat]
CC(k, h, f) == [kind |-> k, head |-> h, finalized |-> f]

BlockEventKinds == {"Started", "Ingested", "Finalized", "Invalidate"}
BlockEvents == [kind : BlockEventKinds, cursor : Nat]
BEv(k, c) == [kind |-> k, cursor |-> c]

(* "NoFetch": download_fut is future::pending() or an already completed    *)
(* fused future; otherwise it is the block number being downloaded.        *)
NoFetch == MaxBlock + 1

(* Control points: awaiting the first change, sending Started, in the      *)
(* select loop, blocked in one of the three sends of the loop, exited.     *)
DPhases == {"init", "announce", "loop", "sendIngested", "sendFinalized",
            "sendInvalidate", "ok", "error"}
DExited == {"ok", "error"}

VARIABLES
    dPhase,         \* control point of download_loop
    head,           \* head (block number)
    current,        \* current_block_number
    isDownloading,  \* is_downloading
    fetch,          \* download_fut: the block in flight, or NoFetch
    pending,        \* the cursor a blocked send carries
    staged,         \* blocks/{n}-{hash} files in local storage
    events,         \* the BlockEvent channel
    evRxOpen,       \* the receiver of that channel still exists
    ingestedLog     \* history: block numbers of every Ingested sent

dVars == <<dPhase, head, current, isDownloading, fetch, pending, staged,
           events, evRxOpen, ingestedLog>>

DInit ==
    /\ dPhase = "init"
    /\ head = 0
    /\ current = FirstBlock
    /\ isDownloading = FALSE
    /\ fetch = NoFetch
    /\ pending = 0
    /\ staged = {}
    /\ events = <<>>
    /\ evRxOpen = TRUE
    /\ ingestedLog = <<>>

(* tx.send(..).await: it completes when there is room, or fails at once  *)
(* when the receiver is gone.                                            *)
(* Mutant: a send that never waits for room. *)
CanSendEventUnbounded == TRUE

CanSendEvent == ~evRxOpen \/ Len(events) < EvCap

-----------------------------------------------------------------------------
(***************************************************************************)
(* The first ChainChange (download_loop lines 99-128): it must be          *)
(* Initialize and its finalized block must not be behind                   *)
(* first_block_number; the first download starts only when                 *)
(* current_block_number < head.                                            *)
(***************************************************************************)
HandleInitialize(ch) ==
    /\ dPhase = "init"
    /\ IF ch.kind = "Initialize" /\ ch.finalized >= FirstBlock
         THEN /\ head' = ch.head
              /\ pending' = ch.finalized
              /\ isDownloading' = (FirstBlock < ch.head)
              /\ fetch' = IF FirstBlock < ch.head THEN FirstBlock ELSE NoFetch
              /\ dPhase' = "announce"
         ELSE /\ dPhase' = "error"
              /\ UNCHANGED <<head, pending, isDownloading, fetch>>
    /\ UNCHANGED <<current, staged, events, evRxOpen, ingestedLog>>

(* The chain change stream ended before Initialize or in the loop. *)
ChainEnded ==
    /\ dPhase \in {"init", "loop"}
    /\ dPhase' = "error"
    /\ UNCHANGED <<head, current, isDownloading, fetch, pending, staged,
                   events, evRxOpen, ingestedLog>>

(* Started{finalized}; a closed channel returns Ok. *)
AnnounceStarted ==
    /\ dPhase = "announce"
    /\ CanSendEvent
    /\ IF evRxOpen
         THEN /\ events' = Append(events, BEv("Started", pending))
              /\ dPhase' = "loop"
         ELSE /\ dPhase' = "ok"
              /\ UNCHANGED events
    /\ UNCHANGED <<head, current, isDownloading, fetch, pending, staged,
                   evRxOpen, ingestedLog>>

(* The select loop observes the cancellation token. *)
DCancelled ==
    /\ dPhase = "loop"
    /\ dPhase' = "ok"
    /\ UNCHANGED <<head, current, isDownloading, fetch, pending, staged,
                   events, evRxOpen, ingestedLog>>

(***************************************************************************)
(* download_block resolves.  On success the block file was written before *)
(* the cursor is returned; an error ends the loop, and when it came from  *)
(* the writer's shutdown the file may already be there.                   *)
(***************************************************************************)
(* Mutant: download_block returns the cursor before the file is written. *)
StagedWithout(s, b) == s

(* The staged files after the block file blocks/{b}-{hash} is written. *)
StagedWith(s, b) == s \cup {b}

FetchSucceeds ==
    /\ dPhase = "loop"
    /\ fetch # NoFetch
    /\ staged' = StagedWith(staged, fetch)
    /\ pending' = fetch
    /\ fetch' = NoFetch
    /\ dPhase' = "sendIngested"
    /\ UNCHANGED <<head, current, isDownloading, events, evRxOpen, ingestedLog>>

FetchFails ==
    /\ dPhase = "loop"
    /\ fetch # NoFetch
    /\ staged' \in {staged, StagedWith(staged, fetch)}
    /\ fetch' = NoFetch
    /\ dPhase' = "error"
    /\ UNCHANGED <<head, current, isDownloading, pending, events, evRxOpen,
                   ingestedLog>>

(* Mutant: the loop never continues with the next block by itself. *)
ContinueNever(h) == FALSE

(* Mutant: it continues while current_block_number <= head. *)
ContinueAtHead(h) == current <= h

(* After Ingested is sent: the next block when still behind the head. *)
ContinueDownloading(h) == current < h

(***************************************************************************)
(* Ingested(cursor) sent; then current_block_number < head decides        *)
(* between the next download and going idle.  A closed channel breaks the  *)
(* loop (Ok).                                                              *)
(***************************************************************************)
SendIngested ==
    /\ dPhase = "sendIngested"
    /\ CanSendEvent
    /\ IF evRxOpen
         THEN /\ events' = Append(events, BEv("Ingested", pending))
              /\ ingestedLog' = Append(ingestedLog, pending)
              /\ dPhase' = "loop"
              /\ IF ContinueDownloading(head)
                   THEN /\ current' = current + 1
                        /\ fetch' = current + 1
                        /\ UNCHANGED isDownloading
                   ELSE /\ isDownloading' = FALSE
                        /\ UNCHANGED <<current, fetch>>
         ELSE /\ dPhase' = "ok"
              /\ UNCHANGED <<events, ingestedLog, current, fetch,
                             isDownloading>>
    /\ UNCHANGED <<head, pending, staged, evRxOpen>>

(* Mutant: NewHead restarts the download at current_block_number. *)
RestartAtCurrent(c) == c

(* The block NewHead starts downloading when the loop was idle. *)
RestartBlock(c) == c + 1

(***************************************************************************)
(* A ChainChange in the loop.  NewHead: when idle and behind, the code     *)
(* increments current_block_number and then downloads it.  NewFinalized   *)
(* and Invalidate are forwarded (through a send that may block).  The     *)
(* `_ => {}` arm only matches a second Initialize, which the chain         *)
(* tracker never produces.                                                 *)
(***************************************************************************)
HandleChainChange(ch) ==
    /\ dPhase = "loop"
    /\ \/ /\ ch.kind = "NewHead"
          /\ head' = ch.head
          /\ IF ~isDownloading /\ current < ch.head
               THEN /\ current' = RestartBlock(current)
                    /\ fetch' = RestartBlock(current)
                    /\ isDownloading' = TRUE
               ELSE UNCHANGED <<current, fetch, isDownloading>>
          /\ UNCHANGED <<dPhase, pending>>
       \/ /\ ch.kind = "NewFinalized"
          /\ pending' = ch.finalized
          /\ dPhase' = "sendFinalized"
          /\ UNCHANGED <<head, current, fetch, isDownloading>>
       \/ /\ ch.kind = "Invalidate"
          /\ dPhase' = "sendInvalidate"
          /\ UNCHANGED <<head, current, fetch, isDownloading, pending>>
    /\ UNCHANGED <<staged, events, evRxOpen, ingestedLog>>

(* The blocked Finalized or Invalidate send completes or fails (break). *)
SendForwarded ==
    /\ dPhase \in {"sendFinalized", "sendInvalidate"}
    /\ CanSendEvent
    /\ IF evRxOpen
         THEN /\ events' = Append(events,
                   IF dPhase = "sendFinalized" THEN BEv("Finalized", pending)
                                               ELSE BEv("Invalidate", 0))
              /\ dPhase' = "loop"
         ELSE /\ dPhase' = "ok"
              /\ UNCHANGED events
    /\ UNCHANGED <<head, current, isDownloading, fetch, pending, staged,
                   evRxOpen, ingestedLog>>

(* The steps the task takes without reading a chain change. *)
DownloaderStep ==
    \/ AnnounceStarted
    \/ DCancelled
    \/ FetchSucceeds
    \/ FetchFails
    \/ SendIngested
    \/ SendForwarded
=============================================================================
