-------------------------- MODULE DownloaderProofs --------------------------
(***************************************************************************)
(* TLAPS proofs about DownloaderSpec: the download loop never asks for a  *)
(* block above the head it knows, and sends Ingested in strictly          *)
(* increasing block order, for every first block, block bound, channel    *)
(* capacity and number of invalidations.                                  *)
(***************************************************************************)
EXTENDS DownloaderSpec, TLAPS

(***************************************************************************)
(* The inductive invariant.  Besides the two properties it records why    *)
(* they hold: the block in flight is always current_block_number, the     *)
(* head never runs ahead of what the tracker said, the tracker's reports  *)
(* only grow, and every block already ingested is below the one being     *)
(* downloaded or sent.                                                    *)
(***************************************************************************)
DInv ==
    /\ DTypeOK
    /\ chHead \in DBlocks
    /\ chFinal \in DBlocks
    /\ ~chStarted => dPhase \in {"init", "error"} /\ head = 0
    /\ head <= chHead
    /\ fetch # NoFetch => fetch = current /\ current <= head
    /\ dPhase = "init" =>
           ingestedLog = <<>> /\ fetch = NoFetch /\ current = FirstBlock
    /\ dPhase = "sendIngested" => pending = current /\ fetch = NoFetch
    /\ \A i \in 1 .. Len(ingestedLog) : ingestedLog[i] <= current
    /\ (fetch # NoFetch \/ dPhase = "sendIngested") =>
           \A i \in 1 .. Len(ingestedLog) : ingestedLog[i] < current
    /\ IngestedIncreasing
-----------------------------------------------------------------------------
(* What the tracker may hand over next, from the invariant. *)
LEMMA OfferFacts ==
    ASSUME DInv, NEW ch \in ChainOffers
    PROVE  /\ ch.head \in DBlocks
           /\ ch.finalized \in DBlocks
           /\ ~chStarted => ch.kind = "Initialize"
           /\ chStarted => /\ ch.kind \in {"NewHead", "NewFinalized", "Invalidate"}
                           /\ ch.head >= chHead
           /\ ch.kind = "NewHead" => ch.head > chHead
           /\ ch.kind = "Invalidate" => chInvalidations < MaxInvalidations
<1> USE DownloaderAssumption, InvalidationAssumption
<1>1. CASE ~chStarted
  <2>1. PICK h \in DBlocks : ch \in {CC("Initialize", h, f) : f \in 0 .. h}
    BY <1>1 DEF ChainOffers
  <2>2. PICK f \in 0 .. h : ch = CC("Initialize", h, f)
    BY <2>1
  <2> QED BY <1>1, <2>2 DEF CC, DBlocks
<1>2. CASE chStarted
  <2>1. chHead \in DBlocks /\ chFinal \in DBlocks
    BY DEF DInv
  <2>2. \/ \E h \in chHead + 1 .. MaxBlock : ch = CC("NewHead", h, chFinal)
        \/ \E f \in chFinal + 1 .. chHead : ch = CC("NewFinalized", chHead, f)
        \/ chInvalidations < MaxInvalidations
           /\ ch = CC("Invalidate", chHead, chFinal)
    BY <1>2 DEF ChainOffers
  <2> QED BY <1>2, <2>1, <2>2 DEF CC, DBlocks
<1> QED BY <1>1, <1>2

(* The initial state satisfies the invariant. *)
LEMMA DInvInit == Init => DInv
<1> SUFFICES ASSUME Init PROVE DInv
  OBVIOUS
<1> USE DownloaderAssumption, InvalidationAssumption
<1>1. DTypeOK
  <2>1. events \in Seq(BlockEvents) /\ ingestedLog \in Seq(DBlocks)
    BY DEF Init, DInit
  <2>2. Len(events) <= EvCap
    BY DEF Init, DInit
  <2>3. dPhase \in DPhases /\ isDownloading \in BOOLEAN /\ evRxOpen \in BOOLEAN
        /\ chStarted \in BOOLEAN
    BY DEF Init, DInit, DPhases
  <2>4. head \in DBlocks /\ current \in DBlocks /\ pending \in DBlocks
    BY DEF Init, DInit, DBlocks
  <2>5. fetch \in DBlocks \cup {NoFetch} /\ staged \subseteq DBlocks
    BY DEF Init, DInit
  <2>6. chInvalidations \in 0 .. MaxInvalidations
    BY DEF Init
  <2> QED BY <2>1, <2>2, <2>3, <2>4, <2>5, <2>6 DEF DTypeOK
<1>2. chHead \in DBlocks /\ chFinal \in DBlocks /\ head <= chHead
  BY DEF Init, DInit, DBlocks
<1>3. IngestedIncreasing
  BY DEF Init, DInit, IngestedIncreasing
<1> QED BY <1>1, <1>2, <1>3 DEF Init, DInit, DInv, NoFetch
-----------------------------------------------------------------------------
(***************************************************************************)
(* One lemma per step of the loop that does not read a chain change.  The *)
(* tracker's variables are unchanged in each.                              *)
(***************************************************************************)
(* A send with room keeps the event channel typed and within capacity. *)
LEMMA AppendEvent ==
    ASSUME NEW es \in Seq(BlockEvents), NEW k \in BlockEventKinds,
           NEW c \in Nat, Len(es) < EvCap, EvCap \in Nat
    PROVE  /\ Append(es, BEv(k, c)) \in Seq(BlockEvents)
           /\ Len(Append(es, BEv(k, c))) <= EvCap
<1>1. BEv(k, c) \in BlockEvents
  BY DEF BEv, BlockEvents
<1> QED BY <1>1

LEMMA ChainEndedKeeps ==
    ASSUME DInv, ChainEnded, UNCHANGED chVars
    PROVE  DInv'
BY DEF DInv, DTypeOK, ChainEnded, chVars, IngestedIncreasing, DPhases

LEMMA AnnounceKeeps ==
    ASSUME DInv, AnnounceStarted, UNCHANGED chVars
    PROVE  DInv'
<1> USE DownloaderAssumption
<1>1. events' \in Seq(BlockEvents) /\ Len(events') <= EvCap
  <2>1. CASE evRxOpen
    <3>1. Len(events) < EvCap /\ pending \in Nat
      BY <2>1 DEF DInv, DTypeOK, AnnounceStarted, CanSendEvent, DBlocks
    <3> QED BY <2>1, <3>1, AppendEvent DEF DInv, DTypeOK, AnnounceStarted,
                                           BlockEventKinds
  <2>2. CASE ~evRxOpen
    BY <2>2 DEF DInv, DTypeOK, AnnounceStarted
  <2> QED BY <2>1, <2>2
<1>2. DTypeOK'
  BY <1>1 DEF DInv, DTypeOK, AnnounceStarted, chVars, DPhases
<1> QED BY <1>2 DEF DInv, AnnounceStarted, chVars, IngestedIncreasing

LEMMA CancelledKeeps ==
    ASSUME DInv, DCancelled, UNCHANGED chVars
    PROVE  DInv'
BY DEF DInv, DTypeOK, DCancelled, chVars, IngestedIncreasing, DPhases

LEMMA FetchSucceedsKeeps ==
    ASSUME DInv, FetchSucceeds, UNCHANGED chVars
    PROVE  DInv'
<1> USE DownloaderAssumption
<1>1. fetch \in DBlocks /\ fetch = current
  BY DEF DInv, DTypeOK, FetchSucceeds, NoFetch, DBlocks
<1>2. DTypeOK'
  BY <1>1 DEF DInv, DTypeOK, FetchSucceeds, StagedWith, chVars, DPhases,
              NoFetch, DBlocks
<1> QED BY <1>1, <1>2 DEF DInv, FetchSucceeds, chVars, IngestedIncreasing

LEMMA FetchFailsKeeps ==
    ASSUME DInv, FetchFails, UNCHANGED chVars
    PROVE  DInv'
<1> USE DownloaderAssumption
<1>1. fetch \in DBlocks
  BY DEF DInv, DTypeOK, FetchFails, NoFetch, DBlocks
<1>2. DTypeOK'
  BY <1>1 DEF DInv, DTypeOK, FetchFails, StagedWith, chVars, DPhases,
              NoFetch, DBlocks
<1> QED BY <1>2 DEF DInv, FetchFails, chVars, IngestedIncreasing

LEMMA SendForwardedKeeps ==
    ASSUME DInv, SendForwarded, UNCHANGED chVars
    PROVE  DInv'
<1> USE DownloaderAssumption
<1>1. events' \in Seq(BlockEvents) /\ Len(events') <= EvCap
  <2>1. CASE evRxOpen /\ dPhase = "sendFinalized"
    <3>1. Len(events) < EvCap /\ pending \in Nat
      BY <2>1 DEF DInv, DTypeOK, SendForwarded, CanSendEvent, DBlocks
    <3> QED BY <2>1, <3>1, AppendEvent DEF DInv, DTypeOK, SendForwarded,
                                           BlockEventKinds
  <2>2. CASE evRxOpen /\ dPhase # "sendFinalized"
    <3>1. Len(events) < EvCap
      BY <2>2 DEF DInv, DTypeOK, SendForwarded, CanSendEvent
    <3> QED BY <2>2, <3>1, AppendEvent DEF DInv, DTypeOK, SendForwarded,
                                           BlockEventKinds
  <2>3. CASE ~evRxOpen
    BY <2>3 DEF DInv, DTypeOK, SendForwarded
  <2> QED BY <2>1, <2>2, <2>3
<1>2. DTypeOK'
  BY <1>1 DEF DInv, DTypeOK, SendForwarded, chVars, DPhases
<1> QED BY <1>2 DEF DInv, SendForwarded, chVars, IngestedIncreasing
(***************************************************************************)
(* Ingested(c) appended to a strictly increasing log of blocks below c    *)
(* keeps it strictly increasing, and every entry is then at most c.       *)
(***************************************************************************)
LEMMA LogAppend ==
    ASSUME NEW S \in SUBSET Nat, NEW log \in Seq(S), NEW c \in S,
           \A i \in 1 .. Len(log) : log[i] < c,
           \A i, j \in 1 .. Len(log) : i < j => log[i] < log[j]
    PROVE  /\ Append(log, c) \in Seq(S)
           /\ \A i \in 1 .. Len(Append(log, c)) : Append(log, c)[i] <= c
           /\ \A i, j \in 1 .. Len(Append(log, c)) :
                  i < j => Append(log, c)[i] < Append(log, c)[j]
<1>1. Append(log, c) \in Seq(S)
  OBVIOUS
<1>2. \A i \in 1 .. Len(Append(log, c)) : Append(log, c)[i] <= c
  <2> TAKE i \in 1 .. Len(Append(log, c))
  <2>1. CASE i <= Len(log)
    <3>1. i \in 1 .. Len(log)
      BY <2>1
    <3>2. log[i] \in S
      BY <3>1
    <3>3. Append(log, c)[i] = log[i]
      BY <3>1
    <3>4. log[i] < c
      BY <3>1
    <3>5. log[i] \in Nat /\ c \in Nat
      BY <3>2
    <3> QED BY <3>3, <3>4, <3>5
  <2>2. CASE i = Len(log) + 1
    BY <2>2
  <2> QED BY <2>1, <2>2
<1> QED BY <1>1, <1>2

LEMMA SendIngestedKeeps ==
    ASSUME DInv, SendIngested, UNCHANGED chVars
    PROVE  DInv'
<1> USE DownloaderAssumption
<1>1. /\ pending = current /\ fetch = NoFetch /\ current \in DBlocks
      /\ ingestedLog \in Seq(DBlocks)
      /\ \A i \in 1 .. Len(ingestedLog) : ingestedLog[i] < current
      /\ IngestedIncreasing
  BY DEF DInv, DTypeOK, SendIngested
<1>2. CASE evRxOpen
  <2>1. /\ events' \in Seq(BlockEvents) /\ Len(events') <= EvCap
    <3>1. Len(events) < EvCap /\ pending \in Nat
      BY <1>1, <1>2 DEF DInv, DTypeOK, SendIngested, CanSendEvent, DBlocks
    <3> QED BY <1>2, <3>1, AppendEvent DEF DInv, DTypeOK, SendIngested,
                                           BlockEventKinds
  <2>2. /\ ingestedLog' \in Seq(DBlocks)
        /\ \A i \in 1 .. Len(ingestedLog') : ingestedLog'[i] <= current
        /\ IngestedIncreasing'
    <3>1. ingestedLog' = Append(ingestedLog, current)
      BY <1>1, <1>2 DEF SendIngested
    <3>2. DBlocks \in SUBSET Nat
      BY DEF DBlocks
    <3> QED BY <1>1, <3>1, <3>2, LogAppend DEF IngestedIncreasing
  <2>3. CASE ContinueDownloading(head)
    <3>1. current + 1 \in DBlocks /\ current + 1 <= head
      BY <1>1, <2>3 DEF DInv, DTypeOK, ContinueDownloading, DBlocks
    <3>2. current' = current + 1 /\ fetch' = current + 1 /\ dPhase' = "loop"
          /\ UNCHANGED <<head, pending, staged, isDownloading>>
      BY <1>2, <2>3 DEF SendIngested
    <3>3. \A i \in 1 .. Len(ingestedLog') : ingestedLog'[i] < current'
      BY <2>2, <3>2, <1>1 DEF DBlocks
    <3>4. DTypeOK'
      BY <1>1, <1>2, <2>1, <2>2, <3>1, <3>2
         DEF DInv, DTypeOK, SendIngested, chVars, DPhases, NoFetch, DBlocks
    <3>5. fetch' # NoFetch /\ fetch' = current' /\ current' <= head'
      BY <3>1, <3>2 DEF NoFetch, DBlocks
    <3>6. /\ chStarted' /\ dPhase' = "loop" /\ head' = head
          /\ chHead' \in DBlocks /\ chFinal' \in DBlocks /\ head' <= chHead'
      BY <1>2, <3>2 DEF DInv, SendIngested, chVars
    <3>7. \A i \in 1 .. Len(ingestedLog') : ingestedLog'[i] <= current'
      <4> TAKE i \in 1 .. Len(ingestedLog')
      <4>1. ingestedLog'[i] \in DBlocks /\ current' \in DBlocks
        BY <2>2, <3>1, <3>2
      <4>2. ingestedLog'[i] < current'
        BY <3>3
      <4> QED BY <4>1, <4>2 DEF DBlocks
    <3> QED BY <2>2, <3>3, <3>4, <3>5, <3>6, <3>7 DEF DInv
  <2>4. CASE ~ContinueDownloading(head)
    <3>1. UNCHANGED <<current, fetch, head, pending, staged>>
          /\ dPhase' = "loop" /\ isDownloading' = FALSE
      BY <1>2, <2>4 DEF SendIngested
    <3>2. DTypeOK'
      BY <1>1, <1>2, <2>1, <2>2, <3>1
         DEF DInv, DTypeOK, SendIngested, chVars, DPhases
    <3> QED BY <1>1, <1>2, <2>2, <3>1, <3>2 DEF DInv, SendIngested, chVars
  <2> QED BY <2>3, <2>4
<1>3. CASE ~evRxOpen
  BY <1>3 DEF DInv, DTypeOK, SendIngested, chVars, IngestedIncreasing, DPhases
<1> QED BY <1>2, <1>3
(* The tracker's state after it hands over a change. *)
LEMMA ChainAfterFacts ==
    ASSUME DInv, NEW ch \in ChainOffers, ChainAfter(ch)
    PROVE  /\ chStarted'
           /\ chHead' = ch.head /\ chHead' \in DBlocks
           /\ chFinal' \in DBlocks
           /\ chInvalidations' \in 0 .. MaxInvalidations
           /\ head <= chHead'
<1> USE DownloaderAssumption, InvalidationAssumption
<1>1. /\ ch.head \in DBlocks /\ ch.finalized \in DBlocks
      /\ ~chStarted => ch.kind = "Initialize"
      /\ chStarted => ch.head >= chHead
      /\ ch.kind = "Invalidate" => chInvalidations < MaxInvalidations
  BY OfferFacts
<1>2. chInvalidations' \in 0 .. MaxInvalidations
  <2>1. chInvalidations \in 0 .. MaxInvalidations
    BY DEF DInv, DTypeOK
  <2> QED BY <1>1, <2>1 DEF ChainAfter
<1>3. head <= chHead'
  <2>1. chHead' = ch.head
    BY DEF ChainAfter
  <2>2. head \in Nat /\ chHead \in Nat /\ head <= chHead
    BY DEF DInv, DTypeOK, DBlocks
  <2>3. CASE chStarted
    <3>1. ch.head >= chHead
      BY <1>1, <2>3
    <3> QED BY <1>1, <2>1, <2>2, <3>1 DEF DBlocks
  <2>4. CASE ~chStarted
    <3>1. head = 0
      BY <2>4 DEF DInv
    <3> QED BY <1>1, <2>1, <3>1 DEF DBlocks
  <2> QED BY <2>3, <2>4
<1> QED BY <1>1, <1>2, <1>3 DEF ChainAfter

LEMMA InitializeKeeps ==
    ASSUME DInv, NEW ch \in ChainOffers, HandleInitialize(ch), ChainAfter(ch)
    PROVE  DInv'
<1> USE DownloaderAssumption
<1>1. /\ chStarted' /\ chHead' = ch.head /\ chHead' \in DBlocks
      /\ chFinal' \in DBlocks /\ chInvalidations' \in 0 .. MaxInvalidations
      /\ head <= chHead'
      /\ ch.head \in DBlocks /\ ch.finalized \in DBlocks
  BY ChainAfterFacts, OfferFacts
<1>2. dPhase = "init" /\ ingestedLog = <<>> /\ fetch = NoFetch
      /\ current = FirstBlock
  BY DEF DInv, HandleInitialize
<1>3. CASE ch.kind = "Initialize" /\ ch.finalized >= FirstBlock
  <2>1. /\ head' = ch.head /\ pending' = ch.finalized /\ dPhase' = "announce"
        /\ fetch' = IF FirstBlock < ch.head THEN FirstBlock ELSE NoFetch
        /\ isDownloading' = (FirstBlock < ch.head)
        /\ UNCHANGED <<current, staged, events, evRxOpen, ingestedLog>>
    BY <1>3 DEF HandleInitialize
  <2>2. DTypeOK'
    BY <1>1, <1>2, <2>1 DEF DInv, DTypeOK, DPhases, NoFetch, DBlocks
  <2>3. fetch' # NoFetch => fetch' = current' /\ current' <= head'
    BY <1>1, <1>2, <2>1 DEF NoFetch, DBlocks
  <2>4. IngestedIncreasing'
    BY <1>2, <2>1 DEF IngestedIncreasing
  <2>5. head' <= chHead'
    BY <1>1, <2>1 DEF DBlocks
  <2> QED BY <1>1, <1>2, <2>1, <2>2, <2>3, <2>4, <2>5 DEF DInv
<1>4. CASE ~(ch.kind = "Initialize" /\ ch.finalized >= FirstBlock)
  <2>1. /\ dPhase' = "error"
        /\ UNCHANGED <<head, pending, isDownloading, fetch, current, staged,
                       events, evRxOpen, ingestedLog>>
    BY <1>4 DEF HandleInitialize
  <2>2. DTypeOK'
    BY <1>1, <2>1 DEF DInv, DTypeOK, DPhases
  <2> QED BY <1>1, <1>2, <2>1, <2>2 DEF DInv, IngestedIncreasing
<1> QED BY <1>3, <1>4
LEMMA ChainChangeKeeps ==
    ASSUME DInv, NEW ch \in ChainOffers, HandleChainChange(ch), ChainAfter(ch)
    PROVE  DInv'
<1> USE DownloaderAssumption
<1>1. /\ chStarted' /\ chHead' = ch.head /\ chHead' \in DBlocks
      /\ chFinal' \in DBlocks /\ chInvalidations' \in 0 .. MaxInvalidations
      /\ head <= chHead'
      /\ ch.head \in DBlocks /\ ch.finalized \in DBlocks
  BY ChainAfterFacts, OfferFacts
<1>2. dPhase = "loop" /\ UNCHANGED <<staged, events, evRxOpen, ingestedLog>>
  BY DEF HandleChainChange
<1>3. /\ head \in DBlocks /\ current \in DBlocks
      /\ \A i \in 1 .. Len(ingestedLog) : ingestedLog[i] <= current
      /\ fetch # NoFetch => fetch = current /\ current <= head
  BY DEF DInv, DTypeOK
<1>9. ASSUME UNCHANGED <<current, fetch>>,
             dPhase' \notin {"init", "sendIngested"}
      PROVE  /\ \A i \in 1 .. Len(ingestedLog') : ingestedLog'[i] <= current'
             /\ (fetch' # NoFetch \/ dPhase' = "sendIngested") =>
                    \A i \in 1 .. Len(ingestedLog') : ingestedLog'[i] < current'
             /\ IngestedIncreasing'
  BY <1>2, <1>9 DEF DInv, IngestedIncreasing
<1>4. CASE ch.kind = "NewHead" /\ ~isDownloading /\ current < ch.head
  <2>1. /\ head' = ch.head /\ current' = current + 1 /\ fetch' = current + 1
        /\ isDownloading' = TRUE /\ UNCHANGED <<dPhase, pending>>
    BY <1>4 DEF HandleChainChange, RestartBlock
  <2>2. current + 1 \in DBlocks /\ current + 1 <= ch.head
    BY <1>1, <1>3, <1>4 DEF DBlocks
  <2>3. DTypeOK'
    BY <1>1, <1>2, <2>1, <2>2 DEF DInv, DTypeOK
  <2>4. \A i \in 1 .. Len(ingestedLog') : ingestedLog'[i] < current'
    <3> TAKE i \in 1 .. Len(ingestedLog')
    <3>1. ingestedLog[i] \in DBlocks /\ ingestedLog[i] <= current
      BY <1>2, <1>3 DEF DInv, DTypeOK
    <3> QED BY <1>2, <1>3, <2>1, <3>1 DEF DBlocks
  <2>5. fetch' # NoFetch /\ fetch' = current' /\ current' <= head'
    BY <2>1, <2>2 DEF NoFetch, DBlocks
  <2>6. \A i \in 1 .. Len(ingestedLog') : ingestedLog'[i] <= current'
    <3> TAKE i \in 1 .. Len(ingestedLog')
    <3>1. ingestedLog'[i] \in DBlocks /\ current' \in DBlocks
      BY <1>2, <2>2, <2>1 DEF DInv, DTypeOK
    <3> QED BY <2>4, <3>1 DEF DBlocks
  <2>7. IngestedIncreasing'
    BY <1>2 DEF DInv, IngestedIncreasing
  <2>8. head' <= chHead' /\ dPhase' = "loop"
    BY <1>1, <1>2, <2>1 DEF DBlocks
  <2> QED BY <1>1, <2>1, <2>3, <2>4, <2>5, <2>6, <2>7, <2>8 DEF DInv
<1>5. CASE ch.kind = "NewHead" /\ ~(~isDownloading /\ current < ch.head)
  <2>1. head' = ch.head /\ UNCHANGED <<current, fetch, isDownloading, dPhase,
                                       pending>>
    BY <1>5 DEF HandleChainChange
  <2>2. head <= ch.head
    BY <1>1
  <2>3. DTypeOK'
    BY <1>1, <1>2, <2>1 DEF DInv, DTypeOK
  <2>4. fetch' # NoFetch => fetch' = current' /\ current' <= head'
    BY <1>1, <1>3, <2>1, <2>2 DEF DBlocks
  <2>5. dPhase' \notin {"init", "sendIngested"}
    BY <1>2, <2>1
  <2>6. head' <= chHead'
    BY <1>1, <2>1 DEF DBlocks
  <2> QED BY <1>1, <1>2, <1>9, <2>1, <2>3, <2>4, <2>5, <2>6 DEF DInv
<1>6. CASE ch.kind = "NewFinalized"
  <2>1. pending' = ch.finalized /\ dPhase' = "sendFinalized"
        /\ UNCHANGED <<head, current, fetch, isDownloading>>
    BY <1>6 DEF HandleChainChange
  <2>2. DTypeOK'
    BY <1>1, <1>2, <2>1 DEF DInv, DTypeOK, DPhases
  <2> QED BY <1>1, <1>2, <1>9, <2>1, <2>2 DEF DInv
<1>7. CASE ch.kind = "Invalidate"
  <2>1. dPhase' = "sendInvalidate"
        /\ UNCHANGED <<head, current, fetch, isDownloading, pending>>
    BY <1>7 DEF HandleChainChange
  <2>2. DTypeOK'
    BY <1>1, <1>2, <2>1 DEF DInv, DTypeOK, DPhases
  <2> QED BY <1>1, <1>2, <1>9, <2>1, <2>2 DEF DInv
<1>8. ch.kind \in {"NewHead", "NewFinalized", "Invalidate"}
  BY DEF HandleChainChange
<1> QED BY <1>4, <1>5, <1>6, <1>7, <1>8
(* The consumer takes an event or drops the receiver. *)
LEMMA ConsumerKeeps ==
    ASSUME DInv, ConsumeEvent \/ DropEventReceiver, UNCHANGED chVars
    PROVE  DInv'
<1>1. CASE ConsumeEvent
  <2>1. events' \in Seq(BlockEvents) /\ Len(events') <= EvCap
    BY <1>1, DownloaderAssumption DEF DInv, DTypeOK, ConsumeEvent
  <2> QED BY <1>1, <2>1 DEF DInv, DTypeOK, ConsumeEvent, chVars,
                           IngestedIncreasing
<1>2. CASE DropEventReceiver
  BY <1>2 DEF DInv, DTypeOK, DropEventReceiver, chVars, IngestedIncreasing
<1> QED BY <1>1, <1>2

(* Every step of DownloaderSpec keeps the invariant. *)
LEMMA DInvStep == DInv /\ [Next]_vars => DInv'
<1> SUFFICES ASSUME DInv, [Next]_vars PROVE DInv'
  OBVIOUS
<1>1. CASE ReceiveChange
  <2> PICK ch \in ChainOffers :
          /\ HandleInitialize(ch) \/ HandleChainChange(ch)
          /\ ChainAfter(ch)
    BY <1>1 DEF ReceiveChange
  <2> QED BY InitializeKeeps, ChainChangeKeeps
<1>2. CASE ChainEnded /\ UNCHANGED chVars
  BY <1>2, ChainEndedKeeps
<1>3. CASE DownloaderStep /\ UNCHANGED chVars
  BY <1>3, AnnounceKeeps, CancelledKeeps, FetchSucceedsKeeps,
     FetchFailsKeeps, SendIngestedKeeps, SendForwardedKeeps
     DEF DownloaderStep
<1>4. CASE (ConsumeEvent \/ DropEventReceiver) /\ UNCHANGED chVars
  BY <1>4, ConsumerKeeps
<1>5. CASE DExit \/ UNCHANGED vars
  BY <1>5 DEF DExit, vars, dVars, chVars, DInv, DTypeOK, IngestedIncreasing
<1> QED BY <1>1, <1>2, <1>3, <1>4, <1>5 DEF Next

-----------------------------------------------------------------------------
(* The download loop's state is always well typed and the BlockEvent      *)
(* channel never holds more than its capacity: every send waits for room. *)
THEOREM DownloaderTypeCorrect == Spec => []DTypeOK
<1>1. Init => DInv
  BY DInvInit
<1>2. DInv /\ [Next]_vars => DInv'
  BY DInvStep
<1>3. DInv => DTypeOK
  BY DEF DInv
<1> QED BY <1>1, <1>2, <1>3, PTL DEF Spec

(* The initial download, the continuation after Ingested and the restart  *)
(* on NewHead never ask download_block for a block above the known head.  *)
THEOREM FetchesWithinHead == Spec => []NeverFetchesBeyondHead
<1>1. Init => DInv
  BY DInvInit
<1>2. DInv /\ [Next]_vars => DInv'
  BY DInvStep
<1>3. DInv => NeverFetchesBeyondHead
  BY DEF DInv, NeverFetchesBeyondHead
<1> QED BY <1>1, <1>2, <1>3, PTL DEF Spec

(* Spec 5: the Ingested events the loop sends have strictly increasing    *)
(* block numbers, whatever the interleaving of NewHead and completions.   *)
THEOREM IngestedInOrder == Spec => []IngestedIncreasing
<1>1. Init => DInv
  BY DInvInit
<1>2. DInv /\ [Next]_vars => DInv'
  BY DInvStep
<1>3. DInv => IngestedIncreasing
  BY DEF DInv
<1> QED BY <1>1, <1>2, <1>3, PTL DEF Spec
=============================================================================
