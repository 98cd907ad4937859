--------------------------- MODULE PipelineProofs ---------------------------
(***************************************************************************)
(* Proofs about module Pipeline: the composition of the block downloader  *)
(* and the segmenter over the BlockEvent channel, for every segment and   *)
(* group size and block range that Segmenter's assumptions allow, and     *)
(* every channel capacity and number of invalidations.                    *)
(***************************************************************************)
EXTENDS Pipeline, DownloaderProofs, SequenceTheorems, TLAPS

(* Every Ingested event of a channel carries a block of T. *)
IngestedIn(es, T) ==
    \A i \in 1 .. Len(es) : es[i].kind = "Ingested" => es[i].cursor \in T

(***************************************************************************)
(* The inductive invariant for BufferedBlocksStaged.  A cursor reaches the *)
(* segmenter's buffer only through an Ingested event; an Ingested event is *)
(* only sent for the block the downloader holds after download_block      *)
(* returned, its file then written; no step deletes a staged file; and    *)
(* the seal keeps part of the buffer.  The block numbers are naturals, so *)
(* that the seal's split index is one.                                    *)
(***************************************************************************)
StagedInv ==
    /\ events \in Seq(BlockEvents)
    /\ staged \subseteq Nat
    /\ {pending, current, fetch, chHead, chFinal} \subseteq Nat
    /\ dPhase = "sendIngested" => pending \in staged
    /\ IngestedIn(events, staged)
    /\ cursors \in Seq(staged)

-----------------------------------------------------------------------------
(* The cursors the seal keeps, and those it takes, are some of those it   *)
(* had: the two parts of the buffer before and from SplitIndex.           *)
LEMMA KeepWithin ==
    ASSUME NEW T \in SUBSET Nat, NEW cs \in Seq(T), NEW b \in Int
    PROVE  /\ S!CursorsToKeep(cs, b) \in Seq(T)
           /\ S!CursorsToSegment(cs, b) \in Seq(T)
<1>1. S!SplitIndex(cs, b) \in 0 .. Len(cs)
  <2>1. cs # << >> => 1 \in 1 .. Len(cs)
    BY EmptySeq
  <2>2. cs # << >> => cs[1] \in Nat
    BY <2>1, ElementOfSeq
  <2>. QED  BY <2>2 DEF S!SplitIndex
<1>2. \A i \in S!SplitIndex(cs, b) + 1 .. Len(cs) : cs[i] \in T
  BY <1>1
<1>3. \A i \in 1 .. S!SplitIndex(cs, b) : cs[i] \in T
  BY <1>1
<1>. QED  BY <1>1, <1>2, <1>3, SubSeqProperties
          DEF S!CursorsToKeep, S!CursorsToSegment

(* A send onto the channel keeps it typed and its Ingested events staged, *)
(* when the event it sends is not Ingested or carries a staged block.     *)
LEMMA SendKeeps ==
    ASSUME NEW es \in Seq(BlockEvents), NEW T, NEW U, T \subseteq U,
           IngestedIn(es, T), NEW e \in BlockEvents,
           e.kind = "Ingested" => e.cursor \in U
    PROVE  /\ Append(es, e) \in Seq(BlockEvents)
           /\ IngestedIn(Append(es, e), U)
BY AppendProperties DEF IngestedIn

(* The segmenter's read takes the head off the channel. *)
LEMMA ReadKeeps ==
    ASSUME NEW es \in Seq(BlockEvents), es # << >>, NEW T,
           IngestedIn(es, T)
    PROVE  /\ Head(es) \in BlockEvents
           /\ Head(es).kind = "Ingested" => Head(es).cursor \in T
           /\ Tail(es) \in Seq(BlockEvents)
           /\ IngestedIn(Tail(es), T)
<1>1. Head(es) = es[1] /\ 1 \in 1 .. Len(es)
  BY EmptySeq
<1>. QED  BY <1>1, HeadTailProperties DEF IngestedIn

(* The initial state satisfies the invariant. *)
LEMMA StagedInvInit == PInit => StagedInv
<1> SUFFICES ASSUME PInit PROVE StagedInv
  OBVIOUS
<1> USE DownloaderAssumption
<1>. QED  BY EmptySeq DEF PInit, Init, S!SegInit, Init, DInit, StagedInv,
                          IngestedIn, NoFetch

(***************************************************************************)
(* The downloader's steps: a chain change read, the chain's end, the      *)
(* cancelled loop and the work of the loop.  The buffer is untouched.     *)
(***************************************************************************)
LEMMA ChainOfferNat ==
    ASSUME StagedInv, NEW ch \in ChainOffers
    PROVE  ch.head \in Nat /\ ch.finalized \in Nat
<1> USE PipelineAssumption, DownloaderAssumption
<1>1. CASE ~chStarted
  BY <1>1 DEF ChainOffers, CC, DBlocks
<1>2. CASE chStarted
  <2>1. chHead \in Nat /\ chFinal \in Nat
    BY DEF StagedInv
  <2>. QED  BY <1>2, <2>1 DEF ChainOffers, CC
<1>. QED  BY <1>1, <1>2

LEMMA ReceivesKeeps ==
    ASSUME StagedInv, DownloaderReceives
    PROVE  StagedInv'
<1> USE PipelineAssumption, DownloaderAssumption
<1>1. PICK ch \in ChainOffers :
          /\ HandleInitialize(ch) \/ HandleChainChange(ch)
          /\ ChainAfter(ch)
  BY DEF DownloaderReceives, ReceiveChange
<1>2. ch.head \in Nat /\ ch.finalized \in Nat
  BY ChainOfferNat
<1>3. UNCHANGED <<cursors, staged, events>>
  BY <1>1 DEF DownloaderReceives, segVars, HandleInitialize,
              HandleChainChange
<1>4. {pending', current', fetch', chHead', chFinal'} \subseteq Nat
  BY <1>1, <1>2 DEF StagedInv, HandleInitialize, HandleChainChange,
                   ChainAfter, NoFetch, RestartBlock
<1>5. dPhase' # "sendIngested"
  BY <1>1 DEF StagedInv, HandleInitialize, HandleChainChange
<1>. QED  BY <1>3, <1>4, <1>5 DEF StagedInv

LEMMA DownloaderStopsKeeps ==
    ASSUME StagedInv, DownloaderChainEnds \/ DownloaderCancelled
    PROVE  StagedInv'
BY DEF StagedInv, IngestedIn, DownloaderChainEnds, DownloaderCancelled,
       ChainEnded, DCancelled, chVars, segVars

LEMMA WorksKeeps ==
    ASSUME StagedInv, DownloaderWorks
    PROVE  StagedInv'
<1> USE PipelineAssumption, DownloaderAssumption
<1>1. UNCHANGED <<cursors, chHead, chFinal>>
  BY DEF DownloaderWorks, segVars, chVars
<1>2. CASE AnnounceStarted
  <2>1. /\ events' \in Seq(BlockEvents)
        /\ IngestedIn(events', staged')
    <3>1. CASE evRxOpen
      <4>1. BEv("Started", pending) \in BlockEvents
        BY DEF StagedInv, BEv, BlockEvents, BlockEventKinds
      <4>. QED  BY <1>2, <3>1, <4>1, SendKeeps DEF StagedInv, AnnounceStarted, BEv
    <3>2. CASE ~evRxOpen
      BY <1>2, <3>2 DEF StagedInv, AnnounceStarted
    <3>. QED  BY <3>1, <3>2
  <2>. QED  BY <1>1, <1>2, <2>1 DEF StagedInv, AnnounceStarted
<1>3. CASE FetchSucceeds
  <2>1. staged \subseteq staged' /\ pending' \in staged' /\ staged' \subseteq Nat
    BY <1>3 DEF StagedInv, FetchSucceeds, StagedWith
  <2>2. IngestedIn(events', staged') /\ cursors' \in Seq(staged')
    BY <1>1, <1>3, <2>1, SeqMonotonic DEF StagedInv, FetchSucceeds, IngestedIn
  <2>. QED  BY <1>1, <1>3, <2>1, <2>2 DEF StagedInv, FetchSucceeds, NoFetch
<1>4. CASE FetchFails
  <2>1. staged \subseteq staged' /\ staged' \subseteq Nat
    BY <1>4 DEF StagedInv, FetchFails, StagedWith
  <2>2. IngestedIn(events', staged') /\ cursors' \in Seq(staged')
    BY <1>1, <1>4, <2>1, SeqMonotonic DEF StagedInv, FetchFails, IngestedIn
  <2>. QED  BY <1>1, <1>4, <2>1, <2>2 DEF StagedInv, FetchFails, NoFetch
<1>5. CASE SendIngested
  <2>1. /\ events' \in Seq(BlockEvents)
        /\ IngestedIn(events', staged')
    <3>1. CASE evRxOpen
      <4>1. BEv("Ingested", pending) \in BlockEvents
            /\ pending \in staged
        BY <1>5 DEF StagedInv, BEv, BlockEvents, BlockEventKinds,
                   SendIngested
      <4>. QED  BY <1>5, <3>1, <4>1, SendKeeps DEF StagedInv, SendIngested, BEv
    <3>2. CASE ~evRxOpen
      BY <1>5, <3>2 DEF StagedInv, SendIngested
    <3>. QED  BY <3>1, <3>2
  <2>2. {pending', current', fetch'} \subseteq Nat
    BY <1>5 DEF StagedInv, SendIngested, ContinueDownloading
  <2>. QED  BY <1>1, <1>5, <2>1, <2>2 DEF StagedInv, SendIngested
<1>6. CASE SendForwarded
  <2>1. /\ events' \in Seq(BlockEvents)
        /\ IngestedIn(events', staged')
    <3>1. CASE evRxOpen
      <4>1. /\ BEv("Finalized", pending) \in BlockEvents
            /\ BEv("Invalidate", 0) \in BlockEvents
        BY DEF StagedInv, BEv, BlockEvents, BlockEventKinds
      <4>. QED  BY <1>6, <3>1, <4>1, SendKeeps DEF StagedInv, SendForwarded, BEv
    <3>2. CASE ~evRxOpen
      BY <1>6, <3>2 DEF StagedInv, SendForwarded
    <3>. QED  BY <3>1, <3>2
  <2>. QED  BY <1>1, <1>6, <2>1 DEF StagedInv, SendForwarded
<1>. QED  BY <1>2, <1>3, <1>4, <1>5, <1>6 DEF DownloaderWorks

(***************************************************************************)
(* The segmenter's steps.  Only the read of an Ingested event adds to the *)
(* buffer, a cursor the channel guarantees staged; a seal keeps part of   *)
(* it.  The downloader's state is untouched.                               *)
(***************************************************************************)
LEMMA SegmenterReceivesKeeps ==
    ASSUME StagedInv, SegmenterReceives
    PROVE  StagedInv'
<1> DEFINE e == Head(events)
<1>1. /\ events # << >> /\ events' = Tail(events)
      /\ UNCHANGED <<dOwnVars, chVars>>
  BY DEF SegmenterReceives
<1>2. /\ e \in BlockEvents
      /\ e.kind = "Ingested" => e.cursor \in staged
      /\ Tail(events) \in Seq(BlockEvents)
      /\ IngestedIn(Tail(events), staged)
  BY <1>1, ReadKeeps DEF StagedInv
<1>3. cursors' \in Seq(staged)
  <2>1. CASE S!HandleFirst(e) \/ S!HandleFinalized(e) \/ S!HandleOther(e)
    BY <2>1 DEF StagedInv, S!HandleFirst, S!HandleFinalized, S!HandleOther
  <2>2. CASE S!HandleIngested(e)
    <3>1. e.cursor \in staged /\ cursors \in Seq(staged)
      BY <1>2, <2>2 DEF S!HandleIngested, StagedInv
    <3>2. << e.cursor >> \in Seq(staged) /\ Append(cursors, e.cursor) \in Seq(staged)
      BY <3>1, AppendProperties, EmptySeq
    <3>. QED  BY <2>2, <3>2 DEF S!HandleIngested
  <2>. QED  BY <2>1, <2>2 DEF SegmenterReceives, S!HandleEvent
<1>. QED  BY <1>1, <1>2, <1>3 DEF StagedInv, dOwnVars, chVars

LEMMA SegmenterWorksKeeps ==
    ASSUME StagedInv, SegmenterWorks
    PROVE  StagedInv'
<1> USE PipelineAssumption, DownloaderAssumption
<1>1. UNCHANGED <<dOwnVars, events, chVars>>
  BY DEF SegmenterWorks
<1>2. cursors' \in Seq(staged)
  <2>1. CASE S!NothingToSeal \/ S!NotifyStateChanged
    BY <2>1 DEF StagedInv, S!NothingToSeal, S!NotifyStateChanged
  <2>2. CASE S!WriteSegment \/ S!SealFails
    <3>1. S!SealReady /\ cursors' \in {<< >>, S!ToKeep}
      BY <2>2 DEF S!WriteSegment, S!SealFails
    <3>2. cursors \in Seq(staged) /\ staged \subseteq Nat
      BY DEF StagedInv
    <3>3. SegmentSize \in 1 .. Len(cursors)
      BY <3>1, <3>2 DEF S!SealReady
    <3>4. cursors[SegmentSize] \in Nat
      BY <3>2, <3>3, ElementOfSeq
    <3>5. S!NextSegmentStart \in Int
      BY <3>4 DEF S!NextSegmentStart, S!SegmentStart
    <3>6. S!ToKeep \in Seq(staged)
      BY <3>2, <3>5, KeepWithin DEF S!ToKeep
    <3>. QED  BY <3>1, <3>6, EmptySeq
  <2>. QED  BY <2>1, <2>2 DEF SegmenterWorks
<1>. QED  BY <1>1, <1>2 DEF StagedInv, IngestedIn, dOwnVars, chVars

LEMMA OtherStepsKeep ==
    ASSUME StagedInv,
           \/ SegmenterInputEnds \/ SegmenterCancelled
           \/ ServerConsumes \/ ServerDrops \/ Cancel \/ Stopped
           \/ UNCHANGED pvars
    PROVE  StagedInv'
<1>1. UNCHANGED <<dOwnVars, events, chVars, cursors>>
  <2>1. CASE SegmenterInputEnds \/ SegmenterCancelled
    BY <2>1 DEF SegmenterInputEnds, SegmenterCancelled, S!InputEnded,
                S!Cancelled
  <2>2. CASE ServerConsumes \/ ServerDrops \/ Cancel
    BY <2>2 DEF ServerConsumes, ServerDrops, Cancel, dVars, dOwnVars, segVars
  <2>3. CASE Stopped \/ UNCHANGED pvars
    BY <2>3 DEF Stopped, pvars, dVars, dOwnVars, segVars
  <2>. QED  BY <2>1, <2>2, <2>3
<1>. QED  BY <1>1 DEF StagedInv, IngestedIn, dOwnVars, chVars

LEMMA StagedInvStep == StagedInv /\ [PNext]_pvars => StagedInv'
<1> SUFFICES ASSUME StagedInv, [PNext]_pvars PROVE StagedInv'
  OBVIOUS
<1>. QED  BY ReceivesKeeps, DownloaderStopsKeeps, WorksKeeps,
             SegmenterReceivesKeeps, SegmenterWorksKeeps, OtherStepsKeep
          DEF PNext

(***************************************************************************)
(* For every segment size, block range and channel capacity: every cursor *)
(* the segmenter has buffered has its staged block file, because          *)
(* download_block writes blocks/{n}-{hash} before the downloader sends    *)
(* Ingested(n), the channel delivers in order, nothing deletes a staged   *)
(* file, and the seal only takes cursors out of the buffer.               *)
(***************************************************************************)
THEOREM BufferedStaged == PSpec => []BufferedBlocksStaged
<1>1. StagedInv => BufferedBlocksStaged
  BY ElementOfSeq DEF StagedInv, BufferedBlocksStaged
<1>. QED  BY <1>1, StagedInvInit, StagedInvStep, PTL DEF PSpec

-----------------------------------------------------------------------------
(***************************************************************************)
(* The inductive invariant for PTypeOK.  The downloader's part is the     *)
(* invariant DInv of DownloaderProofs, which the pipeline keeps because   *)
(* its only new step on the downloader's state is the segmenter's read    *)
(* and its drop of the receiver.  The segmenter's types need the blocks   *)
(* the channel carries to be blocks of the range, and the buffer's to be  *)
(* staged ones.                                                            *)
(***************************************************************************)
EventsInBlocks == \A i \in 1 .. Len(events) : events[i].cursor \in DBlocks

SegTyped ==
    /\ phase \in S!Phases
    /\ finalized \in S!Blocks
    /\ segOpen \in BOOLEAN
    /\ snapshot \in S!Snapshots
    /\ store \in [S!Blocks -> Seq(S!Blocks)]
    /\ out \in Seq(S!Changes)
    /\ Len(out) <= OutCap
    /\ rxOpen \in BOOLEAN
    /\ cancelled \in BOOLEAN

PInv == DInv /\ StagedInv /\ EventsInBlocks /\ SegTyped

(* segment_start(n) is at most n. *)
LEMMA SegmentStartIn ==
    ASSUME NEW n \in Nat
    PROVE  S!SegmentStart(n) \in 0 .. n
<1>1. n % SegmentSize \in 0 .. n
  BY PipelineAssumption
<1>. QED  BY <1>1 DEF S!SegmentStart

(* A successful SnapshotChange send keeps the channel within capacity. *)
LEMMA SendTyped ==
    ASSUME NEW m \in S!Changes, out \in Seq(S!Changes), Len(out) <= OutCap,
           S!CanSend, S!Sent(m)
    PROVE  /\ out' \in Seq(S!Changes)
           /\ Len(out') <= OutCap
           /\ rxOpen' = rxOpen
<1>1. rxOpen /\ Len(out) < OutCap /\ out' = Append(out, m) /\ rxOpen' = rxOpen
  BY DEF S!CanSend, S!Sent
<1>2. Append(out, m) \in Seq(S!Changes) /\ Len(Append(out, m)) = Len(out) + 1
  BY AppendProperties
<1>. QED  BY <1>1, <1>2, PipelineAssumption

(***************************************************************************)
(* The segmenter's side of the event channel keeps DInv: it takes the     *)
(* head of the channel or leaves it, and drops the receiver or keeps it.  *)
(***************************************************************************)
LEMMA ReaderKeepsDInv ==
    ASSUME DInv, UNCHANGED <<dOwnVars, chVars>>, evRxOpen' \in BOOLEAN,
           \/ events' = events
           \/ events # << >> /\ events' = Tail(events)
    PROVE  DInv'
<1>1. events' \in Seq(BlockEvents) /\ Len(events') <= EvCap
  <2>1. events \in Seq(BlockEvents) /\ Len(events) <= EvCap
    BY DEF DInv, DTypeOK
  <2>2. CASE events' = events
    BY <2>1, <2>2
  <2>3. CASE events # << >> /\ events' = Tail(events)
    BY <2>1, <2>3, HeadTailProperties, LenProperties, DownloaderAssumption
  <2>. QED  BY <2>2, <2>3
<1>. QED  BY <1>1 DEF DInv, DTypeOK, dOwnVars, chVars, IngestedIncreasing

LEMMA PInvInit == PInit => PInv
<1> SUFFICES ASSUME PInit PROVE PInv
  OBVIOUS
<1> USE DownloaderAssumption
<1>1. DInv
  BY DInvInit DEF PInit
<1>2. StagedInv
  BY StagedInvInit
<1>3. SegTyped
  <2>1. << >> \in Seq(S!Blocks) /\ << >> \in Seq(S!Changes)
    BY EmptySeq
  <2>2. 0 \in S!Blocks /\ S!StartingSnapshot \in S!Snapshots
    BY DEF S!Blocks, S!StartingSnapshot, S!Snapshots
  <2>. QED  BY <2>1, <2>2, PipelineAssumption
            DEF PInit, S!SegInit, SegTyped, S!Phases
<1>. QED  BY <1>1, <1>2, <1>3 DEF PInit, Init, DInit, PInv, EventsInBlocks

(* A send of the downloader keeps the channel's blocks in range. *)
LEMMA AppendInBlocks ==
    ASSUME NEW es \in Seq(BlockEvents),
           \A i \in 1 .. Len(es) : es[i].cursor \in DBlocks,
           NEW k \in BlockEventKinds, NEW c \in DBlocks
    PROVE  \A i \in 1 .. Len(Append(es, BEv(k, c))) :
               Append(es, BEv(k, c))[i].cursor \in DBlocks
<1>1. BEv(k, c) \in BlockEvents
  BY DEF BEv, BlockEvents, DBlocks
<1>. QED  BY <1>1, AppendProperties DEF BEv

(* The downloader's steps keep the invariant; the segmenter is untouched. *)
LEMMA DownloaderSideKeeps ==
    ASSUME PInv,
           \/ DownloaderReceives \/ DownloaderChainEnds
           \/ DownloaderCancelled \/ DownloaderWorks
    PROVE  PInv'
<1>1. StagedInv'
  BY ReceivesKeeps, DownloaderStopsKeeps, WorksKeeps DEF PInv
<1>2. DInv'
  <2>1. CASE DownloaderReceives
    <3>1. PICK ch \in ChainOffers :
              /\ HandleInitialize(ch) \/ HandleChainChange(ch)
              /\ ChainAfter(ch)
      BY <2>1 DEF DownloaderReceives, ReceiveChange
    <3>. QED  BY <3>1, InitializeKeeps, ChainChangeKeeps DEF PInv
  <2>2. CASE DownloaderChainEnds
    BY <2>2, ChainEndedKeeps DEF PInv, DownloaderChainEnds
  <2>3. CASE DownloaderCancelled
    BY <2>3, CancelledKeeps DEF PInv, DownloaderCancelled
  <2>4. CASE DownloaderWorks
    BY <2>4, AnnounceKeeps, FetchSucceedsKeeps, FetchFailsKeeps,
       SendIngestedKeeps, SendForwardedKeeps DEF PInv, DownloaderWorks
  <2>. QED  BY <2>1, <2>2, <2>3, <2>4
<1>3. SegTyped'
  BY DEF PInv, SegTyped, segVars, outVars, DownloaderReceives,
         DownloaderChainEnds, DownloaderCancelled, DownloaderWorks
<1>4. EventsInBlocks'
  <2>1. /\ events \in Seq(BlockEvents)
        /\ \A i \in 1 .. Len(events) : events[i].cursor \in DBlocks
        /\ pending \in DBlocks /\ 0 \in DBlocks
    BY DownloaderAssumption DEF PInv, DInv, DTypeOK, EventsInBlocks, DBlocks
  <2>2. \/ events' = events
        \/ \E k \in BlockEventKinds, c \in DBlocks :
               events' = Append(events, BEv(k, c))
    <3>1. CASE DownloaderReceives \/ DownloaderChainEnds \/ DownloaderCancelled
      BY <3>1 DEF DownloaderReceives, ReceiveChange, HandleInitialize,
                  HandleChainChange, DownloaderChainEnds, ChainEnded,
                  DownloaderCancelled, DCancelled
    <3>2. CASE DownloaderWorks
      BY <2>1, <3>2 DEF DownloaderWorks, AnnounceStarted, FetchSucceeds,
                        FetchFails, SendIngested, SendForwarded,
                        BlockEventKinds
    <3>. QED  BY <3>1, <3>2
  <2>. QED  BY <2>1, <2>2, AppendInBlocks DEF EventsInBlocks
<1>. QED  BY <1>1, <1>2, <1>3, <1>4 DEF PInv

(***************************************************************************)
(* The segmenter's read of an event keeps its own types: the event is a  *)
(* block event of the range, and each send it makes has room.             *)
(***************************************************************************)
LEMMA ReceivesTyped ==
    ASSUME PInv, SegmenterReceives
    PROVE  SegTyped'
<1> DEFINE e == Head(events)
<1>1. /\ events # << >>
      /\ S!HandleEvent(e)
      /\ cancelled' = cancelled
  BY DEF SegmenterReceives
<1>2. /\ e.kind \in BlockEventKinds
      /\ e.cursor \in S!Blocks
  <2>1. events \in Seq(BlockEvents) /\ 1 \in 1 .. Len(events)
    BY <1>1, EmptySeq DEF PInv, DInv, DTypeOK
  <2>2. e = events[1] /\ events[1].cursor \in DBlocks
    BY <2>1 DEF PInv, EventsInBlocks
  <2>3. events[1] \in BlockEvents
    BY <2>1, ElementOfSeq
  <2>. QED  BY <2>2, <2>3 DEF BlockEvents, DBlocks, S!Blocks
<1>3. SegTyped
  BY DEF PInv
<1> USE DEF SegTyped
<1>4. CASE S!HandleFirst(e)
  <2>1. CASE e.kind = "Started" /\ rxOpen
    <3>1. S!Change("Started", 0, S!IngestionOf(snapshot)) \in S!Changes
      BY <1>3 DEF S!Change, S!Changes, S!ChangeKinds, S!IngestionOf,
                  S!Ingestion, S!Snapshots
    <3>. QED  BY <1>1, <1>2, <1>3, <1>4, <2>1, <3>1, SendTyped
              DEF S!HandleFirst, S!Phases
  <2>2. CASE ~(e.kind = "Started" /\ rxOpen)
    BY <1>1, <1>2, <1>3, <1>4, <2>2 DEF S!HandleFirst, S!Phases, S!chanVars
  <2>. QED  BY <2>1, <2>2
<1>5. CASE S!HandleIngested(e)
  <2>1. S!Change("BlockIngested", e.cursor, S!IngestionOf(snapshot))
          \in S!Changes
    BY <1>2, <1>3 DEF S!Change, S!Changes, S!ChangeKinds, S!IngestionOf,
                      S!Ingestion, S!Snapshots, S!Blocks
  <2>2. /\ out' \in Seq(S!Changes)
        /\ Len(out') <= OutCap
        /\ rxOpen' \in BOOLEAN
        /\ phase' \in S!Phases
    BY <1>3, <1>5, <2>1, SendTyped
       DEF S!HandleIngested, S!ReportIngested, S!chanVars, S!Phases
  <2>3. segOpen' \in BOOLEAN
    BY <1>3, <1>5 DEF S!HandleIngested
  <2>. QED  BY <1>1, <1>3, <1>5, <2>2, <2>3 DEF S!HandleIngested
<1>6. CASE S!HandleFinalized(e)
  BY <1>1, <1>2, <1>3, <1>6 DEF S!HandleFinalized, S!Phases, S!chanVars
<1>7. CASE S!HandleOther(e)
  BY <1>1, <1>3, <1>7 DEF S!HandleOther, S!Phases, S!chanVars
<1>. QED  BY <1>1, <1>4, <1>5, <1>6, <1>7 DEF S!HandleEvent

(* The buffered cursors are blocks of the range: they are staged ones. *)
LEMMA CursorsInBlocks ==
    ASSUME PInv
    PROVE  cursors \in Seq(S!Blocks)
<1>1. cursors \in Seq(staged) /\ staged \subseteq S!Blocks
  BY DEF PInv, StagedInv, DInv, DTypeOK, DBlocks, S!Blocks
<1>. QED  BY <1>1, SeqMonotonic

(* The seal loop's steps keep the segmenter's types. *)
LEMMA WorksTyped ==
    ASSUME PInv, SegmenterWorks
    PROVE  SegTyped'
<1>1. SegTyped /\ cancelled' = cancelled
  BY DEF PInv, SegmenterWorks
<1> USE DEF SegTyped
<1>2. CASE S!NothingToSeal
  BY <1>1, <1>2 DEF S!NothingToSeal, S!Phases, S!chanVars
<1>3. CASE S!NotifyStateChanged
  <2>1. S!Change("StateChanged", finalized, S!IngestionOf(snapshot))
          \in S!Changes
    BY <1>1 DEF S!Change, S!Changes, S!ChangeKinds, S!IngestionOf,
                S!Ingestion, S!Snapshots, S!Blocks
  <2>. QED  BY <1>1, <1>3, <2>1, SendTyped
            DEF S!NotifyStateChanged, S!Phases, S!chanVars
<1>4. CASE S!WriteSegment \/ S!SealFails
  <2>1. cursors \in Seq(S!Blocks) /\ S!SealReady
    BY <1>4, CursorsInBlocks DEF S!WriteSegment, S!SealFails
  <2>2. /\ 1 \in 1 .. Len(cursors) /\ SegmentSize \in 1 .. Len(cursors)
    BY <2>1, PipelineAssumption DEF S!SealReady
  <2>3. cursors[1] \in S!Blocks /\ cursors[SegmentSize] \in S!Blocks
    BY <2>1, <2>2, ElementOfSeq
  <2>4. S!SegmentStart(cursors[1]) \in S!Blocks
    BY <2>3, SegmentStartIn, DownloaderAssumption DEF S!Blocks
  <2>5. S!NextSegmentStart \in Int
    BY <2>3, SegmentStartIn, DownloaderAssumption
       DEF S!NextSegmentStart, S!Blocks
  <2>6. S!ToSegment \in Seq(S!Blocks)
    BY <2>1, <2>5, KeepWithin, DownloaderAssumption DEF S!ToSegment, S!Blocks
  <2>7. store' \in [S!Blocks -> Seq(S!Blocks)]
    BY <1>1, <1>4, <2>4, <2>6 DEF S!WriteSegment, S!SealFails
  <2>8. snapshot' \in S!Snapshots
    BY <1>1, <1>4 DEF S!WriteSegment, S!SealFails, S!SealedSnapshot, S!Snapshots
  <2>9. S!ClosesGroup \in BOOLEAN
    BY DEF S!ClosesGroup
  <2>. QED  BY <1>1, <1>4, <2>7, <2>8, <2>9
            DEF S!WriteSegment, S!SealFails, S!Phases, S!chanVars
<1>. QED  BY <1>2, <1>3, <1>4 DEF SegmenterWorks

(* The segmenter's steps keep the invariant. *)
LEMMA SegmenterSideKeeps ==
    ASSUME PInv,
           \/ SegmenterReceives \/ SegmenterWorks
           \/ SegmenterInputEnds \/ SegmenterCancelled
    PROVE  PInv'
<1>1. /\ UNCHANGED <<dOwnVars, chVars>>
      /\ evRxOpen' \in BOOLEAN
      /\ \/ events' = events
         \/ events # << >> /\ events' = Tail(events)
  BY DEF SegmenterReceives, SegmenterWorks, SegmenterInputEnds,
         SegmenterCancelled, EvReceiverAfter
<1>2. DInv'
  BY <1>1, ReaderKeepsDInv DEF PInv
<1>3. StagedInv'
  BY SegmenterReceivesKeeps, SegmenterWorksKeeps, OtherStepsKeep DEF PInv
<1>4. EventsInBlocks'
  <2>1. events \in Seq(BlockEvents)
    BY DEF PInv, DInv, DTypeOK
  <2>. QED  BY <1>1, <2>1, HeadTailProperties DEF PInv, EventsInBlocks
<1>5. SegTyped'
  <2>1. CASE SegmenterInputEnds \/ SegmenterCancelled
    BY <2>1 DEF PInv, SegTyped, SegmenterInputEnds, SegmenterCancelled,
                S!InputEnded, S!Cancelled, S!Phases, S!chanVars
  <2>. QED  BY <2>1, ReceivesTyped, WorksTyped
<1>. QED  BY <1>2, <1>3, <1>4, <1>5 DEF PInv

(* The server's steps, the cancellation and the stop keep the invariant. *)
LEMMA EnvironmentKeeps ==
    ASSUME PInv,
           \/ ServerConsumes \/ ServerDrops \/ Cancel \/ Stopped
           \/ UNCHANGED pvars
    PROVE  PInv'
<1>1. UNCHANGED <<dVars, chVars>>
  BY DEF ServerConsumes, ServerDrops, Cancel, Stopped, pvars
<1>2. DInv'
  BY <1>1 DEF PInv, DInv, DTypeOK, dVars, chVars, IngestedIncreasing
<1>3. StagedInv'
  BY OtherStepsKeep DEF PInv
<1>4. EventsInBlocks'
  BY <1>1 DEF PInv, EventsInBlocks, dVars
<1>5. SegTyped'
  <2>1. CASE ServerConsumes
    <3>1. Tail(out) \in Seq(S!Changes) /\ Len(Tail(out)) = Len(out) - 1
      BY <2>1, HeadTailProperties DEF ServerConsumes, S!ConsumeChange,
                                      PInv, SegTyped
    <3>2. out' = Tail(out) /\ UNCHANGED <<segVars, rxOpen, cancelled>>
      BY <2>1 DEF ServerConsumes, S!ConsumeChange
    <3>3. Len(out') <= OutCap
      BY <3>1, <3>2, PipelineAssumption DEF PInv, SegTyped
    <3>. QED  BY <3>1, <3>2, <3>3 DEF PInv, SegTyped, segVars
  <2>2. CASE ServerDrops \/ Cancel \/ Stopped \/ UNCHANGED pvars
    BY <2>2 DEF ServerDrops, S!DropReceiver, Cancel, Stopped, pvars, PInv,
                SegTyped, segVars, outVars
  <2>. QED  BY <2>1, <2>2
<1>. QED  BY <1>2, <1>3, <1>4, <1>5 DEF PInv

LEMMA PInvStep == PInv /\ [PNext]_pvars => PInv'
<1> SUFFICES ASSUME PInv, [PNext]_pvars PROVE PInv'
  OBVIOUS
<1>. QED  BY DownloaderSideKeeps, SegmenterSideKeeps, EnvironmentKeeps
          DEF PNext

(***************************************************************************)
(* For every segment and group size, block range, channel capacities and  *)
(* number of invalidations: the composed pipeline's state is well typed,  *)
(* both channels within their capacity included.  The downloader's part   *)
(* rests on DownloaderProofs' invariant, which the segmenter's read and   *)
(* its drop of the receiver keep; the segmenter's on the channel carrying *)
(* only blocks of the range, and the buffer holding staged ones.          *)
(***************************************************************************)
THEOREM PipelineTypeCorrect == PSpec => []PTypeOK
<1>1. PInv => PTypeOK
  BY CursorsInBlocks DEF PInv, DInv, SegTyped, PTypeOK, DBlocks, S!Blocks
<1>. QED  BY <1>1, PInvInit, PInvStep, PTL DEF PSpec
=============================================================================
