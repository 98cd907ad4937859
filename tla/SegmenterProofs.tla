-------------------------- MODULE SegmenterProofs --------------------------
(***************************************************************************)
(* Proofs about the standalone segmenter (module SegmenterSpec), for every *)
(* segment size, group size, first block, block bound and channel          *)
(* capacity that the assumptions of module Segmenter allow.                *)
(***************************************************************************)
EXTENDS SegmenterSpec, SequenceTheorems, FiniteSetTheorems, TLAPS

(* segment_start(n) is a segment boundary at or below n. *)
LEMMA SegmentStartBounds ==
    ASSUME NEW n \in Nat
    PROVE  /\ SegmentStart(n) \in 0 .. n
           /\ SegmentStart(n) % SegmentSize = 0
           /\ n - SegmentStart(n) < SegmentSize
<1>. DEFINE r == n % SegmentSize
<1>1. r \in 0 .. SegmentSize - 1
  BY SizeAssumption
<1>2. r <= n
  <2>1. CASE n < SegmentSize
    BY <2>1, SizeAssumption
  <2>2. CASE n >= SegmentSize
    BY <1>1, <2>2, SizeAssumption
  <2>. QED  BY <2>1, <2>2, SizeAssumption
<1>3. n - r = SegmentSize * (n \div SegmentSize)
  BY SizeAssumption
<1>4. (SegmentSize * (n \div SegmentSize)) % SegmentSize = 0
  BY SizeAssumption
<1>5. SegmentStart(n) = n - r
  BY DEF SegmentStart
<1>. QED  BY <1>1, <1>2, <1>3, <1>4, <1>5, SizeAssumption

(* One segment further on, segment_start moves by exactly one segment. *)
LEMMA SegmentStartShift ==
    ASSUME NEW n \in Nat
    PROVE  SegmentStart(n + SegmentSize) = SegmentStart(n) + SegmentSize
<1>. DEFINE N == SegmentSize
<1>1. (n + N) \div N = (n \div N) + 1
  BY SizeAssumption, Z3T(60)
<1>2. n % N = n - (n \div N) * N
  BY SizeAssumption, Z3T(60)
<1>3. (n + N) % N = (n + N) - ((n + N) \div N) * N
  BY SizeAssumption, Z3T(60)
<1>4. (n + N) % N = n % N
  BY <1>1, <1>2, <1>3, SizeAssumption
<1>. QED  BY <1>4, SizeAssumption DEF SegmentStart

(* Both halves of the split of a buffer are buffers of blocks again. *)
LEMMA SplitTyping ==
    ASSUME NEW cs \in Seq(Blocks), NEW b \in Nat
    PROVE  /\ SplitIndex(cs, b) \in 0 .. Len(cs)
           /\ CursorsToSegment(cs, b) \in Seq(Blocks)
           /\ CursorsToKeep(cs, b) \in Seq(Blocks)
<1>1. SplitIndex(cs, b) \in 0 .. Len(cs)
  <2>1. cs # << >> => cs[1] \in Nat
    BY ElementOfSeq, EmptySeq, BlockAssumption DEF Blocks
  <2>. QED  BY <2>1 DEF SplitIndex
<1>2. CursorsToSegment(cs, b) \in Seq(Blocks)
  BY <1>1, SubSeqProperties DEF CursorsToSegment
<1>3. CursorsToKeep(cs, b) \in Seq(Blocks)
  BY <1>1, SubSeqProperties DEF CursorsToKeep
<1>. QED  BY <1>1, <1>2, <1>3

(* A successful send keeps the channel within its capacity. *)
LEMMA SentTyping ==
    ASSUME NEW m \in Changes, out \in Seq(Changes), Len(out) <= OutCap,
           CanSend, Sent(m)
    PROVE  /\ out' \in Seq(Changes)
           /\ Len(out') <= OutCap
           /\ rxOpen' = rxOpen
<1>1. rxOpen /\ Len(out) < OutCap /\ out' = Append(out, m) /\ rxOpen' = rxOpen
  BY DEF CanSend, Sent
<1>2. Append(out, m) \in Seq(Changes) /\ Len(Append(out, m)) = Len(out) + 1
  BY AppendProperties
<1>. QED  BY <1>1, <1>2, CapAssumption

-----------------------------------------------------------------------------
(* Init and every step of the specification keep the types of TypeOK. *)
LEMMA TypeInit == Init => TypeOK
BY BlockAssumption DEF Init, SegInit, TypeOK, StartingSnapshot, Snapshots,
                       Blocks

LEMMA TypeStep == TypeOK /\ [Next]_vars => TypeOK'
<1>2. TypeOK /\ [Next]_vars => TypeOK'
  <2> SUFFICES ASSUME TypeOK, [Next]_vars PROVE TypeOK'
    OBVIOUS
  <2>. USE SizeAssumption, BlockAssumption, CapAssumption DEF TypeOK
  <2>1. CASE Receive
    <3>1. PICK e \in SourceEvents : HandleEvent(e) /\ SourceAfter(e)
      BY <2>1 DEF Receive
    <3>2. /\ e.kind \in EventKinds
          /\ e.cursor \in Blocks
          /\ e.kind = "Ingested" => e.cursor = nextBlock /\ nextBlock \in Blocks
      BY <3>1 DEF SourceEvents, Ev, EventKinds, Blocks
    <3>3. /\ srcStarted' \in BOOLEAN
          /\ nextBlock' \in FirstBlock .. MaxBlock + 1
          /\ srcFinalized' \in Nat
      BY <3>1, <3>2 DEF SourceAfter, Blocks
    <3>4. CASE HandleFirst(e)
      <4>1. CASE e.kind = "Started" /\ rxOpen
        <5>1. Change("Started", 0, IngestionOf(snapshot)) \in Changes
          BY DEF Change, Changes, ChangeKinds, IngestionOf, Ingestion,
                 Snapshots
        <5>. QED  BY <3>2, <3>3, <3>4, <4>1, <5>1, SentTyping
                  DEF HandleFirst, Phases
      <4>2. CASE ~(e.kind = "Started" /\ rxOpen)
        BY <3>2, <3>3, <3>4, <4>2 DEF HandleFirst, Phases, chanVars
      <4>. QED  BY <4>1, <4>2
    <3>5. CASE HandleIngested(e)
      <4>. DEFINE c == e.cursor
      <4>1. c \in Blocks
        BY <3>2
      <4>2. /\ cursors' \in Seq(Blocks)
            /\ groupStart' \in Blocks
            /\ segOpen' \in BOOLEAN
        <5>1. CASE ~segOpen
          <6>1. cursors' = <<c>> /\ groupStart' = c /\ segOpen' = TRUE
            BY <3>5, <5>1 DEF HandleIngested
          <6>2. <<c>> \in Seq(Blocks)
            BY <4>1
          <6>. QED  BY <4>1, <6>1, <6>2
        <5>2. CASE segOpen
          <6>1. /\ cursors' = Append(cursors, c)
                /\ UNCHANGED <<segOpen, groupStart>>
            BY <3>5, <5>2 DEF HandleIngested
          <6>. QED  BY <4>1, <6>1, AppendProperties
        <5>. QED  BY <5>1, <5>2
      <4>3. Change("BlockIngested", c, IngestionOf(snapshot)) \in Changes
        BY <4>1 DEF Change, Changes, ChangeKinds, IngestionOf, Ingestion,
                    Snapshots, Blocks
      <4>4. /\ out' \in Seq(Changes)
            /\ Len(out') <= OutCap
            /\ rxOpen' \in BOOLEAN
            /\ phase' \in Phases
        BY <3>5, <4>3, SentTyping
        DEF HandleIngested, ReportIngested, chanVars, Phases
      <4>. QED  BY <3>3, <3>5, <4>2, <4>4 DEF HandleIngested
    <3>6. CASE HandleFinalized(e)
      BY <3>2, <3>3, <3>6 DEF HandleFinalized, Phases, chanVars
    <3>7. CASE HandleOther(e)
      BY <3>3, <3>7 DEF HandleOther, Phases, chanVars
    <3>. QED  BY <3>1, <3>4, <3>5, <3>6, <3>7 DEF HandleEvent
  <2>2. CASE SourceEnds
    BY <2>2 DEF SourceEnds, InputEnded, Phases, chanVars, srcVars
  <2>3. CASE SegmenterStep /\ UNCHANGED srcVars
    <3>. USE DEF srcVars
    <3>1. CASE Cancelled
      BY <2>3, <3>1 DEF Cancelled, Phases, chanVars
    <3>2. CASE NothingToSeal
      BY <2>3, <3>2 DEF NothingToSeal, Phases, chanVars
    <3>3. CASE WriteSegment \/ SealFails
      <4>1. /\ Len(cursors) >= 1
            /\ cursors[SegmentSize] \in Blocks
            /\ cursors[1] \in Blocks
        BY <3>3 DEF WriteSegment, SealFails, SealReady
      <4>2. SegmentStart(cursors[1]) \in Blocks
        <5>1. cursors[1] \in Nat /\ cursors[1] <= MaxBlock
          BY <4>1 DEF Blocks
        <5>2. SegmentStart(cursors[1]) \in 0 .. cursors[1]
          BY <5>1, SegmentStartBounds
        <5>. QED  BY <5>1, <5>2 DEF Blocks
      <4>3. NextSegmentStart \in Nat
        <5>1. cursors[SegmentSize] + 1 \in Nat
          BY <4>1 DEF Blocks
        <5>2. SegmentStart(cursors[SegmentSize] + 1) \in 0 .. cursors[SegmentSize] + 1
          BY <5>1, SegmentStartBounds
        <5>. QED  BY <5>2 DEF NextSegmentStart
      <4>4. ToSegment \in Seq(Blocks) /\ ToKeep \in Seq(Blocks)
        BY <4>3, SplitTyping DEF ToSegment, ToKeep
      <4>5. store' \in [Blocks -> Seq(Blocks)]
        BY <3>3, <4>2, <4>4 DEF WriteSegment, SealFails
      <4>6. \A b \in BOOLEAN : SealedSnapshot(snapshot, b) \in Snapshots
        BY DEF SealedSnapshot, Snapshots
      <4>7. ClosesGroup \in BOOLEAN
        BY DEF ClosesGroup
      <4>8. << >> \in Seq(Blocks)
        OBVIOUS
      <4>9. CASE WriteSegment
        <5>1. /\ snapshot' = SealedSnapshot(snapshot, ClosesGroup)
              /\ published' = snapshot'
              /\ segOpen' = ~ClosesGroup
              /\ cursors' = IF ClosesGroup THEN << >> ELSE ToKeep
              /\ phase' \in Phases
              /\ UNCHANGED <<finalized, groupStart, groupStore, out, rxOpen>>
          BY <4>9 DEF WriteSegment, Phases, chanVars
        <5>. QED  BY <2>3, <4>4, <4>5, <4>6, <4>7, <4>8, <5>1
      <4>10. CASE SealFails
        <5>1. /\ snapshot' \in {snapshot, SealedSnapshot(snapshot, ClosesGroup)}
              /\ cursors' = ToKeep
              /\ phase' \in Phases
              /\ UNCHANGED <<finalized, segOpen, groupStart, published,
                             groupStore, out, rxOpen>>
          BY <4>10 DEF SealFails, Phases, chanVars
        <5>. QED  BY <2>3, <4>4, <4>5, <4>6, <4>7, <5>1
      <4>. QED  BY <3>3, <4>9, <4>10
    <3>4. CASE NotifyStateChanged
      <4>1. Change("StateChanged", finalized, IngestionOf(snapshot)) \in Changes
        BY DEF Change, Changes, ChangeKinds, IngestionOf, Ingestion,
               Snapshots, Blocks
      <4>. QED  BY <2>3, <3>4, <4>1, SentTyping
                DEF NotifyStateChanged, Phases, chanVars
    <3>. QED  BY <2>3, <3>1, <3>2, <3>3, <3>4 DEF SegmenterStep
  <2>4. CASE ConsumerStep /\ UNCHANGED <<segVars, srcVars>>
    <3>1. CASE ConsumeChange
      <4>1. Tail(out) \in Seq(Changes) /\ Len(Tail(out)) = Len(out) - 1
        BY <3>1, HeadTailProperties DEF ConsumeChange
      <4>. QED  BY <2>4, <3>1, <4>1 DEF ConsumeChange, segVars, srcVars
    <3>2. CASE DropReceiver
      BY <2>4, <3>2 DEF DropReceiver, segVars, srcVars
    <3>. QED  BY <2>4, <3>1, <3>2 DEF ConsumerStep
  <2>5. CASE Exit
    BY <2>5 DEF Exit, vars, segVars, chanVars, srcVars
  <2>6. CASE UNCHANGED vars
    BY <2>6 DEF vars, segVars, chanVars, srcVars
  <2>. QED  BY <2>1, <2>2, <2>3, <2>4, <2>5, <2>6 DEF Next
<1>. QED  BY <1>2

(***************************************************************************)
(* Type correctness: every reachable state of the segmenter, its output    *)
(* channel and its event source has the types TypeOK states, the channel   *)
(* within its capacity included.                                           *)
(***************************************************************************)
THEOREM TypeCorrect == Spec => []TypeOK
BY TypeInit, TypeStep, PTL DEF Spec
-----------------------------------------------------------------------------

(* Pushing the next block keeps a run a run. *)
LEMMA AppendContiguous ==
    ASSUME NEW cs \in Seq(Blocks), NEW c \in Blocks, Contiguous(cs),
           cs # << >> => c = cs[Len(cs)] + 1
    PROVE  /\ Contiguous(Append(cs, c))
           /\ Append(cs, c) # << >>
           /\ Append(cs, c)[Len(Append(cs, c))] = c
<1>1. /\ Len(Append(cs, c)) = Len(cs) + 1
      /\ \A i \in 1 .. Len(cs) : Append(cs, c)[i] = cs[i]
      /\ Append(cs, c)[Len(cs) + 1] = c
      /\ Append(cs, c) # << >>
  BY AppendProperties
<1>2. CASE cs = << >>
  <2>1. Len(cs) = 0
    BY <1>2, EmptySeq
  <2>2. Append(cs, c)[1] = c /\ c \in Nat
    BY <1>1, <2>1, BlockAssumption DEF Blocks
  <2>. QED  BY <1>1, <2>1, <2>2 DEF Contiguous
<1>3. CASE cs # << >>
  <2>1. Len(cs) >= 1
    BY <1>3, EmptySeq
  <2>2. c = cs[1] + Len(cs)
    <3>1. cs[Len(cs)] = cs[1] + Len(cs) - 1
      BY <2>1 DEF Contiguous
    <3>2. cs[1] \in Nat
      BY <2>1, ElementOfSeq, BlockAssumption DEF Blocks
    <3>. QED  BY <1>3, <3>1, <3>2
  <2>3. Append(cs, c)[1] = cs[1]
    BY <1>1, <2>1
  <2>. QED  BY <1>1, <2>1, <2>2, <2>3 DEF Contiguous
<1>. QED  BY <1>2, <1>3

(* What stays in the buffer after a split is a run ending where the       *)
(* buffer ended.                                                          *)
LEMMA KeepContiguous ==
    ASSUME NEW cs \in Seq(Blocks), NEW b \in Nat, Contiguous(cs)
    PROVE  /\ Contiguous(CursorsToKeep(cs, b))
           /\ CursorsToKeep(cs, b) # << >> =>
                CursorsToKeep(cs, b)[Len(CursorsToKeep(cs, b))] = cs[Len(cs)]
<1>. DEFINE k == SplitIndex(cs, b)
            keep == CursorsToKeep(cs, b)
<1>1. k \in 0 .. Len(cs)
  BY SplitTyping
<1>2. /\ Len(keep) = Len(cs) - k
      /\ \A i \in 1 .. Len(keep) : keep[i] = cs[k + i]
  BY <1>1, SubSeqProperties DEF CursorsToKeep
<1> HIDE DEF k, keep
<1>3. \A i \in 1 .. Len(cs) : cs[i] \in Nat
  BY ElementOfSeq, BlockAssumption DEF Blocks
<1>4. Contiguous(keep)
  <2>. SUFFICES ASSUME NEW i \in 1 .. Len(keep) PROVE keep[i] = keep[1] + i - 1
    BY DEF Contiguous
  <2>1. /\ keep[i] = cs[k + i]
        /\ keep[1] = cs[k + 1]
        /\ k + i \in 1 .. Len(cs)
        /\ k + 1 \in 1 .. Len(cs)
    BY <1>1, <1>2
  <2>2. cs[k + i] = cs[1] + (k + i) - 1 /\ cs[k + 1] = cs[1] + (k + 1) - 1
    BY <2>1 DEF Contiguous
  <2>3. cs[1] \in Nat /\ k \in Nat /\ i \in Nat
    BY <1>3, <2>1, <1>1
  <2>4. keep[i] = cs[1] + k + i - 1 /\ keep[1] = cs[1] + k
    BY <2>1, <2>2, <2>3
  <2>. QED  BY <2>3, <2>4
<1>5. keep # << >> => keep[Len(keep)] = cs[Len(cs)]
  <2>. SUFFICES ASSUME keep # << >> PROVE keep[Len(keep)] = cs[Len(cs)]
    OBVIOUS
  <2>1. Len(keep) >= 1
    BY <1>2, EmptySeq, SplitTyping
  <2>. QED  BY <1>1, <1>2, <2>1
<1>. QED  BY <1>4, <1>5 DEF keep
(***************************************************************************)
(* A full segment taken from a run: when the SegmentSize-th cursor's      *)
(* successor fixes the bound and the split takes exactly SegmentSize      *)
(* cursors, the run starts on a segment start and the segment is the      *)
(* SegmentSize consecutive blocks from there.                             *)
(***************************************************************************)
LEMMA SplitOfContiguous ==
    ASSUME NEW cs \in Seq(Blocks), Contiguous(cs), Len(cs) >= SegmentSize,
           Len(CursorsToSegment(cs, SegmentStart(cs[SegmentSize] + 1)))
             = SegmentSize
    PROVE  /\ SegmentStart(cs[1]) = cs[1]
           /\ cs[1] % SegmentSize = 0
           /\ CursorsToSegment(cs, SegmentStart(cs[SegmentSize] + 1))
                = [i \in 1 .. SegmentSize |-> cs[1] + i - 1]
<1>. DEFINE N == SegmentSize
            c1 == cs[1]
            b == SegmentStart(cs[N] + 1)
            s0 == SegmentStart(c1)
            seg == CursorsToSegment(cs, b)
<1>1. N \in Nat \ {0} /\ c1 \in Nat
  BY SizeAssumption, ElementOfSeq, BlockAssumption DEF Blocks
<1>2. cs[N] = c1 + N - 1
  BY <1>1 DEF Contiguous
<1>3. b = s0 + N
  <2>1. cs[N] + 1 = c1 + N
    BY <1>1, <1>2
  <2>. QED  BY <1>1, <2>1, SegmentStartShift
<1>4. s0 \in 0 .. c1 /\ s0 % N = 0 /\ c1 - s0 < N
  BY <1>1, SegmentStartBounds
<1>5. cs # << >>
  BY <1>1, EmptySeq
<1>6. SplitIndex(cs, b) = b - c1
  BY <1>1, <1>3, <1>4, <1>5 DEF SplitIndex
<1>7. b - c1 \in 0 .. Len(cs)
  BY <1>6, SplitTyping, <1>1, <1>3, <1>4
<1>8. Len(seg) = b - c1 /\ \A i \in 1 .. b - c1 : seg[i] = cs[i]
  BY <1>6, <1>7, SubSeqProperties DEF CursorsToSegment
<1>9. s0 = c1
  BY <1>1, <1>3, <1>4, <1>8
<1>10. seg = [i \in 1 .. N |-> c1 + i - 1]
  <2>1. b \in Nat
    BY <1>1, <1>3, <1>4
  <2>2. seg \in Seq(Blocks)
    BY <2>1, SplitTyping
  <2>3. b - c1 = N
    BY <1>1, <1>3, <1>4, <1>9
  <2>4. \A i \in 1 .. N : seg[i] = cs[i] /\ i \in 1 .. Len(cs)
    BY <1>8, <2>3
  <2>5. \A i \in 1 .. N : seg[i] = c1 + i - 1
    BY <2>4 DEF Contiguous
  <2>. QED  BY <1>1, <1>8, <2>2, <2>3, <2>5, SeqEqual
<1>. QED  BY <1>4, <1>9, <1>10
(***************************************************************************)
(* A seal that writes its segment keeps the stored segments valid: the    *)
(* buffer is a run, so the segment key is its first cursor, a segment     *)
(* start, and the segment is the run of SegmentSize blocks from it, all   *)
(* finalized because the SegmentSize-th is.                               *)
(***************************************************************************)
LEMMA SealKeepsStoreValid ==
    ASSUME TypeOK, BufferContiguous, StoredSegmentsValid, SealReady,
           Len(ToSegment) = SegmentSize,
           store' = [store EXCEPT ![SegmentStart(cursors[1])] = ToSegment],
           finalized' = finalized
    PROVE  StoredSegmentsValid'
<1>. DEFINE N == SegmentSize
            c1 == cursors[1]
<1>1. /\ cursors \in Seq(Blocks)
      /\ Contiguous(cursors)
      /\ Len(cursors) >= N
      /\ cursors[N] <= finalized
  BY DEF TypeOK, BufferContiguous, SealReady
<1>2. /\ SegmentStart(c1) = c1
      /\ c1 % N = 0
      /\ ToSegment = [i \in 1 .. N |-> c1 + i - 1]
  BY <1>1, SplitOfContiguous DEF ToSegment, NextSegmentStart
<1>3. N \in Nat \ {0} /\ Len(cursors) >= 1 /\ c1 \in Blocks
  BY <1>1, SizeAssumption, ElementOfSeq
<1>4. cursors[N] = c1 + N - 1
  BY <1>1, <1>3 DEF Contiguous
<1>5. c1 + N - 1 <= finalized /\ ToSegment # << >>
  BY <1>1, <1>2, <1>3, <1>4
<1>6. SUFFICES ASSUME NEW s \in Blocks, Written(s)'
               PROVE  /\ s % N = 0
                      /\ store'[s] = [i \in 1 .. N |-> s + i - 1]
                      /\ s + N - 1 <= finalized'
  BY DEF StoredSegmentsValid
<1>7. store \in [Blocks -> Seq(Blocks)]
  BY DEF TypeOK
<1>8. CASE s = c1
  BY <1>2, <1>3, <1>5, <1>7, <1>8
<1>9. CASE s # c1
  <2>1. store'[s] = store[s]
    BY <1>2, <1>7, <1>9
  <2>. QED  BY <1>6, <2>1 DEF StoredSegmentsValid, Written
<1>. QED  BY <1>8, <1>9

(***************************************************************************)
(* A split keeps the buffer a run that ends before the next block: what   *)
(* is kept ends where the buffer ended, and a dropped SegmentData leaves  *)
(* an empty buffer.                                                       *)
(***************************************************************************)
LEMMA SplitKeepsBuffer ==
    ASSUME TypeOK, BufferContiguous, SealReady,
           cursors' \in {<< >>, ToKeep}, nextBlock' = nextBlock
    PROVE  BufferContiguous'
<1>1. /\ cursors \in Seq(Blocks)
      /\ Contiguous(cursors)
      /\ cursors # << >>
      /\ nextBlock = cursors[Len(cursors)] + 1
  <2>1. Len(cursors) >= 1 /\ cursors \in Seq(Blocks)
    BY SizeAssumption DEF SealReady, TypeOK
  <2>. QED  BY <2>1, EmptySeq DEF BufferContiguous
<1>2. NextSegmentStart \in Nat
  <2>1. cursors[SegmentSize] \in Nat
    BY <1>1, SizeAssumption, BlockAssumption DEF SealReady, Blocks
  <2>2. cursors[SegmentSize] + 1 \in Nat
    BY <2>1
  <2>3. SegmentStart(cursors[SegmentSize] + 1)
          \in 0 .. cursors[SegmentSize] + 1
    BY <2>2, SegmentStartBounds
  <2>. QED  BY <2>3 DEF NextSegmentStart
<1>3. /\ Contiguous(ToKeep)
      /\ ToKeep # << >> => ToKeep[Len(ToKeep)] = cursors[Len(cursors)]
  BY <1>1, <1>2, KeepContiguous DEF ToKeep
<1>4. Contiguous(<< >>)
  BY DEF Contiguous
<1>. QED  BY <1>1, <1>3, <1>4 DEF BufferContiguous
-----------------------------------------------------------------------------
(***************************************************************************)
(* The inductive invariant behind StoredSegmentsValid.  Besides the types *)
(* it ties the segmenter to its source: the worker's finalized is the     *)
(* source's, nothing is stored before Started, the buffer is a run that   *)
(* ends before the next block, and the stored segments are valid.         *)
(***************************************************************************)
IInv ==
    /\ TypeOK
    /\ finalized = srcFinalized
    /\ phase = "start" => ~srcStarted /\ \A s \in Blocks : ~Written(s)
    /\ phase \in {"recv", "seal", "notify"} => srcStarted
    /\ BufferContiguous
    /\ StoredSegmentsValid
LEMMA IInvInit == Init => IInv
<1> SUFFICES ASSUME Init PROVE IInv
  OBVIOUS
<1>1. TypeOK
  BY TypeInit
<1>2. \A s \in Blocks : ~Written(s)
  BY DEF Init, SegInit, Written
<1>3. BufferContiguous
  BY DEF Init, SegInit, BufferContiguous, Contiguous
<1>. QED  BY <1>1, <1>2, <1>3 DEF Init, SegInit, IInv, StoredSegmentsValid

(* A step that keeps the store and does not lower finalized keeps the     *)
(* stored segments valid.                                                 *)
LEMMA StoreKeptValid ==
    ASSUME TypeOK, StoredSegmentsValid, store' = store,
           finalized' \in Nat, finalized <= finalized'
    PROVE  StoredSegmentsValid'
BY SizeAssumption DEF StoredSegmentsValid, Written, TypeOK, Blocks

LEMMA IInvStep == IInv /\ [Next]_vars => IInv'
<1> SUFFICES ASSUME IInv, [Next]_vars PROVE IInv'
  OBVIOUS
<1>. USE DEF IInv
<1>1. TypeOK'
  BY TypeStep
<1>2. TypeOK /\ BufferContiguous /\ StoredSegmentsValid
  OBVIOUS
<1>3. CASE Receive
  <2>1. PICK e \in SourceEvents : HandleEvent(e) /\ SourceAfter(e)
    BY <1>3 DEF Receive
  <2>2. CASE HandleFirst(e)
    <3>1. ~srcStarted /\ \A s \in Blocks : ~Written(s)
      BY <2>2 DEF HandleFirst
    <3>2. e.kind = "Started" /\ e.cursor \in FirstBlock .. MaxBlock
      BY <2>1, <3>1 DEF SourceEvents, Ev
    <3>3. /\ finalized' = e.cursor /\ srcFinalized' = e.cursor
          /\ srcStarted' /\ phase' \in {"recv", "ok"}
          /\ UNCHANGED <<store, cursors, nextBlock>>
      BY <2>1, <2>2, <3>2 DEF HandleFirst, SourceAfter
    <3>4. StoredSegmentsValid'
      BY <3>1, <3>3 DEF StoredSegmentsValid, Written
    <3>. QED  BY <1>1, <1>2, <3>3, <3>4 DEF BufferContiguous
  <2>3. CASE HandleIngested(e)
    <3>1. srcStarted /\ e.kind = "Ingested"
      BY <2>3 DEF HandleIngested
    <3>2. e.cursor = nextBlock /\ nextBlock \in Blocks
      BY <2>1, <3>1 DEF SourceEvents, Ev
    <3>3. /\ nextBlock' = nextBlock + 1
          /\ srcStarted' /\ srcFinalized' = srcFinalized
          /\ UNCHANGED <<finalized, store>>
          /\ phase' \in {"recv", "seal", "panic"}
      BY <2>1, <2>3, <3>1 DEF SourceAfter, HandleIngested, ReportIngested
    <3>4. BufferContiguous'
      <4>1. CASE ~segOpen
        <5>1. cursors' = << nextBlock >>
          BY <2>3, <3>2, <4>1 DEF HandleIngested
        <5>. QED  BY <3>2, <3>3, <5>1 DEF BufferContiguous, Contiguous, Blocks
      <4>2. CASE segOpen
        <5>1. cursors' = Append(cursors, nextBlock)
          BY <2>3, <3>2, <4>2 DEF HandleIngested
        <5>2. /\ Contiguous(Append(cursors, nextBlock))
              /\ Append(cursors, nextBlock) # << >>
              /\ Append(cursors, nextBlock)[Len(Append(cursors, nextBlock))]
                   = nextBlock
          BY <1>2, <3>2, AppendContiguous DEF TypeOK, BufferContiguous
        <5>. QED  BY <3>3, <5>1, <5>2 DEF BufferContiguous
      <4>. QED  BY <4>1, <4>2
    <3>5. StoredSegmentsValid'
      BY <1>2, <3>3, StoreKeptValid DEF TypeOK
    <3>. QED  BY <1>1, <3>3, <3>4, <3>5
  <2>4. CASE HandleFinalized(e)
    <3>1. srcStarted /\ e.kind = "Finalized"
      BY <2>4 DEF HandleFinalized
    <3>2. e.cursor \in srcFinalized + 1 .. MaxBlock
      BY <2>1, <3>1 DEF SourceEvents, Ev
    <3>3. /\ finalized' = e.cursor /\ srcFinalized' = e.cursor
          /\ srcStarted' /\ phase' = "seal"
          /\ UNCHANGED <<store, cursors, nextBlock>>
      BY <2>1, <2>4, <3>1 DEF HandleFinalized, SourceAfter
    <3>4. StoredSegmentsValid'
      BY <1>2, <3>2, <3>3, StoreKeptValid DEF TypeOK, Blocks
    <3>. QED  BY <1>1, <1>2, <3>3, <3>4 DEF BufferContiguous
  <2>5. CASE HandleOther(e)
    <3>1. srcStarted /\ e.kind \in {"Invalidate", "Started"}
      BY <2>5 DEF HandleOther
    <3>2. e.kind = "Invalidate"
      BY <2>1, <3>1 DEF SourceEvents, Ev
    <3>3. /\ srcStarted' /\ srcFinalized' = srcFinalized
          /\ phase' = "panic"
          /\ UNCHANGED <<finalized, store, cursors, nextBlock>>
      BY <2>1, <2>5, <3>2 DEF HandleOther, SourceAfter
    <3>4. StoredSegmentsValid'
      BY <1>2, <3>3, StoreKeptValid DEF TypeOK, Blocks
    <3>. QED  BY <1>1, <1>2, <3>3, <3>4 DEF BufferContiguous
  <2>. QED  BY <2>1, <2>2, <2>3, <2>4, <2>5 DEF HandleEvent
<1>4. CASE SourceEnds
  <2>1. phase' = "error" /\ UNCHANGED <<finalized, store, cursors, srcVars>>
    BY <1>4 DEF SourceEnds, InputEnded
  <2>. QED  BY <1>1, <1>2, <2>1 DEF srcVars, BufferContiguous,
                                   StoredSegmentsValid, Written
<1>5. CASE SegmenterStep /\ UNCHANGED srcVars
  <2>. USE DEF srcVars
  <2>1. CASE Cancelled \/ NothingToSeal \/ NotifyStateChanged
    <3>1. /\ phase \in {"recv", "seal", "notify"}
          /\ phase' \in {"ok", "recv", "seal", "panic"}
          /\ UNCHANGED <<finalized, store, cursors>>
      BY <2>1 DEF Cancelled, NothingToSeal, NotifyStateChanged
    <3>. QED  BY <1>1, <1>2, <1>5, <3>1 DEF BufferContiguous,
                                           StoredSegmentsValid, Written
  <2>2. CASE WriteSegment
    <3>1. /\ phase = "seal" /\ phase' = "notify" /\ SealReady
          /\ Len(ToSegment) = SegmentSize
          /\ store' = [store EXCEPT ![SegmentStart(cursors[1])] = ToSegment]
          /\ cursors' \in {<< >>, ToKeep}
          /\ finalized' = finalized
      BY <2>2 DEF WriteSegment
    <3>2. StoredSegmentsValid'
      BY <1>2, <3>1, SealKeepsStoreValid
    <3>3. BufferContiguous'
      BY <1>2, <1>5, <3>1, SplitKeepsBuffer
    <3>. QED  BY <1>1, <1>5, <3>1, <3>2, <3>3
  <2>3. CASE SealFails
    <3>1. /\ phase = "seal" /\ phase' \in {"error", "panic"} /\ SealReady
          /\ cursors' = ToKeep
          /\ finalized' = finalized
          /\ \/ store' = store
             \/ /\ Len(ToSegment) = SegmentSize
                /\ store' = [store EXCEPT ![SegmentStart(cursors[1])]
                                            = ToSegment]
      BY <2>3 DEF SealFails
    <3>2. StoredSegmentsValid'
      BY <1>2, <3>1, SealKeepsStoreValid, StoreKeptValid DEF TypeOK
    <3>3. BufferContiguous'
      BY <1>2, <1>5, <3>1, SplitKeepsBuffer
    <3>. QED  BY <1>1, <1>5, <3>1, <3>2, <3>3
  <2>. QED  BY <1>5, <2>1, <2>2, <2>3 DEF SegmenterStep
<1>6. CASE ConsumerStep /\ UNCHANGED <<segVars, srcVars>>
  BY <1>1, <1>6 DEF segVars, srcVars, BufferContiguous, StoredSegmentsValid,
                    Written
<1>7. CASE Exit \/ UNCHANGED vars
  <2>1. UNCHANGED vars
    BY <1>7 DEF Exit
  <2>. QED  BY <1>1, <2>1 DEF vars, segVars, chanVars, srcVars,
                              BufferContiguous, StoredSegmentsValid, Written
<1>. QED  BY <1>3, <1>4, <1>5, <1>6, <1>7 DEF Next

(***************************************************************************)
(* Segments only hold finalized data and each stored segment/{s} is the   *)
(* SegmentSize consecutive blocks from the segment start s, in every      *)
(* behaviour of the segmenter fed by a source that keeps the downloader's *)
(* contract, and for all segment and group sizes and block bounds.        *)
(***************************************************************************)
THEOREM StoredSegmentsCorrect == Spec => []StoredSegmentsValid
<1>1. IInv => StoredSegmentsValid
  BY DEF IInv
<1>. QED  BY IInvInit, IInvStep, <1>1, PTL DEF Spec

(***************************************************************************)
(* The cursor buffer of SegmentData is always a run of consecutive block  *)
(* numbers ending just before the next block to be ingested, whatever the *)
(* sizes: the seal's split and the group reset never lose or repeat one.  *)
(***************************************************************************)
THEOREM BufferIsContiguous == Spec => []BufferContiguous
<1>1. IInv => BufferContiguous
  BY DEF IInv
<1>. QED  BY IInvInit, IInvStep, <1>1, PTL DEF Spec
-----------------------------------------------------------------------------
(***************************************************************************)
(* The refinement of SegmentPublication.  The first block not yet sealed  *)
(* is the buffer's first cursor, or the next block when nothing is        *)
(* buffered; every written segment lies below it.                         *)
(***************************************************************************)
Unsealed == IF cursors = << >> THEN nextBlock ELSE cursors[1]

WrittenBelowBuffer ==
    \A s \in Blocks : Written(s) => s + SegmentSize <= Unsealed

(* While the task runs, the in-memory snapshot is the published one and   *)
(* the segments are below the buffer; without SegmentData nothing is      *)
(* buffered.                                                              *)
RInv ==
    /\ IInv
    /\ ~segOpen => cursors = << >>
    /\ phase \notin Exited => snapshot = published /\ WrittenBelowBuffer
(* The written segment keys. *)
WrittenKeys == {s \in Blocks : Written(s)}

(* A step that keeps the store, the snapshot document and whether the     *)
(* task has exited is a stutter of SegmentPublication.                    *)
LEMMA PubUnchanged ==
    ASSUME store' = store, published' = published,
           (phase' \in Exited) = (phase \in Exited)
    PROVE  UNCHANGED Pub!pubVars
BY DEF Pub!pubVars, Written

(* A step that ends the task and keeps the store and the document is a    *)
(* Halt.                                                                  *)
LEMMA PubHalt ==
    ASSUME store' = store, published' = published,
           phase \notin Exited, phase' \in Exited
    PROVE  Pub!Halt
BY DEF Pub!Halt, Written

(***************************************************************************)
(* A seal that takes a full segment from the run: the segment key is the  *)
(* first cursor, a segment start, and next_segment_start is one segment   *)
(* further on, where what is kept begins.                                 *)
(***************************************************************************)
LEMMA SealFacts ==
    ASSUME TypeOK, BufferContiguous, SealReady, Len(ToSegment) = SegmentSize
    PROVE  /\ cursors[1] \in Blocks
           /\ SegmentStart(cursors[1]) = cursors[1]
           /\ cursors[1] % SegmentSize = 0
           /\ NextSegmentStart = cursors[1] + SegmentSize
           /\ ToKeep # << >> => ToKeep[1] = NextSegmentStart
           /\ NextSegmentStart <= nextBlock
           /\ ToSegment # << >>
<1>. DEFINE N == SegmentSize
            c1 == cursors[1]
<1>1. /\ cursors \in Seq(Blocks)
      /\ Contiguous(cursors)
      /\ Len(cursors) >= N
      /\ N \in Nat \ {0}
  BY SizeAssumption DEF TypeOK, BufferContiguous, SealReady
<1>2. /\ SegmentStart(c1) = c1
      /\ c1 % N = 0
      /\ ToSegment = [i \in 1 .. N |-> c1 + i - 1]
  BY <1>1, SplitOfContiguous DEF ToSegment, NextSegmentStart
<1>3. c1 \in Blocks /\ c1 \in Nat
  BY <1>1, ElementOfSeq, BlockAssumption DEF Blocks
<1>4. cursors[N] = c1 + N - 1
  BY <1>1, <1>3 DEF Contiguous
<1>5. NextSegmentStart = c1 + N
  <2>1. SegmentStart(c1 + N) = SegmentStart(c1) + N
    BY <1>3, SegmentStartShift
  <2>2. cursors[N] + 1 = c1 + N
    BY <1>1, <1>3, <1>4
  <2>. QED  BY <1>2, <2>1, <2>2 DEF NextSegmentStart
<1>6. SplitIndex(cursors, NextSegmentStart) = N
  <2>0. NextSegmentStart \in Nat
    BY <1>1, <1>3, <1>5
  <2>1. SplitIndex(cursors, NextSegmentStart) \in 0 .. Len(cursors)
    BY <1>1, <2>0, SplitTyping
  <2>2. Len(ToSegment) = SplitIndex(cursors, NextSegmentStart)
    BY <1>1, <2>1, SubSeqProperties DEF ToSegment, CursorsToSegment
  <2>. QED  BY <2>2
<1>7. ToKeep # << >> => ToKeep[1] = c1 + N
  <2>1. ToKeep = SubSeq(cursors, N + 1, Len(cursors))
    BY <1>6 DEF ToKeep, CursorsToKeep
  <2>2. ASSUME ToKeep # << >> PROVE ToKeep[1] = c1 + N
    <3>1. Len(cursors) >= N + 1
      BY <1>1, <2>1, <2>2, SubSeqProperties, EmptySeq
    <3>2. ToKeep[1] = cursors[N + 1]
      BY <1>1, <2>1, <3>1, SubSeqProperties
    <3>. QED  BY <1>1, <1>3, <3>1, <3>2 DEF Contiguous
  <2>. QED  BY <2>2
<1>8. nextBlock = cursors[Len(cursors)] + 1 /\ cursors[Len(cursors)] = c1 + Len(cursors) - 1
  <2>1. cursors # << >>
    BY <1>1, EmptySeq
  <2>. QED  BY <1>1, <2>1 DEF BufferContiguous, Contiguous
<1>9. NextSegmentStart <= nextBlock
  <2>1. Len(cursors) \in Nat
    BY <1>1
  <2>. QED  BY <1>1, <1>3, <1>5, <1>8, <2>1
<1>10. ToSegment # << >>
  <2>1. Len(ToSegment) = N /\ N # 0
    BY <1>1
  <2>. QED  BY <2>1
<1>. QED  BY <1>2, <1>3, <1>5, <1>7, <1>9, <1>10
(***************************************************************************)
(* The segment a seal writes goes to a fresh key: the segments already    *)
(* written lie below the buffer, whose first cursor is the key.  After    *)
(* the write every segment lies below next_segment_start.                 *)
(***************************************************************************)
LEMMA SealWrite ==
    ASSUME RInv, phase = "seal", SealReady, Len(ToSegment) = SegmentSize,
           store' = [store EXCEPT ![SegmentStart(cursors[1])] = ToSegment]
    PROVE  /\ cursors[1] \in {s \in Blocks : s % SegmentSize = 0}
           /\ cursors[1] \notin WrittenKeys
           /\ WrittenKeys' = WrittenKeys \cup {cursors[1]}
           /\ \A s \in Blocks : Written(s)' => s + SegmentSize <= NextSegmentStart
<1>. DEFINE N == SegmentSize
            c1 == cursors[1]
<1>1. /\ c1 \in Blocks
      /\ SegmentStart(c1) = c1
      /\ c1 % N = 0
      /\ NextSegmentStart = c1 + N
      /\ ToSegment # << >>
  BY SealFacts DEF RInv, IInv
<1>2. /\ store \in [Blocks -> Seq(Blocks)]
      /\ N \in Nat \ {0}
      /\ cursors # << >>
  <2>1. cursors \in Seq(Blocks) /\ Len(cursors) >= N
    BY DEF RInv, IInv, TypeOK, SealReady
  <2>. QED  BY <2>1, SizeAssumption, EmptySeq DEF RInv, IInv, TypeOK
<1>3. \A s \in Blocks : Written(s) => s + N <= c1
  BY <1>2 DEF RInv, WrittenBelowBuffer, Unsealed, Exited
<1>4. ~Written(c1)
  BY <1>1, <1>2, <1>3 DEF Blocks
<1>5. store' = [store EXCEPT ![c1] = ToSegment]
  BY <1>1
<1>6. \A s \in Blocks : Written(s)' <=> (s = c1 \/ Written(s))
  BY <1>1, <1>2, <1>5 DEF Written
<1>7. \A s \in Blocks : Written(s)' => s + N <= NextSegmentStart
  BY <1>1, <1>2, <1>3, <1>6 DEF Blocks
<1>. QED  BY <1>1, <1>4, <1>6, <1>7 DEF WrittenKeys

LEMMA RInvInit == Init => RInv
<1> SUFFICES ASSUME Init PROVE RInv
  OBVIOUS
<1>1. IInv
  BY IInvInit
<1>2. \A s \in Blocks : ~Written(s)
  BY DEF Init, SegInit, Written
<1>. QED  BY <1>1, <1>2 DEF Init, SegInit, RInv, WrittenBelowBuffer
(* A step that keeps the store, the snapshots, the buffer, the next block *)
(* and whether SegmentData exists keeps RInv.                             *)
LEMMA RInvKept ==
    ASSUME RInv, IInv',
           UNCHANGED <<store, snapshot, published, cursors, nextBlock, segOpen>>,
           phase' \notin Exited => phase \notin Exited
    PROVE  RInv'
BY DEF RInv, WrittenBelowBuffer, Unsealed, Written

LEMMA RInvStep == RInv /\ [Next]_vars => RInv'
<1> SUFFICES ASSUME RInv, [Next]_vars PROVE RInv'
  OBVIOUS
<1>1. IInv'
  BY IInvStep DEF RInv
<1>2. TypeOK /\ BufferContiguous
  BY DEF RInv, IInv
<1>3. CASE Receive
  <2>1. PICK e \in SourceEvents : HandleEvent(e) /\ SourceAfter(e)
    BY <1>3 DEF Receive
  <2>2. CASE HandleFirst(e) \/ HandleFinalized(e) \/ HandleOther(e)
    <3>1. e.kind # "Ingested"
      <4>1. CASE HandleFirst(e)
        <5>1. ~srcStarted
          BY <4>1 DEF HandleFirst, RInv, IInv
        <5>. QED  BY <2>1, <5>1 DEF SourceEvents, Ev
      <4>. QED  BY <2>2, <4>1 DEF HandleFinalized, HandleOther
    <3>2. UNCHANGED <<store, snapshot, published, cursors, nextBlock, segOpen>>
      BY <2>1, <2>2, <3>1 DEF HandleFirst, HandleFinalized, HandleOther,
                             SourceAfter
    <3>3. phase \notin Exited
      BY <2>2 DEF HandleFirst, HandleFinalized, HandleOther, Exited
    <3>. QED  BY <1>1, <3>2, <3>3, RInvKept
  <2>3. CASE HandleIngested(e)
    <3>1. /\ phase = "recv" /\ e.kind = "Ingested"
          /\ segOpen' = TRUE
          /\ UNCHANGED <<store, snapshot, published>>
      BY <2>3 DEF HandleIngested
    <3>2. e.cursor = nextBlock
      BY <2>1, <3>1 DEF SourceEvents, Ev
    <3>3. Unsealed' = Unsealed
      <4>1. CASE ~segOpen
        <5>1. cursors = << >> /\ cursors' = << nextBlock >>
          BY <2>3, <3>2, <4>1 DEF RInv, HandleIngested
        <5>. QED  BY <5>1 DEF Unsealed
      <4>2. CASE segOpen
        <5>1. cursors' = Append(cursors, nextBlock)
          BY <2>3, <3>2, <4>2 DEF HandleIngested
        <5>2. cursors \in Seq(Blocks)
          BY <1>2 DEF TypeOK
        <5>3. CASE cursors = << >>
          BY <5>1, <5>3 DEF Unsealed
        <5>4. CASE cursors # << >>
          <6>1. Len(cursors) >= 1
            BY <5>2, <5>4, EmptySeq
          <6>2. Append(cursors, nextBlock)[1] = cursors[1]
                /\ Append(cursors, nextBlock) # << >>
            BY <5>2, <6>1, AppendProperties, EmptySeq
          <6>. QED  BY <5>1, <5>4, <6>2 DEF Unsealed
        <5>. QED  BY <5>3, <5>4
      <4>. QED  BY <4>1, <4>2
    <3>. QED  BY <1>1, <3>1, <3>3 DEF RInv, WrittenBelowBuffer, Written, Exited
  <2>. QED  BY <2>1, <2>2, <2>3 DEF HandleEvent
<1>4. CASE SourceEnds
  BY <1>1, <1>4, RInvKept DEF SourceEnds, InputEnded, srcVars, Exited
<1>5. CASE SegmenterStep /\ UNCHANGED srcVars
  <2>1. CASE Cancelled \/ NothingToSeal \/ NotifyStateChanged
    BY <1>1, <1>5, <2>1, RInvKept
    DEF Cancelled, NothingToSeal, NotifyStateChanged, srcVars, Exited
  <2>2. CASE WriteSegment
    <3>1. /\ phase = "seal" /\ phase' = "notify" /\ SealReady
          /\ Len(ToSegment) = SegmentSize
          /\ store' = [store EXCEPT ![SegmentStart(cursors[1])] = ToSegment]
          /\ snapshot' = published'
          /\ segOpen' = ~ClosesGroup
          /\ cursors' = IF ClosesGroup THEN << >> ELSE ToKeep
          /\ nextBlock' = nextBlock
      BY <1>5, <2>2 DEF WriteSegment, srcVars
    <3>2. /\ NextSegmentStart <= nextBlock
          /\ ToKeep # << >> => ToKeep[1] = NextSegmentStart
      BY <1>2, <3>1, SealFacts
    <3>0. NextSegmentStart \in Nat /\ nextBlock \in Nat
      <4>1. NextSegmentStart = cursors[1] + SegmentSize /\ cursors[1] \in Blocks
        BY <1>2, <3>1, SealFacts
      <4>. QED  BY <1>2, <4>1, SizeAssumption, BlockAssumption DEF Blocks, TypeOK
    <3>3. NextSegmentStart <= Unsealed'
      <4>1. CASE ClosesGroup \/ ToKeep = << >>
        <5>1. cursors' = << >>
          BY <3>1, <4>1
        <5>. QED  BY <3>0, <3>1, <3>2, <5>1 DEF Unsealed
      <4>2. CASE ~ClosesGroup /\ ToKeep # << >>
        <5>1. cursors' = ToKeep
          BY <3>1, <4>2
        <5>. QED  BY <3>0, <3>2, <4>2, <5>1 DEF Unsealed
      <4>. QED  BY <4>1, <4>2
    <3>4. \A s \in Blocks : Written(s)' => s + SegmentSize <= NextSegmentStart
      BY <3>1, SealWrite
    <3>5. WrittenBelowBuffer'
      <4>1. NextSegmentStart \in Nat /\ Unsealed' \in Int
        <5>1. NextSegmentStart = cursors[1] + SegmentSize /\ cursors[1] \in Blocks
          BY <1>2, <3>1, SealFacts
        <5>2. cursors' \in Seq(Blocks) /\ nextBlock' \in Nat
          BY <1>1, BlockAssumption DEF IInv, TypeOK
        <5>3. cursors' # << >> => cursors'[1] \in Blocks
          BY <5>2, ElementOfSeq, EmptySeq
        <5>. QED  BY <5>1, <5>2, <5>3, SizeAssumption DEF Unsealed, Blocks
      <4>. QED  BY <3>3, <3>4, <4>1, SizeAssumption DEF WrittenBelowBuffer, Blocks
    <3>. QED  BY <1>1, <3>1, <3>5 DEF RInv, Exited
  <2>3. CASE SealFails
    <3>1. phase' \in Exited /\ segOpen' = segOpen /\ segOpen
      BY <2>3 DEF SealFails, SealReady, Exited
    <3>. QED  BY <1>1, <3>1 DEF RInv
  <2>. QED  BY <1>5, <2>1, <2>2, <2>3 DEF SegmenterStep
<1>6. CASE ConsumerStep /\ UNCHANGED <<segVars, srcVars>>
  BY <1>1, <1>6, RInvKept DEF segVars, srcVars
<1>7. CASE Exit \/ UNCHANGED vars
  BY <1>1, <1>7, RInvKept DEF Exit, vars, segVars, srcVars, chanVars
<1>. QED  BY <1>3, <1>4, <1>5, <1>6, <1>7 DEF Next
(* A step that keeps the store and the snapshot document, and does not    *)
(* bring an exited task back, is a Halt or a stutter.                     *)
LEMMA PubQuiet ==
    ASSUME store' = store, published' = published,
           phase \in Exited => phase' \in Exited
    PROVE  [Pub!PubNext]_Pub!pubVars
<1>1. CASE phase \notin Exited /\ phase' \in Exited
  BY <1>1, PubHalt DEF Pub!PubNext
<1>2. CASE ~(phase \notin Exited /\ phase' \in Exited)
  BY <1>2, PubUnchanged
<1>. QED  BY <1>1, <1>2

(* The seal that writes a segment and publishes it is a Publish; the one  *)
(* that writes it and fails at the snapshot write is a WriteThenHalt.      *)
LEMMA PubSeal ==
    ASSUME RInv, phase = "seal", SealReady, Len(ToSegment) = SegmentSize,
           store' = [store EXCEPT ![SegmentStart(cursors[1])] = ToSegment]
    PROVE  /\ published' = SealedSnapshot(snapshot, ClosesGroup)
              /\ phase' \notin Exited
              => Pub!Publish
           /\ published' = published /\ phase' \in Exited
              => Pub!WriteThenHalt
<1>. DEFINE c1 == cursors[1]
<1>1. /\ c1 \in {s \in Blocks : s % SegmentSize = 0}
      /\ c1 \notin WrittenKeys
      /\ WrittenKeys' = WrittenKeys \cup {c1}
  BY SealWrite
<1>2. snapshot = published /\ phase \notin Exited
  BY DEF RInv, Exited
<1>3. SealedSnapshot(published, ClosesGroup)
        = Pub!Advanced(published, ClosesGroup)
  <2>1. published \in Snapshots /\ ClosesGroup \in BOOLEAN
    BY DEF RInv, IInv, TypeOK, ClosesGroup
  <2>. QED  BY <2>1 DEF SealedSnapshot, Pub!Advanced, Snapshots
<1>4. ASSUME published' = SealedSnapshot(snapshot, ClosesGroup),
             phase' \notin Exited
      PROVE  Pub!Publish
  <2>1. /\ {s \in Blocks : Written(s)}' = {s \in Blocks : Written(s)} \cup {c1}
        /\ published' = Pub!Advanced(published, ClosesGroup)
    BY <1>1, <1>2, <1>3, <1>4 DEF WrittenKeys
  <2>2. ClosesGroup \in BOOLEAN
    BY DEF ClosesGroup
  <2>. QED  BY <1>1, <1>2, <1>4, <2>1, <2>2 DEF Pub!Publish, WrittenKeys
<1>5. ASSUME published' = published, phase' \in Exited
      PROVE  Pub!WriteThenHalt
  <2>1. {s \in Blocks : Written(s)}' = {s \in Blocks : Written(s)} \cup {c1}
    BY <1>1 DEF WrittenKeys
  <2>. QED  BY <1>1, <1>2, <1>5, <2>1 DEF Pub!WriteThenHalt, WrittenKeys
<1>. QED  BY <1>4, <1>5

(* Every step of the segmenter is a step of SegmentPublication or leaves  *)
(* its variables unchanged.                                               *)
LEMMA PubStep == RInv /\ [Next]_vars => [Pub!PubNext]_Pub!pubVars
<1> SUFFICES ASSUME RInv, [Next]_vars PROVE [Pub!PubNext]_Pub!pubVars
  OBVIOUS
<1>1. CASE Receive
  <2>1. PICK e \in SourceEvents : HandleEvent(e) /\ SourceAfter(e)
    BY <1>1 DEF Receive
  <2>. QED  BY <2>1, PubQuiet
            DEF HandleEvent, HandleFirst, HandleIngested, HandleFinalized,
                HandleOther, Exited
<1>2. CASE SourceEnds
  BY <1>2, PubQuiet DEF SourceEnds, InputEnded, Exited
<1>3. CASE SegmenterStep /\ UNCHANGED srcVars
  <2>1. CASE Cancelled \/ NothingToSeal \/ NotifyStateChanged
    BY <2>1, PubQuiet DEF Cancelled, NothingToSeal, NotifyStateChanged, Exited
  <2>2. CASE WriteSegment
    <3>1. /\ phase = "seal" /\ SealReady /\ Len(ToSegment) = SegmentSize
          /\ store' = [store EXCEPT ![SegmentStart(cursors[1])] = ToSegment]
          /\ published' = SealedSnapshot(snapshot, ClosesGroup)
          /\ phase' \notin Exited
      BY <2>2 DEF WriteSegment, Exited
    <3>. QED  BY <3>1, PubSeal DEF Pub!PubNext
  <2>3. CASE SealFails
    <3>1. /\ phase = "seal" /\ SealReady /\ phase' \in Exited
          /\ published' = published
      BY <2>3 DEF SealFails, Exited
    <3>2. CASE store' = store
      BY <3>1, <3>2, PubQuiet
    <3>3. CASE store' # store
      <4>1. /\ Len(ToSegment) = SegmentSize
            /\ store' = [store EXCEPT ![SegmentStart(cursors[1])] = ToSegment]
        BY <2>3, <3>3 DEF SealFails
      <4>. QED  BY <3>1, <4>1, PubSeal DEF Pub!PubNext
    <3>. QED  BY <3>2, <3>3
  <2>. QED  BY <1>3, <2>1, <2>2, <2>3 DEF SegmenterStep
<1>4. CASE ConsumerStep /\ UNCHANGED <<segVars, srcVars>>
  BY <1>4, PubQuiet DEF segVars
<1>5. CASE Exit \/ UNCHANGED vars
  BY <1>5, PubQuiet DEF Exit, vars, segVars
<1>. QED  BY <1>1, <1>2, <1>3, <1>4, <1>5 DEF Next

(***************************************************************************)
(* The segmenter implements SegmentPublication, for all sizes and bounds: *)
(* a segment key is never rewritten, every snapshot written accounts for *)
(* one new segment and advances per spec 8, and a segment is left        *)
(* unpublished only by a task that fails before its snapshot write.      *)
(***************************************************************************)
THEOREM SegmenterImplementsPublication == Spec => PublicationRefined
<1>1. Init => Pub!PubInit
  BY DEF Init, SegInit, Pub!PubInit, Pub!EmptySnapshot, StartingSnapshot,
         Written, Exited
<1>2. Spec => []RInv
  BY RInvInit, RInvStep, PTL DEF Spec
<1>. QED  BY <1>1, <1>2, PubStep, PTL DEF Spec, PublicationRefined, Pub!PubSpec
-----------------------------------------------------------------------------
(***************************************************************************)
(* RevisionCountsSegments.  The written keys are a finite set; a seal     *)
(* adds one fresh key to it, and the published revision moves with it    *)
(* except when the snapshot write fails, which ends the task in "error".  *)
(***************************************************************************)
LEMMA WrittenFinite == IsFiniteSet(WrittenKeys)
<1>1. IsFiniteSet(Blocks)
  BY BlockAssumption, FS_Interval DEF Blocks
<1>. QED  BY <1>1, FS_Subset DEF WrittenKeys

(* No step brings a task back from "error". *)
LEMMA ErrorKept ==
    ASSUME [Next]_vars, phase = "error"
    PROVE  phase' = "error"
<1>1. CASE Receive
  BY <1>1 DEF Receive, HandleEvent, HandleFirst, HandleIngested,
              HandleFinalized, HandleOther
<1>2. CASE SourceEnds
  BY <1>2 DEF SourceEnds, InputEnded
<1>3. CASE SegmenterStep /\ UNCHANGED srcVars
  BY <1>3 DEF SegmenterStep, Cancelled, NothingToSeal, WriteSegment,
              SealFails, NotifyStateChanged
<1>4. CASE ConsumerStep /\ UNCHANGED <<segVars, srcVars>>
  BY <1>4 DEF segVars
<1>5. CASE Exit \/ UNCHANGED vars
  BY <1>5 DEF Exit, vars, segVars
<1>. QED  BY <1>1, <1>2, <1>3, <1>4, <1>5 DEF Next

(* A step that keeps the store and the snapshot document keeps the count. *)
LEMMA CountQuiet ==
    ASSUME RevisionCountsSegments, store' = store, published' = published,
           phase = "error" => phase' = "error"
    PROVE  RevisionCountsSegments'
<1>1. {s \in Blocks : Written(s)}' = {s \in Blocks : Written(s)}
  BY DEF Written
<1>. QED  BY <1>1 DEF RevisionCountsSegments

(* A seal that writes its segment adds one to the count of written keys. *)
LEMMA CountSeal ==
    ASSUME RInv, phase = "seal", SealReady, Len(ToSegment) = SegmentSize,
           store' = [store EXCEPT ![SegmentStart(cursors[1])] = ToSegment]
    PROVE  Cardinality(WrittenKeys') = Cardinality(WrittenKeys) + 1
<1>1. cursors[1] \notin WrittenKeys /\ WrittenKeys' = WrittenKeys \cup {cursors[1]}
  BY SealWrite
<1>. QED  BY <1>1, WrittenFinite, FS_AddElement

LEMMA CountStep ==
    RInv /\ RevisionCountsSegments /\ [Next]_vars => RevisionCountsSegments'
<1> SUFFICES ASSUME RInv, RevisionCountsSegments, [Next]_vars
             PROVE  RevisionCountsSegments'
  OBVIOUS
<1>0. phase = "error" => phase' = "error"
  BY ErrorKept
<1>1. CASE SegmenterStep /\ UNCHANGED srcVars /\ WriteSegment
  <2>1. /\ phase = "seal" /\ SealReady /\ Len(ToSegment) = SegmentSize
        /\ store' = [store EXCEPT ![SegmentStart(cursors[1])] = ToSegment]
        /\ published' = SealedSnapshot(snapshot, ClosesGroup)
        /\ phase' = "notify"
    BY <1>1 DEF WriteSegment
  <2>2. snapshot = published /\ published \in Snapshots
    BY <2>1 DEF RInv, IInv, TypeOK, Exited
  <2>3. published'.revision = published.revision + 1
    BY <2>1, <2>2 DEF SealedSnapshot
  <2>4. Cardinality(WrittenKeys') = Cardinality(WrittenKeys) + 1
    BY <2>1, CountSeal
  <2>. QED  BY <2>1, <2>3, <2>4 DEF RevisionCountsSegments, WrittenKeys
<1>2. CASE SegmenterStep /\ UNCHANGED srcVars /\ SealFails
  <2>1. /\ phase = "seal" /\ SealReady /\ phase' \in {"error", "panic"}
        /\ published' = published
    BY <1>2 DEF SealFails
  <2>2. CASE store' = store
    BY <1>0, <2>1, <2>2, CountQuiet
  <2>3. CASE store' # store
    <3>1. /\ Len(ToSegment) = SegmentSize /\ phase' = "error"
          /\ store' = [store EXCEPT ![SegmentStart(cursors[1])] = ToSegment]
      BY <1>2, <2>3 DEF SealFails
    <3>2. Cardinality(WrittenKeys') = Cardinality(WrittenKeys) + 1
      BY <2>1, <3>1, CountSeal
    <3>. QED  BY <2>1, <3>1, <3>2 DEF RevisionCountsSegments, WrittenKeys
  <2>. QED  BY <2>2, <2>3
<1>3. CASE SegmenterStep /\ UNCHANGED srcVars
           /\ (Cancelled \/ NothingToSeal \/ NotifyStateChanged)
  BY <1>0, <1>3, CountQuiet DEF Cancelled, NothingToSeal, NotifyStateChanged
<1>4. CASE Receive
  <2>1. PICK e \in SourceEvents : HandleEvent(e)
    BY <1>4 DEF Receive
  <2>. QED  BY <1>0, <2>1, CountQuiet
            DEF HandleEvent, HandleFirst, HandleIngested, HandleFinalized,
                HandleOther
<1>5. CASE SourceEnds \/ (ConsumerStep /\ UNCHANGED <<segVars, srcVars>>)
           \/ Exit \/ UNCHANGED vars
  BY <1>0, <1>5, CountQuiet DEF SourceEnds, InputEnded, segVars, Exit, vars
<1>. QED  BY <1>1, <1>2, <1>3, <1>4, <1>5 DEF Next, SegmenterStep

(***************************************************************************)
(* For every segment and group size, first block and block bound, the     *)
(* number of segments in the store is the published revision, and is one  *)
(* more only after the task failed between the segment write and the      *)
(* snapshot write (write_segment_if_needed, segmenter.rs).                *)
(***************************************************************************)
THEOREM RevisionCounted == Spec => []RevisionCountsSegments
<1>1. Init => RevisionCountsSegments
  <2> SUFFICES ASSUME Init PROVE RevisionCountsSegments
    OBVIOUS
  <2>1. {s \in Blocks : Written(s)} = {}
    BY DEF Init, SegInit, Written
  <2>. QED  BY <2>1, FS_EmptySet DEF Init, SegInit, StartingSnapshot,
                                      RevisionCountsSegments
<1>2. Spec => [](RInv /\ RevisionCountsSegments)
  BY <1>1, RInvInit, RInvStep, CountStep, PTL DEF Spec
<1>. QED  BY <1>2, PTL
=============================================================================
