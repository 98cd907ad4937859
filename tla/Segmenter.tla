----------------------------- MODULE Segmenter -----------------------------
(***************************************************************************)
(* The EVM segmenter task (dna/evm/src/ingestion/segmenter.rs).            *)
(*                                                                         *)
(* It consumes BlockEvents, buffers the cursors of ingested blocks in an   *)
(* in-progress SegmentData, and whenever the first SegmentSize buffered    *)
(* blocks are finalized it seals them into a segment artifact, bumps the   *)
(* snapshot revision and counters, writes the snapshot document, and       *)
(* reports StateChanged on its bounded output channel.                     *)
(*                                                                         *)
(* A cursor is abstracted to its block number: the hash is only used to    *)
(* name the staged file, and nothing here compares two hashes.             *)
(*                                                                         *)
(* The handlers are written as operators of an event e so that the         *)
(* composition with the downloader (module Pipeline) can feed them from    *)
(* the event channel.  Standing alone, the events come from an environment *)
(* that obeys the BlockEvent contract of the downloader: Started first,    *)
(* Ingested in consecutive order from FirstBlock, Finalized strictly       *)
(* advancing, Invalidate at any time.                                      *)
(***************************************************************************)
EXTENDS Naturals, Sequences

CONSTANTS
    SegmentSize,    \* SegmentOptions.segment_size
    GroupSize,      \* SegmentOptions.group_size
    FirstBlock,     \* number of the first block the downloader ingests
    MaxBlock,       \* model bound: no block above MaxBlock is produced
    OutCap          \* capacity of the SnapshotChange channel (128 in the code)

ASSUME SizeAssumption ==
    /\ SegmentSize \in Nat \ {0}
    /\ GroupSize \in Nat \ {0}
    /\ GroupSize % SegmentSize = 0

ASSUME BlockAssumption ==
    /\ FirstBlock \in Nat
    /\ FirstBlock % SegmentSize = 0
    /\ MaxBlock \in Nat
    /\ FirstBlock <= MaxBlock

ASSUME CapAssumption == OutCap \in Nat \ {0}

Blocks == 0 .. MaxBlock

(* SegmentOptions::segment_start and ::segment_group_start. *)
SegmentStart(n) == n - (n % SegmentSize)
GroupStart(n) == n - (n % GroupSize)

(***************************************************************************)
(* Messages.  Every variant is a record with the same fields so that the   *)
(* channels are sequences over one set.                                    *)
(***************************************************************************)
EventKinds == {"Started", "Ingested", "Finalized", "Invalidate"}
Events == [kind : EventKinds, cursor : Nat]
Ev(k, c) == [kind |-> k, cursor |-> c]

Ingestion == [groupCount : Nat, extraSegmentCount : Nat]
Snapshots == [revision : Nat, groupCount : Nat, extraSegmentCount : Nat]
IngestionOf(s) == [groupCount |-> s.groupCount,
                   extraSegmentCount |-> s.extraSegmentCount]

ChangeKinds == {"Started", "BlockIngested", "StateChanged"}
Changes == [kind : ChangeKinds, cursor : Nat, state : Ingestion]
Change(k, c, st) == [kind |-> k, cursor |-> c, state |-> st]

StartingSnapshot == [revision |-> 0, groupCount |-> 0, extraSegmentCount |-> 0]

(* Where the task is: waiting for the Started event, in the select loop,   *)
(* inside write_segment_if_needed before a do_write_segment_if_needed      *)
(* call, about to send StateChanged, or exited (Ok, Err, or a panic).      *)
Phases == {"start", "recv", "seal", "notify", "ok", "error", "panic"}
Exited == {"ok", "error", "panic"}

VARIABLES
    phase,       \* control point of segmenter_loop
    finalized,   \* Worker.finalized (block number)
    segOpen,     \* Worker.segment is Some(..)
    groupStart,  \* SegmentData.group_start (block number)
    cursors,     \* SegmentData.cursors
    snapshot,    \* Worker.snapshot (in memory)
    published,   \* the "snapshot" document in durable storage
    store,       \* durable "segment/{start}" artifacts: start -> block numbers
    groupStore,  \* durable "group/{start}" artifacts written
    out,         \* SnapshotChange channel to the consumer
    rxOpen       \* the consumer still holds the receiving end

segVars == <<phase, finalized, segOpen, groupStart, cursors, snapshot,
             published, store, groupStore>>
chanVars == <<out, rxOpen>>

(* A key of the segment store is absent when it maps to the empty          *)
(* sequence: a written segment always holds SegmentSize >= 1 records.      *)
Written(s) == store[s] # <<>>

SegInit ==
    /\ phase = "start"
    /\ finalized = 0
    /\ segOpen = FALSE
    /\ groupStart = 0
    /\ cursors = <<>>
    /\ snapshot = StartingSnapshot
    /\ published = StartingSnapshot
    /\ store = [s \in Blocks |-> <<>>]
    /\ groupStore = {}

(***************************************************************************)
(* tx.send(..).await on the bounded channel: blocks while the channel is   *)
(* full, fails at once when the receiver is gone.  Sent(m) is the          *)
(* successful send; the failure is handled at each call site.              *)
(***************************************************************************)
(* Mutant: a send that never waits for room (an unbounded channel). *)
CanSendUnbounded == TRUE

CanSend == rxOpen => Len(out) < OutCap
Sent(m) == /\ rxOpen
           /\ out' = Append(out, m)
           /\ UNCHANGED rxOpen

(***************************************************************************)
(* The split of the buffered cursors at next_segment_start.  The code      *)
(* filters the Vec, keeping those >= next; the buffer always holds a       *)
(* consecutive run of block numbers (BufferContiguous, proved in           *)
(* SegmenterProofs), on which that filter is the split of the sequence at  *)
(* index SplitIndex.  MCSegmenter checks it against SelectSeq.             *)
(***************************************************************************)
(* Mutant: the split index one too far (the cursor at the bound taken). *)
SplitIndexPastBound(cs, b) ==
    IF cs = <<>> \/ b <= cs[1] THEN 0
    ELSE IF b - cs[1] >= Len(cs) THEN Len(cs)
    ELSE b - cs[1] + 1

(* Mutant: the sealed cursors are not taken out of the buffer. *)
CursorsToKeepAll(cs, b) == cs

SplitIndex(cs, b) ==
    IF cs = <<>> \/ b <= cs[1] THEN 0
    ELSE IF b - cs[1] >= Len(cs) THEN Len(cs)
    ELSE b - cs[1]
CursorsToSegment(cs, b) == SubSeq(cs, 1, SplitIndex(cs, b))

(* Mutant: the two halves of the filter swapped, the sealed cursors kept. *)
CursorsToKeepSealed(cs, b) == SubSeq(cs, 1, SplitIndex(cs, b))

CursorsToKeep(cs, b) == SubSeq(cs, SplitIndex(cs, b) + 1, Len(cs))

-----------------------------------------------------------------------------
(***************************************************************************)
(* segmenter_loop, before the loop: the first event must be Started.       *)
(***************************************************************************)
HandleFirst(e) ==
    /\ phase = "start"
    /\ IF e.kind = "Started"
         THEN /\ finalized' = e.cursor
              /\ CanSend
              /\ IF rxOpen
                   THEN Sent(Change("Started", 0, IngestionOf(snapshot)))
                        /\ phase' = "recv"
                   ELSE phase' = "ok" /\ UNCHANGED chanVars
         ELSE /\ phase' = "error"
              /\ UNCHANGED finalized
              /\ UNCHANGED chanVars
    /\ UNCHANGED <<segOpen, groupStart, cursors, snapshot, published, store,
                   groupStore>>

(* The select loop observes the cancellation token. *)
Cancelled ==
    /\ phase = "recv"
    /\ phase' = "ok"
    /\ UNCHANGED <<finalized, segOpen, groupStart, cursors, snapshot,
                   published, store, groupStore>>
    /\ UNCHANGED chanVars

(* The event stream ended: the loop returns a Fatal error. *)
InputEnded ==
    /\ phase \in {"start", "recv"}
    /\ phase' = "error"
    /\ UNCHANGED <<finalized, segOpen, groupStart, cursors, snapshot,
                   published, store, groupStore>>
    /\ UNCHANGED chanVars

(* Send BlockIngested; the code has todo!() when the receiver is gone. *)
ReportIngested(c) ==
    /\ CanSend
    /\ IF rxOpen THEN Sent(Change("BlockIngested", c, IngestionOf(snapshot)))
                      /\ phase' = "recv"
                 ELSE phase' = "panic" /\ UNCHANGED chanVars

(***************************************************************************)
(* Worker::handle_event(Ingested(cursor)).                                 *)
(***************************************************************************)
HandleIngested(e) ==
    LET c == e.cursor IN
    /\ phase = "recv"
    /\ e.kind = "Ingested"
    /\ \/ /\ ~segOpen
          /\ segOpen' = TRUE
          /\ groupStart' = c
          /\ cursors' = <<c>>
          /\ ReportIngested(c)
       \/ /\ segOpen
          /\ cursors' = Append(cursors, c)
          /\ UNCHANGED <<segOpen, groupStart>>
          /\ IF c >= SegmentStart(finalized)
               THEN ReportIngested(c)
               ELSE phase' = "seal" /\ UNCHANGED chanVars
    /\ UNCHANGED <<finalized, snapshot, published, store, groupStore>>

(* Worker::handle_event(Finalized(cursor)). *)
HandleFinalized(e) ==
    /\ phase = "recv"
    /\ e.kind = "Finalized"
    /\ finalized' = e.cursor
    /\ phase' = "seal"
    /\ UNCHANGED <<segOpen, groupStart, cursors, snapshot, published, store,
                   groupStore>>
    /\ UNCHANGED chanVars

(* Invalidate is todo!(); a second Started is a Fatal error. *)
HandleOther(e) ==
    /\ phase = "recv"
    /\ e.kind \in {"Invalidate", "Started"}
    /\ phase' = IF e.kind = "Invalidate" THEN "panic" ELSE "error"
    /\ UNCHANGED <<finalized, segOpen, groupStart, cursors, snapshot,
                   published, store, groupStore>>
    /\ UNCHANGED chanVars

HandleEvent(e) ==
    \/ HandleFirst(e)
    \/ HandleIngested(e)
    \/ HandleFinalized(e)
    \/ HandleOther(e)

-----------------------------------------------------------------------------
(***************************************************************************)
(* Worker::do_write_segment_if_needed.  SealReady is its chain of early    *)
(* returns: no segment, fewer than SegmentSize cursors, or the             *)
(* SegmentSize-th cursor not yet finalized.                                *)
(***************************************************************************)
(* Mutant: the "data is not finalized yet" early return dropped. *)
SealReadyIgnoringFinality ==
    /\ segOpen
    /\ Len(cursors) >= SegmentSize

SealReady ==
    /\ segOpen
    /\ Len(cursors) >= SegmentSize
    /\ cursors[SegmentSize] <= finalized

NothingToSeal ==
    /\ phase = "seal"
    /\ ~SealReady
    /\ phase' = "recv"
    /\ UNCHANGED <<finalized, segOpen, groupStart, cursors, snapshot,
                   published, store, groupStore>>
    /\ UNCHANGED chanVars

(* Mutant: closing a group keeps counting extra segments. *)
SealedSnapshotNoReset(snap, closesGroup) ==
    [revision |-> snap.revision + 1,
     groupCount |-> IF closesGroup THEN snap.groupCount + 1
                                   ELSE snap.groupCount,
     extraSegmentCount |-> snap.extraSegmentCount + 1]

(* The snapshot after sealing one segment: one more revision and segment,  *)
(* and when the segment closes its group, one more group and no extra.    *)
SealedSnapshot(snap, closesGroup) ==
    [revision |-> snap.revision + 1,
     groupCount |-> IF closesGroup THEN snap.groupCount + 1
                                   ELSE snap.groupCount,
     extraSegmentCount |-> IF closesGroup THEN 0
                                          ELSE snap.extraSegmentCount + 1]

(***************************************************************************)
(* The plan of one seal: next_segment_start from the SegmentSize-th       *)
(* cursor, the cursors taken into the segment and those kept, and whether *)
(* the segment closes the group the SegmentData was opened in.            *)
(***************************************************************************)
NextSegmentStart == SegmentStart(cursors[SegmentSize] + 1)
ToSegment == CursorsToSegment(cursors, NextSegmentStart)
ToKeep == CursorsToKeep(cursors, NextSegmentStart)
ClosesGroup ==
    GroupStart(groupStart) # GroupStart(ToSegment[Len(ToSegment)] + 1)

(***************************************************************************)
(* One segment sealed: the cursors below next_segment_start are taken out *)
(* of the buffer, their staged blocks read, the record count asserted,    *)
(* the segment written under its first block's segment start, the         *)
(* snapshot bumped and written, and on a group boundary the whole         *)
(* SegmentData dropped (self.segment = None).                             *)
(***************************************************************************)
WriteSegment ==
    /\ phase = "seal"
    /\ SealReady
    /\ Len(ToSegment) = SegmentSize
    /\ store' = [store EXCEPT ![SegmentStart(cursors[1])] = ToSegment]
    /\ snapshot' = SealedSnapshot(snapshot, ClosesGroup)
    /\ published' = snapshot'
    /\ phase' = "notify"
    /\ segOpen' = ~ClosesGroup
    /\ cursors' = IF ClosesGroup THEN <<>> ELSE ToKeep
    /\ UNCHANGED <<finalized, groupStart, groupStore>>
    /\ UNCHANGED chanVars

(***************************************************************************)
(* The same call ending the task: a staged block cannot be read, the      *)
(* assert_eq! on the record count (or the expect on an empty segment)     *)
(* panics, the segment write fails, or the segment is written but the     *)
(* snapshot write fails.  The buffer was already split (mem::take).       *)
(***************************************************************************)
SealFails ==
    /\ phase = "seal"
    /\ SealReady
    /\ cursors' = ToKeep
    /\ \/ /\ phase' = "error"
          /\ UNCHANGED <<snapshot, store>>
       \/ /\ Len(ToSegment) # SegmentSize
          /\ phase' = "panic"
          /\ UNCHANGED <<snapshot, store>>
       \/ /\ Len(ToSegment) = SegmentSize
          /\ phase' = "error"
          /\ UNCHANGED <<snapshot, store>>
       \/ /\ Len(ToSegment) = SegmentSize
          /\ store' = [store EXCEPT ![SegmentStart(cursors[1])] = ToSegment]
          /\ snapshot' = SealedSnapshot(snapshot, ClosesGroup)
          /\ phase' = "error"
    /\ UNCHANGED <<finalized, segOpen, groupStart, published, groupStore>>
    /\ UNCHANGED chanVars

(***************************************************************************)
(* write_segment_if_needed: after each segment written, StateChanged with *)
(* the new ingestion state and the finalized cursor; todo!() when the     *)
(* receiver is gone.  Then do_write_segment_if_needed is called again.    *)
(***************************************************************************)
NotifyStateChanged ==
    /\ phase = "notify"
    /\ CanSend
    /\ IF rxOpen
         THEN Sent(Change("StateChanged", finalized, IngestionOf(snapshot)))
              /\ phase' = "seal"
         ELSE phase' = "panic" /\ UNCHANGED chanVars
    /\ UNCHANGED <<finalized, segOpen, groupStart, cursors, snapshot,
                   published, store, groupStore>>

(* The steps the task takes without reading an event. *)
SegmenterStep ==
    \/ Cancelled
    \/ NothingToSeal
    \/ WriteSegment
    \/ SealFails
    \/ NotifyStateChanged

-----------------------------------------------------------------------------
(***************************************************************************)
(* The consumer of the SnapshotChange channel (the stream server): it     *)
(* takes messages or drops its receiver.                                  *)
(***************************************************************************)
ConsumeChange ==
    /\ out # <<>>
    /\ out' = Tail(out)
    /\ UNCHANGED rxOpen

DropReceiver ==
    /\ rxOpen
    /\ rxOpen' = FALSE
    /\ UNCHANGED out

ConsumerStep == ConsumeChange \/ DropReceiver
=============================================================================
