# TLA+ verification of the DNA ingestion pipeline and stream client

This directory holds TLA+ models of the concurrent parts of this repository,
TLC configurations that model-check them on small instances, and TLAPS proofs
of the main segmenter invariants for every value of the constants.
`PROJECT.json` lists the components, runs, mutants, the map from every
modelled definition to the source lines it translates, the findings, the
hazards and the theorems.

## The system

The EVM ingestion pipeline (`src/dna/evm/src/ingestion/`) is a chain of tokio
tasks. They talk only over bounded mpsc channels of capacity 128. A full
channel blocks the sender. A dropped receiver makes the send fail at once.
Every task selects over its inbound channel, its one in-flight I/O future and
a cancellation token.

- The **chain tracker** produces `ChainChange`: `Initialize{head, finalized}`
  once, then `NewHead`, `NewFinalized` and `Invalidate`. It is not under
  `src/`; it is modelled from spec 4.A as the downloader's environment.
- The **block downloader** (`downloader.rs`, `download_loop` and
  `download_block`) keeps `head` and `current_block_number` and has at most
  one download in flight. It stages every block in local storage and reports
  `BlockEvent`s: `Started`, `Ingested`, `Finalized` and `Invalidate`.
- The **segmenter** (`segmenter.rs`, `segmenter_loop` and `Worker`) buffers
  the cursors of ingested blocks. When the first `N` = segment_size of them
  are finalized, it seals them into `segment/{start}`, bumps the snapshot
  counters, writes the `snapshot` document and reports `StateChanged`.
- The **stream server** consumes `SnapshotChange` and serves subscribers. It
  is not under `src/`; it is modelled from spec 4.E as the stream client's
  peer.
- The **stream client** (`src/sdk/src/lib.rs`, `start_stream` and
  `DataStream::poll_next`) turns the caller's stream of configurations into
  requests tagged with a growing `stream_id`. It drops responses of another
  id and yields `Data` and `Invalidate`. Before that, `ClientBuilder`
  collects a bearer token, metadata, a timeout and a message size, and
  `connect` installs a `MetadataInterceptor` that adds the metadata and the
  `authorization` header to every request.

The other sources are not modelled. `network_manager.rs` is a peer-to-peer
swarm event loop that only logs. `starknet/src/lib.rs` is start-up wiring and
signal handling. `sink-webhook/src/bin.rs` is a CLI entry point. The segment
`mod.rs` files and the generated flatbuffers accessors are pure encoding.

## Modules

| Module | Models | Kind |
|---|---|---|
| `Segmenter` | `segmenter.rs`: state, handlers, seal loop, output channel | component |
| `SegmenterSpec` | segmenter with an event source that keeps the downloader's contract; properties | specification |
| `MCSegmenter` | N=2, M=4, blocks 0..7, output channel of 2; `SplitMatchesFilter` | TLC instance |
| `SegmentPublication` | abstract spec of what the segmenter promises storage readers: keys written once, one publication per segment | abstract specification |
| `SegmenterProofs` | TLAPS proofs about `SegmenterSpec` | proofs |
| `DownloaderProofs` | TLAPS proofs about `DownloaderSpec` | proofs |
| `StreamClientProofs` | TLAPS proofs about `StreamClient` | proofs |
| `ClientBuilderProofs` | TLAPS proofs about `ClientBuilder` | proofs |
| `PipelineProofs` | TLAPS proofs about `Pipeline` | proofs |
| `Downloader` | `downloader.rs`: `download_loop`, `download_block`, event channel | component |
| `DownloaderSpec` | downloader with a chain tracker (spec 4.A) and an event consumer; fairness; properties | specification |
| `MCDownloader` | first block 1, blocks 0..4, channel of 2, one Invalidate | TLC instance |
| `StreamClient` | `lib.rs`: `start_stream` and `poll_next`, with the caller and the server | component and specification |
| `MCStreamClient` | 3 configurations, request channel of 1, 2 responses in transit | TLC instance |
| `ClientBuilder` | `lib.rs`: builder setters, `Default`, `connect`, `MetadataInterceptor::new` and `::call`, requests | component |
| `MCClientBuilder` | keys authorization and one other, 2 values, a good and a bad token, maps of 2 entries, 2 requests | TLC instance |
| `Pipeline` | tracker, downloader and segmenter composed over the `BlockEvent` channel, with one token | composition |
| `MCPipeline` | N=2, M=4, blocks 0..3 from block 0, channels of one slot, one Invalidate | TLC instance |

### Segmenter

State, with the code names they stand for:

- `phase`: the control point of `segmenter_loop`. It is one of waiting for
  `Started`, in the select loop, inside `write_segment_if_needed`, about to
  send `StateChanged`, or exited (Ok, Err or panic).
- `finalized`: `Worker.finalized`.
- `segOpen`, `groupStart` and `cursors`: `Worker.segment` and its
  `SegmentData`.
- `snapshot`: the in-memory snapshot.
- `published`: the `snapshot` document in storage.
- `store`: the `segment/{s}` artifacts, a function from segment start to the
  block numbers stored.
- `groupStore`: the `group/{s}` artifacts.
- `out` and `rxOpen`: the `SnapshotChange` channel.

A cursor is its block number. The hash only names the staged file, and the
code never compares two hashes.

The actions are the handlers:

- `HandleFirst` is the first event.
- `HandleIngested` and `HandleFinalized` each include the call to
  `write_segment_if_needed` that the handler makes: they move to the seal
  control point.
- `HandleOther` covers Invalidate, which is `todo!()` and panics, and a
  second `Started`, which is a Fatal error.
- `Cancelled` and `InputEnded` end the loop.
- `NothingToSeal` is the early return.
- `WriteSegment` is one full iteration of `do_write_segment_if_needed`:
  split, read the staged blocks, assert the record count, write the segment,
  bump and write the snapshot, and drop the `SegmentData` on a group
  boundary.
- `SealFails` is any failure inside that iteration. The buffer has already
  been split by `mem::take`, and the segment may already be written.
- `NotifyStateChanged` sends `StateChanged`.

Every send either blocks on a full channel or fails on a closed one; the
`todo!()` on a failed send is the panic exit. The code splits the buffer with
a filter on `>= next_segment_start`. The model splits the sequence at
`SplitIndex`, a closed form. `SplitMatchesFilter` checks with TLC that the two
agree on every reachable buffer, and `BufferIsContiguous` proves the property
of the buffer that the closed form rests on.

`SegmenterSpec` feeds the handlers from a source that keeps the downloader's
contract of spec 4.B. It produces `Started{f}` first, with
f >= first_block_number. Then it produces `Ingested` for consecutive blocks
from the first block, `Finalized` strictly advancing, and `Invalidate` at any
time.

### Downloader

State:

- `dPhase`: the control points of `download_loop`. It is one of awaiting
  `Initialize`, sending `Started`, in the select loop, blocked in one of the
  three sends, or exited.
- `head`, `current` (`current_block_number`) and `isDownloading`.
- `fetch`: the block of the pending `download_fut`, or `NoFetch`.
- `staged`: the block files written.
- `events` and `evRxOpen`: the `BlockEvent` channel.
- `ingestedLog`: a history variable of the `Ingested` events sent.

The actions:

- `HandleInitialize` covers the check of the first change, including the
  `finalized < first_block_number` comparison, and the initial download.
- `HandleChainChange` covers `NewHead`, with the restart when idle, and
  forwarding `NewFinalized` and `Invalidate`.
- `FetchSucceeds` and `FetchFails` are `download_block` resolving. A failure
  may leave the file written.
- `SendIngested` includes the choice between the next download and going
  idle.
- `AnnounceStarted`, `SendForwarded`, `DCancelled` and `ChainEnded` cover the
  rest of the loop.

Each `tx.send(..).await` is a control point of its own. While it waits for
room, the loop polls neither the chain changes nor the cancellation token.

### Stream client

State:

- `streamId`: `DataStream.stream_id`.
- `reqs`: the request channel behind `inner_tx`.
- `resps`: the responses in transit.
- `cEnded`: `poll_next` returned `Ready(None)`.
- `timeouts`: how many `Elapsed` errors have occurred.
- The server's `srvId`, `srvBudget` and `srvOpen`.
- The caller's `cfgMade` and `cfgClosed`.
- History variables: `lastFwd`, the `stream_id` of the last configuration
  forwarded, and `outLog`, every item returned.

One call of `poll_next` is one step of the client, with one action per
outcome of that call:

- a configuration was taken (`PollConfiguration`, including the `try_send`
  failure);
- the configuration stream ended;
- the transport ended;
- the timeout elapsed;
- a transport error arrived;
- a response arrived (`InnerMessage`), which is dropped as stale, absorbed,
  or yielded.

A call that finds both inner streams pending changes nothing, so it is not a
step. The server reads requests in order and resets for each new id. It sends
heartbeats and empty messages only when idle. The transport may fail with an
error and then end.

### Client builder

`ClientBuilder` keeps the builder's four fields (`token`, `metadata`,
`timeout`, `maxSize`), a `phase` (building, connected, failed), the
interceptor's `tokenMeta` and `interceptorMeta`, and a history `requests` of
the metadata every request carried. A `MetadataMap` is the sequence of its
entries in `iter()` order, so one key can hold several values; a request's
metadata maps each key to the sequence of its values.

- Each `with_*` setter is an action that replaces its field; `Init` is
  `ClientBuilder::default`.
- `Connect` fails when the channel fails, or when the token is one of
  `BadTokens` (the `AsciiMetadataValue` parse of `Bearer {token}` in
  `MetadataInterceptor::new`). Otherwise it installs the interceptor.
- `SendRequest` is a `status` or `stream_data` call. `Intercept` is
  `MetadataInterceptor::call`: the copy loop, then the token insert.
  `Insert` replaces a key's values, as `MetadataMap::insert` does.

The copy loop inserts every entry in `iter()` order, so a key ends with
the value of its last entry and other keys keep what they had. `Copied`
states that result directly (with `LastIndex`), not as a loop, so that
the module has no recursion and TLAPS can reason about it.

### Pipeline

`Pipeline` extends `DownloaderSpec` (downloader and tracker) and
instantiates `Segmenter` as `S` over its own variables. It has its own
`PInit`, `PNext`, `pvars`, `PFairness` and `PSpec`, because `DownloaderSpec`
already defines `Init`, `Next` and `Spec`. It extends `DownloaderSpec`
rather than instantiating it so that `PipelineProofs` can also extend
`DownloaderProofs` and use its invariant and lemmas. tlapm 1.4.5 cannot
use the theorems or the assumptions of an instantiated module. It adds
only what joins the components:

- the segmenter's event is `Head(events)`, the head of the downloader's
  channel (`SegmenterReceives`);
- the segmenter owns the event stream, so when it returns the downloader's
  receiver is gone (`EvReceiverAfter`) and its next send fails;
- the segmenter sees the end of its input only once the downloader has
  returned and the channel is drained (`SegmenterInputEnds`);
- a seal can only succeed when every block it takes has its staged file
  (`SealedBlocksReadable`, the `local_storage.get` of the seal);
- one `cancelled` flag, set by `Cancel`, guards both `DCancelled` and the
  segmenter's `Cancelled`.

The code that starts the tasks and hands them one token is not in the
sources. That wiring follows spec 5, and `PInit`, `Cancel` and `Stopped` are
marked spec_modelled in the map.

## Runs

| Run | Checks | Result |
|---|---|---|
| `segmenter_safety` | `TypeOK`, `StoredSegmentsValid`, `RevisionCountsSegments`, `SplitMatchesFilter`, `BufferContiguous`, `PublicationRefined` | pass, 16,019 states |
| `segmenter_lost_cursors` | `SnapshotSegmentsStored` | violation |
| `downloader_progress` | `DTypeOK`, `IngestedIncreasing`, `NeverFetchesBeyondHead`, `DownloadsReachHead` | pass, 12,896 states |
| `downloader_skips_first_block` | `IngestedContiguous` | violation |
| `client_safety_progress` | `CTypeOK`, `StaleNeverYielded`, `ForwardedConfigurationServed` | pass, 23,766 states |
| `client_builder_auth` | `BTypeOK`, `RequestsAuthorized` | pass, 1,008 states |
| `client_metadata_verbatim` | `MetadataForwardedVerbatim` | violation |
| `pipeline_staging_cancellation` | `PTypeOK`, `BufferedBlocksStaged`, `CancellationStopsPipeline` | pass, 63,587 states |
| `pipeline_partial_first_segment` | `SealTakesFullSegment` | violation |

The segmenter properties that pass:

- **`StoredSegmentsValid`**: every stored segment starts on a segment start,
  holds the N consecutive blocks from it, and holds only finalized blocks.
- **`RevisionCountsSegments`**: the number of stored segments equals the
  published revision, or is one more after a crash between the segment write
  and the snapshot write.
- **`BufferContiguous`**: the buffer is a run of consecutive blocks ending
  just before the next block the source will report.
- **`PublicationRefined`**: the segmenter implements `SegmentPublication`
  under the mapping segment keys = the stored segments, published snapshot =
  the snapshot document, halted = the task has exited. Every step either
  writes a fresh segment key and publishes a snapshot one revision on (one
  more extra segment, or one more group with the extras reset), writes a
  segment and fails before the snapshot, ends the task, or changes nothing
  a storage reader sees.

The downloader properties that pass:

- **`IngestedIncreasing`** (spec 5).
- **`NeverFetchesBeyondHead`**: no download of a block above the known head.
- **`DownloadsReachHead`** (liveness): once the tracker is quiet, the
  downloader is idle at the head, or has exited.

The client properties that pass:

- **`StaleNeverYielded`** (spec 8): every yielded `Data` or `Invalidate`
  carries the id of the last forwarded configuration.
- **`ForwardedConfigurationServed`** (liveness): a forwarded configuration
  that stays current is eventually answered, unless the stream ends.

The client builder property that passes:

- **`RequestsAuthorized`** (spec 6): every request of a client built with a
  token carries exactly `Bearer {token}` under `authorization`, even when
  the caller's metadata has an `authorization` entry of its own, because the
  token is inserted after the metadata.

The pipeline properties that pass:

- **`BufferedBlocksStaged`**: every cursor in the segmenter's buffer has its
  staged block file. The downloader writes the file before it sends
  `Ingested`, and the channel keeps the order.
- **`CancellationStopsPipeline`** (liveness, spec 5): once the token is
  cancelled, both tasks return. This holds even when the downloader is
  blocked in a send that does not poll the token, because a segmenter that
  returns drops the event stream and the send fails.

Each property of a passing run has a mutant in `PROJECT.json`: a plausible bug
in the code it is about, which TLC must catch. Examples are a dropped
finality check in the seal, a split index one too far, a stale check that
accepts older ids, and a request built before `stream_id` is bumped.

### Findings (violation runs)

- **Cursors lost at a group boundary** (`segmenter.rs:345`). When a seal
  closes a group, `self.segment = None` drops the cursors already buffered
  past `next_segment_start`. Those blocks never reach a segment, yet the
  snapshot counts the segment after them. This violates spec 3: every segment
  a published snapshot references exists. The trace has 2-block segments and
  4-block groups: the blocks 0..5 are ingested before finality reaches 3.
- **First block skipped** (`downloader.rs:166`). When `Initialize` has
  head = first_block_number, the loop starts idle with the first block not
  downloaded. The first `NewHead` increments `current_block_number` before
  downloading, so the first block is never ingested. Spec 8 says the
  `Ingested` numbers are contiguous from `first_block_number`.
- **A segment of N-1 blocks** (`segmenter.rs:318`). Composed, the
  downloader's first-block skip makes the segmenter's buffer start at block
  1. The first seal splits at segment_start(2) = 2 and takes one block, so
  `assert_eq!(header_count, segment_size)` panics the segmenter. Spec 4.C
  step 3 says a segment has exactly N records.
- **Repeated metadata keys collapse** (`lib.rs:373`). The interceptor
  copies the caller's `MetadataMap` with `insert`, which replaces the values
  already under the key. A key appended twice reaches the server with its
  last value only. Spec 6 says additional metadata is forwarded verbatim.

## Bounds and why they suffice

- **Segmenter.** N=2 and M=4 give groups of two segments. With blocks 0..7,
  two full groups can be sealed. Ingestion can run a whole segment ahead of
  finality across a group boundary, which is the lost-cursor case. One
  `Finalized` can jump over several segments, so the seal loop runs more than
  once per event. A channel of 2 makes the blocking send and the full
  channel reachable.
- **Downloader.** First block 1 and blocks 0..4 let `Initialize` start
  behind, at, or before the first block, and let `NewHead` raise the head
  twice. One `Invalidate` exercises the forwarded send. A 2-slot channel
  fills.
- **Client.** Three configurations let a response of the first still be in
  transit while the third is current. A one-slot request channel lets a
  burst fill it.

- **Pipeline.** Blocks 0..3 with N=2 allow one seal while the next
  segment is being downloaded. One-slot channels make each task block on a
  full channel, which is the case for cancellation. Starting at block 0 lets
  the tracker's `Initialize` have head 0, the skip case.

- **Client builder.** Two keys, one of them `authorization`, and maps of two
  entries give every shape that matters to `call`: a repeated key, a
  caller-set `authorization`, and a mix. The good and bad token cover both
  outcomes of the parse, and two requests show the interceptor is applied
  the same way each time.

## Fairness

- **Downloader.** `select!` polls every ready branch, so a resolved download
  and a send with room are eventually taken; these are the weak fairness
  conditions. The consumer keeps reading. The tracker polls on an interval,
  so it eventually hands over a change it has. That the RPC answers at all
  is an assumption, because `download_block` has no timeout (a hazard in
  `PROJECT.json`). Nothing obliges cancellation.
- **Client.** The caller awaits the next item, and the code wakes itself
  after every dropped or absorbed response, so `poll_next` is called again
  whenever it can make progress. The server reads its requests and
  eventually answers with data: it sends heartbeats only when idle.

- **Pipeline.** The same fairness as each component has on its own: weak
  fairness for the downloader's and the segmenter's steps, for the tracker,
  and for the stream server reading `SnapshotChange`. A cancelled token is a
  ready branch of each `select!` loop, so it is eventually taken. Nobody is
  obliged to cancel, and the server may drop its receiver.

## Proofs (TLAPS)

### Segmenter (`SegmenterProofs`)

The proofs assume only the named assumptions of `Segmenter`:
`SizeAssumption`, `BlockAssumption` and `CapAssumption`. These are N and M
positive with N dividing M, the first block a segment start, and a positive
channel capacity.

- **`TypeCorrect`**: `Spec => []TypeOK`. It is proved from `TypeInit` and
  `TypeStep`, with one case per action. It includes the bound of the output
  channel, which holds because a send waits for room.
- **`StoredSegmentsCorrect`**: `Spec => []StoredSegmentsValid`.
- **`BufferIsContiguous`**: `Spec => []BufferContiguous`.

`StoredSegmentsValid` is not inductive on its own, because a seal's
correctness depends on the buffer and on `finalized`. The proof uses the
inductive invariant `IInv`, which TLC also checked on the `MCSegmenter`
instance. Its conjuncts are:

- `TypeOK`;
- the worker's `finalized` equals the source's;
- nothing is stored before `Started`;
- the loop is past `Started` only once the source has sent it;
- `BufferContiguous`;
- `StoredSegmentsValid`.

`IInvInit` and `IInvStep` prove it, with one case per action. The argument
for a seal uses these lemmas:

- `SegmentStartShift`: segment_start(n+N) = segment_start(n)+N.
- `SegmentStartBounds`.
- `SplitOfContiguous`: for a run c1, c1+1, ... whose N-th element fixes the
  bound, a split that takes exactly N cursors forces c1 to be a segment start
  and the segment to be c1..c1+N-1. Since the N-th cursor is finalized, so is
  the whole segment.
- `KeepContiguous` and `AppendContiguous`: the kept part and an appended
  block keep the buffer a run that ends before the next block.
- `SealKeepsStoreValid` and `SplitKeepsBuffer` package this for
  `WriteSegment` and `SealFails`.

- **`SegmenterImplementsPublication`**: `Spec => PublicationRefined`.
  `Init` maps to `PubInit`, and every step of `Next` maps to a
  `SegmentPublication` step or a stutter (`PubStep`). The mapped step needs
  more than `IInv`: the invariant `RInv` adds that a task that has not
  exited holds the published snapshot in memory, that a closed segment has
  no buffered cursors, and `WrittenBelowBuffer`: every stored segment lies
  below the first buffered cursor (or the next block). With it, a seal
  writes a key not yet stored (`SealWrite`) and its snapshot is
  `Advanced(pub, closesGroup)` (`PubSeal`). TLC checked `RInv` on
  `MCSegmenter` before the proof.
- **`RevisionCounted`**: `Spec => []RevisionCountsSegments`. The count is
  not inductive on its own, so it is proved together with `RInv`. With
  `RInv`, a seal writes a key not yet stored, so the store grows by
  exactly one (`CountSeal`), and the snapshot it publishes is one revision
  past the published one. A failed seal that wrote its segment leaves the
  count one ahead, in the phase `error`. No step leaves `error`
  (`ErrorKept`), so the count stays one ahead from then on.

### Downloader (`DownloaderProofs`)

The proofs assume only `DownloaderAssumption` and `InvalidationAssumption`:
the first block at most the block bound, a positive channel capacity, and a
natural number of invalidations.

- **`DownloaderTypeCorrect`**: `Spec => []DTypeOK`, which includes the
  bound of the event channel.
- **`FetchesWithinHead`**: `Spec => []NeverFetchesBeyondHead`.
- **`IngestedInOrder`**: `Spec => []IngestedIncreasing`.

Neither property is inductive on its own. A NewHead restart and a
continuation both download `current_block_number + 1`, and only the state
explains why that block is new and within the head. The inductive invariant
`DInv`, also checked by TLC on the `MCDownloader` instance, adds:

- the tracker's head and finalized block are blocks, and the loop's head is
  at most the tracker's;
- before `Initialize` the loop is waiting or has failed, with head 0;
- the block in flight is `current_block_number`, at most the head;
- while waiting for `Initialize`, nothing is ingested or in flight and
  `current_block_number` is the first block;
- a blocked `Ingested` send carries `current_block_number`, with nothing in
  flight;
- every ingested block is at most `current_block_number`, and strictly
  below it while a block is in flight or its `Ingested` is being sent.

`DInvStep` has one lemma per action. Each lemma splits on the branches of
the code: the send succeeding or failing on a closed channel, and the
continuation or going idle. The lemmas it rests on are `OfferFacts` (what
the tracker can hand over), `ChainAfterFacts`, `AppendEvent` (a send with
room keeps the channel within capacity) and `LogAppend` (appending a block
above every entry keeps the log increasing).

### Stream client (`StreamClientProofs`)

The proofs assume only `ClientAssumption`: a positive number of
configurations, positive channel capacities and a positive number of
messages per stream.

- **`StaleDataNeverYielded`**: `Spec => []StaleNeverYielded`. For every
  capacity and bound, `poll_next` never yields a Data or Invalidate message
  whose stream id is not the last forwarded configuration's.
- **`ClientTypeCorrect`**: `Spec => []CTypeOK`, which includes both
  channel bounds.

`StaleNeverYielded` is not inductive. A response that is still in transit
can carry any id, and the client filters it only by comparing ids. The
invariant `CInv` adds `IdsBelowForwarded`: no id in the request channel, at
the server, or in the response channel is above the last forwarded id, and
that id is at most the client's counter. TLC also checks `CInv` on
`MCStreamClient`. With this invariant, the filter `id = lastFwd` is the only
thing that can let a message through, and a reconfiguration only ever
raises `lastFwd`.

`CInvStep` has one lemma per action: the caller's steps, each branch of
`poll_next`, and the server's receive, send and failure. `TailBelow`
(dropping the head keeps a bound on every element) and `OutAppend` are
shared by those lemmas. `CTypeParts` splits `CTypeOK` so that the flags go
to Zenon and the numbers go to SMT.

### Client builder (`ClientBuilderProofs`)

The proofs assume only `BuilderAssumption`. It says that `authorization`
is a key, that bad tokens are tokens, that the None values are distinct
from real ones, and that the bounds are natural numbers.

- **`BuilderTypeCorrect`**: `Spec => []BTypeOK`.
- **`TokenAlwaysSent`**: `Spec => []RequestsAuthorized`.

`RequestsAuthorized` is not inductive. A request is sent by whatever
interceptor is installed, so the proof needs to know which one that is.
The invariant `BInv` adds three facts. No request is sent while building.
From `connect` on, the interceptor holds exactly the bearer value of the
builder's token (or none). The interceptor's map is a caller's map.

`InterceptFacts` shows that a request through such an interceptor carries
the token under `authorization`. `CopiedType` shows that copying a map
keeps a request well typed. Its key step is `LastExists`: a non-empty set
of entry positions has a last one. That is proved with `WFMin` and the
well-foundedness of `<` on `Nat`, because the induction theorems cannot be
instantiated by the provers.

### Pipeline (`PipelineProofs`)

The proofs assume `DownloaderAssumption` (inherited through
`DownloaderSpec`) and `PipelineAssumption`. `PipelineAssumption` restates,
in `Pipeline`, the part of `Segmenter`'s assumptions the proofs use: N and
the output channel's capacity are positive. tlapm cannot cite the
assumptions of an instantiated module.

- **`BufferedStaged`**: `PSpec => []BufferedBlocksStaged`. For every segment
  size, block range and channel capacity, every buffered cursor has its
  staged block file.
- **`PipelineTypeCorrect`**: `PSpec => []PTypeOK`. For every segment and
  group size, block range, channel capacities and number of invalidations,
  the composed pipeline is well typed, and both channels stay within their
  capacity.

Not every step keeps `BufferedBlocksStaged` on its own. A read of an
`Ingested` event adds its cursor to the buffer, and nothing in the buffer
says that cursor is staged. The invariant `StagedInv`, which TLC checked
on `MCPipeline` before the proof, adds the reasons:

- every `Ingested` event in the channel carries a staged block
  (`IngestedIn`);
- a blocked `Ingested` send carries a staged block, because
  `download_block` wrote the file before returning it;
- the staged set only grows;
- the block numbers are natural numbers, so the seal's split index lies
  in `0..Len(cursors)`.

With those, `KeepWithin` shows that the cursors a seal keeps are a
sub-run of the buffer, so they stay staged. The step proof has one lemma
per group of actions. The downloader lemmas are `ReceivesKeeps`,
`DownloaderStopsKeeps` and `WorksKeeps`. The segmenter lemmas are
`SegmenterReceivesKeeps` and `SegmenterWorksKeeps`. `OtherStepsKeep`
covers the rest. `SendKeeps` and `ReadKeeps` are the channel's two ends.

`PTypeOK` is not inductive either. Its downloader part, `DTypeOK`, needs
all of `DownloaderProofs`' invariant `DInv`. The segmenter's types need to
know which blocks come through the channel. The invariant `PInv`, which
TLC checked on `MCPipeline` and on a run from block 2 before the proof,
has four parts:

- `DInv`;
- `StagedInv`;
- `EventsInBlocks`: every event in the channel carries a block of the
  range;
- `SegTyped`: the segmenter's and the output channel's types, including
  the snapshot the sends read.

The downloader's steps keep `DInv` by the lemmas of `DownloaderProofs`,
cited unchanged (`DownloaderSideKeeps`). In the pipeline, the segmenter is
the downloader's only new partner. Its steps take the head of the channel
and may drop the receiver in the same step. `ReaderKeepsDInv` shows that
these steps keep `DInv`. `ReceivesTyped` and `WorksTyped` mirror the
segmenter's own type proof over the instance `S`. `CursorsInBlocks` turns
staged cursors into blocks of the range. `SegmentStartIn`, `SendTyped` and
`KeepWithin` (extended to the part a seal takes) are the lemmas those
proofs rest on.

Out of the prover's reach, and so only model-checked:

- the liveness properties (`DownloadsReachHead`,
  `ForwardedConfigurationServed`, `CancellationStopsPipeline`), which need
  fairness and ENABLED;
- `SplitMatchesFilter`, which compares the closed-form split with the
  code's filter written as `SelectSeq`. That is a recursive operator, and
  what a recursion computes for every input needs induction over data.

## Not modelled, and the plan left

- The chain tracker and the stream server are environments modelled from the
  spec, not code.
- RPC payloads, codecs, hashes and file formats are abstracted away.
- Six divergences from the spec are modelled as the code has them but get
  no run, because a property about them would only restate one line or the
  absence of one:
  - `Invalidate` reaches `todo!()` in the segmenter (`segmenter.rs:199`);
  - a failed `BlockIngested` or `StateChanged` send, once the
    `SnapshotChange` receiver is gone, also reaches `todo!()`
    (`segmenter.rs:181`, `:219`), where spec 5 and 7 ask for a clean return;
  - nothing deletes the staged files of a sealed segment
    (`segmenter.rs:343`), where spec 4.C step 7 says they are deleted;
  - the `group/{start}` artifact is never written although `group_count` is
    published (`segmenter.rs:339`, a TODO);
  - `stream_id` is bumped before `try_send` (`lib.rs:251`), so a failed send
    leaves the client on an id the server never sees; the model has this,
    and `CTypeOK` checks the request channel's bound that makes the send
    fail;
  - the end of the configuration stream ends the data stream at once
    (`lib.rs:239`), on which spec 4.F is silent.
- Time is abstracted to bounded timeouts.
- The planned next steps:
  - the stream server is modelled only as the reader of `SnapshotChange`;
    a model of its `DataMessage` production from segments would join the
    pipeline to the client;
  - the timeout reset by stale traffic (`lib.rs:201`), which needs a model
    of time.
