---------------------------- MODULE StreamClient ----------------------------
(***************************************************************************)
(* The data stream client of the sdk (sdk/src/lib.rs: start_stream and     *)
(* DataStream::poll_next) against the data stream server it talks to.      *)
(*                                                                         *)
(* The caller supplies a stream of configurations; each one the client     *)
(* takes bumps stream_id and is put with try_send on the bounded request   *)
(* channel (capacity 128) that the transport hands to the server.  The     *)
(* server's responses carry the stream_id of the last request it read;     *)
(* the client drops those of another id, absorbs heartbeats and empty      *)
(* messages, and yields Data and Invalidate.  The transport stream is      *)
(* wrapped in a timeout that yields an Elapsed error when it stays idle.   *)
(*                                                                         *)
(* One call of poll_next is one step of the client; the call that finds    *)
(* both the configuration stream and the transport pending changes nothing *)
(* and is not a step.  The server is not code of this repository: it is    *)
(* modelled from its description (stream ids, reset on a new request,      *)
(* Data, Invalidate and Heartbeat), payloads abstracted away.              *)
(***************************************************************************)
EXTENDS Naturals, Sequences

CONSTANTS
    MaxConfigs,     \* model bound: configurations the caller produces
    ReqCap,         \* capacity of the request channel (128 in the code)
    RespCap,        \* bound on responses in transit
    PerStream,      \* model bound: Data/Invalidate the server sends per id
    MaxTimeouts     \* model bound: Elapsed errors of the timeout wrapper

ASSUME ClientAssumption ==
    /\ MaxConfigs \in Nat \ {0}
    /\ ReqCap \in Nat \ {0}
    /\ RespCap \in Nat \ {0}
    /\ PerStream \in Nat \ {0}
    /\ MaxTimeouts \in Nat

Ids == 0 .. MaxConfigs

(* StreamDataResponse.message: Data, Invalidate, Heartbeat, or None       *)
(* ("Empty"); "Err" is a transport error item of the tonic stream.        *)
MsgKinds == {"Data", "Invalidate", "Heartbeat", "Empty"}
Responses == [kind : MsgKinds \cup {"Err"}, id : Ids]
Resp(k, i) == [kind |-> k, id |-> i]

(* What poll_next returns to the caller: a DataMessage, an error, or the   *)
(* end of the stream; "fwd" records the id of the last request forwarded   *)
(* at that moment (a history field, not state of the code).               *)
ItemKinds == {"Data", "Invalidate", "Err", "End"}
Items == [kind : ItemKinds, id : Ids, fwd : Ids]
Item(k, i, f) == [kind |-> k, id |-> i, fwd |-> f]

VARIABLES
    cfgMade,    \* configurations the caller has put in its stream
    cfgClosed,  \* the caller's configuration stream is finished
    streamId,   \* DataStream.stream_id
    reqs,       \* the request channel inner_tx -> transport (ids)
    lastFwd,    \* history: stream_id of the last configuration forwarded
    srvId,      \* the id the server currently answers for (0: none yet)
    srvBudget,  \* Data/Invalidate the server may still send for srvId
    srvOpen,    \* the transport stream is alive
    resps,      \* responses in transit to the client
    cEnded,     \* poll_next returned Ready(None)
    timeouts,   \* Elapsed errors so far
    outLog      \* history: every item poll_next returned

callerVars == <<cfgMade, cfgClosed>>
clientVars == <<streamId, lastFwd, cEnded, timeouts, outLog>>
serverVars == <<reqs, srvId, srvBudget, srvOpen, resps>>
vars == <<callerVars, clientVars, serverVars>>

(* start_stream: a fresh request channel and stream_id 0. *)
Init ==
    /\ cfgMade = 0
    /\ cfgClosed = FALSE
    /\ streamId = 0
    /\ reqs = <<>>
    /\ lastFwd = 0
    /\ srvId = 0
    /\ srvBudget = 0
    /\ srvOpen = TRUE
    /\ resps = <<>>
    /\ cEnded = FALSE
    /\ timeouts = 0
    /\ outLog = <<>>

-----------------------------------------------------------------------------
(* The caller produces a configuration, or finishes its stream. *)
CallerConfigures ==
    /\ ~cfgClosed
    /\ cfgMade < MaxConfigs
    /\ cfgMade' = cfgMade + 1
    /\ UNCHANGED <<cfgClosed, clientVars, serverVars>>

CallerCloses ==
    /\ ~cfgClosed
    /\ cfgClosed' = TRUE
    /\ UNCHANGED <<cfgMade, clientVars, serverVars>>

(* The configuration stream is polled first: it is ready with a           *)
(* configuration while some is not yet taken, and Ready(None) once it is  *)
(* finished and drained.                                                  *)
ConfigReady == cfgMade > streamId
ConfigEnded == ~ConfigReady /\ cfgClosed
ConfigPending == ~ConfigReady /\ ~cfgClosed

(* Mutant: try_send that only fails on a closed channel, never on a full one. *)
TrySendIgnoringCapacity == srvOpen

(* try_send succeeds: the transport still holds the receiver and the      *)
(* channel has room.                                                      *)
TrySendAccepts == srvOpen /\ Len(reqs) < ReqCap

(* Mutant: the request is built before stream_id is bumped. *)
RequestIdBeforeBump(s) == s

(* The stream_id the request carries: the bumped one. *)
RequestId(s) == s + 1

(***************************************************************************)
(* A configuration: stream_id += 1, the request built with it and put with *)
(* try_send; a full or closed channel makes poll_next return the error     *)
(* (the `?`), otherwise it wakes itself and returns Pending.  stream_id    *)
(* stays bumped either way.                                                *)
(***************************************************************************)
PollConfiguration ==
    /\ ~cEnded
    /\ ConfigReady
    /\ streamId' = streamId + 1
    /\ IF TrySendAccepts
         THEN /\ reqs' = Append(reqs, RequestId(streamId))
              /\ lastFwd' = streamId'
              /\ UNCHANGED outLog
         ELSE /\ outLog' = Append(outLog, Item("Err", 0, lastFwd))
              /\ UNCHANGED <<reqs, lastFwd>>
    /\ UNCHANGED <<callerVars, srvId, srvBudget, srvOpen, resps, cEnded,
                   timeouts>>

(* The configuration stream ended: the data stream ends too. *)
PollConfigurationEnded ==
    /\ ~cEnded
    /\ ConfigEnded
    /\ cEnded' = TRUE
    /\ outLog' = Append(outLog, Item("End", 0, lastFwd))
    /\ UNCHANGED <<callerVars, streamId, lastFwd, timeouts, serverVars>>

(* The transport stream ended (Ready(None)). *)
InnerEnded ==
    /\ ~cEnded
    /\ ConfigPending
    /\ resps = <<>>
    /\ ~srvOpen
    /\ cEnded' = TRUE
    /\ outLog' = Append(outLog, Item("End", 0, lastFwd))
    /\ UNCHANGED <<callerVars, streamId, lastFwd, timeouts, serverVars>>

(* Nothing arrived within the timeout: the Timeout wrapper yields Elapsed *)
(* and keeps the transport stream.                                        *)
TimeoutElapsed ==
    /\ ~cEnded
    /\ ConfigPending
    /\ resps = <<>>
    /\ srvOpen
    /\ timeouts < MaxTimeouts
    /\ timeouts' = timeouts + 1
    /\ outLog' = Append(outLog, Item("Err", 0, lastFwd))
    /\ UNCHANGED <<callerVars, streamId, lastFwd, cEnded, serverVars>>

(* A transport error (a tonic Status) is yielded as an error. *)
InnerError ==
    /\ ~cEnded
    /\ ConfigPending
    /\ resps # <<>>
    /\ Head(resps).kind = "Err"
    /\ resps' = Tail(resps)
    /\ outLog' = Append(outLog, Item("Err", 0, lastFwd))
    /\ UNCHANGED <<callerVars, streamId, lastFwd, cEnded, timeouts, reqs,
                   srvId, srvBudget, srvOpen>>

(* Mutant: a response of an older stream_id is taken as current. *)
IsCurrentOrOlder(i) == i <= streamId

(* The stale check of poll_next. *)
IsCurrent(i) == i = streamId

(***************************************************************************)
(* A response: one of another stream_id is dropped, an empty message and a *)
(* heartbeat are absorbed (the client wakes itself and returns Pending),   *)
(* Data and Invalidate are yielded.                                        *)
(***************************************************************************)
InnerMessage ==
    /\ ~cEnded
    /\ ConfigPending
    /\ resps # <<>>
    /\ Head(resps).kind \in MsgKinds
    /\ resps' = Tail(resps)
    /\ LET r == Head(resps) IN
         IF IsCurrent(r.id) /\ r.kind \in {"Data", "Invalidate"}
           THEN outLog' = Append(outLog, Item(r.kind, r.id, lastFwd))
           ELSE UNCHANGED outLog
    /\ UNCHANGED <<callerVars, streamId, lastFwd, cEnded, timeouts, reqs,
                   srvId, srvBudget, srvOpen>>

ClientPoll ==
    \/ PollConfiguration
    \/ PollConfigurationEnded
    \/ InnerEnded
    \/ TimeoutElapsed
    \/ InnerError
    \/ InnerMessage

-----------------------------------------------------------------------------
(***************************************************************************)
(* The server (modelled from its description): it reads the requests in    *)
(* order and restarts for each new stream_id; it tags every response with  *)
(* the id it answers for; it sends heartbeats (and empty messages) only    *)
(* when idle, with nothing left to send.  The transport may fail,          *)
(* delivering an error and then the end of the stream.                    *)
(***************************************************************************)
ServerReceive ==
    /\ srvOpen
    /\ reqs # <<>>
    /\ srvId' = Head(reqs)
    /\ reqs' = Tail(reqs)
    /\ srvBudget' = PerStream
    /\ UNCHANGED <<srvOpen, resps, callerVars, clientVars>>

ServerSend(k) ==
    /\ srvOpen
    /\ srvId # 0
    /\ Len(resps) < RespCap
    /\ IF k \in {"Data", "Invalidate"} THEN srvBudget > 0 ELSE srvBudget = 0
    /\ resps' = Append(resps, Resp(k, srvId))
    /\ srvBudget' = IF k \in {"Data", "Invalidate"} THEN srvBudget - 1
                                                   ELSE srvBudget
    /\ UNCHANGED <<reqs, srvId, srvOpen, callerVars, clientVars>>

ServerFails ==
    /\ srvOpen
    /\ Len(resps) < RespCap
    /\ srvOpen' = FALSE
    /\ resps' = Append(resps, Resp("Err", 0))
    /\ UNCHANGED <<reqs, srvId, srvBudget, callerVars, clientVars>>

(* The caller stops polling once the stream has ended. *)
Done ==
    /\ cEnded
    /\ UNCHANGED vars

Next ==
    \/ CallerConfigures
    \/ CallerCloses
    \/ ClientPoll
    \/ ServerReceive
    \/ \E k \in MsgKinds : ServerSend(k)
    \/ ServerFails
    \/ Done

(***************************************************************************)
(* Fairness: the caller awaits the stream's next item, so poll_next is     *)
(* called again whenever it can make progress (the code wakes itself       *)
(* after every dropped or absorbed response); the server reads its         *)
(* requests and eventually answers the id it serves with data.             *)
(***************************************************************************)
Fairness ==
    /\ WF_vars(ClientPoll)
    /\ WF_vars(ServerReceive)
    /\ WF_vars(ServerSend("Data"))

Spec == Init /\ [][Next]_vars /\ Fairness
-----------------------------------------------------------------------------
(* Type invariant; the request channel never holds more than its capacity. *)
CTypeOK ==
    /\ cfgMade \in 0 .. MaxConfigs
    /\ cfgClosed \in BOOLEAN
    /\ streamId \in 0 .. cfgMade
    /\ reqs \in Seq(Ids) /\ Len(reqs) <= ReqCap
    /\ lastFwd \in Ids
    /\ srvId \in Ids
    /\ srvBudget \in 0 .. PerStream
    /\ srvOpen \in BOOLEAN
    /\ resps \in Seq(Responses) /\ Len(resps) <= RespCap
    /\ cEnded \in BOOLEAN
    /\ timeouts \in 0 .. MaxTimeouts
    /\ outLog \in Seq(Items)

(***************************************************************************)
(* Spec 8 (client/server): the client never yields a message whose         *)
(* stream_id differs from the last forwarded configuration's id.  Stale    *)
(* responses of an earlier id are still in transit after a                 *)
(* reconfiguration, and the server may not have read the new request yet; *)
(* the stale check in poll_next has to drop exactly those.                 *)
(***************************************************************************)
StaleNeverYielded ==
    \A i \in 1 .. Len(outLog) :
        outLog[i].kind \in {"Data", "Invalidate"} => outLog[i].id = outLog[i].fwd

(* The client has yielded data (or an invalidation) for stream id k. *)
Served(k) ==
    \E i \in 1 .. Len(outLog) :
        outLog[i].kind \in {"Data", "Invalidate"} /\ outLog[i].id = k

(***************************************************************************)
(* Spec 4.F: a configuration forwarded to the server is served: once it is *)
(* the current one, the client eventually yields data for it, unless a     *)
(* newer configuration replaces it or the stream ends.  This needs the     *)
(* request to carry the bumped id, the server to read it past the          *)
(* responses in transit, and the stale check to let its answers through.   *)
(***************************************************************************)
ForwardedConfigurationServed ==
    \A k \in 1 .. MaxConfigs :
        (lastFwd = k /\ streamId = k)
            ~> (Served(k) \/ streamId # k \/ cEnded)

=============================================================================
