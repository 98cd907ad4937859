------------------------- MODULE StreamClientProofs -------------------------
(***************************************************************************)
(* TLAPS proofs about StreamClient: poll_next never yields a message of a  *)
(* stream id other than the last one forwarded, for every bound on         *)
(* configurations, channel capacity, responses in transit and timeouts.   *)
(***************************************************************************)
EXTENDS StreamClient, TLAPS

(***************************************************************************)
(* The inductive invariant: every id in the request channel, the id the    *)
(* server answers for and the id of every response in transit are at most *)
(* the last forwarded one, which is at most stream_id.  A response that    *)
(* passes the check id = stream_id therefore carries the forwarded id,     *)
(* even after a try_send failure has bumped stream_id past it.             *)
(***************************************************************************)
IdsBelowForwarded ==
    /\ lastFwd <= streamId
    /\ \A i \in 1 .. Len(reqs) : reqs[i] <= lastFwd
    /\ srvId <= lastFwd
    /\ \A i \in 1 .. Len(resps) : resps[i].id <= lastFwd

CInv ==
    /\ CTypeOK
    /\ IdsBelowForwarded
    /\ StaleNeverYielded
(* CTypeOK in three parts: the counters and ids, the flags, the channels. *)
CNums ==
    /\ cfgMade \in 0 .. MaxConfigs
    /\ streamId \in 0 .. cfgMade
    /\ lastFwd \in Ids
    /\ srvId \in Ids
    /\ srvBudget \in 0 .. PerStream
    /\ timeouts \in 0 .. MaxTimeouts
CFlags ==
    /\ cfgClosed \in BOOLEAN
    /\ srvOpen \in BOOLEAN
    /\ cEnded \in BOOLEAN
CChans ==
    /\ reqs \in Seq(Ids) /\ Len(reqs) <= ReqCap
    /\ resps \in Seq(Responses) /\ Len(resps) <= RespCap
    /\ outLog \in Seq(Items)

LEMMA CTypeParts ==
    /\ CTypeOK <=> CNums /\ CFlags /\ CChans
    /\ CTypeOK' <=> CNums' /\ CFlags' /\ CChans'
BY DEF CTypeOK, CNums, CFlags, CChans

-----------------------------------------------------------------------------
(* An item whose id is its forwarded id, when it is data, keeps the log   *)
(* of returned items free of stale data.                                  *)
LEMMA OutAppend ==
    ASSUME NEW log \in Seq(Items), NEW it \in Items,
           \A i \in 1 .. Len(log) :
               log[i].kind \in {"Data", "Invalidate"} => log[i].id = log[i].fwd,
           it.kind \in {"Data", "Invalidate"} => it.id = it.fwd
    PROVE  /\ Append(log, it) \in Seq(Items)
           /\ \A i \in 1 .. Len(Append(log, it)) :
                  Append(log, it)[i].kind \in {"Data", "Invalidate"}
                      => Append(log, it)[i].id = Append(log, it)[i].fwd
<1>1. Append(log, it) \in Seq(Items)
  OBVIOUS
<1>2. \A i \in 1 .. Len(Append(log, it)) :
          Append(log, it)[i].kind \in {"Data", "Invalidate"}
              => Append(log, it)[i].id = Append(log, it)[i].fwd
  <2> TAKE i \in 1 .. Len(Append(log, it))
  <2>1. CASE i <= Len(log)
    BY <2>1
  <2>2. CASE i = Len(log) + 1
    BY <2>2
  <2> QED BY <2>1, <2>2
<1> QED BY <1>1, <1>2

(* Taking the head of a channel keeps every remaining element's bound. *)
LEMMA TailBelow ==
    ASSUME NEW S, NEW s \in Seq(S), s # <<>>, NEW P(_),
           \A i \in 1 .. Len(s) : P(s[i])
    PROVE  /\ Tail(s) \in Seq(S)
           /\ \A i \in 1 .. Len(Tail(s)) : P(Tail(s)[i])
<1>1. Tail(s) \in Seq(S) /\ Len(Tail(s)) = Len(s) - 1
  OBVIOUS
<1>2. \A i \in 1 .. Len(Tail(s)) : Tail(s)[i] = s[i + 1] /\ i + 1 \in 1 .. Len(s)
  OBVIOUS
<1> QED BY <1>1, <1>2

(* A non-data item for the current forwarded id. *)
LEMMA ControlItem ==
    ASSUME ClientAssumption, CTypeOK, NEW k \in {"Err", "End"}
    PROVE  Item(k, 0, lastFwd) \in Items
           /\ (Item(k, 0, lastFwd).kind \in {"Data", "Invalidate"}
                   => Item(k, 0, lastFwd).id = Item(k, 0, lastFwd).fwd)
BY DEF Item, Items, ItemKinds, Ids, CTypeOK

(* The initial state satisfies the invariant. *)
LEMMA CInvInit == Init => CInv
<1> SUFFICES ASSUME Init PROVE CInv
  OBVIOUS
<1> USE ClientAssumption
<1>1. CTypeOK
  <2>1. reqs \in Seq(Ids) /\ resps \in Seq(Responses) /\ outLog \in Seq(Items)
    BY DEF Init
  <2>2. Len(reqs) <= ReqCap /\ Len(resps) <= RespCap
    BY DEF Init
  <2>3. /\ cfgMade \in 0 .. MaxConfigs /\ streamId \in 0 .. cfgMade
        /\ lastFwd \in Ids /\ srvId \in Ids /\ srvBudget \in 0 .. PerStream
        /\ timeouts \in 0 .. MaxTimeouts
    BY DEF Init, Ids
  <2>4. cfgClosed \in BOOLEAN /\ srvOpen \in BOOLEAN /\ cEnded \in BOOLEAN
    BY DEF Init
  <2> QED BY <2>1, <2>2, <2>3, <2>4 DEF CTypeOK
<1>2. IdsBelowForwarded /\ StaleNeverYielded
  BY DEF Init, IdsBelowForwarded, StaleNeverYielded
<1> QED BY <1>1, <1>2 DEF CInv
-----------------------------------------------------------------------------
LEMMA CallerKeeps ==
    ASSUME CInv, CallerConfigures \/ CallerCloses
    PROVE  CInv'
<1> USE ClientAssumption
<1>1. CTypeOK'
  <2>1. CNums /\ CFlags /\ CChans
    BY CTypeParts DEF CInv
  <2>2. CNums'
    BY <2>1 DEF CNums, CallerConfigures, CallerCloses, clientVars, serverVars
  <2>3. CFlags'
    BY <2>1, Zenon DEF CFlags, CallerConfigures, CallerCloses, clientVars,
                       serverVars
  <2>4. CChans'
    BY <2>1 DEF CChans, CallerConfigures, CallerCloses, clientVars, serverVars
  <2> QED BY <2>2, <2>3, <2>4, CTypeParts
<1> QED BY <1>1 DEF CInv, IdsBelowForwarded, StaleNeverYielded,
                   CallerConfigures, CallerCloses, clientVars, serverVars

(***************************************************************************)
(* A configuration taken: the accepted request carries the new stream_id, *)
(* which becomes the forwarded one; a failed try_send leaves the          *)
(* forwarded id behind the bumped stream_id.                              *)
(***************************************************************************)
LEMMA PollConfigurationKeeps ==
    ASSUME CInv, PollConfiguration
    PROVE  CInv'
<1> USE ClientAssumption
<1>1. /\ streamId \in 0 .. cfgMade /\ cfgMade \in 0 .. MaxConfigs
      /\ streamId < cfgMade /\ streamId' = streamId + 1
      /\ streamId + 1 \in Ids
  BY DEF CInv, CTypeOK, PollConfiguration, ConfigReady, Ids
<1>2. CASE TrySendAccepts
  <2>1. reqs' = Append(reqs, streamId + 1) /\ lastFwd' = streamId + 1
        /\ UNCHANGED outLog /\ Len(reqs) < ReqCap
    BY <1>2 DEF PollConfiguration, RequestId, TrySendAccepts
  <2>2. reqs' \in Seq(Ids) /\ Len(reqs') <= ReqCap
    BY <1>1, <2>1 DEF CInv, CTypeOK
  <2>3. CTypeOK'
    <3>1. CNums /\ CFlags /\ CChans
      BY CTypeParts DEF CInv
    <3>2. CNums'
      BY <1>1, <2>1, <3>1 DEF CNums, PollConfiguration, callerVars
    <3>3. CFlags'
      BY <3>1, Zenon DEF CFlags, PollConfiguration, callerVars
    <3>4. CChans'
      BY <2>1, <2>2, <3>1 DEF CChans, PollConfiguration
    <3> QED BY <3>2, <3>3, <3>4, CTypeParts
  <2>4. IdsBelowForwarded'
    <3>1. \A i \in 1 .. Len(reqs') : reqs'[i] <= lastFwd'
      <4> TAKE i \in 1 .. Len(reqs')
      <4>1. CASE i <= Len(reqs)
        <5>1. reqs'[i] = reqs[i] /\ reqs[i] <= lastFwd /\ lastFwd <= streamId
              /\ reqs[i] \in Ids /\ lastFwd \in Ids
          BY <2>1, <4>1 DEF CInv, CTypeOK, IdsBelowForwarded
        <5> QED BY <1>1, <2>1, <5>1 DEF Ids
      <4>2. CASE i = Len(reqs) + 1
        BY <2>1, <4>2
      <4> QED BY <4>1, <4>2, <2>1
    <3>2. /\ srvId <= lastFwd'
          /\ \A i \in 1 .. Len(resps) : resps[i].id <= lastFwd'
      <4>1. lastFwd <= streamId /\ lastFwd \in Ids /\ srvId \in Ids
            /\ srvId <= lastFwd /\ resps \in Seq(Responses)
            /\ \A i \in 1 .. Len(resps) : resps[i].id <= lastFwd
        BY DEF CInv, CTypeOK, IdsBelowForwarded
      <4>2. \A i \in 1 .. Len(resps) : resps[i].id \in Ids
        <5> TAKE i \in 1 .. Len(resps)
        <5>1. resps[i] \in Responses
          BY <4>1
        <5> QED BY <5>1 DEF Responses
      <4> QED BY <1>1, <2>1, <4>1, <4>2 DEF Ids
    <3> QED BY <1>1, <2>1, <3>1, <3>2 DEF IdsBelowForwarded, PollConfiguration
  <2> QED BY <2>1, <2>3, <2>4 DEF CInv, StaleNeverYielded
<1>3. CASE ~TrySendAccepts
  <2>1. outLog' = Append(outLog, Item("Err", 0, lastFwd))
        /\ UNCHANGED <<reqs, lastFwd>>
    BY <1>3 DEF PollConfiguration
  <2>2. outLog' \in Seq(Items) /\ StaleNeverYielded'
    BY <2>1, ControlItem, OutAppend DEF CInv, CTypeOK, StaleNeverYielded
  <2>3. CTypeOK'
    <3>1. CNums /\ CFlags /\ CChans
      BY CTypeParts DEF CInv
    <3>2. CNums'
      BY <1>1, <2>1, <3>1 DEF CNums, PollConfiguration, callerVars
    <3>3. CFlags'
      BY <3>1, Zenon DEF CFlags, PollConfiguration, callerVars
    <3>4. CChans'
      BY <2>1, <2>2, <3>1 DEF CChans, PollConfiguration
    <3> QED BY <3>2, <3>3, <3>4, CTypeParts
  <2>4. IdsBelowForwarded'
    BY <1>1, <2>1 DEF CInv, CTypeOK, IdsBelowForwarded, PollConfiguration, Ids
  <2> QED BY <2>2, <2>3, <2>4 DEF CInv
<1> QED BY <1>2, <1>3

(* The stream ends, or the timeout yields Elapsed: a control item only. *)
LEMMA ControlKeeps ==
    ASSUME CInv, PollConfigurationEnded \/ InnerEnded \/ TimeoutElapsed
    PROVE  CInv'
<1> USE ClientAssumption
<1>1. outLog' \in Seq(Items) /\ StaleNeverYielded'
  <2>1. \E k \in {"Err", "End"} : outLog' = Append(outLog, Item(k, 0, lastFwd))
    BY DEF PollConfigurationEnded, InnerEnded, TimeoutElapsed
  <2> QED BY <2>1, ControlItem, OutAppend DEF CInv, CTypeOK, StaleNeverYielded
<1>2. CTypeOK'
  <2>1. CNums /\ CFlags /\ CChans
    BY CTypeParts DEF CInv
  <2>2. CNums'
    BY <2>1 DEF CNums, PollConfigurationEnded, InnerEnded, TimeoutElapsed,
                callerVars, serverVars
  <2>3. CFlags'
    BY <2>1, Zenon DEF CFlags, PollConfigurationEnded, InnerEnded,
                       TimeoutElapsed, callerVars, serverVars
  <2>4. CChans'
    BY <1>1, <2>1 DEF CChans, PollConfigurationEnded, InnerEnded,
                      TimeoutElapsed, callerVars, serverVars
  <2> QED BY <2>2, <2>3, <2>4, CTypeParts
<1> QED BY <1>1, <1>2 DEF CInv, IdsBelowForwarded, PollConfigurationEnded,
                          InnerEnded, TimeoutElapsed, callerVars, serverVars
(* The head of the response channel taken: what stays is still bounded. *)
LEMMA RespsTailKeeps ==
    ASSUME CInv, resps # <<>>, resps' = Tail(resps), lastFwd' = lastFwd
    PROVE  /\ resps' \in Seq(Responses) /\ Len(resps') <= RespCap
           /\ \A i \in 1 .. Len(resps') : resps'[i].id <= lastFwd'
           /\ Head(resps) \in Responses /\ Head(resps).id <= lastFwd
<1>1. resps \in Seq(Responses) /\ Len(resps) <= RespCap
      /\ \A i \in 1 .. Len(resps) : resps[i].id <= lastFwd
  BY DEF CInv, CTypeOK, IdsBelowForwarded
<1>2. Tail(resps) \in Seq(Responses)
      /\ \A i \in 1 .. Len(Tail(resps)) : Tail(resps)[i].id <= lastFwd
  BY <1>1, TailBelow
<1>3. Len(Tail(resps)) <= RespCap
  BY <1>1, ClientAssumption
<1>4. Head(resps) = resps[1] /\ 1 \in 1 .. Len(resps)
  BY <1>1
<1> QED BY <1>1, <1>2, <1>3, <1>4

LEMMA InnerErrorKeeps ==
    ASSUME CInv, InnerError
    PROVE  CInv'
<1> USE ClientAssumption
<1>1. /\ resps' \in Seq(Responses) /\ Len(resps') <= RespCap
      /\ \A i \in 1 .. Len(resps') : resps'[i].id <= lastFwd'
  BY RespsTailKeeps DEF InnerError
<1>2. outLog' \in Seq(Items) /\ StaleNeverYielded'
  BY ControlItem, OutAppend DEF InnerError, CInv, CTypeOK, StaleNeverYielded
<1>3. CNums /\ CFlags /\ CChans
  BY CTypeParts DEF CInv
<1>4. CNums' /\ CChans'
  BY <1>1, <1>2, <1>3 DEF CNums, CChans, InnerError, callerVars
<1>5. CFlags'
  BY <1>3, Zenon DEF CFlags, InnerError, callerVars
<1> QED BY <1>1, <1>2, <1>4, <1>5, CTypeParts
        DEF CInv, IdsBelowForwarded, InnerError

(***************************************************************************)
(* A response: dropped, absorbed, or yielded.  A yielded one has passed   *)
(* id = stream_id, and every id in transit is at most the forwarded one,  *)
(* itself at most stream_id: the yielded id is the forwarded one.         *)
(***************************************************************************)
LEMMA InnerMessageKeeps ==
    ASSUME CInv, InnerMessage
    PROVE  CInv'
<1> USE ClientAssumption
<1>1. /\ resps' \in Seq(Responses) /\ Len(resps') <= RespCap
      /\ \A i \in 1 .. Len(resps') : resps'[i].id <= lastFwd'
      /\ Head(resps) \in Responses /\ Head(resps).id <= lastFwd
  BY RespsTailKeeps DEF InnerMessage
<1> DEFINE r == Head(resps)
<1>2. outLog' \in Seq(Items) /\ StaleNeverYielded'
  <2>1. CASE IsCurrent(r.id) /\ r.kind \in {"Data", "Invalidate"}
    <3>1. outLog' = Append(outLog, Item(r.kind, r.id, lastFwd))
      BY <2>1 DEF InnerMessage
    <3>2. r.id = lastFwd
      <4>1. r.id = streamId /\ lastFwd <= streamId /\ r.id \in Ids
            /\ lastFwd \in Ids /\ streamId \in Nat
        BY <1>1, <2>1 DEF IsCurrent, CInv, CTypeOK, IdsBelowForwarded,
                          Responses
      <4> QED BY <1>1, <4>1 DEF Ids
    <3>3. Item(r.kind, r.id, lastFwd) \in Items
      BY <1>1, <2>1 DEF Item, Items, ItemKinds, CInv, CTypeOK, Responses
    <3> QED BY <3>1, <3>2, <3>3, OutAppend
            DEF Item, CInv, CTypeOK, StaleNeverYielded
  <2>2. CASE ~(IsCurrent(r.id) /\ r.kind \in {"Data", "Invalidate"})
    BY <2>2 DEF InnerMessage, CInv, CTypeOK, StaleNeverYielded
  <2> QED BY <2>1, <2>2
<1>3. CNums /\ CFlags /\ CChans
  BY CTypeParts DEF CInv
<1>4. CNums' /\ CChans'
  BY <1>1, <1>2, <1>3 DEF CNums, CChans, InnerMessage, callerVars
<1>5. CFlags'
  BY <1>3, Zenon DEF CFlags, InnerMessage, callerVars
<1> QED BY <1>1, <1>2, <1>4, <1>5, CTypeParts
        DEF CInv, IdsBelowForwarded, InnerMessage
-----------------------------------------------------------------------------
(* The server takes the next request: the id it now answers for was       *)
(* forwarded.                                                             *)
LEMMA ServerReceiveKeeps ==
    ASSUME CInv, ServerReceive
    PROVE  CInv'
<1> USE ClientAssumption
<1>1. reqs \in Seq(Ids) /\ Len(reqs) <= ReqCap /\ reqs # <<>>
      /\ \A i \in 1 .. Len(reqs) : reqs[i] <= lastFwd
  BY DEF CInv, CTypeOK, IdsBelowForwarded, ServerReceive
<1>2. /\ Tail(reqs) \in Seq(Ids) /\ Len(Tail(reqs)) <= ReqCap
      /\ \A i \in 1 .. Len(Tail(reqs)) : Tail(reqs)[i] <= lastFwd
  BY <1>1, TailBelow
<1>3. Head(reqs) \in Ids /\ Head(reqs) <= lastFwd
  BY <1>1
<1>4. CNums /\ CFlags /\ CChans
  BY CTypeParts DEF CInv
<1>5. CNums' /\ CChans'
  BY <1>2, <1>3, <1>4 DEF CNums, CChans, ServerReceive, clientVars,
                          callerVars
<1>6. CFlags'
  BY <1>4, Zenon DEF CFlags, ServerReceive, clientVars, callerVars
<1> QED BY <1>2, <1>3, <1>5, <1>6, CTypeParts
        DEF CInv, IdsBelowForwarded, StaleNeverYielded, ServerReceive,
            clientVars

(* A response is tagged with the id the server answers for. *)
LEMMA ServerSendKeeps ==
    ASSUME CInv, NEW k \in MsgKinds, ServerSend(k)
    PROVE  CInv'
<1> USE ClientAssumption
<1>1. /\ resps \in Seq(Responses) /\ Len(resps) < RespCap
      /\ \A i \in 1 .. Len(resps) : resps[i].id <= lastFwd
      /\ srvId \in Ids /\ srvId <= lastFwd
  BY DEF CInv, CTypeOK, IdsBelowForwarded, ServerSend
<1>2. Resp(k, srvId) \in Responses
  BY <1>1 DEF Resp, Responses
<1>3. /\ resps' \in Seq(Responses) /\ Len(resps') <= RespCap
      /\ \A i \in 1 .. Len(resps') : resps'[i].id <= lastFwd
  <2>1. resps' = Append(resps, Resp(k, srvId))
    BY DEF ServerSend
  <2>2. \A i \in 1 .. Len(resps') : resps'[i].id <= lastFwd
    <3> TAKE i \in 1 .. Len(resps')
    <3>1. CASE i <= Len(resps)
      BY <1>1, <2>1, <3>1
    <3>2. CASE i = Len(resps) + 1
      BY <1>1, <2>1, <3>2 DEF Resp
    <3> QED BY <1>1, <2>1, <3>1, <3>2
  <2> QED BY <1>1, <1>2, <2>1, <2>2
<1>4. srvBudget' \in 0 .. PerStream
  BY DEF ServerSend, CInv, CTypeOK
<1>5. CNums /\ CFlags /\ CChans
  BY CTypeParts DEF CInv
<1>6. CNums' /\ CChans'
  BY <1>3, <1>4, <1>5 DEF CNums, CChans, ServerSend, clientVars, callerVars
<1>7. CFlags'
  BY <1>5, Zenon DEF CFlags, ServerSend, clientVars, callerVars
<1> QED BY <1>3, <1>6, <1>7, CTypeParts
        DEF CInv, IdsBelowForwarded, StaleNeverYielded, ServerSend, clientVars

(* The transport fails: an error response, then the end of the stream. *)
LEMMA ServerFailsKeeps ==
    ASSUME CInv, ServerFails
    PROVE  CInv'
<1> USE ClientAssumption
<1>1. /\ resps \in Seq(Responses) /\ Len(resps) < RespCap
      /\ \A i \in 1 .. Len(resps) : resps[i].id <= lastFwd
      /\ lastFwd \in Ids
  BY DEF CInv, CTypeOK, IdsBelowForwarded, ServerFails
<1>2. Resp("Err", 0) \in Responses
  BY DEF Resp, Responses, Ids
<1>3. /\ resps' \in Seq(Responses) /\ Len(resps') <= RespCap
      /\ \A i \in 1 .. Len(resps') : resps'[i].id <= lastFwd
  <2>1. resps' = Append(resps, Resp("Err", 0))
    BY DEF ServerFails
  <2>2. \A i \in 1 .. Len(resps') : resps'[i].id <= lastFwd
    <3> TAKE i \in 1 .. Len(resps')
    <3>1. CASE i <= Len(resps)
      BY <1>1, <2>1, <3>1
    <3>2. CASE i = Len(resps) + 1
      BY <1>1, <2>1, <3>2 DEF Resp, Ids
    <3> QED BY <1>1, <2>1, <3>1, <3>2
  <2> QED BY <1>1, <1>2, <2>1, <2>2
<1>4. CNums /\ CFlags /\ CChans
  BY CTypeParts DEF CInv
<1>5. CNums' /\ CChans'
  BY <1>3, <1>4 DEF CNums, CChans, ServerFails, clientVars, callerVars
<1>6. CFlags'
  BY <1>4, Zenon DEF CFlags, ServerFails, clientVars, callerVars
<1> QED BY <1>3, <1>5, <1>6, CTypeParts
        DEF CInv, IdsBelowForwarded, StaleNeverYielded, ServerFails, clientVars

(* Every step of the client, the caller and the server keeps CInv. *)
LEMMA CInvStep == CInv /\ [Next]_vars => CInv'
<1> SUFFICES ASSUME CInv, [Next]_vars PROVE CInv'
  OBVIOUS
<1>1. CASE CallerConfigures \/ CallerCloses
  BY <1>1, CallerKeeps
<1>2. CASE ClientPoll
  BY <1>2, PollConfigurationKeeps, ControlKeeps, InnerErrorKeeps,
     InnerMessageKeeps DEF ClientPoll
<1>3. CASE ServerReceive
  BY <1>3, ServerReceiveKeeps
<1>4. CASE \E k \in MsgKinds : ServerSend(k)
  BY <1>4, ServerSendKeeps
<1>5. CASE ServerFails
  BY <1>5, ServerFailsKeeps
<1>6. CASE Done \/ UNCHANGED vars
  BY <1>6 DEF Done, vars, callerVars, clientVars, serverVars, CInv, CTypeOK,
              IdsBelowForwarded, StaleNeverYielded
<1> QED BY <1>1, <1>2, <1>3, <1>4, <1>5, <1>6 DEF Next

-----------------------------------------------------------------------------
(***************************************************************************)
(* Spec 8: poll_next never yields a Data or Invalidate message whose      *)
(* stream_id is not the last forwarded configuration's, whatever the      *)
(* interleaving of reconfigurations, failed try_sends, server restarts    *)
(* and responses in transit.                                              *)
(***************************************************************************)
THEOREM StaleDataNeverYielded == Spec => []StaleNeverYielded
<1>1. Init => CInv
  BY CInvInit
<1>2. CInv /\ [Next]_vars => CInv'
  BY CInvStep
<1>3. CInv => StaleNeverYielded
  BY DEF CInv
<1> QED BY <1>1, <1>2, <1>3, PTL DEF Spec

(* The client's state is well typed and the request channel never holds  *)
(* more than its capacity: try_send refuses a request when it is full.    *)
THEOREM ClientTypeCorrect == Spec => []CTypeOK
<1>1. Init => CInv
  BY CInvInit
<1>2. CInv /\ [Next]_vars => CInv'
  BY CInvStep
<1>3. CInv => CTypeOK
  BY DEF CInv
<1> QED BY <1>1, <1>2, <1>3, PTL DEF Spec
=============================================================================
