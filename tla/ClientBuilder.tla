---------------------------- MODULE ClientBuilder ----------------------------
(***************************************************************************)
(* Connecting the sdk's stream client (sdk/src/lib.rs: ClientBuilder,      *)
(* connect, MetadataInterceptor, StreamClient::status and the request of   *)
(* start_stream).                                                          *)
(*                                                                         *)
(* The caller configures a ClientBuilder (bearer token, metadata, timeout, *)
(* maximum message size) in any order, then connects.  connect parses the  *)
(* token into the authorization value "Bearer {token}" once, and installs  *)
(* a MetadataInterceptor that, on every request, copies the caller's      *)
(* metadata into the request (insert per key and value, in the map's      *)
(* iteration order) and then inserts the authorization header.            *)
(*                                                                         *)
(* A MetadataMap is a multimap: append keeps several values under one key. *)
(* It is modelled as the sequence of its (key, value) entries in the order *)
(* iter() visits them, a request's metadata as a function from keys to     *)
(* the sequence of their values.  Durations and sizes are abstracted to    *)
(* small sets; a token is a model value, and BadTokens are those whose     *)
(* "Bearer {token}" is not a valid ASCII header value.                     *)
(***************************************************************************)
EXTENDS Naturals, Sequences

CONSTANTS
    Keys,           \* metadata keys the caller may use
    Auth,           \* the key "authorization", one of Keys
    Values,         \* metadata values the caller may use
    Tokens,         \* bearer tokens the caller may give
    BadTokens,      \* tokens whose header value does not parse
    NoToken,        \* Option::None for the token
    Timeouts,       \* durations the caller may set
    DefaultTimeout, \* Duration::from_secs(45)
    MessageSizes,   \* maximum message sizes the caller may set
    NoSize,         \* Option::None for max_message_size
    MaxEntries,     \* model bound: entries of a caller's MetadataMap
    MaxRequests     \* model bound: requests made on the client

ASSUME BuilderAssumption ==
    /\ Auth \in Keys
    /\ BadTokens \subseteq Tokens
    /\ NoToken \notin Tokens
    /\ DefaultTimeout \in Timeouts
    /\ NoSize \notin MessageSizes
    /\ MaxEntries \in Nat
    /\ MaxRequests \in Nat
    /\ \A t \in Tokens : <<"Bearer", t>> # NoToken

(* The value "Bearer {token}" of the authorization header. *)
Bearer(t) == <<"Bearer", t>>

HeaderValues == Values \cup {Bearer(t) : t \in Tokens}

(* A caller's MetadataMap: its entries in iteration order. *)
MetadataMaps == UNION {[1 .. n -> Keys \X Values] : n \in 0 .. MaxEntries}

(* Request metadata: key -> values; no value under a key is absent. *)
EmptyRequest == [k \in Keys |-> << >>]

VARIABLES
    token,          \* ClientBuilder.token
    metadata,       \* ClientBuilder.metadata
    timeout,        \* ClientBuilder.timeout, then StreamClient.timeout
    maxSize,        \* ClientBuilder.max_message_size
    phase,          \* "building", "connected" or "failed"
    tokenMeta,      \* MetadataInterceptor.token_meta (NoToken: None)
    interceptorMeta,\* MetadataInterceptor.metadata
    requests        \* history: the metadata of every request sent

vars == <<token, metadata, timeout, maxSize, phase, tokenMeta,
          interceptorMeta, requests>>

builderVars == <<token, metadata, timeout, maxSize>>

(* ClientBuilder::default. *)
Init ==
    /\ token = NoToken
    /\ metadata = << >>
    /\ timeout = DefaultTimeout
    /\ maxSize = NoSize
    /\ phase = "building"
    /\ tokenMeta = NoToken
    /\ interceptorMeta = << >>
    /\ requests = << >>

-----------------------------------------------------------------------------
(* The with_* setters: each replaces one field of the builder. *)
WithBearerToken ==
    /\ phase = "building"
    /\ \E t \in Tokens \cup {NoToken} : token' = t
    /\ UNCHANGED <<metadata, timeout, maxSize, phase, tokenMeta,
                   interceptorMeta, requests>>

WithMetadata ==
    /\ phase = "building"
    /\ \E m \in MetadataMaps : metadata' = m
    /\ UNCHANGED <<token, timeout, maxSize, phase, tokenMeta,
                   interceptorMeta, requests>>

WithTimeout ==
    /\ phase = "building"
    /\ \E d \in Timeouts : timeout' = d
    /\ UNCHANGED <<token, metadata, maxSize, phase, tokenMeta,
                   interceptorMeta, requests>>

WithMaxMessageSize ==
    /\ phase = "building"
    /\ \E n \in MessageSizes : maxSize' = n
    /\ UNCHANGED <<token, metadata, timeout, phase, tokenMeta,
                   interceptorMeta, requests>>

(* Mutant: connect installs the token without the parse failing on it. *)
ConnectNoParse ==
    /\ phase = "building"
    /\ \/ /\ phase' = "failed"
          /\ UNCHANGED <<tokenMeta, interceptorMeta>>
       \/ /\ tokenMeta' = IF token = NoToken THEN NoToken ELSE Bearer(token)
          /\ interceptorMeta' = metadata
          /\ phase' = "connected"
    /\ UNCHANGED <<builderVars, requests>>

(***************************************************************************)
(* connect: the channel connects or fails; MetadataInterceptor::new parses *)
(* the token into "Bearer {token}" and fails on an invalid value; then the *)
(* client is built (the message size limit applied when one was set).      *)
(***************************************************************************)
Connect ==
    /\ phase = "building"
    /\ \/ /\ phase' = "failed"
          /\ UNCHANGED <<tokenMeta, interceptorMeta>>
       \/ /\ token \in BadTokens
          /\ phase' = "failed"
          /\ UNCHANGED <<tokenMeta, interceptorMeta>>
       \/ /\ token \notin BadTokens
          /\ tokenMeta' = IF token = NoToken THEN NoToken ELSE Bearer(token)
          /\ interceptorMeta' = metadata
          /\ phase' = "connected"
    /\ UNCHANGED <<builderVars, requests>>

-----------------------------------------------------------------------------
(***************************************************************************)
(* MetadataInterceptor::call.  MetadataMap::insert replaces every value   *)
(* under the key with the new one.                                        *)
(***************************************************************************)
Insert(req, k, v) == [req EXCEPT ![k] = <<v>>]

(* The last entry the for loop over iter() visits under key k. *)
LastIndex(m, k) ==
    CHOOSE i \in 1 .. Len(m) : m[i][1] = k /\ \A j \in 1 .. Len(m) : m[j][1] = k => j <= i

(***************************************************************************)
(* The for loop of call: one insert per entry of the caller's map, each   *)
(* replacing what the ones before it left under the key, so that a key    *)
(* ends with the value of its last entry and the other keys are untouched. *)
(***************************************************************************)
Copied(req, m) ==
    [k \in DOMAIN req |->
        IF \E i \in 1 .. Len(m) : m[i][1] = k THEN << m[LastIndex(m, k)][2] >>
                                              ELSE req[k]]

(* Mutant: the authorization header inserted before the caller's metadata. *)
InterceptTokenFirst(req) ==
    Copied(IF tokenMeta = NoToken THEN req ELSE Insert(req, Auth, tokenMeta),
           interceptorMeta)

(* The caller's metadata copied entry by entry, then the token. *)
Intercept(req) ==
    LET copied == Copied(req, interceptorMeta)
    IN  IF tokenMeta = NoToken THEN copied ELSE Insert(copied, Auth, tokenMeta)

(* A request (stream_data of start_stream, or status) goes out through    *)
(* the interceptor; tonic hands it over with empty metadata.              *)
SendRequest ==
    /\ phase = "connected"
    /\ Len(requests) < MaxRequests
    /\ requests' = Append(requests, Intercept(EmptyRequest))
    /\ UNCHANGED <<builderVars, phase, tokenMeta, interceptorMeta>>

(* The builder is consumed by connect: nothing happens after a failure. *)
Done ==
    /\ phase = "failed" \/ Len(requests) = MaxRequests
    /\ UNCHANGED vars

Next ==
    \/ WithBearerToken
    \/ WithMetadata
    \/ WithTimeout
    \/ WithMaxMessageSize
    \/ Connect
    \/ SendRequest
    \/ Done

Spec == Init /\ [][Next]_vars

-----------------------------------------------------------------------------
(* Type invariant. *)
BTypeOK ==
    /\ token \in Tokens \cup {NoToken}
    /\ metadata \in MetadataMaps
    /\ timeout \in Timeouts
    /\ maxSize \in MessageSizes \cup {NoSize}
    /\ phase \in {"building", "connected", "failed"}
    /\ tokenMeta \in {Bearer(t) : t \in Tokens \ BadTokens} \cup {NoToken}
    /\ interceptorMeta \in MetadataMaps
    /\ requests \in Seq([Keys -> Seq(HeaderValues)])
    /\ Len(requests) <= MaxRequests

(***************************************************************************)
(* Spec 6 and the doc comment of with_metadata: authentication is the     *)
(* bearer token in the authorization header, merged with the caller's     *)
(* metadata.  Every request of a client built with a token carries        *)
(* exactly "Bearer {token}" under authorization, whatever metadata (an     *)
(* authorization entry of its own included) the caller set, and in        *)
(* whichever order it called the setters.                                 *)
(***************************************************************************)
RequestsAuthorized ==
    phase = "connected" /\ token # NoToken =>
        \A i \in 1 .. Len(requests) : requests[i][Auth] = <<Bearer(token)>>

(***************************************************************************)
(* Spec 6: additional metadata is forwarded verbatim.  Every value the    *)
(* caller's MetadataMap holds, under a key other than authorization when a *)
(* token is set, is on every request.                                     *)
(***************************************************************************)
MetadataForwardedVerbatim ==
    phase = "connected" =>
        \A i \in 1 .. Len(requests), j \in 1 .. Len(metadata) :
            LET e == metadata[j] IN
            (token = NoToken \/ e[1] # Auth) =>
                \E x \in 1 .. Len(requests[i][e[1]]) : requests[i][e[1]][x] = e[2]
=============================================================================
