------------------------- MODULE ClientBuilderProofs -------------------------
(***************************************************************************)
(* Proofs about module ClientBuilder (sdk/src/lib.rs: ClientBuilder,       *)
(* connect and MetadataInterceptor), for every set of keys, values and     *)
(* tokens, and every bound on entries and requests that BuilderAssumption *)
(* allows.                                                                 *)
(***************************************************************************)
EXTENDS ClientBuilder, WellFoundedInduction, TLAPS

(***************************************************************************)
(* A non-empty set of entry positions has a last one.  It is the smallest *)
(* distance from the end, which exists because < is well-founded on Nat.  *)
(***************************************************************************)
LEMMA LastExists ==
    ASSUME NEW n \in Nat, NEW P \in SUBSET (1 .. n), P # {}
    PROVE  \E i \in P : \A j \in P : j <= i
<1>. DEFINE T == {n - i : i \in P}
            R == OpToRel(<, Nat)
<1>1. T \subseteq Nat /\ T # {}
  <2>1. \A i \in P : n - i \in Nat
    OBVIOUS
  <2>. QED  BY <2>1 DEF T
<1>2. PICK x \in T : \A y \in T : ~(<<y, x>> \in R)
  BY <1>1, WFMin, NatLessThanWellFounded DEF R
<1>3. PICK i \in P : x = n - i
  BY <1>2 DEF T
<1>4. \A j \in P : j <= i
  <2> SUFFICES ASSUME NEW j \in P, j > i PROVE FALSE
    OBVIOUS
  <2>1. n - j \in T /\ n - j \in Nat /\ x \in Nat /\ n - j < x
    BY <1>3 DEF T
  <2>2. <<n - j, x>> \in R
    BY <2>1 DEF OpToRel, R
  <2>. QED  BY <1>2, <2>1, <2>2
<1>. QED  BY <1>3, <1>4

(* A caller's MetadataMap is a sequence of at most MaxEntries entries. *)
LEMMA MetadataMapIsSeq ==
    ASSUME NEW m \in MetadataMaps
    PROVE  /\ m \in Seq(Keys \X Values)
           /\ Len(m) \in 0 .. MaxEntries
           /\ \A i \in 1 .. Len(m) : m[i] \in Keys \X Values
<1>1. PICK n \in 0 .. MaxEntries : m \in [1 .. n -> Keys \X Values]
  BY DEF MetadataMaps
<1>2. n \in Nat
  BY <1>1, BuilderAssumption
<1>3. m \in Seq(Keys \X Values) /\ Len(m) = n
  BY <1>1, <1>2
<1>. QED  BY <1>1, <1>3

(***************************************************************************)
(* Copying a caller's map into a request keeps it a map from keys to       *)
(* header values: a key ends with the value of its last entry, which is a *)
(* caller's value, or keeps what it had.                                  *)
(***************************************************************************)
LEMMA CopiedType ==
    ASSUME NEW m \in MetadataMaps, NEW req \in [Keys -> Seq(HeaderValues)]
    PROVE  Copied(req, m) \in [Keys -> Seq(HeaderValues)]
<1>1. /\ m \in Seq(Keys \X Values)
      /\ Len(m) \in Nat
      /\ \A i \in 1 .. Len(m) : m[i] \in Keys \X Values
  BY MetadataMapIsSeq, BuilderAssumption
<1>2. ASSUME NEW k \in Keys, \E i \in 1 .. Len(m) : m[i][1] = k
      PROVE  << m[LastIndex(m, k)][2] >> \in Seq(HeaderValues)
  <2>. DEFINE P == {i \in 1 .. Len(m) : m[i][1] = k}
  <2>0. P \in SUBSET (1 .. Len(m)) /\ P # {}
    BY <1>2 DEF P
  <2>1. \E i \in P : \A j \in P : j <= i
    BY <1>1, <2>0, LastExists
  <2>2. LastIndex(m, k) \in 1 .. Len(m)
    BY <2>1 DEF LastIndex, P
  <2>3. m[LastIndex(m, k)][2] \in Values
    BY <1>1, <2>2
  <2>. QED  BY <2>3 DEF HeaderValues
<1>. QED  BY <1>2 DEF Copied

-----------------------------------------------------------------------------
(***************************************************************************)
(* The inductive invariant: the type, no request before connect, and an   *)
(* interceptor that holds exactly the bearer value of the builder's token. *)
(***************************************************************************)
BInv ==
    /\ BTypeOK
    /\ phase = "building" => requests = << >>
    /\ phase = "connected" =>
          tokenMeta = IF token = NoToken THEN NoToken ELSE Bearer(token)
    /\ interceptorMeta \in MetadataMaps
    /\ RequestsAuthorized

LEMMA BInvInit == Init => BInv
<1> SUFFICES ASSUME Init PROVE BInv
  OBVIOUS
<1>1. << >> \in MetadataMaps
  <2>1. << >> \in [1 .. 0 -> Keys \X Values] /\ 0 \in 0 .. MaxEntries
    BY BuilderAssumption
  <2>. QED  BY <2>1 DEF MetadataMaps
<1>. QED  BY <1>1, BuilderAssumption DEF Init, BInv, BTypeOK, RequestsAuthorized

(* A request through an interceptor holding a token carries its value     *)
(* under authorization, and is a map from keys to header values.          *)
LEMMA InterceptFacts ==
    ASSUME interceptorMeta \in MetadataMaps,
           tokenMeta \in {Bearer(t) : t \in Tokens \ BadTokens} \cup {NoToken}
    PROVE  /\ Intercept(EmptyRequest) \in [Keys -> Seq(HeaderValues)]
           /\ tokenMeta # NoToken => Intercept(EmptyRequest)[Auth] = << tokenMeta >>
<1>1. EmptyRequest \in [Keys -> Seq(HeaderValues)]
  BY DEF EmptyRequest
<1>2. Copied(EmptyRequest, interceptorMeta) \in [Keys -> Seq(HeaderValues)]
  BY <1>1, CopiedType
<1>3. tokenMeta # NoToken => << tokenMeta >> \in Seq(HeaderValues)
  BY DEF HeaderValues, Bearer
<1>. QED  BY <1>2, <1>3, BuilderAssumption DEF Intercept, Insert

LEMMA BInvStep == BInv /\ [Next]_vars => BInv'
<1> SUFFICES ASSUME BInv, [Next]_vars PROVE BInv'
  OBVIOUS
<1>1. CASE WithBearerToken \/ WithTimeout \/ WithMaxMessageSize
  BY <1>1 DEF WithBearerToken, WithTimeout, WithMaxMessageSize, BInv,
              BTypeOK, RequestsAuthorized
<1>2. CASE WithMetadata
  BY <1>2 DEF WithMetadata, BInv, BTypeOK, RequestsAuthorized
<1>3. CASE Connect
  <2>1. CASE phase' = "failed" /\ UNCHANGED <<tokenMeta, interceptorMeta>>
    BY <1>3, <2>1 DEF Connect, BInv, BTypeOK, RequestsAuthorized, builderVars
  <2>2. CASE /\ token \notin BadTokens
             /\ tokenMeta' = IF token = NoToken THEN NoToken ELSE Bearer(token)
             /\ interceptorMeta' = metadata
             /\ phase' = "connected"
    <3>1. requests = << >> /\ UNCHANGED <<builderVars, requests>>
      BY <1>3 DEF Connect, BInv
    <3>. QED  BY <2>2, <3>1 DEF BInv, BTypeOK, RequestsAuthorized, builderVars
  <2>. QED  BY <1>3, <2>1, <2>2 DEF Connect
<1>4. CASE SendRequest
  <2>1. /\ phase = "connected" /\ Len(requests) < MaxRequests
        /\ requests' = Append(requests, Intercept(EmptyRequest))
        /\ UNCHANGED <<builderVars, phase, tokenMeta, interceptorMeta>>
    BY <1>4 DEF SendRequest
  <2>2. /\ Intercept(EmptyRequest) \in [Keys -> Seq(HeaderValues)]
        /\ tokenMeta # NoToken => Intercept(EmptyRequest)[Auth] = << tokenMeta >>
    BY InterceptFacts DEF BInv, BTypeOK
  <2>3. requests \in Seq([Keys -> Seq(HeaderValues)]) /\ MaxRequests \in Nat
    BY BuilderAssumption DEF BInv, BTypeOK
  <2>4. BTypeOK'
    BY <2>1, <2>2, <2>3 DEF BInv, BTypeOK, builderVars
  <2>5. RequestsAuthorized'
    <3>1. token # NoToken => tokenMeta = Bearer(token) /\ tokenMeta # NoToken
      BY <2>1, BuilderAssumption DEF BInv, BTypeOK, Bearer
    <3>. QED  BY <2>1, <2>2, <2>3, <3>1 DEF BInv, RequestsAuthorized, builderVars
  <2>. QED  BY <2>1, <2>4, <2>5 DEF BInv, builderVars
<1>5. CASE Done \/ UNCHANGED vars
  BY <1>5 DEF Done, vars, BInv, BTypeOK, RequestsAuthorized
<1>. QED  BY <1>1, <1>2, <1>3, <1>4, <1>5 DEF Next

(***************************************************************************)
(* For every key, value and token set and every bound, the builder's and   *)
(* the interceptor's state is well typed: a token that does not parse is  *)
(* never installed, and every request is a map from keys to header values. *)
(***************************************************************************)
THEOREM BuilderTypeCorrect == Spec => []BTypeOK
<1>1. BInv => BTypeOK
  BY DEF BInv
<1>. QED  BY <1>1, BInvInit, BInvStep, PTL DEF Spec

(***************************************************************************)
(* For every key, value and token set and every bound: every request of a *)
(* client that ClientBuilder::connect built with a bearer token carries   *)
(* exactly "Bearer {token}" under authorization, whatever metadata the     *)
(* caller set and in whatever order it called the setters, because call   *)
(* inserts the token after the caller's metadata.                         *)
(***************************************************************************)
THEOREM TokenAlwaysSent == Spec => []RequestsAuthorized
<1>1. BInv => RequestsAuthorized
  BY DEF BInv
<1>. QED  BY <1>1, BInvInit, BInvStep, PTL DEF Spec
=============================================================================
