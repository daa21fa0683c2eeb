------------------------- MODULE OprfDelegateProofs -------------------------
(***************************************************************************)
(* Proofs about OprfDelegate, for every number of services, every threshold *)
(* and any set of faulty services.  The evaluation that a client or a       *)
(* delegate runs is that of OprfClient, and so is its invariant, Inv.       *)
(***************************************************************************)
EXTENDS OprfDelegate, OprfClientProofs

(* How far the request is.  A response is there only when the delegate is   *)
(* through with distributed_oprf_core.                                      *)
CallInv ==
    /\ mode = "direct" => call = "idle"
    /\ response # Null => call \in {"answered", "done"}
    /\ call = "answered" => response # Null
    /\ outcome # "none" => call = "done"

(* A service error on its way from the delegate to the client is one that   *)
(* threshold services sent.                                                 *)
ErrorInv ==
    ~ rogue =>
        /\ response # Null /\ response.code \in ServiceErrors =>
              Cardinality(Failed(response.code)) >= threshold
        /\ outcome \in ServiceErrors => Cardinality(Failed(outcome)) >= threshold

(* An honest node's info route has the key, so threshold answers that agree *)
(* on one have it too.                                                      *)
FetchInv ==
    /\ \A s \in Service \ Faulty : fetched[s] # Null => fetched[s].key = "key"
    /\ fetch # Null /\ fetch.kind = "found" /\ Cardinality(Faulty) < threshold =>
          fetch.key = "key"

DelegateInv ==
    /\ Inv
    /\ DelegateTypeOK
    /\ CallInv
    /\ ErrorInv
    /\ FetchInv

-----------------------------------------------------------------------------
(* Fewer than threshold faulty services are outnumbered by threshold. *)
LEMMA Outnumbered ==
    ASSUME NEW S, S \subseteq Service, threshold \in Int,
           Cardinality(S) >= threshold, Cardinality(Faulty) < threshold
    PROVE  S \ Faulty # {}
<1> SUFFICES ASSUME S \subseteq Faulty PROVE FALSE
  OBVIOUS
<1>1. IsFiniteSet(Faulty) /\ Faulty \subseteq Service
  BY ClientAssumption, FS_Subset
<1>2. IsFiniteSet(S) /\ Cardinality(S) <= Cardinality(Faulty)
  BY <1>1, FS_Subset
<1>3. Cardinality(S) \in Nat /\ Cardinality(Faulty) \in Nat
  BY <1>1, <1>2, FS_CardinalityType
<1> QED
  BY <1>2, <1>3

(* The error responses the delegate makes. *)
LEMMA ErrorResponses ==
    \A st \in {400, 408, 500, 503}, c \in ServiceErrors \cup {"text"} :
        /\ ErrorResponse(st, c) \in Response /\ ErrorResponse(st, c) # Null
        /\ ErrorResponse(st, c).code = c
<1>1. ASSUME NEW st \in {400, 408, 500, 503}, NEW c \in ServiceErrors \cup {"text"}
      PROVE  /\ ErrorResponse(st, c) \in Response /\ ErrorResponse(st, c).code = c
  BY DEF ErrorResponse, Response, PublicKey
<1> QED
  BY <1>1, ResponseAssumption

(* The responses with a result in them. *)
LEMMA OkResponses ==
    ASSUME NEW k \in PublicKey, NEW v \in BOOLEAN
    PROVE  /\ OkResponse(k, v) \in Response /\ OkResponse(k, v) # Null
           /\ OkResponse(k, v).code = "text"
<1>1. OkResponse(k, v) \in Response /\ OkResponse(k, v).code = "text"
  BY DEF OkResponse, Response
<1> QED
  BY <1>1, ResponseAssumption

(* The end of distributed_oprf_core in the delegate, one way or the other. *)
LEMMA DropInv ==
    ASSUME Inv, DropCore,
           \/ UNCHANGED <<reply, result>>
           \/ reply' = [s \in Service |-> Null] /\ result' = "none"
    PROVE  Inv'
<1>1. /\ phase' = "done" /\ waiting' = {} /\ groups' = [e \in Epoch |-> NoSessions]
      /\ errors' = << >> /\ chosen' = NoSessions /\ proof' = [s \in Service |-> "none"]
      /\ UNCHANGED <<threshold, unique, party, nodeEpoch>>
  BY DEF DropCore
<1>2. ClientTypeOK'
  <2>1. NoSessions \in OprfSessions
    BY DEF NoSessions, OprfSessions
  <2>2. reply' \in [Service -> Reply \cup {Null}] /\ result' \in Results
    BY DEF Inv, ClientTypeOK, Results
  <2> QED
    BY <1>1, <2>1, <2>2 DEF Inv, ClientTypeOK
<1>3. HonestReplies'
  BY <1>1 DEF Inv, HonestReplies
<1>4. Faulty = {} /\ threshold' = Threshold => \A s \in Service : proof'[s] # "rejected"
  BY <1>1
<1>5. ResultInv'
  <2>1. CASE UNCHANGED <<reply, result>>
    BY <1>1, <1>4, <2>1, ResultKept DEF Inv
  <2>2. CASE result' = "none"
    BY <1>4, <2>2, NoResult
  <2> QED
    BY <2>1, <2>2
<1> QED
  BY <1>1, <1>2, <1>3, <1>5, DoneInv

(* The threshold is an argument: no step changes it. *)
LEMMA ThresholdFixed == [DelegateNext]_allVars => threshold' = threshold
BY DEF DelegateNext, allVars, vars, coreVars, CoreStep, distributed_oprf_core, Rotate,
       NodeReply, init_sessions, NodeProof, init_sessions_failed, generate_challenge_request,
       finish_sessions, finalize_distributed_oprf, delegate_distributed_oprf, check_version,
       delegate_oprf_handler, DropCore, TimeoutLayer, RogueDelegate, ReceiveResponse,
       fetch_oprf_public_key

(* Steps that leave the information route alone. *)
LEMMA FetchKept ==
    ASSUME FetchInv, UNCHANGED fetchVars, threshold' = threshold
    PROVE  FetchInv'
BY DEF FetchInv, fetchVars

(* Steps that leave the answers of the nodes alone. *)
LEMMA FailedKept ==
    ASSUME reply' = reply
    PROVE  \A x : Failed(x)' = Failed(x)
BY DEF Failed

-----------------------------------------------------------------------------
(* A step of distributed_oprf_core, in the client or in the delegate: the   *)
(* answers it takes come before any response.                               *)
LEMMA CoreStepInv ==
    ASSUME DelegateInv, CoreRuns, UNCHANGED <<callVars, fetchVars>>, Inv',
           threshold' = threshold
    PROVE  DelegateInv'
<1>1. /\ UNCHANGED <<mode, rogue, version, call, response, outcome, fetched, fetch>>
      /\ response = Null /\ outcome = "none"
  BY DEF DelegateInv, CallInv, CoreRuns, callVars, fetchVars
<1>2. DelegateTypeOK'
  BY <1>1 DEF DelegateInv, DelegateTypeOK, Inv
<1>3. CallInv' /\ ErrorInv'
  BY <1>1 DEF DelegateInv, CallInv, ErrorInv, ServiceErrors
<1> QED
  BY <1>2, <1>3, FetchKept DEF DelegateInv

(* The request, the version check, a rogue delegate and the response: steps *)
(* outside distributed_oprf_core.                                           *)
LEMMA CallInvStep ==
    ASSUME DelegateInv, UNCHANGED <<coreVars, mode, rogue, version, fetchVars>>,
           delegate_distributed_oprf \/ check_version \/ RogueDelegate \/ ReceiveResponse
    PROVE  DelegateInv'
<1>1. /\ Inv' /\ UNCHANGED <<reply, threshold, mode, rogue, version, fetched, fetch>>
      /\ \A x : Failed(x)' = Failed(x)
  BY Stutter, FailedKept DEF DelegateInv, coreVars, vars, nodeVars, fetchVars
<1>2. FetchInv'
  BY <1>1, FetchKept DEF DelegateInv
<1>3. CASE delegate_distributed_oprf
  <2>1. call = "idle" /\ call' = "sent" /\ mode = "delegated"
        /\ UNCHANGED <<response, outcome>>
    BY <1>3 DEF delegate_distributed_oprf
  <2>2. DelegateTypeOK'
    BY <1>1, <2>1 DEF DelegateInv, DelegateTypeOK, Inv
  <2>3. CallInv' /\ ErrorInv'
    BY <1>1, <2>1 DEF DelegateInv, CallInv, ErrorInv
  <2> QED
    BY <1>1, <1>2, <2>2, <2>3 DEF DelegateInv
<1>4. CASE check_version
  <2>1. call = "sent" /\ outcome' = outcome
    BY <1>4 DEF check_version
  <2>2. \/ call' = "running" /\ response' = response
        \/ call' = "answered" /\ response' = ErrorResponse(400, "text")
    BY <1>4 DEF check_version, Respond
  <2>3. \/ call' = "running" /\ response' = response
        \/ /\ call' = "answered" /\ response' \in Response /\ response' # Null
           /\ response'.code = "text"
    BY <2>2, ErrorResponses
  <2>4. DelegateTypeOK'
    BY <1>1, <2>1, <2>3 DEF DelegateInv, DelegateTypeOK, Inv
  <2>5. CallInv' /\ ErrorInv'
    BY <1>1, <2>1, <2>3 DEF DelegateInv, CallInv, ErrorInv, ServiceErrors
  <2> QED
    BY <1>1, <1>2, <2>4, <2>5 DEF DelegateInv
<1>5. CASE RogueDelegate
  <2>1. call = "sent" /\ rogue /\ outcome' = outcome /\ call' = "answered"
    BY <1>5 DEF RogueDelegate, Respond
  <2>2. response' \in {OkResponse("otherKey", TRUE), OkResponse("key", FALSE),
                       ErrorResponse(400, "ServiceErrorA"), ErrorResponse(500, "text")}
    BY <1>5 DEF RogueDelegate, Respond
  <2>3. response' \in Response /\ response' # Null
    <3>1. /\ "key" \in PublicKey /\ "otherKey" \in PublicKey /\ "ServiceErrorA" \in ServiceErrors
          /\ 400 \in {400, 408, 500, 503} /\ 500 \in {400, 408, 500, 503}
      BY DEF PublicKey, ServiceErrors
    <3>2. CASE response' = OkResponse("otherKey", TRUE) \/ response' = OkResponse("key", FALSE)
      BY <3>1, <3>2, OkResponses, Zenon
    <3>3. CASE \/ response' = ErrorResponse(400, "ServiceErrorA")
               \/ response' = ErrorResponse(500, "text")
      BY <3>1, <3>3, ErrorResponses
    <3> QED
      BY <2>2, <3>2, <3>3
  <2>4. DelegateTypeOK'
    BY <1>1, <2>1, <2>3 DEF DelegateInv, DelegateTypeOK, Inv
  <2>5. CallInv' /\ ErrorInv'
    BY <1>1, <2>1, <2>3 DEF DelegateInv, CallInv, ErrorInv
  <2> QED
    BY <1>1, <1>2, <2>4, <2>5 DEF DelegateInv
<1>6. CASE ReceiveResponse
  <2>1. /\ call = "answered" /\ call' = "done" /\ response' = response /\ response # Null
        /\ \/ outcome' \in {"Ok", "InvalidDLogProof", "DelegateServerError", "DelegateRequest"}
           \/ outcome' = response.code /\ response.code \in ServiceErrors
    BY <1>6 DEF ReceiveResponse, Finish, DelegateInv, CallInv
  <2>2. DelegateTypeOK'
    BY <1>1, <2>1 DEF DelegateInv, DelegateTypeOK, Inv, Outcomes
  <2>3. CallInv'
    BY <1>1, <2>1 DEF DelegateInv, CallInv
  <2>4. ErrorInv'
    BY <1>1, <2>1 DEF DelegateInv, ErrorInv, ServiceErrors
  <2> QED
    BY <1>1, <1>2, <2>2, <2>3, <2>4 DEF DelegateInv
<1> QED
  BY <1>3, <1>4, <1>5, <1>6

(* The handler answers with what distributed_oprf_core ended with; a        *)
(* verdict on a service error has its threshold of answers behind it.       *)
LEMMA HandlerInv ==
    ASSUME DelegateInv, delegate_oprf_handler
    PROVE  DelegateInv'
<1>1. /\ Inv' /\ UNCHANGED <<reply, threshold, mode, rogue, version, fetched, fetch>>
      /\ call = "running"
      /\ \A x : Failed(x)' = Failed(x)
  BY DropInv, FailedKept DEF DelegateInv, delegate_oprf_handler, DropCore, fetchVars
<1>2. FetchInv'
  BY <1>1, FetchKept DEF DelegateInv, fetchVars
<1>3. /\ result # "Panic" /\ response = Null /\ outcome = "none"
      /\ result \in ServiceErrors => Cardinality(Failed(result)) >= threshold
  BY <1>1 DEF DelegateInv, CallInv, Inv, ResultInv, HonestNodesVerify, VerdictBacked,
              ServiceErrors
<1>4. CASE /\ phase = "core" /\ Respond(OkResponse(chosen.keys[1], ProofVerifies))
           /\ outcome' = outcome
  <2>1. chosen.keys[1] \in PublicKey
    BY <1>4, ChosenShape DEF DelegateInv
  <2>2. ProofVerifies \in BOOLEAN
    BY DEF ProofVerifies
  <2>3. /\ response' \in Response /\ response' # Null /\ response'.code = "text"
        /\ call' = "answered" /\ outcome' = outcome
    <3>1. /\ response' = OkResponse(chosen.keys[1], ProofVerifies)
          /\ call' = "answered" /\ outcome' = outcome
      BY <1>4 DEF Respond
    <3>2. /\ OkResponse(chosen.keys[1], ProofVerifies) \in Response
          /\ OkResponse(chosen.keys[1], ProofVerifies) # Null
          /\ OkResponse(chosen.keys[1], ProofVerifies).code = "text"
      BY <2>1, <2>2, OkResponses, Zenon
    <3> QED
      BY <3>1, <3>2
  <2>4. DelegateTypeOK'
    BY <1>1, <2>3 DEF DelegateInv, DelegateTypeOK, Inv
  <2>5. CallInv' /\ ErrorInv'
    BY <1>1, <1>3, <2>3 DEF DelegateInv, CallInv, ErrorInv, ServiceErrors
  <2> QED
    BY <1>1, <1>2, <2>4, <2>5 DEF DelegateInv
<1>5. CASE Respond(FailureResponse(result)) /\ outcome' = outcome
  <2>1. \/ result \in ServiceErrors /\ response' = ErrorResponse(400, result)
        \/ response' = ErrorResponse(503, "text") \/ response' = ErrorResponse(500, "text")
    BY <1>5 DEF Respond, FailureResponse
  <2>2. /\ response' \in Response /\ response' # Null
        /\ response'.code = "text" \/ (response'.code = result /\ result \in ServiceErrors)
    BY <2>1, ErrorResponses
  <2>3. call' = "answered" /\ outcome' = outcome
    BY <1>5 DEF Respond
  <2>4. DelegateTypeOK'
    BY <1>1, <2>2, <2>3 DEF DelegateInv, DelegateTypeOK, Inv
  <2>5. CallInv'
    BY <1>1, <1>3, <2>2, <2>3 DEF DelegateInv, CallInv
  <2>6. ErrorInv'
    BY <1>1, <1>3, <2>2, <2>3 DEF DelegateInv, ErrorInv, ServiceErrors
  <2> QED
    BY <1>1, <1>2, <2>4, <2>5, <2>6 DEF DelegateInv
<1> QED
  BY <1>3, <1>4, <1>5 DEF delegate_oprf_handler

(* The timer drops the handler, and with it all that the nodes answered. *)
LEMMA TimeoutInv ==
    ASSUME DelegateInv, TimeoutLayer
    PROVE  DelegateInv'
<1>1. /\ Inv' /\ UNCHANGED <<threshold, mode, rogue, version, outcome, fetched, fetch>>
      /\ call = "running" /\ call' = "answered" /\ response' = ErrorResponse(408, "text")
  BY DropInv DEF DelegateInv, TimeoutLayer, DropCore, Respond, fetchVars
<1>2. FetchInv'
  BY <1>1, FetchKept DEF DelegateInv, fetchVars
<1>3. response' \in Response /\ response' # Null /\ response'.code = "text"
  BY <1>1, ErrorResponses
<1>4. outcome = "none"
  BY <1>1 DEF DelegateInv, CallInv
<1>5. DelegateTypeOK'
  BY <1>1, <1>3 DEF DelegateInv, DelegateTypeOK, Inv
<1>6. CallInv' /\ ErrorInv'
  BY <1>1, <1>3, <1>4 DEF DelegateInv, CallInv, ErrorInv, ServiceErrors
<1> QED
  BY <1>1, <1>2, <1>5, <1>6 DEF DelegateInv

(* An answer of the information route: with fewer than threshold faulty     *)
(* services, an honest one is among those that agree.                       *)
LEMMA FetchStep ==
    ASSUME DelegateInv, NEW s \in Service, fetch_oprf_public_key(s)
    PROVE  DelegateInv'
<1>1. /\ Inv' /\ UNCHANGED <<reply, threshold, mode, rogue, version, call, response, outcome>>
      /\ \A x : Failed(x)' = Failed(x)
  BY Stutter, FailedKept DEF DelegateInv, fetch_oprf_public_key, coreVars, vars, nodeVars, callVars
<1>2. /\ nodeEpoch[s] \in Epoch /\ fetched \in [Service -> Answer \cup {Null}]
      /\ threshold \in Int
  BY DEF DelegateInv, DelegateTypeOK, ClientTypeOK, N
<1>3. PICK a \in oprf_key_available(s) :
          /\ fetched' = [fetched EXCEPT ![s] = a]
          /\ fetch' = IF Agreed(fetched', a) THEN a
                      ELSE IF \A t \in Service : fetched'[t] # Null
                      THEN [NotFound EXCEPT !.kind = "inconsistent"]
                      ELSE Null
  BY DEF fetch_oprf_public_key
<1>4. a \in Answer /\ a # Null /\ (s \notin Faulty => a.key = "key")
  <2>1. a \in Answer /\ (s \notin Faulty => a.key = "key")
    <3>1. 0 \in Epoch
      BY <1>2, ClientAssumption DEF Epoch
    <3> QED
      BY <1>2, <3>1 DEF oprf_key_available, Found, NotFound, FetchError, Answer, PublicKey
  <2> QED
    BY <2>1, ResponseAssumption
<1> DEFINE split == [NotFound EXCEPT !.kind = "inconsistent"]
<1>5. split \in Answer /\ split.kind = "inconsistent"
  <2>1. 0 \in Epoch
    BY <1>2, ClientAssumption DEF Epoch
  <2> QED
    BY <2>1 DEF NotFound, Answer, PublicKey
<1> HIDE DEF split
<1>6. /\ fetched' \in [Service -> Answer \cup {Null}]
      /\ \A t \in Service : fetched'[t] = IF t = s THEN a ELSE fetched[t]
  BY <1>2, <1>3, <1>4
<1>7. fetch' \in {a, split, Null} /\ (fetch' = a => Agreed(fetched', a) \/ a = split \/ a = Null)
  BY <1>3 DEF split
<1>8. \A t \in Service \ Faulty : fetched'[t] # Null => fetched'[t].key = "key"
  BY <1>4, <1>6 DEF DelegateInv, FetchInv
<1>9. ASSUME fetch' # Null, fetch'.kind = "found", Cardinality(Faulty) < threshold
      PROVE  fetch'.key = "key"
  <2>1. fetch' = a /\ Agreed(fetched', a)
    BY <1>4, <1>5, <1>7, <1>9
  <2>2. /\ Supporters(fetched', a) \subseteq Service
        /\ \A t \in Supporters(fetched', a) : fetched'[t] = a
    BY DEF Supporters
  <2>3. Cardinality(Supporters(fetched', a)) >= threshold
    BY <1>1, <2>1 DEF Agreed
  <2>4. PICK t \in Supporters(fetched', a) : t \notin Faulty
    BY <1>2, <1>9, <2>2, <2>3, Outnumbered
  <2> QED
    BY <1>4, <1>8, <2>1, <2>2, <2>4
<1>10. FetchInv'
  BY <1>1, <1>8, <1>9 DEF FetchInv
<1>11. DelegateTypeOK'
  BY <1>1, <1>4, <1>5, <1>6, <1>7 DEF DelegateInv, DelegateTypeOK, Inv
<1>12. CallInv' /\ ErrorInv'
  BY <1>1 DEF DelegateInv, CallInv, ErrorInv
<1> QED
  BY <1>1, <1>10, <1>11, <1>12 DEF DelegateInv

-----------------------------------------------------------------------------
(* Before anything is sent. *)
LEMMA DelegateInvInit == DelegateInit => DelegateInv
<1> SUFFICES ASSUME DelegateInit PROVE DelegateInv
  OBVIOUS
<1>1. Inv
  BY InvInit DEF DelegateInit
<1>2. DelegateTypeOK
  BY <1>1 DEF DelegateInit, DelegateTypeOK, Inv, Outcomes
<1>3. CallInv /\ ErrorInv /\ FetchInv
  BY DEF DelegateInit, CallInv, ErrorInv, FetchInv, ServiceErrors
<1> QED
  BY <1>1, <1>2, <1>3 DEF DelegateInv

(* Every step keeps the invariant: the steps of distributed_oprf_core are   *)
(* those of OprfClient.                                                     *)
LEMMA DelegateInvNext == DelegateInv /\ [DelegateNext]_allVars => DelegateInv'
<1> SUFFICES ASSUME DelegateInv, [DelegateNext]_allVars PROVE DelegateInv'
  OBVIOUS
<1>1. Inv /\ threshold' = threshold
  BY ThresholdFixed DEF DelegateInv
<1>2. ASSUME CoreRuns /\ UNCHANGED <<callVars, fetchVars>>,
             \/ distributed_oprf_core \/ init_sessions_failed \/ generate_challenge_request
             \/ finish_sessions \/ finalize_distributed_oprf
             \/ \E s \in Service : Rotate(s) \/ NodeReply(s) \/ init_sessions(s) \/ NodeProof(s)
      PROVE  DelegateInv'
  <2>1. Inv'
    BY <1>1, <1>2, CoreInv, RotateInv, ReplyInv, TakeInv, ProofInv, FailedInv, ChallengeInv,
       FinishInv, FinalizeInv
  <2> QED
    BY <1>1, <1>2, <2>1, CoreStepInv
<1>3. CASE delegate_distributed_oprf
  BY <1>3, CallInvStep DEF delegate_distributed_oprf
<1>4. CASE check_version
  BY <1>4, CallInvStep DEF check_version
<1>5. CASE RogueDelegate
  BY <1>5, CallInvStep DEF RogueDelegate
<1>6. CASE ReceiveResponse
  BY <1>6, CallInvStep DEF ReceiveResponse
<1>7. CASE UNCHANGED allVars
  <2>1. Inv' /\ UNCHANGED <<reply, mode, rogue, version, call, response, outcome, fetched, fetch>>
    BY <1>1, <1>7, Stutter DEF allVars, vars, nodeVars, callVars, fetchVars
  <2>2. DelegateTypeOK' /\ CallInv'
    BY <2>1 DEF DelegateInv, DelegateTypeOK, CallInv, Inv
  <2>3. ErrorInv'
    BY <1>1, <2>1, FailedKept DEF DelegateInv, ErrorInv
  <2>4. FetchInv'
    BY <1>1, <2>1, FetchKept DEF DelegateInv, fetchVars
  <2> QED
    BY <2>1, <2>2, <2>3, <2>4 DEF DelegateInv
<1> QED
  BY <1>2, <1>3, <1>4, <1>5, <1>6, <1>7, HandlerInv, TimeoutInv, FetchStep
     DEF DelegateNext, CoreStep

(* The inductive invariant holds throughout. *)
LEMMA DelegateInvHolds == DelegateSpec => []DelegateInv
BY DelegateInvInit, DelegateInvNext, PTL DEF DelegateSpec

(* Type correctness of the delegated evaluation. *)
THEOREM DelegateTypeCorrect == DelegateSpec => []DelegateTypeOK
<1>1. DelegateInv => DelegateTypeOK
  BY DEF DelegateInv
<1> QED
  BY <1>1, DelegateInvHolds, PTL

(* oprf_delegate.rs and aggregate_error: fewer than threshold faulty        *)
(* services neither make distributed_oprf_core panic nor make it, or a      *)
(* delegate that runs it, report an error that no honest service sent,      *)
(* whatever timeouts, lost responses and orders of answers there are.       *)
THEOREM FaultsContained == DelegateSpec => []FaultsAreContained
<1>1. DelegateInv => FaultsAreContained
  <2> SUFFICES ASSUME DelegateInv PROVE FaultsAreContained
    OBVIOUS
  <2>1. /\ threshold \in Int /\ result # "Panic" /\ VerdictBacked /\ ErrorInv
        /\ \A x : Failed(x) \subseteq Service
    BY DEF DelegateInv, Inv, ClientTypeOK, ResultInv, HonestNodesVerify, Failed, N
  <2>2. VerdictHasHonestWitness
    BY <2>1, Outnumbered DEF VerdictHasHonestWitness, VerdictBacked
  <2>3. DelegatedErrorHasWitness
    BY <2>1, Outnumbered DEF DelegatedErrorHasWitness, ErrorInv
  <2> QED
    BY <2>1, <2>2, <2>3 DEF FaultsAreContained
<1> QED
  BY <1>1, DelegateInvHolds, PTL

(* fetch_oprf_public_key: a client that compares the key of a delegate's    *)
(* answer with the one threshold services agree on accepts no other key     *)
(* than that of the nodes, though the delegate is rogue and fewer than      *)
(* threshold services are faulty.                                           *)
THEOREM CheckedKeyCorrect == DelegateSpec => []CheckedKeyIsTheNodes
<1>1. DelegateInv => CheckedKeyIsTheNodes
  BY DEF DelegateInv, FetchInv, CheckedKeyIsTheNodes
<1> QED
  BY <1>1, DelegateInvHolds, PTL
=============================================================================
