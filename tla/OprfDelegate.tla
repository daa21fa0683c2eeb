---------------------------- MODULE OprfDelegate ----------------------------
(***************************************************************************)
(* An evaluation that the client hands to a delegate over HTTP              *)
(* (oprf-client: delegate_distributed_oprf; oprf-service: oprf_delegate.rs  *)
(* under the timeout layer of lib.rs), or runs itself as in OprfClient.     *)
(* The delegate runs distributed_oprf_core, the client verifies what comes  *)
(* back.  A client that does not trust the delegate then compares the key   *)
(* with the one threshold nodes serve (fetch_oprf_public_key and the info   *)
(* route), as the documentation of delegate_distributed_oprf demands.       *)
(*                                                                          *)
(* result is what distributed_oprf_core, or the direct client, ended with;  *)
(* outcome is what delegate_distributed_oprf returned.                      *)
(***************************************************************************)
EXTENDS OprfClient

VARIABLES
    mode,      \* "direct" or "delegated"
    rogue,     \* does the delegate answer as it likes
    version,   \* of the client, as the delegate sees it
    call,      \* the POST request: "idle", "sent", "running", "answered", "done"
    response,  \* the HTTP response
    outcome,
    fetched,   \* answers of the info route that have arrived
    fetch      \* what fetch_oprf_public_key returned

callVars == <<mode, rogue, version, call, response, outcome>>
fetchVars == <<fetched, fetch>>
coreVars == vars
allVars == <<vars, callVars, fetchVars>>

ServiceErrors == {"ServiceErrorA", "ServiceErrorB"}

(* Status and body of a response; a body is a result, the code of a service *)
(* error (a number), or text that is no number, empty text included.        *)
Response ==
    [status : {200, 400, 408, 500, 503}, code : ServiceErrors \cup {"text"},
     key : PublicKey, verifies : BOOLEAN]

ErrorResponse(status, code) ==
    [status |-> status, code |-> code, key |-> "key", verifies |-> FALSE]

OkResponse(key, verifies) ==
    [status |-> 200, code |-> "text", key |-> key, verifies |-> verifies]

Outcomes ==
    {"none", "Ok", "InvalidDLogProof", "DelegateServerError", "DelegateRequest"} \cup ServiceErrors

(* Answers of /oprf_pub/{id}. *)
Found(key, epoch) == [kind |-> "found", key |-> key, epoch |-> epoch]
NotFound == [kind |-> "notFound", key |-> "key", epoch |-> 0]
FetchError == [kind |-> "error", key |-> "key", epoch |-> 0]
Answer == [kind : {"found", "notFound", "error", "inconsistent"}, key : PublicKey, epoch : Epoch]

ASSUME ResponseAssumption == Null \notin Response /\ Null \notin Answer

DelegateTypeOK ==
    /\ ClientTypeOK
    /\ mode \in {"direct", "delegated"} /\ rogue \in BOOLEAN
    /\ version \in {"missing", "mismatch", "matches"}
    /\ call \in {"idle", "sent", "running", "answered", "done"}
    /\ response \in Response \cup {Null} /\ outcome \in Outcomes
    /\ fetched \in [Service -> Answer \cup {Null}] /\ fetch \in Answer \cup {Null}

(* The delegate is a node and takes the threshold of the nodes; OprfClient  *)
(* has the direct clients that are given another one.                       *)
DelegateInit ==
    /\ Init /\ threshold = Threshold
    /\ \/ mode = "direct" /\ rogue = FALSE /\ version = "matches"
       \/ /\ mode = "delegated"
          /\ rogue \in BOOLEAN /\ version \in {"missing", "mismatch", "matches"}
    /\ call = "idle" /\ response = Null /\ outcome = "none"
    /\ fetched = [s \in Service |-> Null] /\ fetch = Null

-----------------------------------------------------------------------------
delegate_distributed_oprf ==
    /\ mode = "delegated" /\ call = "idle"
    /\ call' = "sent"
    /\ UNCHANGED <<coreVars, mode, rogue, version, response, outcome, fetchVars>>

Respond(r) == call' = "answered" /\ response' = r

check_version ==
    /\ call = "sent" /\ ~ rogue
    /\ \/ version # "matches" /\ Respond(ErrorResponse(400, "text"))
       \/ version = "matches" /\ call' = "running" /\ UNCHANGED response
    /\ UNCHANGED <<coreVars, mode, rogue, version, outcome, fetchVars>>

(* The response to a failure of distributed_oprf_core; a panic of the       *)
(* handler closes the connection.                                           *)
Transient == {"Networking", "CannotFinishSession", "EpochMismatch", "NodeErrorDisagreement"}

FailureResponse_firstError(r) ==
    IF r \in ServiceErrors THEN ErrorResponse(400, r)
    ELSE IF r = "NodeErrorDisagreement" /\ errors # << >> /\ Head(errors) \in ServiceErrors
    THEN ErrorResponse(503, Head(errors))
    ELSE IF r \in Transient THEN ErrorResponse(503, "text")
    ELSE ErrorResponse(500, "text")

FailureResponse(r) ==
    IF r \in ServiceErrors THEN ErrorResponse(400, r)
    ELSE IF r \in Transient THEN ErrorResponse(503, "text")
    ELSE ErrorResponse(500, "text")

(* The future of distributed_oprf_core ends or is dropped, with its sessions. *)
DropCore ==
    /\ waiting' = {} /\ groups' = [e \in Epoch |-> NoSessions] /\ errors' = << >>
    /\ chosen' = NoSessions
    /\ phase' = "done" /\ proof' = [s \in Service |-> "none"]
    /\ UNCHANGED <<threshold, unique, party, nodeEpoch>>

delegate_oprf_handler ==
    /\ call = "running"
    /\ \/ /\ phase = "core"
          /\ Respond(OkResponse(chosen.keys[1], ProofVerifies)) /\ UNCHANGED outcome
       \/ /\ phase = "done" /\ result # "Panic"
          /\ Respond(FailureResponse(result)) /\ UNCHANGED outcome
       \/ /\ phase = "done" /\ result = "Panic"
          /\ call' = "done" /\ outcome' = "DelegateRequest" /\ UNCHANGED response
    /\ DropCore
    /\ UNCHANGED <<reply, result, mode, rogue, version, fetchVars>>

TimeoutLayer_infoOnly == FALSE /\ UNCHANGED allVars

(* The timer of the layer around /api drops the handler where it is. *)
TimeoutLayer ==
    /\ call = "running"
    /\ Respond(ErrorResponse(408, "text"))
    /\ DropCore /\ reply' = [s \in Service |-> Null] /\ result' = "none"
    /\ UNCHANGED <<mode, rogue, version, outcome, fetchVars>>

(* A rogue delegate can prove only what it has a key for: its own.          *)
RogueDelegate ==
    /\ call = "sent" /\ rogue
    /\ \E r \in {OkResponse("otherKey", TRUE), OkResponse("key", FALSE),
                 ErrorResponse(400, "ServiceErrorA"), ErrorResponse(500, "text")} : Respond(r)
    /\ UNCHANGED <<coreVars, mode, rogue, version, outcome, fetchVars>>

Finish(o) == call' = "done" /\ outcome' = o

(* The response arrives, or reqwest reports an error. *)
ReceiveResponse ==
    /\ call = "answered"
    /\ \/ /\ response.status = 200
          /\ Finish(IF response.verifies THEN "Ok" ELSE "InvalidDLogProof")
       \/ /\ response.status # 200
          /\ Finish(IF response.code \in ServiceErrors THEN response.code
                    ELSE "DelegateServerError")
       \/ Finish("DelegateRequest")
    /\ UNCHANGED <<coreVars, mode, rogue, version, response, fetchVars>>

-----------------------------------------------------------------------------
(* What the info route of a node, or the network, answers. *)
oprf_key_available(s) ==
    {Found("key", nodeEpoch[s])} \cup (IF Reject THEN {NotFound, FetchError} ELSE {})
      \cup (IF s \in Faulty THEN {Found(k, e) : k \in PublicKey, e \in Epoch} ELSE {})

Supporters(f, a) == {s \in Service : f[s] = a}

Agreed_first(f, a) == Cardinality(Supporters(f, a)) >= 1

Agreed(f, a) == Cardinality(Supporters(f, a)) >= threshold

(* The answers in the order of their arrival; the first that threshold      *)
(* services share is returned.                                              *)
fetch_oprf_public_key(s) ==
    /\ outcome = "Ok" /\ fetch = Null /\ fetched[s] = Null
    /\ \E a \in oprf_key_available(s) :
          /\ fetched' = [fetched EXCEPT ![s] = a]
          /\ fetch' = IF Agreed(fetched', a) THEN a
                      ELSE IF \A t \in Service : fetched'[t] # Null
                      THEN [NotFound EXCEPT !.kind = "inconsistent"]
                      ELSE Null
    /\ UNCHANGED <<coreVars, callVars>>

-----------------------------------------------------------------------------
(* distributed_oprf_core runs in the client or in the delegate. *)
CoreRuns == mode = "direct" \/ call = "running"

CoreStep(A) == CoreRuns /\ A /\ UNCHANGED <<callVars, fetchVars>>

DirectDone == mode = "direct" /\ phase = "done"
Idle == DirectDone \/ (call = "done" /\ (outcome # "Ok" \/ fetch # Null))

DelegateNext ==
    \/ CoreStep(distributed_oprf_core)
    \/ \E s \in Service :
          CoreStep(Rotate(s) \/ NodeReply(s) \/ init_sessions(s) \/ NodeProof(s))
    \/ CoreStep(init_sessions_failed \/ generate_challenge_request \/ finish_sessions)
    \/ mode = "direct" /\ CoreStep(finalize_distributed_oprf)
    \/ delegate_distributed_oprf \/ check_version \/ delegate_oprf_handler
    \/ TimeoutLayer \/ RogueDelegate \/ ReceiveResponse
    \/ \E s \in Service : fetch_oprf_public_key(s)
    \/ Idle /\ UNCHANGED allVars

(* A direct evaluation relies on nodes that answer or close the session     *)
(* (session_lifetime).  A delegated one relies on the timer of the delegate *)
(* only: nothing is assumed of the nodes.                                   *)
DelegateFairness ==
    /\ WF_allVars(mode = "direct" /\ CoreStep(distributed_oprf_core \/ init_sessions_failed
                    \/ generate_challenge_request \/ finish_sessions \/ finalize_distributed_oprf))
    /\ \A s \in Service :
          /\ WF_allVars(mode = "direct" /\ CoreStep(NodeReply(s)))
          /\ WF_allVars(mode = "direct" /\ CoreStep(init_sessions(s)))
          /\ WF_allVars(mode = "direct" /\ CoreStep(NodeProof(s)))
    /\ WF_allVars(delegate_distributed_oprf) /\ WF_allVars(check_version)
    /\ WF_allVars(TimeoutLayer) /\ WF_allVars(ReceiveResponse)

DelegateSpec == DelegateInit /\ [][DelegateNext]_allVars /\ DelegateFairness

-----------------------------------------------------------------------------
(* Fewer than threshold faulty services: a delegated client is told a       *)
(* service error only when threshold services sent it, one of them honest,  *)
(* through the error aggregation, the status code and the text of the body, *)
(* and whatever else went wrong on the way.                                 *)
DelegatedErrorHasWitness ==
    outcome \in ServiceErrors /\ ~ rogue /\ Cardinality(Faulty) < threshold =>
        /\ Cardinality(Failed(outcome)) >= threshold
        /\ Failed(outcome) \ Faulty # {}

(* Fewer than threshold faulty services can neither bring down who runs     *)
(* distributed_oprf_core, by answering under one party id for example, nor  *)
(* put an error into the world that no honest service reported: not in the  *)
(* aggregation and not behind a delegate.  (Services report party ids below *)
(* the number of peers; see Coefficients.)                                  *)
FaultsAreContained ==
    /\ result # "Panic"
    /\ VerdictHasHonestWitness
    /\ DelegatedErrorHasWitness

(* "If the public key does not match, a client MUST abort": a client that   *)
(* follows this advice never accepts a result under another key than that   *)
(* of the nodes, though the delegate is rogue and fewer than threshold      *)
(* services are faulty.                                                     *)
CheckedKeyIsTheNodes ==
    outcome = "Ok" /\ fetch # Null /\ Cardinality(Faulty) < threshold
      /\ fetch.kind = "found" /\ fetch.key = response.key => response.key = "key"

(* A direct evaluation ends when the nodes answer, a delegated one even if  *)
(* they never do.                                                           *)
EvaluationEnds == ~ rogue ~> (DirectDone \/ call = "done")
=============================================================================
