----------------------------- MODULE OprfClient -----------------------------
(***************************************************************************)
(* One evaluation of the distributed OPRF by the client library             *)
(* (oprf-client: distributed_oprf, init_sessions, finish_sessions,          *)
(* aggregate_error, finalize_distributed_oprf) against a set of nodes, some *)
(* of which may be in different epochs, misconfigured or faulty.            *)
(*                                                                          *)
(* A node appears as what a client sees of it (OprfNode has the rest): it   *)
(* answers the first message with an epoch, fixed for the session, or with  *)
(* an error, and the second one with a proof share or an error.             *)
(***************************************************************************)
EXTENDS Integers, Sequences, FiniteSets, SequencesExt

CONSTANTS Service,    \* the configured services
          Threshold,  \* of the nodes
          MaxEpoch,
          Faulty,     \* services that may answer anything
          Reject,     \* may nodes close a session with an error
          Null

ASSUME ClientAssumption ==
    /\ IsFiniteSet(Service) /\ Faulty \subseteq Service
    /\ Threshold \in 1 .. Cardinality(Service)
    /\ MaxEpoch \in Nat /\ Reject \in BOOLEAN

VARIABLES
    threshold,  \* the argument of distributed_oprf
    unique,     \* are the given services unique
    party,      \* party id each node is configured with
    nodeEpoch,  \* the epoch each node serves
    reply,      \* what a node sent in answer to the first message
    proof,      \* what it sent in answer to the challenge
    waiting,    \* the init_session futures that are not done
    groups,     \* epoch_session_map
    errors,     \* session_errors
    chosen,     \* the OprfSessions returned by init_sessions
    phase, result

nodeVars == <<party, nodeEpoch, reply, proof>>
vars == <<threshold, unique, nodeVars, waiting, groups, errors, chosen, phase, result>>

Epoch == 0 .. MaxEpoch
N == Cardinality(Service)
PartyIds == 0 .. N - 1
PublicKey == {"key", "otherKey"}

(* Node errors; two service errors differ in their code or message.  A      *)
(* WsError or Unknown is never equal to another.                            *)
NodeErrors == {"ServiceErrorA", "ServiceErrorB", "WsError", "UnexpectedMessage", "Unknown"}

(* What a node sends; error is "none" in a response. *)
Reply == [error : {"none"} \cup NodeErrors, party : PartyIds, epoch : Epoch, key : PublicKey]

ASSUME ReplyAssumption == Null \notin Reply

ErrorReply(err) == [error |-> err, party |-> 0, epoch |-> 0, key |-> "key"]

OprfSessions ==
    [ws : Seq(Service), party_ids : Seq(PartyIds), keys : Seq(PublicKey)]

NoSessions == [ws |-> << >>, party_ids |-> << >>, keys |-> << >>]

Results ==
    {"none", "Ok", "InvalidThreshold", "NonUniqueServices", "EpochMismatch", "Networking",
     "ServiceErrorA", "ServiceErrorB", "UnexpectedMessage", "NodeErrorDisagreement",
     "InconsistentOprfPublicKeys", "CannotFinishSession", "InvalidDLogProof", "Panic"}

ClientTypeOK ==
    /\ threshold \in 0 .. N + 1 /\ unique \in BOOLEAN
    /\ party \in [Service -> PartyIds]
    /\ nodeEpoch \in [Service -> Epoch]
    /\ reply \in [Service -> Reply \cup {Null}]
    /\ proof \in [Service -> {"none", "share", "wrongShare", "rejected", "error"}]
    /\ waiting \subseteq Service
    /\ groups \in [Epoch -> OprfSessions]
    /\ errors \in Seq(NodeErrors)
    /\ chosen \in OprfSessions
    /\ phase \in {"start", "init", "challenge", "finish", "core", "done"}
    /\ result \in Results

Init ==
    /\ threshold \in 0 .. N + 1 /\ unique \in BOOLEAN
    /\ party \in [Service -> PartyIds]
    /\ nodeEpoch \in [Service -> Epoch]
    /\ reply = [s \in Service |-> Null]
    /\ proof = [s \in Service |-> "none"]
    /\ waiting = {}
    /\ groups = [e \in Epoch |-> NoSessions]
    /\ errors = << >> /\ chosen = NoSessions
    /\ phase = "start" /\ result = "none"

Done(r) == phase' = "done" /\ result' = r

(* The argument checks of distributed_oprf_core. *)
distributed_oprf_core ==
    /\ phase = "start"
    /\ \/ /\ threshold = 0 \/ threshold > N
          /\ Done("InvalidThreshold") /\ UNCHANGED waiting
       \/ /\ threshold \in 1 .. N /\ ~unique
          /\ Done("NonUniqueServices") /\ UNCHANGED waiting
       \/ /\ threshold \in 1 .. N /\ unique
          /\ phase' = "init" /\ waiting' = Service
          /\ UNCHANGED result
    /\ UNCHANGED <<threshold, unique, nodeVars, groups, errors, chosen>>

(***************************************************************************)
(* The nodes.                                                               *)
(***************************************************************************)
(* A node takes up the next epoch; sessions keep the epoch they have. *)
Rotate(s) ==
    /\ phase \in {"init", "challenge", "finish"}
    /\ nodeEpoch[s] < MaxEpoch
    /\ nodeEpoch' = [nodeEpoch EXCEPT ![s] = @ + 1]
    /\ UNCHANGED <<threshold, unique, party, reply, proof, waiting, groups, errors, chosen,
                   phase, result>>

NodeReply(s) ==
    /\ phase = "init"
    /\ reply[s] = Null
    /\ \E r \in (IF s \in Faulty THEN {a \in Reply : a.error = "none"}
                 ELSE {[error |-> "none", party |-> party[s], epoch |-> nodeEpoch[s],
                        key |-> "key"]})
                \cup (IF Reject \/ s \in Faulty THEN {ErrorReply(err) : err \in NodeErrors}
                      ELSE {}) :
          reply' = [reply EXCEPT ![s] = r]
    /\ UNCHANGED <<threshold, unique, party, nodeEpoch, proof, waiting, groups, errors, chosen,
                   phase, result>>

(***************************************************************************)
(* init_sessions: answers are taken in the order they arrive.               *)
(***************************************************************************)
push_noDuplicateCheck(sessions, s, r) ==
    [ws        |-> Append(sessions.ws, s),
     party_ids |-> Append(sessions.party_ids, r.party),
     keys      |-> Append(sessions.keys, r.key)]

(* A second session under the party id of another one is dropped. *)
push(sessions, s, r) ==
    IF Contains(sessions.party_ids, r.party) THEN sessions
    ELSE [ws        |-> Append(sessions.ws, s),
          party_ids |-> Append(sessions.party_ids, r.party),
          keys      |-> Append(sessions.keys, r.key)]

(* The positions of the sessions in the order of their party ids. *)
PartyOrder(ids) ==
    CHOOSE p \in [DOMAIN ids -> DOMAIN ids] :
        /\ \A i, j \in DOMAIN ids : p[i] = p[j] => i = j
        /\ \A i, j \in DOMAIN ids : i < j => ids[p[i]] <= ids[p[j]]

Reordered(seq, p) == [i \in DOMAIN p |-> seq[p[i]]]

sort_by_party_id_idsOnly(sessions) ==
    [sessions EXCEPT !.party_ids = Reordered(@, PartyOrder(sessions.party_ids))]

sort_by_party_id(sessions) ==
    LET p == PartyOrder(sessions.party_ids)
    IN  [ws        |-> Reordered(sessions.ws, p),
         party_ids |-> Reordered(sessions.party_ids, p),
         keys      |-> Reordered(sessions.keys, p)]

(* The sessions in the map, one EpochMismatch each. *)
EpochMismatches == UNION {{e} \X DOMAIN groups[e].party_ids : e \in Epoch}

(* Several errors make one: the first service error or unexpected message   *)
(* that threshold nodes agree on, else disagreeing epochs, else networking. *)
aggregate_error_oneCounter(errs, mismatches) ==
    LET counted == {"ServiceErrorA", "ServiceErrorB", "UnexpectedMessage"}
        reached == {i \in DOMAIN errs :
                      /\ errs[i] \in counted
                      /\ Cardinality({j \in 1 .. i : errs[j] \in counted}) >= threshold}
    IN  IF reached # {} THEN errs[CHOOSE i \in reached : \A j \in reached : i <= j]
        ELSE IF mismatches >= threshold THEN "EpochMismatch"
        ELSE IF Cardinality({i \in DOMAIN errs : errs[i] = "WsError"}) >= threshold
             THEN "Networking"
        ELSE "NodeErrorDisagreement"

aggregate_error(errs, mismatches) ==
    LET counted == {"ServiceErrorA", "ServiceErrorB", "UnexpectedMessage"}
        reached == {i \in DOMAIN errs :
                      /\ errs[i] \in counted
                      /\ Cardinality({j \in 1 .. i : errs[j] = errs[i]}) >= threshold}
    IN  IF reached # {} THEN errs[CHOOSE i \in reached : \A j \in reached : i <= j]
        ELSE IF mismatches >= threshold THEN "EpochMismatch"
        ELSE IF Cardinality({i \in DOMAIN errs : errs[i] = "WsError"}) >= threshold
             THEN "Networking"
        ELSE "NodeErrorDisagreement"

Enough_more(group) == Len(group.ws) = threshold + 1

Enough(group) == Len(group.ws) = threshold

(* futures.next() *)
init_sessions(s) ==
    /\ phase = "init"
    /\ s \in waiting /\ reply[s] # Null
    /\ waiting' = waiting \ {s}
    /\ LET r == reply[s]
           group == push(groups[r.epoch], s, r)
       IN  \/ /\ r.error # "none"
              /\ errors' = Append(errors, r.error)
              /\ UNCHANGED <<groups, chosen, phase>>
           \/ /\ r.error = "none"
              /\ groups' = [groups EXCEPT ![r.epoch] = group]
              /\ \/ /\ Enough(group)
                    /\ chosen' = sort_by_party_id(group)
                    /\ phase' = "challenge"
                 \/ /\ ~Enough(group)
                    /\ UNCHANGED <<chosen, phase>>
              /\ UNCHANGED errors
    /\ UNCHANGED <<threshold, unique, nodeVars, result>>

(* All futures are done and no epoch has threshold sessions. *)
init_sessions_failed ==
    /\ phase = "init"
    /\ waiting = {}
    /\ Done(aggregate_error(errors, Cardinality(EpochMismatches)))
    /\ UNCHANGED <<threshold, unique, nodeVars, waiting, groups, errors, chosen>>

(***************************************************************************)
(* The second round.                                                        *)
(***************************************************************************)
(* The contributing parties of generate_challenge_request.  Party ids are   *)
(* u16 and below the number of peers, itself a u16: the sum cannot overflow *)
(* (a service that reports 65535 all the same is not modelled).             *)
Coefficients == [i \in DOMAIN chosen.party_ids |-> chosen.party_ids[i] + 1]

StrictlyIncreasing(seq) == \A i \in 1 .. Len(seq) - 1 : seq[i] < seq[i + 1]

(* The first key is compared with the others; combine_commitments asserts   *)
(* that no party is named twice.                                            *)
ChallengeFails ==
    IF \E i \in DOMAIN chosen.keys : chosen.keys[i] # chosen.keys[1]
    THEN "InconsistentOprfPublicKeys"
    ELSE IF \E i, j \in DOMAIN Coefficients : i # j /\ Coefficients[i] = Coefficients[j]
    THEN "Panic"
    ELSE "none"

generate_challenge_request ==
    /\ phase = "challenge"
    /\ \/ ChallengeFails # "none" /\ Done(ChallengeFails)
       \/ ChallengeFails = "none" /\ phase' = "finish" /\ UNCHANGED result
    /\ UNCHANGED <<threshold, unique, nodeVars, waiting, groups, errors, chosen>>

(* The challenge checks of a node (OprfNode, ChallengeError). *)
Accepts(s) ==
    /\ Len(Coefficients) = Threshold
    /\ Contains(Coefficients, party[s] + 1)
    /\ StrictlyIncreasing(Coefficients)

NodeProof(s) ==
    /\ phase = "finish"
    /\ Contains(chosen.ws, s) /\ proof[s] = "none"
    /\ \E p \in IF s \in Faulty THEN {"share", "wrongShare", "rejected", "error"}
                ELSE {IF Accepts(s) THEN "share" ELSE "rejected"}
                     \cup (IF Reject THEN {"error"} ELSE {}) :
          proof' = [proof EXCEPT ![s] = p]
    /\ UNCHANGED <<threshold, unique, party, nodeEpoch, reply, waiting, groups, errors, chosen,
                   phase, result>>

(* try_join_all: the first failure ends it, otherwise all are there. *)
finish_sessions ==
    /\ phase = "finish"
    /\ \/ /\ \E i \in DOMAIN chosen.ws : proof[chosen.ws[i]] \in {"rejected", "error"}
          /\ Done("CannotFinishSession")
       \/ /\ \A i \in DOMAIN chosen.ws : proof[chosen.ws[i]] \in {"share", "wrongShare"}
          /\ phase' = "core" /\ UNCHANGED result
    /\ UNCHANGED <<threshold, unique, nodeVars, waiting, groups, errors, chosen>>

(* The combined proof verifies when every commitment and proof share is     *)
(* weighted with the Lagrange coefficient of the party that made it and     *)
(* they are made with shares of one sharing of one key.                     *)
ProofVerifies ==
    /\ Len(chosen.ws) = Threshold
    /\ \A i \in DOMAIN chosen.ws :
          /\ proof[chosen.ws[i]] = "share"
          /\ party[chosen.ws[i]] = chosen.party_ids[i]
          /\ chosen.keys[i] = "key"
    /\ \A i, j \in DOMAIN chosen.ws :
          reply[chosen.ws[i]].epoch = reply[chosen.ws[j]].epoch

finalize_distributed_oprf ==
    /\ phase = "core"
    /\ Done(IF ProofVerifies THEN "Ok" ELSE "InvalidDLogProof")
    /\ UNCHANGED <<threshold, unique, nodeVars, waiting, groups, errors, chosen>>

Terminated == phase = "done" /\ UNCHANGED vars

Next ==
    \/ distributed_oprf_core
    \/ \E s \in Service : Rotate(s) \/ NodeReply(s) \/ init_sessions(s) \/ NodeProof(s)
    \/ init_sessions_failed
    \/ generate_challenge_request \/ finish_sessions \/ finalize_distributed_oprf
    \/ Terminated

Spec == Init /\ [][Next]_vars

-----------------------------------------------------------------------------
(* With nodes that follow the protocol, in whatever epochs they are, and    *)
(* even when two of them are configured with one party id: the sessions the *)
(* client chooses, reorders and pairs with coefficients make a challenge    *)
(* that every node accepts and a proof that verifies.  And no answer of any *)
(* node makes the client panic.                                             *)
HonestNodesVerify ==
    /\ result # "Panic"
    /\ Faulty = {} =>
          /\ result \notin {"InvalidDLogProof", "InconsistentOprfPublicKeys"}
          /\ threshold = Threshold => \A s \in Service : proof[s] # "rejected"

Answered(e) == {s \in Service : reply[s] # Null /\ reply[s].error = "none" /\ reply[s].epoch = e}

InitErrors == {"EpochMismatch", "Networking", "ServiceErrorA", "ServiceErrorB",
               "UnexpectedMessage", "NodeErrorDisagreement"}

(* init_sessions: errors are ignored "unless they prevent reaching the      *)
(* threshold".  When it fails, no epoch had answers of threshold parties.   *)
InitFailsOnlyWithoutQuorum ==
    result \in InitErrors =>
        \A e \in Epoch : Cardinality({reply[s].party : s \in Answered(e)}) < threshold

(* The verdict as a function of what the nodes said, without their order. *)
Failed(err) == {s \in Service : reply[s] # Null /\ reply[s].error = err}

Verdict(r) ==
    CASE r \in {"ServiceErrorA", "ServiceErrorB", "UnexpectedMessage"} ->
            Cardinality(Failed(r)) >= threshold
      [] r = "EpochMismatch" ->
            Cardinality({<<reply[s].epoch, reply[s].party>> :
                            s \in UNION {Answered(e) : e \in Epoch}}) >= threshold
      [] r = "Networking" -> Cardinality(Failed("WsError")) >= threshold
      [] OTHER -> FALSE

(* While a majority is needed (2 * threshold > number of services), the     *)
(* error that is reported does not depend on the order in which the nodes   *)
(* answered: it is the one verdict that threshold of them support, and      *)
(* disagreement is reported only if there is none.                          *)
VerdictIsOrderFree ==
    result \in InitErrors /\ 2 * threshold > N =>
        \A r \in InitErrors \ {"NodeErrorDisagreement"} : Verdict(r) <=> result = r

(* "Threshold nodes sent back error": fewer than threshold faulty services  *)
(* cannot make the client report an error that no other service reported.   *)
VerdictHasHonestWitness ==
    Cardinality(Faulty) < threshold =>
        /\ result \in {"ServiceErrorA", "ServiceErrorB", "UnexpectedMessage"} =>
              Failed(result) \ Faulty # {}
        /\ result = "Networking" => Failed("WsError") \ Faulty # {}
=============================================================================
