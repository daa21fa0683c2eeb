---------------------------- MODULE KeyRegistry ----------------------------
(***************************************************************************)
(* The OprfKeyRegistry contract.  Its source is not in the repository (git  *)
(* submodule `contracts`), but the compiler's syntax tree of it is, in      *)
(* oprf-types/OprfKeyRegistry.json, the artifact that oprf-types/chain.rs   *)
(* binds and oprf/anvil.rs deploys: the functions and the order of their    *)
(* checks are taken from there.  Of its library OprfKeyGen (reset and the   *)
(* initialisation of a run) the artifact has only the uses.                 *)
(*                                                                          *)
(* Cryptography is symbolic.  An intermediate value is a polynomial and an  *)
(* ephemeral key pair drawn together, known by its serial number; its       *)
(* commitment (the round-1 contribution) determines it.  A sharing is       *)
(* determined by the polynomials that were dealt, its `deal`; the secret it *)
(* shares is named by the deal of the key generation that created it.       *)
(***************************************************************************)
EXTENDS KeyGenDb, Sequences, FiniteSets

CONSTANTS Key,        \* OPRF key ids
          Node,       \* the registered peers
          Threshold   \* MPC threshold

ASSUME RegistryAssumption ==
    /\ Threshold \in Nat \ {0}
    /\ IsFiniteSet(Node)
    /\ Threshold <= Cardinality(Node)

VARIABLES reg,   \* contract storage by key id
          log    \* the watched events, in chain order

(* The serial number of the polynomial each node dealt, 0 if it dealt none. *)
Deal == [Node -> Nat]

Share == [deal : Deal, secret : Deal \cup {Null}]

(* poly is None for a consumer; `old` is the share a reshare deals again. *)
Intermediate == [id : Nat, poly : BOOLEAN, old : Share \cup {Null}]

Rounds == {"none", "one", "two", "three", "stuck", "idle", "deleted"}

EventTypes ==
    {"SecretGenRound1", "ReshareRound1", "SecretGenRound2", "SecretGenRound3",
     "ReshareRound3", "SecretGenFinalize", "KeyDeletion", "KeyGenAbort",
     "NotEnoughProducers"}

(* The Lagrange coefficients in a ReshareRound3 event are determined by the *)
(* set of producers they interpolate; they are zero for everyone else.      *)
Event == [type : EventTypes, key : Key, epoch : Epoch, lagrange : SUBSET Node]

ASSUME NullAssumption ==
    /\ Null \notin Deal /\ Null \notin Share /\ Null \notin Intermediate
    /\ Null \notin ShareRow(Share, Deal) /\ Null \notin InProgressRow(Intermediate, Share)

NoContributions == [n \in Node |-> Null]

KeyState ==
    [round : Rounds, epoch : {-1} \cup Epoch, pk : Deal \cup {Null},
     prev : Deal \cup {Null},   \* the sharing that prevShareCommitments commit to
     r1 : [Node -> Intermediate \cup {Null}], producers : SUBSET Node,
     r2 : SUBSET Node, r3 : SUBSET Node]

RegistryTypeOK ==
    /\ reg \in [Key -> KeyState]
    /\ log \in Seq(Event)

RegistryInit ==
    /\ reg = [k \in Key |->
                [round |-> "none", epoch |-> -1, pk |-> Null, prev |-> Null,
                 r1 |-> NoContributions, producers |-> {}, r2 |-> {}, r3 |-> {}]]
    /\ log = << >>

Running(k) == reg[k].round \in {"one", "two", "three", "stuck"}

(* The epoch a run of the key generates. *)
PendingEpoch(k) == reg[k].epoch + 1

IsReshare(k) == reg[k].epoch >= 0

Emit(type, k, e, P) ==
    log' = Append(log, [type |-> type, key |-> k, epoch |-> e, lagrange |-> P])

Reset(r, round) ==
    [r EXCEPT !.round = round, !.r1 = NoContributions, !.producers = {},
              !.r2 = {}, !.r3 = {}]

(***************************************************************************)
(* Administrator calls (oprf/src/anvil.rs).                                 *)
(***************************************************************************)
initKeyGen(k) ==
    /\ reg[k].round = "none"
    /\ reg' = [reg EXCEPT ![k] = Reset(@, "one")]
    /\ Emit("SecretGenRound1", k, 0, {})

initReshare(k) ==
    /\ reg[k].round = "idle"
    /\ PendingEpoch(k) \in Epoch
    /\ reg' = [reg EXCEPT ![k] = Reset(@, "one")]
    /\ Emit("ReshareRound1", k, PendingEpoch(k), {})

(* The run is dropped; a later run generates the same epoch again. *)
abortKeyGen(k) ==
    /\ Running(k)
    /\ reg' = [reg EXCEPT ![k] = Reset(@, IF IsReshare(k) THEN "idle" ELSE "none")]
    /\ Emit("KeyGenAbort", k, 0, {})

(* A key is deleted only while no run of it is on.  (The contract clears    *)
(* the key and its epoch, which nobody can read any more.)                  *)
deleteOprfPublicKey(k) ==
    /\ reg[k].round = "idle"
    /\ reg' = [reg EXCEPT ![k] = Reset(@, "deleted")]
    /\ Emit("KeyDeletion", k, 0, {})

(***************************************************************************)
(* Contributions.  No contribution names an epoch or a run: the contract    *)
(* books it on whatever run of the key is in the round.                     *)
(***************************************************************************)
Submission ==
    [fn : {"r1", "r2", "r3"}, key : Key, im : Intermediate \cup {Null},
     pks : [Node -> Intermediate \cup {Null}] \cup {Null}]

RoundOf(fn) == CASE fn = "r1" -> "one" [] fn = "r2" -> "two" [] fn = "r3" -> "three"

(* A key-gen contribution deals a fresh polynomial, one to a reshare the    *)
(* share that the node holds, or nothing: two functions of the contract.    *)
ForReshare(im) == ~im.poly \/ im.old # Null

(* How many producers a run needs. *)
Seats_oneShort(k) == IF IsReshare(k) THEN Threshold - 1 ELSE Cardinality(Node)

Seats(k) == IF IsReshare(k) THEN Threshold ELSE Cardinality(Node)

(* The first Threshold nodes that deal their share produce; a later one     *)
(* consumes.                                                                *)
Produces(k, im) ==
    IsReshare(k) => im.poly /\ Cardinality(reg[k].producers) < Threshold

(* addRound1KeyGenContribution and addRound1ReshareContribution.  The       *)
(* ephemeral key must be new to the run, which it is not when the same      *)
(* contribution is sent again; a producer of a reshare commits to its share *)
(* of the previous epoch.                                                   *)
Round1Result(n, k, im) ==
    IF reg[k].r1[n] = im THEN "BadContribution"
    ELSE IF n \in reg[k].producers THEN "AlreadySubmitted"
    ELSE IF ForReshare(im) # IsReshare(k) THEN "BadContribution"
    ELSE IF IsReshare(k) /\ Produces(k, im) /\ im.old.deal # reg[k].prev
         THEN "BadContribution"
    ELSE "Ok"

(* addRound2Contribution.  The verifier accepts a proof only for the        *)
(* committed polynomial and key of n, encrypted to the keys committed in    *)
(* this run.                                                                *)
Round2Result(n, k, im, pks) ==
    IF n \in reg[k].r2 THEN "AlreadySubmitted"
    ELSE IF n \notin reg[k].producers THEN "BadContribution"
    ELSE IF im # reg[k].r1[n] \/ pks # reg[k].r1 THEN "ProofInvalid"
    ELSE "Ok"

(* addRound3Contribution *)
Round3Result(n, k) == IF n \in reg[k].r3 THEN "AlreadySubmitted" ELSE "Ok"

(* The revert reason of a contribution of node n, or "Ok". *)
CallResult(n, s) ==
    IF reg[s.key].round # RoundOf(s.fn) THEN "WrongRound"
    ELSE CASE s.fn = "r1" -> Round1Result(n, s.key, s.im)
           [] s.fn = "r2" -> Round2Result(n, s.key, s.im, s.pks)
           [] s.fn = "r3" -> Round3Result(n, s.key)

(* The sharing that the producers of the run deal.  A reshare keeps the     *)
(* secret when its producers deal shares of one and the same sharing.       *)
RunDeal(k) == [n \in Node |-> IF n \in reg[k].producers THEN reg[k].r1[n].id ELSE 0]

RunSecret(k) ==
    IF ~IsReshare(k) THEN RunDeal(k)
    ELSE LET olds == {reg[k].r1[p].old : p \in reg[k].producers}
         IN  IF \E s \in olds : olds = {s} /\ s # Null
             THEN (CHOOSE s \in olds : olds = {s}).secret
             ELSE Null

RunShare(k) == [deal |-> RunDeal(k), secret |-> RunSecret(k)]

(* What comes out of decrypting with another key, or of interpolating with  *)
(* the coefficients of other producers: a share of nothing.                 *)
Garbage == [deal |-> [n \in Node |-> 0], secret |-> Null]

addRound1(n, k, im) ==
    LET r1 == [reg[k].r1 EXCEPT ![n] = im]
        producers == reg[k].producers \cup IF Produces(k, im) THEN {n} ELSE {}
        Book(round) ==
            reg' = [reg EXCEPT ![k] =
                       [@ EXCEPT !.r1 = r1, !.producers = producers, !.round = round]]
        complete == \A m \in Node : r1[m] # Null
    IN  \/ ~complete /\ Book("one") /\ UNCHANGED log
        \/ /\ complete /\ Cardinality(producers) < Seats(k)
           /\ Book("stuck") /\ Emit("NotEnoughProducers", k, 0, {})
        \/ /\ complete /\ Cardinality(producers) >= Seats(k)
           /\ Book("two") /\ Emit("SecretGenRound2", k, PendingEpoch(k), {})

addRound2(n, k) ==
    LET r2 == reg[k].r2 \cup {n}
    IN  \/ /\ r2 # reg[k].producers
           /\ reg' = [reg EXCEPT ![k].r2 = r2]
           /\ UNCHANGED log
        \/ /\ r2 = reg[k].producers
           /\ reg' = [reg EXCEPT ![k].r2 = r2, ![k].round = "three"]
           /\ IF IsReshare(k) THEN Emit("ReshareRound3", k, PendingEpoch(k), reg[k].producers)
              ELSE Emit("SecretGenRound3", k, 0, {})

Finalized(k, r) ==
    Reset([r EXCEPT !.epoch = PendingEpoch(k), !.prev = RunDeal(k),
                    !.pk = IF IsReshare(k) THEN @ ELSE RunSecret(k)], "idle")

addRound3(n, k) ==
    LET r3 == reg[k].r3 \cup {n}
    IN  \/ /\ r3 # Node
           /\ reg' = [reg EXCEPT ![k].r3 = r3]
           /\ UNCHANGED log
        \/ /\ r3 = Node
           /\ reg' = [reg EXCEPT ![k] = Finalized(k, @)]
           /\ Emit("SecretGenFinalize", k, PendingEpoch(k), {})

(* A mined transaction: a revert changes nothing. *)
ExecuteSubmission(n, s) ==
    \/ /\ CallResult(n, s) # "Ok"
       /\ UNCHANGED <<reg, log>>
    \/ /\ CallResult(n, s) = "Ok"
       /\ \/ s.fn = "r1" /\ addRound1(n, s.key, s.im)
          \/ s.fn = "r2" /\ addRound2(n, s.key)
          \/ s.fn = "r3" /\ addRound3(n, s.key)

(***************************************************************************)
(* Views.                                                                   *)
(***************************************************************************)
InRound(k, round) == IF reg[k].round = round THEN "Ok" ELSE "WrongRound"

getOprfPublicKey(k) ==
    CASE reg[k].round = "deleted" -> "DeletedId"
      [] reg[k].round # "deleted" /\ reg[k].pk = Null -> "UnknownId"
      [] OTHER -> "Ok"
=============================================================================
