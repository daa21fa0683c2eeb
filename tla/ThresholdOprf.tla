--------------------------- MODULE ThresholdOprf ----------------------------
(***************************************************************************)
(* The threshold OPRF end to end, on the numbers: key generation, then      *)
(* reshares by changing producers (as generate-test-transcript.rs runs them *)
(* for Alice, Bob and Carol, with secret_gen.rs for what a node does), and, *)
(* with the key of any epoch, evaluations by an ordered quorum of nodes, by *)
(* additive shares of the same key, or by the single-key server.            *)
(*                                                                          *)
(* KeyGenProtocol, OprfNode and OprfClient have the interleavings, faults   *)
(* and errors, with a share or a proof as a token; here the nodes take      *)
(* their turns in the order of their ids and the tokens are computed.       *)
(***************************************************************************)
EXTENDS OprfCore, FiniteSetsExt

CONSTANTS Party,       \* party ids, 0 .. n - 1
          Degree,      \* of the polynomials
          Secrets,     \* what KeyGenPoly::new may draw as a secret, per party
          Coeffs,      \* what may be drawn as a higher coefficient, per party
          EphKeys,     \* ephemeral private keys, per party
          EncNonces,   \* encryption nonces
          NoncePairs,  \* pairs <<d, e>> a node may draw, per party
          Queries,
          Blindings,   \* blinding factors
          MaxEpoch

ASSUME ThresholdAssumption ==
    /\ Party = 0 .. Cardinality(Party) - 1
    /\ Degree \in Nat /\ Degree < Cardinality(Party) /\ Cardinality(Party) < ScalarModulus
    /\ \A p \in Party : /\ Secrets[p] \subseteq Fr /\ Coeffs[p] \subseteq Fr
                        /\ EphKeys[p] \subseteq Fr /\ NoncePairs[p] \subseteq Fr \X Fr
    /\ EncNonces \subseteq Fq /\ Queries \subseteq Fq
    /\ Blindings \subseteq Fr \ {0}  \* blind_query panics on zero
    /\ MaxEpoch \in Nat

VARIABLES
    stage,      \* of a key generation: "idle", "round1", "round2", "round3"
    epoch,      \* of the key, -1 without one
    producers,  \* of the running key generation
    inter,      \* KeyGenIntermediateValues of each node
    ciphers,    \* ciphers[p][q]: what p encrypted for q
    material,   \* OprfKeyMaterial of each node
    shareComm,  \* commitment to each node's share, from the published ones
    secret,     \* history: the sum of the secrets of the key generation
    request,    \* the evaluation under way
    sessions,   \* DLogSession of each node
    comms,      \* the partial commitments, in the order of the parties
    challenged, \* the combined commitments sent back to the nodes
    proofs,     \* the proof shares
    result

keyVars == <<stage, epoch, producers, inter, ciphers, material, shareComm, secret>>
evalVars == <<request, sessions, comms, challenged, proofs, result>>
vars == <<keyVars, evalVars>>

Threshold == Degree + 1
None == [p \in Party |-> Null]
SessionId == 1
QueryDs == 5

Sorted(S) == SetToSortSeq(S, LAMBDA p, q : p < q)
Ids(ps) == [i \in DOMAIN ps |-> ps[i] + 1]
Quorums == {q \in [1 .. Threshold -> Party] : \A i, j \in 1 .. Threshold : i # j => q[i] # q[j]}

(* The parties take their turns in the order of their ids. *)
NextIn(S, f) == CHOOSE p \in {q \in S : f[q] = Null} : \A q \in S : f[q] = Null => p <= q

-----------------------------------------------------------------------------
Init ==
    /\ stage = "idle" /\ epoch = -1 /\ producers = {}
    /\ inter = None /\ ciphers = None /\ material = None /\ shareComm = None
    /\ secret = Null
    /\ request = Null /\ sessions = None /\ comms = << >> /\ challenged = Null
    /\ proofs = << >> /\ result = Null

StartKeyGen ==
    /\ stage = "idle" /\ epoch = -1
    /\ stage' = "round1" /\ producers' = Party
    /\ UNCHANGED <<epoch, inter, ciphers, material, shareComm, secret, evalVars>>

(* Any threshold of the nodes reshares, the others are consumers. *)
StartReshare ==
    /\ stage = "idle" /\ epoch \in 0 .. MaxEpoch - 1 /\ request = Null
    /\ \E S \in kSubset(Threshold, Party) : producers' = S
    /\ stage' = "round1"
    /\ UNCHANGED <<epoch, inter, ciphers, material, shareComm, secret, evalVars>>

(* KeyGenIntermediateValues::new, reshare and consumer. *)
Intermediates(p) ==
    [sk : EphKeys[p],
     poly : IF p \notin producers THEN {Null}
            ELSE {KeyGenPoly(s, cs) :
                      s \in IF epoch = -1 THEN Secrets[p] ELSE {material[p].share},
                      cs \in [1 .. Degree -> Coeffs[p]]}]

Round1 ==
    /\ stage = "round1"
    /\ LET p == NextIn(Party, inter)
       IN  \E v \in Intermediates(p) :
               /\ inter' = [inter EXCEPT ![p] = v]
               /\ stage' = IF \A q \in Party : inter'[q] # Null THEN "round2" ELSE stage
    /\ UNCHANGED <<epoch, producers, ciphers, material, shareComm, secret, evalVars>>

(* What round 1 publishes: a consumer commits to the pair (0, 0), which is  *)
(* not the identity of the curve.                                           *)
ProducerContribution(sk, poly) ==
    [comm_share |-> poly.comm_share, comm_coeffs |-> poly.comm_coeffs,
     eph_pub_key |-> Mul(Generator, sk)]

ConsumerContribution(sk) ==
    [comm_share |-> <<0, 0>>, comm_coeffs |-> 0, eph_pub_key |-> Mul(Generator, sk)]

Round1Contribution(p) ==
    IF inter[p].poly = Null THEN ConsumerContribution(inter[p].sk)
    ELSE ProducerContribution(inter[p].sk, inter[p].poly)

(* A node takes the keys of the others from the chain, if they are valid. *)
EphemeralEncryptionPublicKeys(S) ==
    \A p \in S : LET pk == Round1Contribution(p).eph_pub_key
                 IN  is_on_curve(pk) /\ is_in_correct_subgroup(pk)

Round2 ==
    /\ stage = "round2" /\ EphemeralEncryptionPublicKeys(Party)
    /\ LET p == NextIn(producers, ciphers)
       IN  \E nonce \in [Party -> EncNonces] :
               /\ ciphers' = [ciphers EXCEPT ![p] =
                      [q \in Party |-> gen_share(inter[p].poly, q, inter[p].sk,
                                                 Round1Contribution(q).eph_pub_key, nonce[q])]]
               /\ stage' = IF \A q \in producers : ciphers'[q] # Null THEN "round3" ELSE stage
    /\ UNCHANGED <<epoch, producers, inter, material, shareComm, secret, evalVars>>

(* decrypt_key_gen_ciphertexts: Null when a ciphertext does not decrypt or  *)
(* does not match its commitment.                                           *)
DecryptedShares(p) ==
    [i \in 1 .. Cardinality(producers) |->
        LET from == Sorted(producers)[i]
            c == ciphers[from][p]
            share == decrypt_share(inter[p].sk, Round1Contribution(from).eph_pub_key,
                                   c.cipher, c.nonce)
        IN  IF share # Null /\ Mul(Generator, share) = c.commitment THEN share ELSE Null]

Lagrange == lagrange_from_coeff(Ids(Sorted(producers)))

(* Contributions::Full in a key generation, Contributions::Shamir with the  *)
(* Lagrange coefficients of the producers in a reshare.                     *)
KeyGenShare(p) == accumulate_shares(DecryptedShares(p))

ReshareShare_unweighted(p) == accumulate_shares(DecryptedShares(p))

ReshareShare(p) == accumulate_lagrange_shares(DecryptedShares(p), Lagrange)

NewShare(p) == IF epoch = -1 THEN KeyGenShare(p) ELSE ReshareShare(p)

NewShareComm_unweighted(p) ==
    SumPoints([i \in 1 .. Cardinality(producers) |-> ciphers[Sorted(producers)[i]][p].commitment])

(* The commitment to p's new share that anyone can compute: the sum of the  *)
(* published commitments, weighted in a reshare.                            *)
NewShareComm(p) ==
    LET published == [i \in 1 .. Cardinality(producers) |-> ciphers[Sorted(producers)[i]][p].commitment]
    IN  IF epoch = -1 THEN SumPoints(published) ELSE Msm(published, Lagrange)

(* The key the registry announces: the sum of the commitments to the        *)
(* secrets, fixed by the key generation.                                    *)
OprfPublicKey ==
    IF epoch = -1 THEN SumPoints([i \in 1 .. Cardinality(Party) |-> Round1Contribution(i - 1).comm_share])
    ELSE material[0].oprf_public_key

OprfKeyMaterial(share, pk, e) == [share |-> share, oprf_public_key |-> pk, epoch |-> e]

Round3 ==
    /\ stage = "round3" /\ EphemeralEncryptionPublicKeys(producers)
    /\ \A p \in Party, i \in 1 .. Cardinality(producers) : DecryptedShares(p)[i] # Null
    /\ material' = [p \in Party |-> OprfKeyMaterial(NewShare(p), OprfPublicKey, epoch + 1)]
    /\ shareComm' = [p \in Party |-> NewShareComm(p)]
    /\ secret' = IF epoch = -1 THEN SumFr([i \in 1 .. Cardinality(Party) |-> inter[i - 1].poly.poly[1]])
                 ELSE secret
    /\ epoch' = epoch + 1
    /\ stage' = "idle" /\ producers' = {} /\ inter' = None /\ ciphers' = None
    /\ UNCHANGED evalVars

-----------------------------------------------------------------------------
(* The shares an additive dealer could have given to the same parties. *)
XShare(p) ==
    IF request.variant = "additive"
    THEN FrTimes(single_lagrange_from_coeff(p + 1, Ids(request.parties)), material[p].share)
    ELSE material[p].share

(* The client blinds its query.                                             *)
Request ==
    /\ stage = "idle" /\ epoch >= 0 /\ request = Null
    /\ \E query \in Queries, beta \in Blindings, q \in Quorums,
          variant \in {"shamir", "additive", "single"} :
          /\ request' = [variant |-> variant, query |-> query, beta |-> beta,
                         b |-> blind_query(query, beta),
                         parties |-> IF variant = "single" THEN << >> ELSE q]
    /\ UNCHANGED <<keyVars, sessions, comms, challenged, proofs, result>>

(* init_session: a node refuses a request whose point is the identity.      *)
Refused == request # Null /\ request.variant # "single" /\ request.b = Identity

PartialCommit ==
    /\ request # Null /\ ~ Refused /\ Len(comms) < Len(request.parties)
    /\ LET p == request.parties[Len(comms) + 1]
       IN  \E nonces \in NoncePairs[p] :
               /\ sessions' = [sessions EXCEPT ![p] =
                      [d |-> nonces[1], e |-> nonces[2], blinded_query |-> request.b]]
               /\ comms' = Append(comms, partial_commitments(request.b, XShare(p), nonces[1], nonces[2]))
    /\ UNCHANGED <<keyVars, request, challenged, proofs, result>>

(* generate_challenge_request *)
Combine ==
    /\ request # Null /\ result = Null /\ challenged = Null
    /\ comms # << >> /\ Len(comms) = Len(request.parties)
    /\ challenged' = IF request.variant = "additive"
                     THEN additive_combine_commitments(comms, Ids(request.parties))
                     ELSE combine_commitments(comms, Ids(request.parties))
    /\ UNCHANGED <<keyVars, request, sessions, comms, proofs, result>>

(* OprfKeyMaterialStore::challenge *)
Challenge ==
    /\ challenged # Null /\ Len(proofs) < Len(request.parties)
    /\ LET p == request.parties[Len(proofs) + 1]
           pk == material[p].oprf_public_key
           lagrange == single_lagrange_from_coeff(p + 1, challenged.contributing_parties)
       IN  /\ proofs' = Append(proofs,
                  IF request.variant = "additive"
                  THEN additive_challenge(SessionId, sessions[p], XShare(p), pk, challenged)
                  ELSE challenge(SessionId, sessions[p], XShare(p), pk, challenged, lagrange))
           /\ sessions' = [sessions EXCEPT ![p] = Null]
    /\ UNCHANGED <<keyVars, request, comms, challenged, result>>

(* The outcome for the client: output is Null iff the proof is invalid. *)
Outcome(pk, response, proof) ==
    [response |-> response, proof |-> proof,
     unblinded |-> unblind_response(response, prepare(request.beta)),
     output |-> IF verify(proof, pk, request.b, response, Generator)
                THEN finalize_query(request.query, response, prepare(request.beta), QueryDs)
                ELSE Null]

(* finalize_distributed_oprf *)
Finalize ==
    /\ challenged # Null /\ result = Null /\ Len(proofs) = Len(request.parties)
    /\ LET pk == material[request.parties[1]].oprf_public_key
       IN  result' = Outcome(pk, challenged.c,
                             combine_proofs(challenged, SessionId, proofs, pk, request.b))
    /\ UNCHANGED <<keyVars, request, sessions, comms, challenged, proofs>>

(* OprfServer with the whole key, and finalize_query_and_verify_proof. *)
AnswerQuery ==
    /\ request # Null /\ request.variant = "single" /\ result = Null
    /\ \E k \in {n[1] : n \in NoncePairs[0]} :
           LET pk == Mul(Generator, secret)
               answer == answer_query_with_proof(secret, request.b, k)
           IN  result' = [Outcome(pk, answer.response, answer.proof) EXCEPT
                             !.output = finalize_query_and_verify_proof(pk, request.query,
                                 answer.response, answer.proof, prepare(request.beta), QueryDs)]
    /\ UNCHANGED <<keyVars, request, sessions, comms, challenged, proofs>>

Close ==
    /\ result # Null \/ Refused
    /\ request' = Null /\ sessions' = None /\ comms' = << >> /\ challenged' = Null
    /\ proofs' = << >> /\ result' = Null
    /\ UNCHANGED keyVars

Next ==
    \/ StartKeyGen \/ StartReshare \/ Round1 \/ Round2 \/ Round3
    \/ Request \/ PartialCommit \/ Combine \/ Challenge \/ Finalize \/ AnswerQuery \/ Close

Spec == Init /\ [][Next]_vars

-----------------------------------------------------------------------------
ThresholdTypeOK ==
    /\ stage \in {"idle", "round1", "round2", "round3"}
    /\ epoch \in -1 .. MaxEpoch /\ producers \subseteq Party
    /\ \A p \in Party : /\ material[p] # Null => material[p].share \in Fr /\ material[p].oprf_public_key \in Subgroup
                        /\ sessions[p] # Null => request # Null
    /\ Len(comms) <= Threshold /\ Len(proofs) <= Len(comms) /\ proofs \in Seq(Fr)

(* Every share a node decrypts is the producer's polynomial at the node's   *)
(* point, id + 1: encryption under the Diffie-Hellman key of the two nodes  *)
(* (its own key for its own share), addition in the base field and the      *)
(* conversion back to the scalar field lose nothing and mix up no one.      *)
DealtSharesArrive ==
    stage = "round3" =>
        \A p \in Party, i \in 1 .. Cardinality(producers) :
            DecryptedShares(p)[i] = evaluate_poly(inter[Sorted(producers)[i]].poly.poly, p + 1)

(* In every epoch any quorum of the nodes, in any order, holds the secret   *)
(* of the first key generation, and the public key is its commitment        *)
(* (the assertions of check_keygen and check_reshare, for every quorum and  *)
(* every choice of producers).                                              *)
QuorumReconstructs ==
    stage = "idle" /\ epoch >= 0 =>
        \A q \in Quorums :
            LET shares == [i \in DOMAIN q |-> material[q[i]].share]
                lagrange == lagrange_from_coeff(Ids(q))
            IN  /\ reconstruct(shares, lagrange) = secret
                /\ accumulate_lagrange_pks([i \in DOMAIN q |-> Mul(Generator, shares[i])], lagrange)
                        = Mul(Generator, secret)
                /\ material[q[1]].oprf_public_key = Mul(Generator, secret)

(* From the dealers' polynomials to what a quorum holds, in every epoch.    *)
SharesAreOfTheSecret == DealtSharesArrive /\ QuorumReconstructs

(* A producer of a reshare commits to the very share it was dealt in the    *)
(* epoch before, as anyone can tell from the commitments published then     *)
(* (the last check of test_reshare, for later reshares as well).            *)
ReshareCommitsToOldShare ==
    stage = "round2" /\ epoch >= 0 =>
        \A p \in producers : Round1Contribution(p).comm_share = shareComm[p]

(* An honest quorum's combined proof is accepted exactly when the key, the  *)
(* query and the combined nonce are not zero, the cases verify refuses; so  *)
(* is the proof of additive shares and of the single-key server.            *)
ProofAcceptedIffNonzero ==
    result # Null =>
        LET k == (result.proof.s - convert_base_to_scalar(result.proof.e) * secret) % ScalarModulus
        IN  (result.output # Null) <=> (secret # 0 /\ request.b # Identity /\ k # 0)

(* The client's output is the key applied to the encoded query, hashed: it  *)
(* depends on no blinding factor, quorum, order, epoch or variant.          *)
OutputIsTheKeys ==
    result # Null =>
        LET point == Mul(encode_to_curve(request.query), secret)
        IN  /\ result.unblinded = point
            /\ result.output \in {Null, Permutation(<<QueryDs, request.query>> \o point, 2)}

(* The Elligator 2 map of RFC 9380, section 6.7.1 and appendix D.1, with    *)
(* its case distinctions.                                                   *)
RfcMap(u) ==
    LET den == (1 + Z * Times(u, u)) % BaseModulus
        g(x) == (Times(x, Times(x, x)) + J * Times(x, x) + x) % BaseModulus
        x1 == IF den = 0 THEN (-J) % BaseModulus ELSE Times(-J, FqInv[den])
        x == IF IsSquare(g(x1)) THEN x1 ELSE (-x1 - J) % BaseModulus
        y == CHOOSE v \in Fq : Times(v, v) = g(x) /\ (v # 0 => sgn0(v) = (x = x1))
    IN  IF y = 0 \/ (x + 1) % BaseModulus = 0 THEN Identity
        ELSE <<Times(x, FqInv[y]), Times(x - 1, FqInv[(x + 1) % BaseModulus])>>

(* The branch-free code maps a query to the point the RFC defines, the      *)
(* exceptional inputs included, and both encodings end in the large         *)
(* subgroup, so a blinded query never carries a small-order component.      *)
EncodingIsRfc ==
    request # Null =>
        LET u == hash_to_field(request.query)
        IN  /\ map_to_curve_twisted_edwards(u) = RfcMap(u)
            /\ request.b \in Subgroup /\ hash_to_curve(request.query) \in Subgroup
=============================================================================
