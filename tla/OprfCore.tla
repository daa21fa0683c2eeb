------------------------------ MODULE OprfCore ------------------------------
(***************************************************************************)
(* The algorithms of oprf-core over the fields and the curve of BabyJubJub: *)
(* Shamir sharing (shamir.rs), the polynomials, commitments and encrypted   *)
(* shares of key generation (keygen.rs), the Chaum-Pedersen proof           *)
(* (dlog_equality.rs), its distributed version with two nonces per party    *)
(* (ddlog_equality.rs and its shamir and additive variants), and blinding,  *)
(* finalisation and the single-key server (oprf.rs, oprf/client.rs,         *)
(* oprf/server.rs).                                                         *)
(*                                                                          *)
(* What the code draws from its random number generator is a parameter.     *)
(* Poseidon2 and BLAKE3 are constants: nothing here depends on what they    *)
(* compute, only on who feeds them what.                                    *)
(*                                                                          *)
(* F_fault is F with a mistake in it, used by nothing (see KeyGenDb).       *)
(***************************************************************************)
EXTENDS Mappings

CONSTANTS NonceHash(_),  \* BLAKE3 of a tuple, as a natural number
          Null

(* Domain separators. *)
T1Ds == 2
CoeffDs == 3
DLogDs == 4

-----------------------------------------------------------------------------
(* shamir.rs *)

single_lagrange_from_coeff(my_id, coeffs) ==
    LET others == SelectSeq(coeffs, LAMBDA j : j # my_id)
        num == FoldLeft(LAMBDA x, j : FrTimes(x, j), 1, others)
        den == FoldLeft(LAMBDA x, j : FrTimes(x, j - my_id), 1, others)
    IN  FrTimes(num, FrInv[den])

lagrange_from_coeff(coeffs) ==
    [i \in DOMAIN coeffs |-> single_lagrange_from_coeff(coeffs[i], coeffs)]

evaluate_poly(poly, x) ==
    FoldLeft(LAMBDA eval, coeff : (FrTimes(eval, x) + coeff) % ScalarModulus, 0, Reverse(poly))

reconstruct(shares, lagrange) ==
    SumFr([i \in DOMAIN shares |-> FrTimes(shares[i], lagrange[i])])

-----------------------------------------------------------------------------
(* keygen.rs *)

accumulate_shares(shares) == SumFr(shares)

accumulate_lagrange_shares(shares, lagrange) == reconstruct(shares, lagrange)
accumulate_lagrange_pks(pks, lagrange) == Msm(pks, lagrange)

(* The sponge over the coefficients behind the first, three at a time. *)
commit_coeffs(coeffs) ==
    LET state[k \in 0 .. (Len(coeffs) + 2) \div 3] ==
            IF k = 0 THEN <<CoeffDs, 0, 0, 0>>
            ELSE LET at(i) == 3 * (k - 1) + i - 1
                     absorbed == [i \in 1 .. 4 |->
                         IF i > 1 /\ at(i) <= Len(coeffs)
                         THEN (state[k - 1][i] + coeffs[at(i)]) % BaseModulus
                         ELSE state[k - 1][i]]
                 IN  [i \in 1 .. 4 |-> Permutation(absorbed, i)]
    IN  state[(Len(coeffs) + 2) \div 3][2]

(* KeyGenPoly::reshare; KeyGenPoly::new draws the secret as well. *)
KeyGenPoly(secret, coeffs) ==
    [poly        |-> <<secret>> \o coeffs,
     comm_share  |-> Mul(Generator, secret),
     comm_coeffs |-> commit_coeffs(coeffs)]

dh_key_derivation(my_sk, their_pk) == Mul(their_pk, my_sk)[1]

(* The key stream; every scalar fits in the base field. *)
sym_encrypt(key, msg, nonce) == (Permutation(<<T1Ds, key, nonce>>, 2) + msg) % BaseModulus

sym_decrypt(key, ciphertext, nonce) ==
    LET msg == (ciphertext - Permutation(<<T1Ds, key, nonce>>, 2)) % BaseModulus
    IN  IF msg \in Fr THEN msg ELSE Null

decrypt_share(my_sk, their_pk, ciphertext, nonce) ==
    sym_decrypt(dh_key_derivation(my_sk, their_pk), ciphertext, nonce)

gen_share_zero_based(poly, id, my_sk, their_pk, nonce) ==
    LET share == evaluate_poly(poly.poly, id % ScalarModulus)
    IN  [commitment |-> Mul(Generator, share),
         cipher     |-> sym_encrypt(dh_key_derivation(my_sk, their_pk), share, nonce),
         nonce      |-> nonce]

gen_share(poly, id, my_sk, their_pk, nonce) ==
    LET share == evaluate_poly(poly.poly, (id + 1) % ScalarModulus)
    IN  [commitment |-> Mul(Generator, share),
         cipher     |-> sym_encrypt(dh_key_derivation(my_sk, their_pk), share, nonce),
         nonce      |-> nonce]

-----------------------------------------------------------------------------
(* dlog_equality.rs *)

challenge_hash(pk, b, c, g, r1, r2) ==
    Permutation(<<DLogDs>> \o pk \o b \o c \o g \o r1 \o r2 \o <<0, 0, 0>>, 2)

convert_base_to_scalar(f) == f % ScalarModulus

dlog_proof(b, x, k) ==
    LET e == challenge_hash(Mul(Generator, x), b, Mul(b, x), Generator,
                            Mul(Generator, k), Mul(b, k))
    IN  [e |-> e, s |-> (k + convert_base_to_scalar(e) * x) % ScalarModulus]

verify(proof, pk, b, c, g) ==
    LET e == convert_base_to_scalar(proof.e)
        r1 == Plus[<<Mul(g, proof.s), Neg(Mul(pk, e))>>]
        r2 == Plus[<<Mul(b, proof.s), Neg(Mul(c, e))>>]
    IN  /\ \A p \in {pk, b, c, g} : is_on_curve(p) /\ is_in_correct_subgroup(p) /\ p # Identity
        /\ r1 # Identity /\ r2 # Identity
        /\ proof.e = challenge_hash(pk, b, c, g, r1, r2)

-----------------------------------------------------------------------------
(* ddlog_equality.rs *)

partial_commitments(b, x_share, d_share, e_share) ==
    [c  |-> Mul(b, x_share),
     d1 |-> Mul(Generator, d_share), d2 |-> Mul(b, d_share),
     e1 |-> Mul(Generator, e_share), e2 |-> Mul(b, e_share)]

(* <<r1, r2, b>>: the parties enter the hash in the order of the request. *)
combine_two_nonce_randomness(session_id, pk, comm) ==
    LET b == NonceHash(<<session_id>> \o comm.contributing_parties \o pk \o comm.c
                         \o comm.d1 \o comm.d2 \o comm.e1 \o comm.e2) % ScalarModulus
    IN  << Plus[<<comm.d1, Mul(comm.e1, b)>>], Plus[<<comm.d2, Mul(comm.e2, b)>>], b >>

combine_proofs(comm, session_id, proofs, pk, b) ==
    LET r == combine_two_nonce_randomness(session_id, pk, comm)
    IN  [e |-> challenge_hash(pk, b, comm.c, Generator, r[1], r[2]), s |-> SumFr(proofs)]

(* The nonce commitments are plain sums in both variants ... *)
combine_nonces(comms, c, parties) ==
    LET total(f) == SumPoints([i \in DOMAIN comms |-> comms[i][f]])
    IN  [c |-> c, d1 |-> total("d1"), d2 |-> total("d2"), e1 |-> total("e1"), e2 |-> total("e2"),
         contributing_parties |-> parties]

(* ... the response is interpolated in the Shamir variant only.             *)
combine_commitments_sum(comms, parties) ==
    combine_nonces(comms, SumPoints([i \in DOMAIN comms |-> comms[i].c]), parties)

combine_commitments(comms, parties) ==
    combine_nonces(comms, Msm([i \in DOMAIN comms |-> comms[i].c], lagrange_from_coeff(parties)),
                   parties)

additive_combine_commitments(comms, parties) ==
    combine_nonces(comms, SumPoints([i \in DOMAIN comms |-> comms[i].c]), parties)

challenge_unweighted(session_id, session, x_share, pk, comm, lagrange_coefficient) ==
    LET r == combine_two_nonce_randomness(session_id, pk, comm)
        e == challenge_hash(pk, session.blinded_query, comm.c, Generator, r[1], r[2])
    IN  (session.d + r[3] * session.e + convert_base_to_scalar(e) * x_share) % ScalarModulus

(* A proof share: the nonces are those of the session, which is consumed.   *)
challenge(session_id, session, x_share, pk, comm, lagrange_coefficient) ==
    LET r == combine_two_nonce_randomness(session_id, pk, comm)
        e == challenge_hash(pk, session.blinded_query, comm.c, Generator, r[1], r[2])
    IN  (session.d + r[3] * session.e
          + FrTimes(lagrange_coefficient, convert_base_to_scalar(e)) * x_share) % ScalarModulus

additive_challenge(session_id, session, x_share, pk, comm) ==
    challenge(session_id, session, x_share, pk, comm, 1)

-----------------------------------------------------------------------------
(* oprf.rs, oprf/client.rs, oprf/server.rs *)

prepare(beta) == FrInv[beta]

blind_query(query, beta) == Mul(encode_to_curve(query), beta)

unblind_response(response, beta_inv) == Mul(response, beta_inv)

finalize_query(query, response, beta_inv, ds) ==
    Permutation(<<ds, query>> \o unblind_response(response, beta_inv), 2)

(* Null stands for InvalidProof. *)
finalize_query_and_verify_proof(pk, query, response, proof, beta_inv, ds) ==
    LET b == Mul(encode_to_curve(query), FrInv[beta_inv])
    IN  IF verify(proof, pk, b, response, Generator)
        THEN finalize_query(query, response, beta_inv, ds)
        ELSE Null

answer_query_with_proof(key, b, k) == [response |-> Mul(b, key), proof |-> dlog_proof(b, key, k)]
=============================================================================
