-------------------------- MODULE MCThresholdOprf ---------------------------
(* Three nodes, polynomials of degree 1 (Alice, Bob and Carol of            *)
(* generate-test-transcript.rs) on a curve with 8 * 5 points over GF(41).   *)
EXTENDS ThresholdOprf

MCParty == 0 .. 2

(* Stand-ins for the hashes: every input, and its place, counts. *)
MCPermutation(s, i) == FoldLeft(LAMBDA h, x : (h * 7 + x * i + i) % BaseModulus, i, s)
MCNonceHash(s) == FoldLeft(LAMBDA h, x : (h * 3 + x + 1) % 1009, 0, s)

(* The secrets add up to 0 or 2; the other draws include zeros as well.     *)
MCSecrets == <<{2}, {0}>> @@ (0 :> {0, 3})
MCCoeffs == <<{3}, {1}>> @@ (0 :> {0, 4})
MCEphKeys == <<{3}, {1}>> @@ (0 :> {0, 2})
MCNoncePairs == <<{<<2, 1>>, <<4, 4>>}, {<<1, 3>>}>> @@ (0 :> {<<0, 0>>, <<3, 2>>})
MCQueries == 0 .. BaseModulus - 1
=============================================================================
