------------------------------ MODULE Mappings ------------------------------
(***************************************************************************)
(* Encoding of field elements to curve points (oprf-core: oprf/mappings.rs):*)
(* a Poseidon2 hash to the base field, the Elligator 2 map to the           *)
(* Montgomery curve, the rational map to the twisted Edwards curve and the  *)
(* multiplication with the cofactor.  The code computes without branches:   *)
(* ct_select picks, inv0 and ct_is_square are powers.                       *)
(***************************************************************************)
EXTENDS BabyJubJub

CONSTANT Permutation(_, _)  \* Poseidon2 of a state (a tuple), its i-th output

(* Exponentiation in Fq. *)
PowTable ==
    [x \in Fq |-> LET pow[k \in 0 .. BaseModulus] ==
                          IF k = 0 THEN 1 ELSE (pow[k - 1] * x) % BaseModulus
                  IN  pow]

ct_is_zero(v) == v = 0
ct_select(lhs, rhs, choice) ==
    LET c == IF choice THEN 1 ELSE 0
    IN  (rhs + (lhs - rhs) * c) % BaseModulus
ct_is_square(x) ==
    LET p == PowTable[x][(BaseModulus - 1) \div 2]
    IN  (p = 0) # (p = 1)

inv0(x) == PowTable[x][BaseModulus - 2]
sgn0(x) == x % 2 = 1

(* Domain separators; any two distinct field elements do. *)
HashToFieldDs == 1

hash_to_field(input) == Permutation(<<HashToFieldDs, input, 0>>, 2)

hash_to_field2(input) ==
    << Permutation(<<HashToFieldDs, input, 1>>, 2), Permutation(<<HashToFieldDs, input, 1>>, 3) >>

map_to_curve_elligator2_sign(input) ==
    LET zu2 == Times(Z, Times(input, input))
        tv1 == ct_select(0, zu2, ct_is_zero((zu2 + 1) % BaseModulus))
        x1 == Times(-J, inv0((tv1 + 1) % BaseModulus))
        gx1 == (Times(x1 + J, Times(x1, x1)) + x1) % BaseModulus
        e2 == ct_is_square(gx1)
        y == FqSqrt[ct_select(gx1, Times(tv1, gx1), e2)]
    IN  << ct_select(x1, (-x1 - J) % BaseModulus, e2), ct_select(-y, y, sgn0(y)) >>

map_to_curve_elligator2(input) ==
    LET zu2 == Times(Z, Times(input, input))
        tv1 == ct_select(0, zu2, ct_is_zero((zu2 + 1) % BaseModulus))
        x1 == Times(-J, inv0((tv1 + 1) % BaseModulus))
        gx1 == (Times(x1 + J, Times(x1, x1)) + x1) % BaseModulus
        x2 == (-x1 - J) % BaseModulus
        gx2 == Times(tv1, gx1)
        e2 == ct_is_square(gx1)
        y == FqSqrt[ct_select(gx1, gx2, e2)]
    IN  << ct_select(x1, x2, e2), ct_select(-y, y, e2 # sgn0(y)) >>

rational_map_mont_to_twisted_edwards(s, t) ==
    LET tv2 == inv0(Times(s + 1, t))
        v == Times(Times(s + 1, tv2), s)
        w == Times(Times(tv2, t), s - 1)
    IN  << v, ct_select(1, w, ct_is_zero(tv2)) >>

map_to_curve_twisted_edwards(input) ==
    LET st == map_to_curve_elligator2(input)
    IN  rational_map_mont_to_twisted_edwards(st[1], st[2])

encode_to_curve(input) ==
    clear_cofactor(map_to_curve_twisted_edwards(hash_to_field(input)))

hash_to_curve(input) ==
    LET u == hash_to_field2(input)
        q0 == map_to_curve_twisted_edwards(u[1])
        q1 == map_to_curve_twisted_edwards(u[2])
    IN  clear_cofactor(Plus[<<q0, q1>>])
=============================================================================
