----------------------------- MODULE BabyJubJub -----------------------------
(***************************************************************************)
(* The two prime fields and the twisted Edwards curve that oprf-core takes  *)
(* from the arkworks libraries, as functions of their parameters: base      *)
(* field Fq, scalar field Fr, and the curve a*x^2 + y^2 = 1 + d*x^2*y^2     *)
(* with a = J + 2 and d = J - 2, birationally equivalent to the Montgomery  *)
(* curve t^2 = s^3 + J*s^2 + s (K = 1), with 8*ScalarModulus points.        *)
(*                                                                          *)
(* BabyJubJub itself is far beyond enumeration.  The assumption lists what  *)
(* the code relies on, and an instance is a toy curve that satisfies it: a  *)
(* is a square and d is not (the addition law is complete), Z is not a      *)
(* square, -1 is one, and scalars fit in the base field.                    *)
(***************************************************************************)
EXTENDS Integers, Sequences, FiniteSets, SequencesExt

CONSTANTS BaseModulus,    \* prime, the modulus of BaseField
          ScalarModulus,  \* prime, the order of the large subgroup
          J,              \* coefficient of the Montgomery curve
          Z               \* the non-square of the Elligator 2 map

Fq == 0 .. BaseModulus - 1
Fr == 0 .. ScalarModulus - 1

Times(x, y) == (x * y) % BaseModulus
FrTimes(x, y) == (x * y) % ScalarModulus

IsPrime(n) == n > 1 /\ \A k \in 2 .. n - 1 : n % k # 0
IsSquare(x) == \E y \in Fq : Times(y, y) = x % BaseModulus

CoeffA == J + 2
CoeffD == J - 2

(* Inverses and square roots as tables: FrInv[0] is never used. *)
FqInv == [x \in Fq |-> IF x = 0 THEN 0 ELSE CHOOSE y \in Fq : Times(x, y) = 1]
FrInv == [x \in Fr |-> IF x = 0 THEN 0 ELSE CHOOSE y \in Fr : FrTimes(x, y) = 1]
FqSqrt == [x \in {y \in Fq : IsSquare(y)} |-> CHOOSE y \in Fq : Times(y, y) = x]

(* Points in affine coordinates; the identity is (0, 1). *)
Identity == <<0, 1>>

is_on_curve(p) ==
    LET x2 == Times(p[1], p[1])
        y2 == Times(p[2], p[2])
    IN  (CoeffA * x2 + y2 - 1 - CoeffD * Times(x2, y2)) % BaseModulus = 0

Curve == {p \in Fq \X Fq : is_on_curve(p)}

(* The complete addition law. *)
Sum2(p, q) ==
    LET xx == Times(p[1], q[1])
        yy == Times(p[2], q[2])
        t == Times(CoeffD, Times(xx, yy))
    IN  << Times(p[1] * q[2] + p[2] * q[1], FqInv[(1 + t) % BaseModulus]),
           Times(yy - CoeffA * xx, FqInv[(1 - t) % BaseModulus]) >>

Plus == [pq \in Curve \X Curve |-> Sum2(pq[1], pq[2])]

(* Multiples[p][k] = k * p, for scalars and for the cofactor 8. *)
MaxMultiple == IF ScalarModulus > 8 THEN ScalarModulus ELSE 8

Multiples ==
    [p \in Curve |->
        LET mul[k \in 0 .. MaxMultiple] ==
                IF k = 0 THEN Identity ELSE Plus[<<mul[k - 1], p>>]
        IN  mul]

Mul(p, k) == Multiples[p][k]
Neg(p) == << (-p[1]) % BaseModulus, p[2] >>

is_in_correct_subgroup(p) == Mul(p, ScalarModulus) = Identity
clear_cofactor(p) == Mul(p, 8)

Subgroup == {p \in Curve : is_in_correct_subgroup(p)}
Generator == CHOOSE p \in Subgroup : p # Identity

ASSUME CurveAssumption ==
    /\ IsPrime(BaseModulus) /\ IsPrime(ScalarModulus) /\ ScalarModulus < BaseModulus
    /\ J \in Fq /\ Z \in Fq /\ J > 2
    /\ IsSquare(CoeffA) /\ ~ IsSquare(CoeffD) /\ ~ IsSquare(Z) /\ IsSquare(-1)
    /\ Cardinality(Curve) = 8 * ScalarModulus

SumFr(s) == FoldLeft(LAMBDA x, y : (x + y) % ScalarModulus, 0, s)
SumPoints(s) == FoldLeft(LAMBDA p, q : Plus[<<p, q>>], Identity, s)

(* Multi-scalar multiplication (msm_unchecked). *)
Msm(ps, ks) == SumPoints([i \in 1 .. Len(ks) |-> Mul(ps[i], ks[i])])
=============================================================================
