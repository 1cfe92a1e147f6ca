------------------------------- MODULE Sumcheck -------------------------------
(***************************************************************************)
(* The computations of the sumcheck of Standard Honk (honk/sumcheck): the  *)
(* relations, the univariate of a round, and the checks of the verifier.   *)
(*                                                                         *)
(* A multilinear polynomial is the function of its values on the vertices  *)
(* 0 .. 2^d - 1 of the hypercube, bit 0 for the first variable.            *)
(***************************************************************************)
EXTENDS PrimeField, Sequences

\* StandardArithmetization::POLYNOMIAL, in its three categories.
PrecomputedNames == <<"Q_C", "Q_L", "Q_R", "Q_O", "Q_M", "SIGMA_1", "SIGMA_2", "SIGMA_3",
                      "ID_1", "ID_2", "ID_3", "LAGRANGE_FIRST", "LAGRANGE_LAST">>
WitnessNames     == <<"W_L", "W_R", "W_O", "Z_PERM">>
UnshiftedNames   == PrecomputedNames \o WitnessNames
PolynomialNames  == Append(UnshiftedNames, "Z_PERM_SHIFT")
NUM_POLYNOMIALS  == Len(PolynomialNames)

-----------------------------------------------------------------------------
(***************************************************************************)
(* The relations, at the values e of the polynomials.  parameters holds    *)
(* beta, gamma and public_input_delta.                                     *)
(***************************************************************************)
Arithmetic(e) ==
    e["W_L"] ** (e["Q_M"] ** e["W_R"] ++ e["Q_L"])
        ++ e["Q_R"] ** e["W_R"] ++ e["Q_O"] ** e["W_O"] ++ e["Q_C"]

\* Mutant: the last row does not account for the public inputs.
GrandProductComputation_NoDelta(e, parameters) ==
    LET term(w, label) == e[w] ++ parameters.beta ** e[label] ++ parameters.gamma
    IN  ((e["Z_PERM"] ++ e["LAGRANGE_FIRST"])
            ** term("W_L", "ID_1") ** term("W_R", "ID_2") ** term("W_O", "ID_3"))
        -- ((e["Z_PERM_SHIFT"] ++ e["LAGRANGE_LAST"])
            ** term("W_L", "SIGMA_1") ** term("W_R", "SIGMA_2") ** term("W_O", "SIGMA_3"))

GrandProductComputation(e, parameters) ==
    LET term(w, label) == e[w] ++ parameters.beta ** e[label] ++ parameters.gamma
    IN  ((e["Z_PERM"] ++ e["LAGRANGE_FIRST"])
            ** term("W_L", "ID_1") ** term("W_R", "ID_2") ** term("W_O", "ID_3"))
        -- ((e["Z_PERM_SHIFT"] ++ e["LAGRANGE_LAST"] ** parameters.public_input_delta)
            ** term("W_L", "SIGMA_1") ** term("W_R", "SIGMA_2") ** term("W_O", "SIGMA_3"))

GrandProductInitialization(e) == e["LAGRANGE_LAST"] ** e["Z_PERM_SHIFT"]

NUM_RELATIONS       == 3
RELATION_LENGTH     == <<4, 5, 3>>      \* one more than the degree of each
MAX_RELATION_LENGTH == 5

Relation(k, e, parameters) ==
    CASE k = 1 -> Arithmetic(e)
      [] k = 2 -> GrandProductComputation(e, parameters)
      [] k = 3 -> GrandProductInitialization(e)

\* batch_over_relations, and the sum in compute_full_honk_relation_purported_value.
FullRelation(e, parameters, alpha) ==
    FieldSum(NUM_RELATIONS, LAMBDA k : Power(alpha, k) ** Relation(k + 1, e, parameters))

-----------------------------------------------------------------------------
(***************************************************************************)
(* BarycentricData: a univariate is given by its values at 0, 1, ...       *)
(***************************************************************************)
LagrangeDenominator(length, i) ==
    FieldProduct(length, LAMBDA j : IF j = i THEN 1 ELSE i -- j)

\* evaluate, at a point outside the domain.
Barycentric(f, length, u) ==
    FieldProduct(length, LAMBDA i : u -- i)
        ** FieldSum(length, LAMBDA i : f[i] // (LagrangeDenominator(length, i) ** (u -- i)))

Extend(f, length) ==
    [k \in 0 .. MAX_RELATION_LENGTH - 1 |-> IF k < length THEN f[k] ELSE Barycentric(f, length, k)]

(***************************************************************************)
(* PowUnivariate: the multilinear extension of 1, zeta, zeta^2, ...,       *)
(* evaluated one variable after the other.                                 *)
(***************************************************************************)
PowUnivariate(zeta) ==
    [zeta_pow |-> zeta, zeta_pow_sqr |-> zeta ** zeta, partial_evaluation_constant |-> 1]

UnivariateEval(pow, u) == 1 ++ u ** (pow.zeta_pow -- 1)

PartiallyEvaluate(pow, u) ==
    [zeta_pow     |-> pow.zeta_pow_sqr,
     zeta_pow_sqr |-> pow.zeta_pow_sqr ** pow.zeta_pow_sqr,
     partial_evaluation_constant |-> pow.partial_evaluation_constant ** UnivariateEval(pow, u)]

(***************************************************************************)
(* The prover's rounds.                                                    *)
(***************************************************************************)
\* extend_edges: the line through two neighbouring vertices, at x.
Edge(polys, i, x) ==
    [name \in DOMAIN polys |-> polys[name][i] ++ x ** (polys[name][i + 1] -- polys[name][i])]

\* compute_univariate
RoundUnivariate(polys, round_size, parameters, pow, alpha) ==
    LET scale(i) == pow.partial_evaluation_constant ** Power(pow.zeta_pow_sqr, i)
        accumulator(k) ==
            [x \in 0 .. RELATION_LENGTH[k] - 1 |->
                FieldSum(round_size \div 2, LAMBDA i : scale(i) ** Relation(k, Edge(polys, 2 * i, x), parameters))]
        extended == [k \in 1 .. NUM_RELATIONS |-> Extend(accumulator(k), RELATION_LENGTH[k])]
    IN  [x \in 0 .. MAX_RELATION_LENGTH - 1 |->
            FieldSum(NUM_RELATIONS, LAMBDA k : Power(alpha, k) ** extended[k + 1][x])]

\* Mutant: the two halves of a fold are swapped.
Fold_Swapped(polys, round_size, u) ==
    [name \in DOMAIN polys |-> [i \in 0 .. round_size \div 2 - 1 |->
        polys[name][2 * i + 1] ++ u ** (polys[name][2 * i] -- polys[name][2 * i + 1])]]

Fold(polys, round_size, u) ==
    [name \in DOMAIN polys |-> [i \in 0 .. round_size \div 2 - 1 |->
        polys[name][2 * i] ++ u ** (polys[name][2 * i + 1] -- polys[name][2 * i])]]

(***************************************************************************)
(* The verifier's rounds.                                                  *)
(***************************************************************************)
CheckSum(univariate, pow, target_total_sum) ==
    target_total_sum = univariate[0] ++ pow.zeta_pow ** univariate[1]

NextTargetSum(univariate, pow, u) ==
    Barycentric(univariate, MAX_RELATION_LENGTH, u) ** UnivariateEval(pow, u)

PurportedValue(e, parameters, pow, alpha) ==
    FullRelation(e, parameters, alpha) ** pow.partial_evaluation_constant
=============================================================================
