-------------------------- MODULE MultilinearOpening --------------------------
(***************************************************************************)
(* Opening multilinear polynomials in Honk (honk/pcs): Gemini reduces the  *)
(* claim to univariate openings of folded polynomials, Shplonk batches     *)
(* those, KZG opens the batch.                                             *)
(*                                                                         *)
(* A polynomial is the function of its coefficients from 0 on.  The        *)
(* commitment scheme is binding and homomorphic: the commitment of a       *)
(* polynomial is the polynomial, and the pairing checks an identity.       *)
(***************************************************************************)
EXTENDS PrimeField, FiniteSets, Sequences

Size(f)    == Cardinality(DOMAIN f)
Coeff(f, i) == IF i \in DOMAIN f THEN f[i] ELSE 0

Evaluate(f, x) == FieldSum(Size(f), LAMBDA i : f[i] ** Power(x, i))

\* add_scaled
PlusScaled(f, g, c) == [i \in DOMAIN f \cup DOMAIN g |-> Coeff(f, i) ++ c ** Coeff(g, i)]

\* The sum of n polynomials of at most size coefficients.
PolySum(size, n, f(_)) == [i \in 0 .. size - 1 |-> FieldSum(n, LAMBDA j : Coeff(f(j), i))]

Scaled(f, c) == [i \in DOMAIN f |-> c ** f[i]]
Shifted(f)   == [i \in DOMAIN f |-> Coeff(f, i + 1)]

\* tmp[0] -= v
Minus(f, v) == [f EXCEPT ![0] = @ -- v]

\* factor_roots: f / (X - root), for a root of f.
FactorRoots(f, root) ==
    LET n == Size(f)
        minusInverse == FieldInverse(0 -- root)
        b[i \in 0 .. n - 1] == (IF i = 0 THEN f[0] ELSE f[i] -- b[i - 1]) ** minusInverse
    IN  [i \in 0 .. n - 1 |-> CASE i = n - 1 -> 0
                                [] i < n - 1 /\ root = 0 -> f[i + 1]
                                [] i < n - 1 /\ root # 0 -> b[i]]

-----------------------------------------------------------------------------
(***************************************************************************)
(* Gemini, at the point u = <<u_0, ..., u_(d-1)>>.                         *)
(***************************************************************************)
\* r, r^2, r^4, ...
SquareOfR(r, l) == Power(r, 2 ^ l)

\* compute_fold_polynomials: F and G, then the foldings of F + G/X.
FoldPolynomials(u, F, G) ==
    LET A[l \in 0 .. Len(u) - 1] ==
            IF l = 0 THEN PlusScaled(F, Shifted(G), 1)
            ELSE [i \in 0 .. 2 ^ (Len(u) - l) - 1 |->
                    A[l - 1][2 * i] ++ u[l] ** (A[l - 1][2 * i + 1] -- A[l - 1][2 * i])]
    IN  <<F, G>> \o [l \in 1 .. Len(u) - 1 |-> A[l]]

\* compute_fold_polynomial_evaluations: the polynomials F + G/r, F - G/r and
\* the foldings, each with the point where it is opened.
Witnesses(folds, r) ==
    LET G == Scaled(folds[2], FieldInverse(r))
    IN  <<PlusScaled(folds[1], G, 1), PlusScaled(folds[1], G, 0 -- 1)>> \o SubSeq(folds, 3, Len(folds))

OpeningPoint(r, j) == IF j = 1 THEN r ELSE 0 -- SquareOfR(r, j - 2)

OpeningPairs(witnesses, r) ==
    [j \in 1 .. Len(witnesses) |->
        [challenge |-> OpeningPoint(r, j), evaluation |-> Evaluate(witnesses[j], OpeningPoint(r, j))]]

\* compute_eval_pos: the claimed evaluation of F + G/X at r, from the claimed
\* multilinear evaluation v and the evaluations a of the prover.
EvalPos(v, u, r, a) ==
    LET e[l \in 0 .. Len(u)] ==
            IF l = Len(u) THEN v
            ELSE LET rl == SquareOfR(r, l)
                 IN  (((rl ** e[l + 1]) ** 2) -- (a[l + 1] ** ((rl ** (1 -- u[l + 1])) -- u[l + 1])))
                        // (rl ** (1 -- u[l + 1]) ++ u[l + 1])
    IN  e[0]

\* reduce_verify: the claims about the two simulated commitments and the
\* commitments of the foldings.
GeminiClaims(v, u, r, a, F, G, folds) ==
    LET value == <<EvalPos(v, u, r, a)>> \o a
        of    == Witnesses(<<F, G>> \o folds, r)
    IN  [j \in 1 .. Len(of) |->
            [challenge |-> OpeningPoint(r, j), evaluation |-> value[j], commitment |-> of[j]]]

-----------------------------------------------------------------------------
(***************************************************************************)
(* Shplonk and KZG.                                                        *)
(***************************************************************************)
\* compute_batched_quotient
BatchedQuotient(pairs, witnesses, nu) ==
    LET quotient == [j \in DOMAIN pairs |->
            FactorRoots(Minus(witnesses[j], pairs[j].evaluation), pairs[j].challenge)]
    IN  PolySum(Size(witnesses[1]), Len(pairs), LAMBDA j : Scaled(quotient[j + 1], Power(nu, j)))

\* compute_partially_evaluated_batched_quotient, and the commitment [Q] - [Q_z]
\* of reduce_verify.
PartiallyEvaluated(pairs, witnesses, Q, nu, z) ==
    LET scaled(j) == Scaled(Minus(witnesses[j], pairs[j].evaluation),
                            Power(nu, j - 1) // (z -- pairs[j].challenge))
    IN  PlusScaled(Q, PolySum(Size(Q), Len(pairs), LAMBDA j : scaled(j + 1)), 0 -- 1)

\* compute_opening_proof_polynomial
OpeningProof(f, z, v) == FactorRoots(Minus(f, v), z)

\* BilinearAccumulator::verify: C - v + z W = X W
PairingCheck(C, z, v, W) ==
    LET lhs == PlusScaled(Minus(C, v), W, z)
    IN  \A i \in 0 .. Size(lhs) : Coeff(lhs, i) = Coeff(W, i - 1)
=============================================================================
