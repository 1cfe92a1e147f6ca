-------------------------------- MODULE Gadgets --------------------------------
(***************************************************************************)
(* The booleans and field elements of the circuit standard library,        *)
(* stdlib/primitives/bool/bool.cpp and stdlib/primitives/field/field.cpp,  *)
(* over the gates of the ultra composer (plonk/composer/ultra_composer).   *)
(*                                                                         *)
(* A circuit lists its variables and its constraints.  Every gadget is an  *)
(* operator from a circuit and operands to a circuit with `results`.       *)
(*                                                                         *)
(* A program is built without looking at its witness, so the values of the *)
(* variables are kept for all inputs at once: the value of a variable is a *)
(* function of the inputs.                                                 *)
(***************************************************************************)
EXTENDS PrimeField, Sequences, FiniteSets, FiniteSetsExt, SequencesExt, TLC

CONSTANTS
    InputValues,    \* values the two field inputs are taken from
    ExponentBits,   \* 32 in the code
    HalfBits,       \* 128 in the code
    MAX_NO_WRAP_INTEGER_BIT_LENGTH

ASSUME GadgetsAssumption ==
    /\ InputValues \subseteq Field
    /\ 2 ^ ExponentBits <= Modulus
    /\ 2 ^ (MAX_NO_WRAP_INTEGER_BIT_LENGTH + 1) <= Modulus /\ Modulus <= 2 ^ (2 * HalfBits)

\* Two field elements and a bit.
Inputs == InputValues \X InputValues \X {0, 1}

neg_one == Modulus - 1

-----------------------------------------------------------------------------
(***************************************************************************)
(* The composer.                                                           *)
(***************************************************************************)
zero_idx == 1

\* A constraint on variables w: q[1] w1 w2 + q[2] w1 + q[3] w2 + q[4] w3 + q[5] w4 + q[6], plus the
\* fourth wire of the next gate if there is one, is zero; or a copy; or a bound on the number of bits.
Arith(w, q)   == [type |-> "ARITH", w |-> w, q |-> [k \in DOMAIN q |-> q[k] % Modulus]]
Copy(v, u)    == [type |-> "COPY", w |-> <<v, u>>, q |-> << >>]
Range_(v, n)  == [type |-> "RANGE", w |-> <<v>>, q |-> <<n>>]

\* (With @@ TLC evaluates the function once and not at every use.)
AddVariable(c, value) == [c EXCEPT !.variables = Append(@, value @@ << >>)]

Newest(c) == Len(c.variables)

Constrain(c, g) == [c EXCEPT !.constraints = Append(@, g)]

\* A gate with three wires, and one with four.
create_poly_gate(c, w, q) == Constrain(c, Arith(w \o <<zero_idx>>, <<q[1], q[2], q[3], q[4], 0, q[5]>>))
create_add_gate(c, w, q)  == Constrain(c, Arith(w \o <<zero_idx>>, <<0, q[1], q[2], q[3], 0, q[4]>>))
create_big_mul_gate(c, w, q) == Constrain(c, Arith(w, q))
create_big_add_gate(c, w, q, next) ==
    Constrain(c, Arith(IF next = << >> THEN w ELSE w \o next, <<0>> \o q))
create_bool_gate(c, v) == create_poly_gate(c, <<v, v, zero_idx>>, <<1, neg_one, 0, 0, 0>>)
fix_witness(c, v, k)   == create_poly_gate(c, <<v, zero_idx, zero_idx>>, <<0, 1, 0, 0, -k>>)

\* Inputs for which the program reports a failure.
Fails(c, S) == [c EXCEPT !.failed = @ \cup S]

assert_equal(c, v, u) ==
    Constrain(Fails(c, {i \in Inputs : c.variables[v][i] # c.variables[u][i]}), Copy(v, u))

\* The constant variable is shared in the code; here every use fixes one of its own.
assert_equal_constant(c, v, k) ==
    LET d == fix_witness(AddVariable(c, [i \in Inputs |-> k]), Newest(c) + 1, k)
    IN  assert_equal(d, v, Newest(d))

\* decompose_into_default_range: see RangeConstraints for how a range is enforced.
decompose_into_default_range(c, v, n) ==
    Constrain(Fails(c, {i \in Inputs : c.variables[v][i] >= 2 ^ n}), Range_(v, n))

\* The zero, the two inputs and the bit.
EmptyCircuit ==
    LET Var(f(_)) == [i \in Inputs |-> f(i)]
        c == [variables   |-> << Var(LAMBDA i : 0), Var(LAMBDA i : i[1]), Var(LAMBDA i : i[2]), Var(LAMBDA i : i[3]) >>,
              constraints |-> << >>, failed |-> {}, results |-> << >>]
    IN  create_bool_gate(fix_witness(c, zero_idx, 0), 4)

-----------------------------------------------------------------------------
(***************************************************************************)
(* field_t: m times the witness plus a; and bool_t: the witness, inverted  *)
(* or not.  A constant has no witness, and its value is a.                 *)
(***************************************************************************)
IS_CONSTANT == 0

FieldT(w, m, a) == [w |-> w, m |-> m % Modulus, a |-> a % Modulus]
ConstantT(a)    == FieldT(IS_CONSTANT, 0, a)
BoolT(w, inv)   == [w |-> w, k |-> FALSE, inv |-> inv]
ConstantB(k)    == [w |-> IS_CONSTANT, k |-> k, inv |-> FALSE]

IsConstant(t) == t.w = IS_CONSTANT

\* witness_index, or the zero wire for a constant.
Wire(t) == IF IsConstant(t) THEN zero_idx ELSE t.w

WireValue(c, t, i) == IF IsConstant(t) THEN 0 ELSE c.variables[t.w][i]

\* get_value, for an input i; ConstantValue of a bool_t is witness_bool ^ witness_inverted.
ValueOf(c, t, i) == IF IsConstant(t) THEN t.a ELSE (t.m ** c.variables[t.w][i]) ++ t.a
ConstantValue(b) == b.k # b.inv
BoolOf(c, b, i)  == IF IsConstant(b) THEN ConstantValue(b) ELSE (c.variables[b.w][i] = 1) # b.inv

Returns(c, t)    == [c EXCEPT !.results = <<t>>]
ReturnsAll(c, s) == [c EXCEPT !.results = s]
Result(c)        == c.results[1]

\* What is done next, with the circuit and the result so far; and one more result.
Then(c, Rest(_, _)) == Rest(c, Result(c))
Collect(c, d)       == [d EXCEPT !.results = c.results \o @]

Bit(p) == IF p THEN 1 ELSE 0

\* witness_t: a new variable, whatever constraint may follow.
NewField(c, value) == Returns(AddVariable(c, value), FieldT(Newest(c) + 1, 1, 0))
NewBool(c, value)  ==
    LET d == AddVariable(c, value) IN Returns(create_bool_gate(d, Newest(d)), BoolT(Newest(d), FALSE))

FieldOfBool(b) ==
    IF IsConstant(b) THEN FieldT(IS_CONSTANT, 1, Bit(ConstantValue(b)))
    ELSE IF b.inv THEN FieldT(b.w, -1, 1) ELSE FieldT(b.w, 1, 0)

-----------------------------------------------------------------------------
(***************************************************************************)
(* bool_t.                                                                 *)
(***************************************************************************)
Not(b) == [b EXCEPT !.inv = ~ @]

\* The product, left, right and constant selectors of a gate whose output is the new bool_t.
BoolGate(c, a, b, value, q) ==
    LET d == AddVariable(c, [i \in Inputs |-> Bit(value[i])])
    IN  Returns(create_poly_gate(d, <<a.w, b.w, Newest(d)>>, <<q[1], q[2], q[3], -1, q[4]>>), BoolT(Newest(d), FALSE))

And(c, a, b) ==
    LET i_a == Bit(a.inv)
        i_b == Bit(b.inv)
    IN  IF ~ IsConstant(a) /\ ~ IsConstant(b)
        THEN BoolGate(c, a, b, [i \in Inputs |-> BoolOf(c, a, i) /\ BoolOf(c, b, i)],
                      <<1 - 2 * i_b - 2 * i_a + 4 * i_a * i_b, i_b * (1 - 2 * i_a), i_a * (1 - 2 * i_b), i_a * i_b>>)
        ELSE IF ~ IsConstant(a) THEN Returns(c, IF ConstantValue(b) THEN a ELSE ConstantB(FALSE))
        ELSE IF ~ IsConstant(b) THEN Returns(c, IF ConstantValue(a) THEN b ELSE ConstantB(FALSE))
        ELSE Returns(c, ConstantB(ConstantValue(a) /\ ConstantValue(b)))

Or(c, a, b) ==
    IF ~ IsConstant(a) /\ ~ IsConstant(b)
    THEN BoolGate(c, a, b, [i \in Inputs |-> BoolOf(c, a, i) \/ BoolOf(c, b, i)],
                  CASE a.inv /\ ~ b.inv -> <<1, -1, 0, 1>>
                    [] ~ a.inv /\ b.inv -> <<1, 0, -1, 1>>
                    [] a.inv /\ b.inv   -> <<-1, 0, 0, 1>>
                    [] OTHER            -> <<-1, 1, 1, 0>>)
    ELSE IF ~ IsConstant(a) THEN Returns(c, IF ConstantValue(b) THEN ConstantB(TRUE) ELSE a)
    ELSE IF ~ IsConstant(b) THEN Returns(c, IF ConstantValue(a) THEN ConstantB(TRUE) ELSE b)
    ELSE Returns(c, ConstantB(ConstantValue(a) \/ ConstantValue(b)))

\* operator^, which is operator!= too; and operator==.
Xor(c, a, b) ==
    IF ~ IsConstant(a) /\ ~ IsConstant(b)
    THEN BoolGate(c, a, b, [i \in Inputs |-> BoolOf(c, a, i) # BoolOf(c, b, i)],
                  IF a.inv = b.inv THEN <<-2, 1, 1, 0>> ELSE <<2, -1, -1, 1>>)
    ELSE IF ~ IsConstant(a) THEN Returns(c, IF ConstantValue(b) THEN Not(a) ELSE a)
    ELSE IF ~ IsConstant(b) THEN Returns(c, IF ConstantValue(a) THEN Not(b) ELSE b)
    ELSE Returns(c, ConstantB(ConstantValue(a) # ConstantValue(b)))

SameBool(c, a, b) ==
    IF ~ IsConstant(a) /\ ~ IsConstant(b)
    THEN BoolGate(c, a, b, [i \in Inputs |-> BoolOf(c, a, i) = BoolOf(c, b, i)],
                  IF a.inv = b.inv THEN <<2, -1, -1, 1>> ELSE <<-2, 1, 1, 0>>)
    ELSE IF ~ IsConstant(a) THEN Returns(c, IF ConstantValue(b) THEN a ELSE Not(a))
    ELSE IF ~ IsConstant(b) THEN Returns(c, IF ConstantValue(a) THEN b ELSE Not(b))
    ELSE Returns(c, ConstantB(ConstantValue(a) = ConstantValue(b)))

NormalizeBool(c, b) ==
    IF IsConstant(b) \/ ~ b.inv THEN Returns(c, b)
    ELSE BoolGate(c, b, b, [i \in Inputs |-> BoolOf(c, b, i)], <<0, -1, 0, 1>>)

\* A constant pair is compared by an ASSERT, so both must be equal.
AssertEqualBool(c, a, b) ==
    IF IsConstant(a) /\ IsConstant(b) THEN c
    ELSE IF IsConstant(a) THEN assert_equal_constant(c, b.w, Bit(ConstantValue(a) # b.inv))
    ELSE IF IsConstant(b) THEN assert_equal_constant(c, a.w, Bit(ConstantValue(b) # a.inv))
    ELSE IF a.inv = b.inv THEN assert_equal(c, a.w, b.w)
    ELSE LET d == NormalizeBool(c, a)
             e == NormalizeBool(d, b)
         IN  assert_equal(e, Result(d).w, Result(e).w)

ConditionalAssignBool(c, predicate, a, b) ==
    LET d == And(c, predicate, a)
        e == And(d, Not(predicate), b)
    IN  Or(e, Result(d), Result(e))

Implies(c, a, b) == Or(c, Not(a), b)

ImpliesBothWays(c, a, b) == Xor(c, Not(a), b)

MustImply(c, a, b) == LET d == Implies(c, a, b) IN AssertEqualBool(d, Result(d), ConstantB(TRUE))

\* must_imply of a list; at least one of its operands is a witness.
MustImplyAll(c, a, conds) ==
    LET acc == FoldLeft(LAMBDA d, b : And(d, Result(d), b), NewBool(c, [i \in Inputs |-> 1]), conds)
        d   == Implies(acc, a, Result(acc))
    IN  AssertEqualBool(d, Result(d), ConstantB(TRUE))

-----------------------------------------------------------------------------
(***************************************************************************)
(* field_t.                                                                *)
(***************************************************************************)
Plus(c, a, b) ==
    IF a.w = b.w THEN Returns(c, FieldT(a.w, a.m + b.m, a.a + b.a))
    ELSE IF IsConstant(b) THEN Returns(c, FieldT(a.w, a.m, a.a + b.a))
    ELSE IF IsConstant(a) THEN Returns(c, FieldT(b.w, b.m, a.a + b.a))
    ELSE LET d == NewField(c, [i \in Inputs |-> ValueOf(c, a, i) ++ ValueOf(c, b, i)])
         IN  create_add_gate(d, <<a.w, b.w, Newest(d)>>, <<a.m, b.m, -1, a.a + b.a>>)

Negated(a) == FieldT(a.w, -a.m, -a.a)

Minus(c, a, b) == Plus(c, a, Negated(b))

Times(c, a, b) ==
    IF IsConstant(a) /\ IsConstant(b) THEN Returns(c, FieldT(IS_CONSTANT, 1, a.a * b.a))
    ELSE IF IsConstant(b) THEN Returns(c, FieldT(a.w, a.m * b.a, a.a * b.a))
    ELSE IF IsConstant(a) THEN Returns(c, FieldT(b.w, b.m * a.a, a.a * b.a))
    ELSE LET d == NewField(c, [i \in Inputs |-> ValueOf(c, a, i) ** ValueOf(c, b, i)])
         IN  create_poly_gate(d, <<a.w, b.w, Newest(d)>>, <<a.m * b.m, a.m * b.a, a.a * b.m, -1, a.a * b.a>>)

Normalize(c, a) ==
    IF IsConstant(a) \/ (a.m = 1 /\ a.a = 0) THEN Returns(c, a)
    ELSE LET d == NewField(c, [i \in Inputs |-> ValueOf(c, a, i)])
         IN  create_add_gate(d, <<a.w, a.w, Newest(d)>>, <<a.m, 0, -1, a.a>>)

\* The constants are compared by an ASSERT.
AssertIsZero(c, a) ==
    IF IsConstant(a) THEN c
    ELSE create_poly_gate(Fails(c, {i \in Inputs : ValueOf(c, a, i) # 0}),
                          <<a.w, zero_idx, zero_idx>>, <<0, a.m, 0, 0, a.a>>)

InverseTable == [x \in 1 .. Modulus - 1 |-> FieldInverse(x)]

InverseOrZero(x) == IF x = 0 THEN 0 ELSE InverseTable[x]

AssertIsNotZero(c, a) ==
    IF IsConstant(a) THEN c
    ELSE LET d == NewField(Fails(c, {i \in Inputs : ValueOf(c, a, i) = 0}),
                           [i \in Inputs |-> InverseOrZero(ValueOf(c, a, i))])
         IN  create_poly_gate(d, <<a.w, Newest(d), zero_idx>>, <<a.m, 0, a.a, 0, -1>>)

\* The program aborts at the inversion of a zero when only the divisor is a witness.
DivideNoZeroCheck(c, a, b) ==
    LET quotient == [i \in Inputs |-> ValueOf(c, a, i) ** InverseOrZero(ValueOf(c, b, i))]
        k        == IF b.a = 0 THEN 1 ELSE InverseTable[b.a]
    IN  IF IsConstant(b) THEN Returns(c, FieldT(a.w, IF IsConstant(a) THEN 1 ELSE a.m * k, a.a * k))
        ELSE IF IsConstant(a) /\ a.a = 0 THEN Returns(c, FieldT(IS_CONSTANT, 1, 0))
        ELSE LET d == NewField(c, quotient)
             IN  IF IsConstant(a)
                 THEN create_poly_gate(d, <<Newest(d), b.w, Newest(d)>>, <<b.m, b.a, 0, 0, -a.a>>)
                 ELSE create_poly_gate(d, <<Newest(d), b.w, a.w>>, <<b.m, b.a, 0, -a.m, -a.a>>)

Divide(c, a, b) == DivideNoZeroCheck(AssertIsNotZero(c, b), a, b)

Invert(c, a) == LET d == Divide(c, ConstantT(1), a) IN Normalize(d, Result(d))

Madd(c, a, b, t) ==
    IF IsConstant(a) /\ IsConstant(b) /\ IsConstant(t)
    THEN LET d == Times(c, a, b) IN Plus(d, Result(d), t)
    ELSE LET q == <<a.m * b.m, a.m * b.a, b.m * a.a, t.m, -1, a.a * b.a + t.a>>
             d == NewField(c, [i \in Inputs |->
                      LET x == WireValue(c, a, i)
                          y == WireValue(c, b, i)
                      IN  (x * y * q[1] + x * q[2] + y * q[3] + WireValue(c, t, i) * q[4] + q[6]) % Modulus])
         IN  create_big_mul_gate(d, <<Wire(a), Wire(b), Wire(t), Newest(d)>>, q)

AddTwo(c, a, b, t) ==
    IF IsConstant(a) /\ IsConstant(b) /\ IsConstant(t)
    THEN LET d == Plus(c, a, b)
             e == Plus(d, Result(d), t)
         IN  Normalize(e, Result(e))
    ELSE LET d == NewField(c, [i \in Inputs |-> ValueOf(c, a, i) ++ ValueOf(c, b, i) ++ ValueOf(c, t, i)])
         IN  create_big_mul_gate(d, <<Wire(a), Wire(b), Wire(t), Newest(d)>>, <<0, a.m, b.m, t.m, -1, a.a + b.a + t.a>>)

\* Mutant: the inverse of zero is zero.
HintOf_Zero(x) == IF x = 0 THEN 0 ELSE InverseTable[x]

\* The inverse the program puts; that of zero is one.
HintOf(x) == IF x = 0 THEN 1 ELSE InverseTable[x]

IsZero(c, a) ==
    IF IsConstant(a) THEN Returns(c, ConstantB(a.a = 0))
    ELSE LET k       == Normalize(c, a)
             is_zero == NewBool(k, [i \in Inputs |-> Bit(ValueOf(k, Result(k), i) = 0)])
             inverse == NewField(is_zero, [i \in Inputs |-> HintOf(ValueOf(k, Result(k), i))])
             z == Newest(is_zero)
             u == Newest(inverse)
             d == create_poly_gate(inverse, <<Result(k).w, u, z>>, <<1, 0, 0, 1, -1>>)
         IN  Returns(create_poly_gate(d, <<z, u, z>>, <<1, 0, 0, -1, 0>>), Result(is_zero))

AssertEqual(c, a, b) ==
    IF IsConstant(a) /\ IsConstant(b) THEN c
    ELSE IF IsConstant(a) THEN LET d == Normalize(c, b) IN assert_equal_constant(d, Result(d).w, a.a)
    ELSE IF IsConstant(b) THEN LET d == Normalize(c, a) IN assert_equal_constant(d, Result(d).w, b.a)
    ELSE LET d == Normalize(c, a)
             e == Normalize(d, b)
         IN  assert_equal(e, Result(d).w, Result(e).w)

\* operator==
Equal(c, a, b) ==
    IF IsConstant(a) /\ IsConstant(b) THEN Returns(c, ConstantB(a.a = b.a))
    ELSE LET same == [i \in Inputs |-> ValueOf(c, a, i) = ValueOf(c, b, i)]
             r == NewBool(c, [i \in Inputs |-> Bit(same[i])])
             x == NewField(r, [i \in Inputs |-> HintOf(ValueOf(c, a, i) -- ValueOf(c, b, i))])
             rf   == FieldOfBool(Result(r))
             diff == Minus(x, a, b)
             t1   == Madd(diff, rf, FieldT(Newest(x), -1, 1), Result(x))
             t2   == Madd(t1, Result(diff), Result(t1), FieldT(rf.w, 1, -1))
         IN  Returns(AssertEqual(t2, Result(t2), ConstantT(0)), Result(r))

\* operator bool_t.  A field_t that is neither the witness nor one minus the witness is normalised,
\* but the bool_t that is returned keeps the old witness.
ToBool(c, a) ==
    IF IsConstant(a) THEN Returns(c, ConstantB(a.a = 1))
    ELSE LET inverted == a.m = neg_one /\ a.a = 1
             d == IF inverted THEN c ELSE Normalize(c, a)
         IN  Returns(create_bool_gate(d, a.w), BoolT(a.w, inverted))

ConditionalNegate(c, a, predicate) ==
    LET p == FieldOfBool(predicate)
    IN  Madd(c, FieldT(p.w, -2 * p.m, -2 * p.a), a, a)

ConditionalAssign(c, predicate, a, b) ==
    LET d == Minus(c, a, b) IN Madd(d, Result(d), FieldOfBool(predicate), b)

CreateRangeConstraint(c, a, n) ==
    IF n = 0 THEN AssertIsZero(c, a)
    ELSE IF IsConstant(a) THEN c     \* an ASSERT
    ELSE LET d == Normalize(c, a) IN decompose_into_default_range(d, Result(d).w, n)

AssertNotEqual(c, a, b) == LET d == Minus(c, a, b) IN AssertIsNotZero(d, Result(d))

AssertIsInSet(c, a, set) ==
    LET Times_(d, t) == LET e == Minus(d, a, t) IN Times(e, Result(d), Result(e))
        product == FoldLeft(Times_, Minus(c, a, set[1]), Tail(set))
    IN  AssertIsZero(product, Result(product))

\* The sum of the terms, each taken with its sign, from left to right.
Combine(c, terms) ==
    FoldLeft(LAMBDA d, t : IF t[1] = "+" THEN Plus(d, Result(d), t[2]) ELSE Minus(d, Result(d), t[2]),
             Returns(c, terms[1][2]), Tail(terms))

\* Each row of T in turn; the results are collected.
CombineAll(c, rows) ==
    FoldLeft(LAMBDA d, row : LET e == Combine(d, row) IN ReturnsAll(e, d.results \o e.results),
             ReturnsAll(c, << >>), rows)

PreprocessTwoBitTable(c, T) ==
    CombineAll(c, << << <<"+", T[1]>> >>,
                     << <<"+", T[2]>>, <<"-", T[1]>> >>,
                     << <<"+", T[3]>>, <<"-", T[1]>> >>,
                     << <<"+", T[4]>>, <<"-", T[3]>>, <<"-", T[2]>>, <<"+", T[1]>> >> >>)

PreprocessThreeBitTable(c, T) ==
    CombineAll(c, << << <<"+", T[1]>> >>,
                     << <<"+", T[2]>>, <<"-", T[1]>> >>,
                     << <<"+", T[3]>>, <<"-", T[1]>> >>,
                     << <<"+", T[5]>>, <<"-", T[1]>> >>,
                     << <<"+", T[4]>>, <<"-", T[3]>>, <<"-", T[2]>>, <<"+", T[1]>> >>,
                     << <<"+", T[6]>>, <<"-", T[5]>>, <<"-", T[2]>>, <<"+", T[1]>> >>,
                     << <<"+", T[7]>>, <<"-", T[5]>>, <<"-", T[3]>>, <<"+", T[1]>> >>,
                     << <<"+", T[8]>>, <<"-", T[7]>>, <<"-", T[6]>>, <<"+", T[5]>>,
                        <<"-", T[4]>>, <<"+", T[3]>>, <<"+", T[2]>>, <<"-", T[1]>> >> >>)

SelectFromTwoBitTable(c, table, t1, t0) ==
    LET R0 == Madd(c, FieldOfBool(t1), table[4], table[2])
        R1 == Madd(R0, Result(R0), FieldOfBool(t0), table[1])
    IN  Madd(R1, FieldOfBool(t1), table[3], Result(R1))

SelectFromThreeBitTable(c, table, t2, t1, t0) ==
    LET R0 == Madd(c, FieldOfBool(t0), table[8], table[7])
        R1 == Madd(R0, FieldOfBool(t1), Result(R0), table[4])
        R2 == Madd(R1, FieldOfBool(t2), Result(R1), table[1])
        R3 == Madd(R2, FieldOfBool(t0), table[5], table[3])
        R4 == Madd(R3, FieldOfBool(t1), Result(R3), Result(R2))
        R5 == Madd(R4, FieldOfBool(t2), table[6], table[2])
    IN  Madd(R5, FieldOfBool(t0), Result(R5), Result(R4))

\* Nothing is emitted when all operands are constants.
EvaluateLinearIdentity(c, s) ==
    IF \A k \in 1 .. 4 : IsConstant(s[k]) THEN c
    ELSE create_big_add_gate(c, [k \in 1 .. 4 |-> Wire(s[k])],
             <<s[1].m, s[2].m, s[3].m, s[4].m, s[1].a + s[2].a + s[3].a + s[4].a>>, << >>)

EvaluatePolynomialIdentity(c, s) ==
    IF \A k \in 1 .. 4 : IsConstant(s[k]) THEN c
    ELSE create_big_mul_gate(c, [k \in 1 .. 4 |-> Wire(s[k])],
             <<s[1].m * s[2].m, s[1].m * s[2].a, s[2].m * s[1].a, s[3].m, s[4].m,
               s[1].a * s[2].a + s[3].a + s[4].a>>)

\* accumulate, as the ultra composer does it: three terms a gate, a running total in the fourth wire.
Accumulate(c, input) ==
    LET witnesses == SelectSeq(input, LAMBDA t : ~ IsConstant(t))
        constant  == FoldLeft(LAMBDA k, t : IF IsConstant(t) THEN k ++ t.a ELSE k, 0, input)
        first     == FieldT(witnesses[1].w, witnesses[1].m, witnesses[1].a + constant)
        padding   == [k \in 1 .. (-Len(witnesses)) % 3 |-> FieldT(zero_idx, 1, 0)]
        terms     == <<first>> \o Tail(witnesses) \o padding
        gates     == Len(terms) \div 3
        total     == NewField(c, [i \in Inputs |-> FoldLeft(LAMBDA k, t : k ++ ValueOf(c, t, i), 0, terms)])
        AddGate(d, k) ==
            LET s    == SubSeq(terms, 3 * k - 2, 3 * k)
                w    == <<s[1].w, s[2].w, s[3].w, Newest(d)>>
                rest == [i \in Inputs |-> d.variables[Newest(d)][i] -- ValueOf(d, s[1], i)
                                              -- ValueOf(d, s[2], i) -- ValueOf(d, s[3], i)]
            IN  AddVariable(create_big_add_gate(d, w, <<s[1].m, s[2].m, s[3].m, -1, s[1].a + s[2].a + s[3].a>>,
                                                IF k = gates THEN << >> ELSE <<Newest(d) + 1>>), rest)
    IN  IF Len(input) = 0 THEN Returns(c, ConstantT(0))
        ELSE IF Len(input) = 1 THEN Returns(c, input[1])
        ELSE IF witnesses = << >> THEN Returns(c, ConstantT(constant))
        ELSE FoldLeft(AddGate, total, [k \in 1 .. gates |-> k])

\* The part of a number from bit lsb to bit msb.
Slice(c, a, msb, lsb) ==
    LET Part(f(_)) == [i \in Inputs |-> f(ValueOf(c, a, i))]
        parts  == <<Part(LAMBDA n : n \div 2 ^ (msb + 1)),
                    Part(LAMBDA n : n % 2 ^ lsb),
                    Part(LAMBDA n : (n \div 2 ^ lsb) % 2 ^ (msb - lsb + 1))>>
        widths == <<MAX_NO_WRAP_INTEGER_BIT_LENGTH - msb, lsb, msb + 1 - lsb>>
        Ranged(c1, hi, lo, slice) ==
            FoldLeft(LAMBDA d, k : CreateRangeConstraint(d, <<hi, lo, slice>>[k], widths[k]), c1, <<1, 2, 3>>)
        Recomposed(c2, hi, lo, slice) ==
            Then(Times(c2, hi, ConstantT(2 ^ (msb + 1))), LAMBDA c3, t :
            Then(Plus(c3, t, lo),                         LAMBDA c4, u :
            Then(Times(c4, slice, ConstantT(2 ^ lsb)),    LAMBDA c5, v :
            Then(Plus(c5, u, v),                          LAMBDA c6, sum :
                ReturnsAll(AssertEqual(c6, a, sum), <<lo, slice, hi>>)))))
        Checked(c1, r) == Recomposed(Ranged(c1, r[1], r[2], r[3]), r[1], r[2], r[3])
        Made(c1)       == Checked(c1, c1.results)
    IN  Made(FoldLeft(LAMBDA d, f : Collect(d, NewField(d, f)), ReturnsAll(c, << >>), parts))

modulus_bits == CHOOSE n \in 1 .. Modulus : 2 ^ (n - 1) <= Modulus - 1 /\ Modulus - 1 < 2 ^ n

\* Mutant: only when there are more bits than the modulus has.
MayExceedField_OffByOne(num_bits) == num_bits > modulus_bits

\* So many bits may hold a number beyond the field: decompose_into_bits then shows that it is below.
MayExceedField(num_bits) == num_bits >= modulus_bits

\* The number sum, whose high limb is high 2^HalfBits, is below the modulus: by the subtraction of
\* its limbs from those of the modulus less one, where the low one may borrow.
BelowModulus(c, sum, high) ==
    LET shift == 2 ^ HalfBits
        p_lo  == (Modulus - 1) % shift
        p_hi  == (Modulus - 1) \div shift
        High(c1, borrow) ==
            Then(Divide(c1, high, ConstantT(shift)),         LAMBDA c2, h :
            Then(Plus(c2, Negated(h), ConstantT(p_hi)),      LAMBDA c3, d :
            Then(Minus(c3, d, borrow),                       LAMBDA c4, y_hi :
                CreateRangeConstraint(c4, y_hi, HalfBits))))
        Low(c1, slices) == High(assert_equal(c1, slices[3].w, zero_idx), FieldT(slices[2].w, -1, 1))
        Sliced(c1) == Low(c1, c1.results)
    IN  Then(Plus(c, Negated(sum), ConstantT(p_lo + shift)), LAMBDA c1, t :
        Then(Plus(c1, t, high),                              LAMBDA c2, y_lo :
            Sliced(Slice(Normalize(c2, y_lo), y_lo, HalfBits, HalfBits))))

\* decompose_into_bits, of a witness.  The results are the bits from the lowest up.
DecomposeIntoBits(c, a, num_bits) ==
    LET AddBit(d, j) ==       \* d.results: the sum, the shifted high limb, and the bits so far
            LET bit == NewBool(d, [i \in Inputs |-> (ValueOf(c, a, i) \div 2 ^ j) % 2])
                s   == Times(bit, ConstantT(2 ^ j), FieldOfBool(Result(bit)))
                sum == Plus(s, d.results[1], Result(s))
                high == IF num_bits - 1 - j = HalfBits - 1 THEN Result(sum) ELSE d.results[2]
            IN  ReturnsAll(sum, <<Result(sum), high, Result(bit)>> \o SubSeq(d.results, 3, Len(d.results)))
        bits  == FoldLeft(AddBit, ReturnsAll(c, <<ConstantT(0), ConstantT(0)>>),
                          [k \in 1 .. num_bits |-> num_bits - k])
        Done(c1, sum, high, boolean) ==
            ReturnsAll(IF MayExceedField(num_bits) THEN BelowModulus(AssertEqual(c1, a, sum), sum, high)
                       ELSE AssertEqual(c1, a, sum), boolean)
        Ended(c1) == Done(c1, c1.results[1], c1.results[2], SubSeq(c1.results, 3, Len(c1.results)))
    IN  Ended(bits)

\* pow, by square and multiply over the bits of the exponent, highest first.
Pow(c, a, exponent) ==
    LET Highest(k) == ExponentBits - k
        AddBit(d, k) ==
            LET b == IF IsConstant(exponent)
                     THEN Returns(d, ConstantB((exponent.a \div 2 ^ Highest(k)) % 2 = 1))
                     ELSE NewBool(d, [i \in Inputs |-> (ValueOf(c, exponent, i) \div 2 ^ Highest(k)) % 2])
            IN  ReturnsAll(b, Append(d.results, Result(b)))
        bits  == FoldLeft(AddBit, ReturnsAll(c, << >>), [k \in 1 .. ExponentBits |-> k])
        Shift(d, b) == LET e == Plus(d, Result(d), Result(d)) IN Plus(e, Result(e), FieldOfBool(b))
        number == FoldLeft(Shift, Returns(bits, ConstantT(0)), bits.results)
        start == IF IsConstant(exponent) THEN bits ELSE AssertEqual(number, exponent, Result(number))
        less  == Minus(start, a, ConstantT(1))
        Square(d, b) ==
            LET e == Times(d, Result(d), Result(d))
                f == Times(e, Result(less), FieldOfBool(b))
                g == Plus(f, Result(f), ConstantT(1))
            IN  Times(g, Result(e), Result(g))
        power == FoldLeft(Square, Returns(less, ConstantT(1)), bits.results)
    IN  Normalize(power, Result(power))

CopyAsNewWitness(c, a) ==
    LET d == NewField(c, [i \in Inputs |-> ValueOf(c, a, i)]) IN Returns(AssertEqual(d, Result(d), a), Result(d))

ConvertConstantToFixedWitness(c, a) ==
    LET d == NewField(c, [i \in Inputs |-> a.a]) IN fix_witness(d, Newest(d), a.a)
=============================================================================
