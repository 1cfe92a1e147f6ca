---------------------------- MODULE GadgetPrograms ----------------------------
(***************************************************************************)
(* Programs over the gadgets of the standard library, and what their       *)
(* circuits have to mean: a value a program computes is that function of   *)
(* its inputs, whatever witness satisfies the circuit, and the program's   *)
(* own witness satisfies it exactly when the program's assertions hold.    *)
(***************************************************************************)
EXTENDS Gadgets

CONSTANTS
    Scalings,       \* of the field_t that a program starts with: pairs of m and a
    ConstantValues, \* of its constants
    MaxCalls        \* bound: calls of a program

ASSUME ProgramsAssumption == Scalings \subseteq (1 .. Modulus - 1) \X Field /\ ConstantValues \subseteq Field

VARIABLES
    builder,    \* the circuit
    values,     \* what the calls have returned: pairs of a field_t or bool_t and its meaning, a function of the inputs
    asserted,   \* the inputs for which all assertions of the program hold
    calls

gadgetVars == <<builder, values, asserted, calls>>

Meant(t, f) == [t |-> t, means |-> f]

x(i) == i[1]
y(i) == i[2]

\* The program starts with its inputs, scaled and inverted in every way, and with constants.
FieldsAtFirst ==
    UNION {{Meant(FieldT(2, s[1], s[2]), [i \in Inputs |-> (s[1] ** x(i)) ++ s[2]]),
            Meant(FieldT(3, s[1], s[2]), [i \in Inputs |-> (s[1] ** y(i)) ++ s[2]])} : s \in Scalings}
    \cup {Meant(FieldT(IS_CONSTANT, m, a), [i \in Inputs |-> a]) : m \in {0, 1}, a \in ConstantValues}

BoolsAtFirst ==
    {Meant(BoolT(4, inv), [i \in Inputs |-> (i[3] = 1) # inv]) : inv \in BOOLEAN}
    \cup {Meant(ConstantB(k), [i \in Inputs |-> k]) : k \in BOOLEAN}

IsField(v) == "m" \in DOMAIN v.t

\* What a call may take: what the program started with, and what it has computed.
Fields == FieldsAtFirst \cup {v \in values : IsField(v)}
Bools  == BoolsAtFirst \cup {v \in values : ~ IsField(v)}

GadgetInit ==
    /\ builder = EmptyCircuit
    /\ values = {}
    /\ asserted = Inputs
    /\ calls = 0

\* No program: no circuit and no values.
GadgetsIdle ==
    /\ builder = [variables |-> << >>, constraints |-> << >>, failed |-> {}, results |-> << >>]
    /\ values = {}
    /\ asserted = Inputs
    /\ calls = MaxCalls

\* A call that leaves the circuit d and returns values that mean f[1], f[2], ...
Computes(d, f) ==
    /\ calls < MaxCalls
    /\ calls' = calls + 1
    /\ builder' = d
    /\ values' = values \cup {Meant(d.results[k], f[k]) : k \in DOMAIN f}
    /\ UNCHANGED asserted

\* A call that asserts P.
Asserts(d, P(_)) ==
    /\ calls < MaxCalls
    /\ calls' = calls + 1
    /\ builder' = d
    /\ asserted' = {i \in asserted : P(i)}
    /\ UNCHANGED values

Lift1(f(_), u) == [i \in Inputs |-> f(u.means[i])]
Lift2(f(_, _), u, v) == [i \in Inputs |-> f(u.means[i], v.means[i])]
Choice(p, u, v) == [i \in Inputs |-> IF p.means[i] THEN u.means[i] ELSE v.means[i]]

\* bool_t
BoolUnary ==
    \E u \in Bools :
        \/ Computes(Returns(builder, Not(u.t)), <<Lift1(LAMBDA p : ~ p, u)>>)
        \/ Computes(NormalizeBool(builder, u.t), <<u.means>>)
        \/ Computes(Returns(builder, FieldOfBool(u.t)), <<Lift1(Bit, u)>>)

BoolBinary ==
    \E u, v \in Bools :
        \/ Computes(And(builder, u.t, v.t), <<Lift2(LAMBDA p, q : p /\ q, u, v)>>)
        \/ Computes(Or(builder, u.t, v.t), <<Lift2(LAMBDA p, q : p \/ q, u, v)>>)
        \/ Computes(Xor(builder, u.t, v.t), <<Lift2(LAMBDA p, q : p # q, u, v)>>)
        \/ Computes(SameBool(builder, u.t, v.t), <<Lift2(LAMBDA p, q : p = q, u, v)>>)
        \/ Computes(Implies(builder, u.t, v.t), <<Lift2(LAMBDA p, q : p => q, u, v)>>)
        \/ Computes(ImpliesBothWays(builder, u.t, v.t), <<Lift2(LAMBDA p, q : p = q, u, v)>>)

BoolTernary ==
    \E p, u, v \in Bools :
        Computes(ConditionalAssignBool(builder, p.t, u.t, v.t), <<Choice(p, u, v)>>)

\* Two constants are compared when the program runs, by an ASSERT that stops it.
NotBothConstant(u, v) == ~ IsConstant(u.t) \/ ~ IsConstant(v.t)

IsTrue(u)  == IsConstant(u.t) /\ ConstantValue(u.t)
IsFalse(u) == IsConstant(u.t) /\ ~ ConstantValue(u.t)

BoolAssertion ==
    \E u, v \in Bools :
        /\ NotBothConstant(u, v)
        /\ \/ Asserts(AssertEqualBool(builder, u.t, v.t), LAMBDA i : u.means[i] = v.means[i])
           \/ Asserts(MustImply(builder, u.t, v.t), LAMBDA i : u.means[i] => v.means[i])
           \/ \E w \in Bools :
                ~ (IsTrue(u) /\ (IsFalse(v) \/ IsFalse(w))) /\
                Asserts(MustImplyAll(builder, u.t, <<v.t, w.t>>), LAMBDA i : u.means[i] => v.means[i] /\ w.means[i])

\* field_t
FieldUnary ==
    \E u \in Fields :
        \/ Computes(Returns(builder, Negated(u.t)), <<Lift1(LAMBDA a : 0 -- a, u)>>)
        \/ Computes(Normalize(builder, u.t), <<u.means>>)
        \/ Computes(IsZero(builder, u.t), <<Lift1(LAMBDA a : a = 0, u)>>)
        \/ Computes(CopyAsNewWitness(builder, u.t), <<u.means>>)
        \/ IsConstant(u.t) /\ Computes(ConvertConstantToFixedWitness(builder, u.t), <<u.means>>)

FieldBinary ==
    \E u, v \in Fields :
        \/ Computes(Plus(builder, u.t, v.t), <<Lift2(LAMBDA a, b : a ++ b, u, v)>>)
        \/ Computes(Minus(builder, u.t, v.t), <<Lift2(LAMBDA a, b : a -- b, u, v)>>)
        \/ Computes(Times(builder, u.t, v.t), <<Lift2(LAMBDA a, b : a ** b, u, v)>>)
        \/ Computes(Equal(builder, u.t, v.t), <<Lift2(LAMBDA a, b : a = b, u, v)>>)

FieldTernary ==
    \E u, v, w \in Fields :
        \/ Computes(Madd(builder, u.t, v.t, w.t), <<[i \in Inputs |-> (u.means[i] ** v.means[i]) ++ w.means[i]]>>)
        \/ Computes(AddTwo(builder, u.t, v.t, w.t), <<[i \in Inputs |-> u.means[i] ++ v.means[i] ++ w.means[i]]>>)

Conditional ==
    \/ \E p \in Bools, u, v \in Fields :
          Computes(ConditionalAssign(builder, p.t, u.t, v.t), <<Choice(p, u, v)>>)
    \/ \E p \in Bools, u \in Fields :
          Computes(ConditionalNegate(builder, u.t, p.t),
                   <<[i \in Inputs |-> IF p.means[i] THEN 0 -- u.means[i] ELSE u.means[i]]>>)

\* Division asserts that its divisor is not zero.  The divisor is no constant zero: the program would stop.
Division ==
    \E u, v \in Fields :
        /\ calls < MaxCalls
        /\ ~ (IsConstant(v.t) /\ v.t.a = 0)
        /\ LET d == Divide(builder, u.t, v.t)
           IN  /\ builder' = d
               /\ values' = values \cup
                     {Meant(Result(d), [i \in Inputs |-> u.means[i] ** InverseOrZero(v.means[i])])}
        /\ asserted' = {i \in asserted : v.means[i] # 0}
        /\ calls' = calls + 1

\* An exponent beyond its bits is refused if it is a witness, and cut if it is a constant.
Power_ ==
    \E u, e \in Fields :
        /\ calls < MaxCalls
        /\ LET d == Pow(builder, u.t, e.t)
           IN  /\ builder' = d
               /\ values' = values \cup
                     {Meant(Result(d), [i \in Inputs |-> Power(u.means[i], e.means[i] % 2 ^ ExponentBits)])}
        /\ asserted' = {i \in asserted : IsConstant(e.t) \/ e.means[i] < 2 ^ ExponentBits}
        /\ calls' = calls + 1

FieldAssertion ==
    \E u \in Fields :
        \/ ~ IsConstant(u.t) /\ Asserts(AssertIsZero(builder, u.t), LAMBDA i : u.means[i] = 0)
        \/ ~ IsConstant(u.t) /\ Asserts(AssertIsNotZero(builder, u.t), LAMBDA i : u.means[i] # 0)
        \/ \E n \in 0 .. HalfBits :
              ~ IsConstant(u.t) /\ Asserts(CreateRangeConstraint(builder, u.t, n), LAMBDA i : u.means[i] < 2 ^ n)
        \/ \E v \in Fields :
              /\ NotBothConstant(u, v)
              /\ \/ Asserts(AssertEqual(builder, u.t, v.t), LAMBDA i : u.means[i] = v.means[i])
                 \/ Asserts(AssertNotEqual(builder, u.t, v.t), LAMBDA i : u.means[i] # v.means[i])
                 \/ \E w \in Fields :
                       NotBothConstant(u, w) /\
                       Asserts(AssertIsInSet(builder, u.t, <<v.t, w.t>>),
                               LAMBDA i : u.means[i] \in {v.means[i], w.means[i]})

\* Lists of n values: one of them u, the others v.
Lists(n, U, V) == {[k \in 1 .. n |-> IF k = j THEN u ELSE v] : j \in 1 .. n, u \in U, v \in V}

T(s) == [k \in DOMAIN s |-> s[k].t]

\* The identities do nothing to four constants, so one operand is a witness.
Identity ==
    \E u, v \in Fields : \E s \in Lists(4, {u}, {v}) :
        /\ NotBothConstant(u, v)
        /\ \/ Asserts(EvaluateLinearIdentity(builder, T(s)),
                      LAMBDA i : s[1].means[i] ++ s[2].means[i] ++ s[3].means[i] ++ s[4].means[i] = 0)
           \/ Asserts(EvaluatePolynomialIdentity(builder, T(s)),
                      LAMBDA i : (s[1].means[i] ** s[2].means[i]) ++ s[3].means[i] ++ s[4].means[i] = 0)

\* The terms: the same one n times, or one of another kind among them.
Accumulation ==
    \E u \in Fields, v \in {v \in Fields : IsConstant(v.t) \/ v.t.m = 1}, n \in 0 .. 7 :
        \E s \in Lists(n, {u}, {v}) \cup {[k \in 1 .. n |-> u]} :
            Computes(Accumulate(builder, T(s)),
                     <<[i \in Inputs |-> FoldLeft(LAMBDA a, b : a ++ b.means[i], 0, s)]>>)

\* The entry at the number with these bits, the lowest last.
At(s, bits) == [i \in Inputs |-> s[1 + FoldLeft(LAMBDA k, b : 2 * k + Bit(b.means[i]), 0, bits)].means[i]]

\* A table of n entries: one of them u, the others constants.
Tables(n, u) ==
    LET ks == SetToSeq(ConstantValues)
    IN  {[k \in 1 .. n |-> IF k = j THEN u
                           ELSE LET a == ks[1 + (k % Len(ks))] IN Meant(ConstantT(a), [i \in Inputs |-> a])] : j \in 1 .. n}

TableLookup ==
    \E t1, t0 \in Bools, u \in Fields :
        /\ u.t.w = 2       \* the two inputs are alike
        /\ \/ \E s \in Tables(4, u) :
                LET p == PreprocessTwoBitTable(builder, T(s))
                IN  Computes(SelectFromTwoBitTable(p, p.results, t1.t, t0.t), <<At(s, <<t1, t0>>)>>)
           \/ \E s \in Tables(8, u), t2 \in Bools :
                LET p == PreprocessThreeBitTable(builder, T(s))
                IN  Computes(SelectFromThreeBitTable(p, p.results, t2.t, t1.t, t0.t), <<At(s, <<t2, t1, t0>>)>>)

\* Only the witness or its complement may be read as a bool: ToBool says why.
ReadAsBool ==
    \E u \in Fields :
        /\ calls < MaxCalls
        /\ IF IsConstant(u.t) THEN u.t.a \in {0, 1} ELSE (u.t.m = 1 /\ u.t.a = 0) \/ (u.t.m = neg_one /\ u.t.a = 1)
        /\ LET d == ToBool(builder, u.t)
           IN  builder' = d /\ values' = values \cup {Meant(Result(d), [i \in Inputs |-> u.means[i] = 1])}
        /\ asserted' = {i \in asserted : u.means[i] \in {0, 1}}
        /\ calls' = calls + 1

Decomposition ==
    \E u \in Fields :
        /\ calls < MaxCalls
        /\ ~ IsConstant(u.t)
        /\ \/ \E lsb, msb \in 0 .. MAX_NO_WRAP_INTEGER_BIT_LENGTH - 1 :
                 /\ lsb <= msb
                 /\ LET d == Slice(builder, u.t, msb, lsb)
                        low(a)  == a % 2 ^ lsb
                        mid(a)  == (a \div 2 ^ lsb) % 2 ^ (msb - lsb + 1)
                        high(a) == a \div 2 ^ (msb + 1)
                    IN  /\ builder' = d
                        /\ values' = values \cup {Meant(d.results[1], Lift1(low, u)),
                                                  Meant(d.results[2], Lift1(mid, u)),
                                                  Meant(d.results[3], Lift1(high, u))}
                 \* one bit fewer than the field has
                 /\ asserted' = {i \in asserted : u.means[i] < 2 ^ (MAX_NO_WRAP_INTEGER_BIT_LENGTH + 1)}
           \/ \E num_bits \in {HalfBits - 1, 2 * HalfBits} :
                 /\ LET d == DecomposeIntoBits(builder, u.t, num_bits)
                    IN  /\ builder' = d
                        /\ values' = values \cup
                              {Meant(d.results[k], [i \in Inputs |-> (u.means[i] \div 2 ^ (k - 1)) % 2 = 1]) :
                                  k \in 1 .. num_bits}
                 /\ asserted' = {i \in asserted : u.means[i] < 2 ^ num_bits}
        /\ calls' = calls + 1

GadgetNext ==
    \/ BoolUnary \/ BoolBinary \/ BoolTernary \/ BoolAssertion
    \/ FieldUnary \/ FieldBinary \/ FieldTernary \/ Conditional \/ Division \/ Power_
    \/ FieldAssertion \/ Identity \/ Accumulation \/ TableLookup \/ ReadAsBool \/ Decomposition

GadgetSpec == GadgetInit /\ [][GadgetNext]_gadgetVars

-----------------------------------------------------------------------------
(***************************************************************************)
(* The witnesses of a circuit.                                             *)
(***************************************************************************)

\* The polynomial of a gate, for an assignment of its wires.
Polynomial(g, w) ==
    (g.q[1] * w[1] * w[2] + g.q[2] * w[1] + g.q[3] * w[2] + g.q[4] * w[3] + g.q[5] * w[4]
     + g.q[6] + (IF Len(w) = 5 THEN w[5] ELSE 0)) % Modulus

Wires(g, s) == [k \in DOMAIN g.w |-> s[g.w[k]]]

\* s gives a value to every variable of the constraint.
Holds(g, s) ==
    CASE g.type = "ARITH" -> Polynomial(g, Wires(g, s)) = 0
      [] g.type = "COPY"  -> s[g.w[1]] = s[g.w[2]]
      [] g.type = "RANGE" -> s[g.w[1]] < 2 ^ g.q[1]

Variables(g) == {g.w[k] : k \in DOMAIN g.w}

\* What the constraints on v alone leave of the field.
Domain(c, v) ==
    {a \in Field : \A k \in DOMAIN c.constraints :
        Variables(c.constraints[k]) = {v} => Holds(c.constraints[k], v :> a)}

\* What a gate leaves of the values D of its variable v, when s assigns the others and v is not squared.
Linear(g, s, v, D) ==
    LET at(a)  == Polynomial(g, Wires(g, s @@ (v :> a)))
        slope  == at(1) -- at(0)
    IN  IF slope = 0 THEN (IF at(0) = 0 THEN D ELSE {}) ELSE {(0 -- at(0)) ** InverseTable[slope]}

\* Every assignment of the constrained variables that satisfies the constraints, for the inputs of
\* the program: each constraint in turn adds the variables it is the first to name.
Solutions(c) ==
    LET Assignments(S, V) ==
            FoldSet(LAMBDA v, A : LET D == Domain(c, v) IN {a @@ (v :> b) : a \in A, b \in D}, S, V)
        Apply(S, g) ==
            LET new    == Variables(g) \ DOMAIN (CHOOSE s \in S : TRUE)
                linear == IF g.type = "ARITH" THEN new \ {v \in new : g.w[1] = v /\ g.w[2] = v} ELSE {}
                v      == CHOOSE v \in linear : TRUE
                D      == Domain(c, v)
            IN  IF S = {} THEN {}
                ELSE IF linear = {} THEN {s \in Assignments(S, new) : Holds(g, s)}
                ELSE UNION {{s @@ (v :> b) : b \in Linear(g, s, v, D)} : s \in Assignments(S, new \ {v})}
    IN  FoldLeft(Apply, {(2 :> i[1]) @@ (3 :> i[2]) @@ (4 :> i[3]) : i \in Inputs}, c.constraints)

\* The value of a field_t or bool_t under a witness; undefined if nothing constrains its variable.
Under(v, s) ==
    IF IsField(v) THEN (IF IsConstant(v.t) THEN v.t.a ELSE (v.t.m ** s[v.t.w]) ++ v.t.a)
    ELSE IF IsConstant(v.t) THEN ConstantValue(v.t) ELSE (s[v.t.w] = 1) # v.t.inv

(***************************************************************************)
(* In every witness that satisfies the circuit, whatever a dishonest       *)
(* prover puts for inverses, carries, bits and quotients, the assertions   *)
(* of the program hold of the inputs, and everything it computed has the   *)
(* value it means (bool.cpp, field.cpp).                                   *)
(***************************************************************************)
GadgetsAreSound ==
    \A s \in Solutions(builder) :
        LET i == <<s[2], s[3], s[4]>>
        IN  /\ i \in asserted
            /\ \A v \in values : Under(v, s) = v.means[i]

(***************************************************************************)
(* The program's own witness satisfies the circuit exactly for the inputs  *)
(* that its assertions allow, and no failure is reported for those         *)
(* (bool.cpp, field.cpp).                                                  *)
(***************************************************************************)
GadgetsAreComplete ==
    /\ asserted = {i \in Inputs : \A k \in DOMAIN builder.constraints :
                      Holds(builder.constraints[k], [v \in DOMAIN builder.variables |-> builder.variables[v][i]])}
    /\ builder.failed \cap asserted = {}

=============================================================================
