------------------------------ MODULE PrimeField ------------------------------
(***************************************************************************)
(* Arithmetic of a prime field (ecc/fields/field.hpp, field_impl.hpp): the *)
(* elements are the integers below the modulus.  The code keeps them in    *)
(* Montgomery form, which its users do not see.                            *)
(***************************************************************************)
EXTENDS Integers

CONSTANT Modulus

ASSUME FieldAssumption ==
    /\ Modulus \in Nat \ {0, 1}
    /\ \A a \in 2 .. Modulus - 1 : Modulus % a # 0

Field == 0 .. Modulus - 1

a ++ b == (a + b) % Modulus
a -- b == (a - b) % Modulus
a ** b == (a * b) % Modulus

\* field::pow: square and multiply.
Power(a, e) ==
    LET pow[k \in Nat] ==
            IF k = 0 THEN 1
            ELSE LET half == pow[k \div 2]
                 IN  IF k % 2 = 0 THEN half ** half ELSE half ** half ** a
    IN  pow[e]

\* field::invert.  It aborts at zero; batch_invert leaves a zero as it is.
FieldInverse(a) == Power(a, Modulus - 2)

a // b == a ** FieldInverse(b)

\* f(0) + ... + f(n - 1) and f(0) ... f(n - 1)
FieldSum(n, f(_)) ==
    LET sum[i \in 0 .. n] == IF i = 0 THEN 0 ELSE sum[i - 1] ++ f(i - 1) IN sum[n]

FieldProduct(n, f(_)) ==
    LET product[i \in 0 .. n] == IF i = 0 THEN 1 ELSE product[i - 1] ** f(i - 1) IN product[n]
=============================================================================
