----------------------- MODULE CircuitConstructorProofs -----------------------
(***************************************************************************)
(* What CircuitConstructor promises, for every set of values and every     *)
(* bound: the chains of copy constraints are well formed, the two loops    *)
(* over a chain visit a class, values and tags are not lost, and the       *)
(* constructor implements the abstract partition.                          *)
(***************************************************************************)
EXTENDS CircuitConstructor, TLAPS

\* The inductive invariant: the merge of two chains is well typed only because
\* every chain has a first element, and keeps that only because the links of
\* the two chains match.
IInv == TypeOK /\ ChainInv

-----------------------------------------------------------------------------
(* Facts about one state. *)

\* A class is closed under both links: a walk never leaves it.
LEMMA ClassClosed ==
    ASSUME IInv, NEW a \in Indices
    PROVE  PrevClosed(Class(a)) /\ NextClosed(Class(a))
<1>1. ASSUME NEW i \in Class(a), prev_var_index[i] # FIRST_VARIABLE_IN_CLASS
      PROVE  prev_var_index[i] \in Class(a)
  <2>1. i \in Indices /\ prev_var_index[i] \in Indices
    BY <1>1 DEF IInv, TypeOK, Class
  <2>2. next_var_index[prev_var_index[i]] = i
    BY <1>1, <2>1 DEF IInv, ChainInv, LinksMatch
  <2>3. i # REAL_VARIABLE
    BY <2>1 DEF Indices, REAL_VARIABLE
  <2>4. Real(i) = Real(prev_var_index[i])
    BY <2>1, <2>2, <2>3 DEF IInv, ChainInv, LinksMatch
  <2> QED BY <1>1, <2>1, <2>4 DEF Class
<1>2. ASSUME NEW i \in Class(a), next_var_index[i] # REAL_VARIABLE
      PROVE  next_var_index[i] \in Class(a)
  BY <1>2 DEF IInv, TypeOK, ChainInv, LinksMatch, Class
<1> QED BY <1>1, <1>2 DEF PrevClosed, NextClosed

\* get_first_variable_in_class returns an index of the class that has no
\* predecessor.
LEMMA FirstIsFirst ==
    ASSUME IInv, NEW a \in Indices
    PROVE  /\ First(a) \in Indices
           /\ prev_var_index[First(a)] = FIRST_VARIABLE_IN_CLASS
           /\ Real(First(a)) = Real(a)
<1>1. a \in Backward(a) /\ Backward(a) \in SUBSET Indices
  BY DEF Backward
<1>2. PrevClosed(Backward(a))
  <2> SUFFICES ASSUME NEW i \in Backward(a), prev_var_index[i] # FIRST_VARIABLE_IN_CLASS
               PROVE  prev_var_index[i] \in Backward(a)
    BY DEF PrevClosed
  <2>1. prev_var_index[i] \in Indices
    BY DEF Backward, IInv, TypeOK
  <2>2. ASSUME NEW S \in SUBSET Indices, a \in S, PrevClosed(S)
        PROVE  prev_var_index[i] \in S
    BY <2>2 DEF Backward, PrevClosed
  <2> QED BY <2>1, <2>2 DEF Backward
<1>3. Backward(a) \subseteq Class(a)
  <2>1. a \in Class(a) /\ Class(a) \in SUBSET Indices
    BY DEF Class
  <2> QED BY <2>1, ClassClosed DEF Backward
<1>4. \E j \in Backward(a) : prev_var_index[j] = FIRST_VARIABLE_IN_CLASS
  BY <1>1, <1>2 DEF IInv, ChainInv, FirstReached
<1>5. /\ First(a) \in Backward(a)
      /\ prev_var_index[First(a)] = FIRST_VARIABLE_IN_CLASS
  BY <1>4 DEF First
<1> QED BY <1>1, <1>3, <1>5 DEF Class

\* update_real_variable_indices, started at the first variable of a class,
\* visits the class.
LEMMA ForwardIsClass ==
    ASSUME IInv, NEW a \in Indices
    PROVE  Forward(First(a)) = Class(a)
<1>1. First(a) \in Class(a) /\ Class(a) \in SUBSET Indices
  BY FirstIsFirst DEF Class
<1>2. Forward(First(a)) \subseteq Class(a)
  BY <1>1, ClassClosed DEF Forward
<1>3. ASSUME NEW j \in Class(a), NEW S \in SUBSET Indices,
             First(a) \in S, NextClosed(S), j \notin S
      PROVE  FALSE
  <2> DEFINE T == Class(a) \ S
  <2>1. j \in T /\ T \in SUBSET Indices
    BY <1>1, <1>3
  <2>2. PrevClosed(T)
    <3> SUFFICES ASSUME NEW i \in T, prev_var_index[i] # FIRST_VARIABLE_IN_CLASS
                 PROVE  prev_var_index[i] \in T
      BY DEF PrevClosed
    <3>1. prev_var_index[i] \in Class(a)
      BY ClassClosed DEF PrevClosed
    <3>2. i \in Indices /\ i # REAL_VARIABLE
      BY DEF Class, Indices, REAL_VARIABLE
    <3>3. next_var_index[prev_var_index[i]] = i
      BY <3>2 DEF IInv, ChainInv, LinksMatch
    <3>4. prev_var_index[i] \notin S
      BY <1>3, <3>2, <3>3 DEF NextClosed
    <3> QED BY <3>1, <3>4
  <2>3. PICK f \in T : prev_var_index[f] = FIRST_VARIABLE_IN_CLASS /\ Real(f) = Real(j)
    BY <2>1, <2>2 DEF IInv, ChainInv, FirstReached
  <2>4. f = First(a)
    BY <2>1, <2>3, FirstIsFirst DEF IInv, ChainInv, OneFirst, Class
  <2> QED BY <1>3, <2>3, <2>4
<1> QED BY <1>1, <1>2, <1>3 DEF Forward

-----------------------------------------------------------------------------
(* The initial state and the steps. *)

LEMMA InitIInv == Init => IInv
<1> SUFFICES ASSUME Init PROVE IInv
  OBVIOUS
<1>1. Indices = {}
  BY DEF Init, Indices
<1>2. TypeOK
  BY <1>1, CircuitAssumption DEF Init, TypeOK, EmptyVector, DUMMY_TAG
<1>3. ChainInv
  BY <1>1 DEF ChainInv, RealIsLast, LinksMatch, OneFirst, FirstReached
<1> QED BY <1>2, <1>3 DEF IInv

\* The indices after a push.
LEMMA IndicesGrow ==
    ASSUME IInv, NEW v \in Values, NewVariable(v)
    PROVE  /\ Indices' = Indices \cup {num_variables}
           /\ num_variables \notin Indices
           /\ num_variables \in Nat
           /\ 0 .. num_variables = Indices'
<1>1. num_variables \in Nat /\ num_variables' = num_variables + 1
  BY CircuitAssumption DEF IInv, TypeOK, NewVariable
<1> QED BY <1>1 DEF Indices

LEMMA NewVariableTypes ==
    ASSUME IInv, NEW v \in Values, NewVariable(v)
    PROVE  /\ num_variables' \in 0 .. MaxVariables
           /\ variables' \in [Indices' -> Values]
           /\ next_var_index' \in [Indices' -> Indices' \cup {REAL_VARIABLE}]
           /\ prev_var_index' \in [Indices' -> Indices' \cup {FIRST_VARIABLE_IN_CLASS}]
           /\ real_variable_index' \in [Indices' -> Indices']
           /\ real_variable_tags' \in [Indices' -> DOMAIN tau]
<1>1. num_variables' \in 0 .. MaxVariables
  BY CircuitAssumption DEF IInv, TypeOK, NewVariable
<1> QED BY <1>1, IndicesGrow DEF IInv, TypeOK, NewVariable, Push

LEMMA NewVariableChains ==
    ASSUME IInv, NEW v \in Values, NewVariable(v)
    PROVE  ChainInv'
<1> DEFINE n == num_variables
<1>1. \A i \in Indices : /\ next_var_index'[i] = next_var_index[i]
                         /\ prev_var_index'[i] = prev_var_index[i]
                         /\ real_variable_index'[i] = real_variable_index[i]
  BY IndicesGrow DEF NewVariable, Push
<1>2. /\ next_var_index'[n] = REAL_VARIABLE
      /\ prev_var_index'[n] = FIRST_VARIABLE_IN_CLASS
      /\ real_variable_index'[n] = n
  BY IndicesGrow DEF NewVariable, Push
<1>3. Indices' = Indices \cup {n} /\ n \notin Indices
  BY IndicesGrow
<1>4. \A i \in Indices : /\ real_variable_index[i] \in Indices
                         /\ next_var_index[i] \in Indices \cup {REAL_VARIABLE}
                         /\ prev_var_index[i] \in Indices \cup {FIRST_VARIABLE_IN_CLASS}
  BY DEF IInv, TypeOK
<1>5. RealIsLast'
  BY <1>1, <1>2, <1>3, <1>4 DEF IInv, ChainInv, RealIsLast, Real
<1>6. LinksMatch'
  BY <1>1, <1>2, <1>3, <1>4 DEF IInv, ChainInv, LinksMatch, Real
<1>7. OneFirst'
  BY <1>1, <1>2, <1>3, <1>4 DEF IInv, ChainInv, OneFirst, Real
<1>8. FirstReached'
  <2> SUFFICES ASSUME NEW i \in Indices', NEW S \in SUBSET (Indices'),
                      i \in S, PrevClosed(S)'
               PROVE  \E j \in S : /\ prev_var_index'[j] = FIRST_VARIABLE_IN_CLASS
                                   /\ Real(j)' = Real(i)'
    BY DEF FirstReached
  <2>1. CASE i = n
    BY <2>1, <1>2
  <2>2. CASE i \in Indices
    <3> DEFINE R == S \cap Indices
    <3>1. i \in R /\ R \in SUBSET Indices
      BY <2>2
    <3>2. PrevClosed(R)
      BY <1>1, <1>3, <1>4 DEF PrevClosed
    <3>3. PICK j \in R : prev_var_index[j] = FIRST_VARIABLE_IN_CLASS /\ Real(j) = Real(i)
      BY <3>1, <3>2 DEF IInv, ChainInv, FirstReached
    <3> QED BY <3>3, <2>2, <1>1 DEF Real
  <2> QED BY <2>1, <2>2, <1>3
<1> QED BY <1>5, <1>6, <1>7, <1>8 DEF ChainInv

\* The vectors after two classes are joined, with the loops evaluated.
LEMMA MergeVectors ==
    ASSUME IInv, NEW a \in Indices, NEW b \in Indices, Merge(a, b)
    PROVE  /\ Indices' = Indices
           /\ Real(a) \in Indices /\ Real(b) \in Indices /\ First(a) \in Indices
           /\ Real(a) # Real(b)
           /\ Real(Real(a)) = Real(a) /\ Real(Real(b)) = Real(b)
           /\ Real(First(a)) = Real(a)
           /\ prev_var_index[First(a)] = FIRST_VARIABLE_IN_CLASS
           /\ next_var_index[Real(b)] = REAL_VARIABLE
           /\ \A i \in Indices :
                /\ Real(i)' = IF Real(i) = Real(b) THEN Real(a) ELSE Real(i)
                /\ next_var_index'[i] = IF i = Real(b) THEN First(a) ELSE next_var_index[i]
                /\ prev_var_index'[i] = IF i = First(a) THEN Real(b) ELSE prev_var_index[i]
<1>1. Indices' = Indices
  BY DEF Merge, Indices
<1>2. Real(a) \in Indices /\ Real(b) \in Indices /\ Real(a) # Real(b)
  BY DEF IInv, TypeOK, Merge, Real
<1>3. /\ Real(Real(a)) = Real(a) /\ Real(Real(b)) = Real(b)
      /\ next_var_index[Real(b)] = REAL_VARIABLE
  BY <1>2 DEF IInv, ChainInv, RealIsLast
<1>4. /\ First(a) \in Indices /\ Real(First(a)) = Real(a)
      /\ prev_var_index[First(a)] = FIRST_VARIABLE_IN_CLASS
  BY FirstIsFirst
<1>5. Forward(First(b)) = Class(b)
  BY ForwardIsClass
<1>6. ASSUME NEW i \in Indices
      PROVE  Real(i)' = IF Real(i) = Real(b) THEN Real(a) ELSE Real(i)
  <2>1. i \in Class(b) <=> Real(i) = Real(b)
    BY DEF Class
  <2>2. real_variable_index' = RealAfter(a, b)
    BY DEF Merge
  <2> QED BY <2>1, <2>2, <1>5 DEF RealAfter, Real
<1>7. ASSUME NEW i \in Indices
      PROVE  next_var_index'[i] = IF i = Real(b) THEN First(a) ELSE next_var_index[i]
  BY <1>2 DEF Merge, NextAfter, IInv, TypeOK
<1>8. ASSUME NEW i \in Indices
      PROVE  prev_var_index'[i] = IF i = First(a) THEN Real(b) ELSE prev_var_index[i]
  BY <1>4 DEF Merge, PrevAfter, IInv, TypeOK
<1> QED BY <1>1, <1>2, <1>3, <1>4, <1>6, <1>7, <1>8

LEMMA MergeTypes ==
    ASSUME IInv, NEW a \in Indices, NEW b \in Indices, Merge(a, b)
    PROVE  TypeOK'
<1>1. Indices' = Indices /\ First(a) \in Indices /\ Real(a) \in Indices /\ Real(b) \in Indices
  BY MergeVectors
<1>2. next_var_index' \in [Indices -> Indices \cup {REAL_VARIABLE}]
  BY <1>1 DEF Merge, NextAfter, IInv, TypeOK
<1>3. prev_var_index' \in [Indices -> Indices \cup {FIRST_VARIABLE_IN_CLASS}]
  BY <1>1 DEF Merge, PrevAfter, IInv, TypeOK
<1>4. real_variable_index' \in [Indices -> Indices]
  BY <1>1 DEF Merge, RealAfter, IInv, TypeOK, Real
<1>5. real_variable_tags' \in [Indices -> DOMAIN tau]
  BY <1>1 DEF Merge, TagsAfter, Tag, IInv, TypeOK
<1>6. failed' \in BOOLEAN
  BY DEF Merge, FailedAfter, TagClash, IInv, TypeOK
<1> QED BY <1>1, <1>2, <1>3, <1>4, <1>5, <1>6 DEF Merge, IInv, TypeOK, tagVars

LEMMA MergeChains ==
    ASSUME IInv, NEW a \in Indices, NEW b \in Indices, Merge(a, b)
    PROVE  ChainInv'
<1> DEFINE ar == Real(a)
           br == Real(b)
           fa == First(a)
<1>1. /\ Indices' = Indices
      /\ ar \in Indices /\ br \in Indices /\ fa \in Indices
      /\ ar # br /\ Real(ar) = ar /\ Real(br) = br /\ Real(fa) = ar
      /\ prev_var_index[fa] = FIRST_VARIABLE_IN_CLASS
      /\ next_var_index[br] = REAL_VARIABLE
  BY MergeVectors
<1>2. \A i \in Indices :
        /\ Real(i)' = IF Real(i) = br THEN ar ELSE Real(i)
        /\ next_var_index'[i] = IF i = br THEN fa ELSE next_var_index[i]
        /\ prev_var_index'[i] = IF i = fa THEN br ELSE prev_var_index[i]
  BY MergeVectors
<1>3. \A i \in Indices : /\ Real(i) \in Indices
                         /\ next_var_index[i] \in Indices \cup {REAL_VARIABLE}
                         /\ prev_var_index[i] \in Indices \cup {FIRST_VARIABLE_IN_CLASS}
  BY DEF IInv, TypeOK, Real
<1>4. REAL_VARIABLE \notin Indices /\ FIRST_VARIABLE_IN_CLASS \notin Indices
  BY DEF Indices, REAL_VARIABLE, FIRST_VARIABLE_IN_CLASS
<1> HIDE DEF ar, br, fa
<1>5. RealIsLast'
  <2> SUFFICES ASSUME NEW i \in Indices
               PROVE  /\ Real(Real(i))' = Real(i)'
                      /\ next_var_index'[i] = REAL_VARIABLE <=> Real(i)' = i
    BY <1>1, Zenon DEF RealIsLast
  <2>1. /\ Real(Real(i)) = Real(i)
        /\ next_var_index[i] = REAL_VARIABLE <=> Real(i) = i
    BY DEF IInv, ChainInv, RealIsLast
  <2>2. Real(i)' \in Indices
    BY <1>1, <1>2, <1>3
  <2>3. Real(Real(i))' = Real(i)'
    BY <1>1, <1>2, <1>3, <2>1, <2>2
  <2> QED BY <1>1, <1>2, <1>3, <1>4, <2>1, <2>3
<1>6. LinksMatch'
  <2>1. ASSUME NEW i \in Indices, next_var_index'[i] # REAL_VARIABLE
        PROVE  /\ prev_var_index'[next_var_index'[i]] = i
               /\ Real(next_var_index[i])' = Real(i)'
    <3>1. CASE i = br
      BY <3>1, <1>1, <1>2
    <3>2. CASE i # br
      <4>1. /\ next_var_index'[i] = next_var_index[i]
            /\ next_var_index[i] \in Indices
            /\ prev_var_index[next_var_index[i]] = i
            /\ Real(next_var_index[i]) = Real(i)
        BY <3>2, <2>1, <1>2, <1>3 DEF IInv, ChainInv, LinksMatch
      <4>2. next_var_index[i] # fa
        BY <4>1, <1>1, <1>4
      <4> QED BY <4>1, <4>2, <1>2
    <3> QED BY <3>1, <3>2
  <2>2. ASSUME NEW i \in Indices, prev_var_index'[i] # FIRST_VARIABLE_IN_CLASS
        PROVE  next_var_index'[prev_var_index'[i]] = i
    <3>1. CASE i = fa
      BY <3>1, <1>1, <1>2
    <3>2. CASE i # fa
      <4>1. /\ prev_var_index'[i] = prev_var_index[i]
            /\ prev_var_index[i] \in Indices
            /\ next_var_index[prev_var_index[i]] = i
        BY <3>2, <2>2, <1>2, <1>3 DEF IInv, ChainInv, LinksMatch
      <4>2. prev_var_index[i] # br
        BY <4>1, <1>1, <1>4
      <4> QED BY <4>1, <4>2, <1>2
    <3> QED BY <3>1, <3>2
  <2> QED BY <2>1, <2>2, <1>1 DEF LinksMatch
<1>7. OneFirst'
  <2> SUFFICES ASSUME NEW i \in Indices, NEW j \in Indices,
                      prev_var_index'[i] = FIRST_VARIABLE_IN_CLASS,
                      prev_var_index'[j] = FIRST_VARIABLE_IN_CLASS,
                      Real(i)' = Real(j)'
               PROVE  i = j
    BY <1>1 DEF OneFirst
  <2>1. /\ i # fa /\ prev_var_index[i] = FIRST_VARIABLE_IN_CLASS
        /\ j # fa /\ prev_var_index[j] = FIRST_VARIABLE_IN_CLASS
    BY <1>1, <1>2, <1>4
  <2>2. Real(i) # ar /\ Real(j) # ar
    BY <2>1, <1>1 DEF IInv, ChainInv, OneFirst
  <2>3. Real(i) = Real(j)
    BY <2>2, <1>2
  <2> QED BY <2>1, <2>3 DEF IInv, ChainInv, OneFirst
<1>8. FirstReached'
  <2> SUFFICES ASSUME NEW i \in Indices, NEW S \in SUBSET Indices,
                      i \in S, PrevClosed(S)'
               PROVE  \E j \in S : /\ prev_var_index'[j] = FIRST_VARIABLE_IN_CLASS
                                   /\ Real(j)' = Real(i)'
    BY <1>1 DEF FirstReached
  <2>1. PrevClosed(S)
    BY <1>1, <1>2 DEF PrevClosed
  <2>2. PICK j \in S : prev_var_index[j] = FIRST_VARIABLE_IN_CLASS /\ Real(j) = Real(i)
    BY <2>1 DEF IInv, ChainInv, FirstReached
  <2>3. CASE j # fa
    BY <2>2, <2>3, <1>2
  <2>4. CASE j = fa
    <3>1. br \in S
      BY <2>2, <2>4, <1>1, <1>2, <1>4 DEF PrevClosed
    <3>2. PICK k \in S : prev_var_index[k] = FIRST_VARIABLE_IN_CLASS /\ Real(k) = Real(br)
      BY <3>1, <2>1, <1>1 DEF IInv, ChainInv, FirstReached
    <3>3. k # fa /\ Real(k)' = ar
      BY <3>2, <1>1, <1>2
    <3>4. Real(i)' = ar
      BY <2>2, <2>4, <1>1, <1>2
    <3> QED BY <3>2, <3>3, <3>4, <1>2
  <2> QED BY <2>3, <2>4
<1> QED BY <1>5, <1>6, <1>7, <1>8 DEF ChainInv

\* The inductive step: one case per operation.
LEMMA NextIInv == IInv /\ [Next]_vars => IInv'
<1> SUFFICES ASSUME IInv, [Next]_vars PROVE IInv'
  OBVIOUS
<1> USE DEF chains, tagVars
<1>1. ASSUME NEW v \in Values, AddVariable(v)
      PROVE  IInv'
  <2>1. NewVariable(v)
    BY <1>1 DEF AddVariable
  <2>2. TypeOK'
    <3>1. public_inputs' \in Seq(Indices')
      BY <1>1, <2>1, IndicesGrow DEF AddVariable, IInv, TypeOK
    <3> QED BY <1>1, <2>1, <3>1, NewVariableTypes DEF AddVariable, IInv, TypeOK
  <2> QED BY <2>1, <2>2, NewVariableChains DEF IInv
<1>2. ASSUME NEW v \in Values, AddPublicVariable(v)
      PROVE  IInv'
  <2>1. NewVariable(v)
    BY <1>2 DEF AddPublicVariable
  <2>2. TypeOK'
    <3>1. public_inputs' \in Seq(Indices')
      BY <1>2, <2>1, IndicesGrow DEF AddPublicVariable, IInv, TypeOK
    <3> QED BY <1>2, <2>1, <3>1, NewVariableTypes DEF AddPublicVariable, IInv, TypeOK
  <2> QED BY <2>1, <2>2, NewVariableChains DEF IInv
<1> DEFINE SameChains == UNCHANGED <<num_variables, chains>>
<1>3. ASSUME SameChains
      PROVE  ChainInv' /\ Indices' = Indices
  BY <1>3 DEF IInv, ChainInv, RealIsLast, LinksMatch, OneFirst, FirstReached,
              PrevClosed, Indices, Real
<1>4. ASSUME NEW i \in Indices, SetPublicInput(i)
      PROVE  IInv'
  <2>1. SameChains
    BY <1>4 DEF SetPublicInput
  <2>2. public_inputs' \in Seq(Indices) /\ failed' \in BOOLEAN
    <3>1. public_inputs \in Seq(Indices) /\ failed \in BOOLEAN
      BY DEF IInv, TypeOK
    <3>2. /\ public_inputs' = public_inputs \/ public_inputs' = Append(public_inputs, i)
          /\ failed' = TRUE \/ failed' = failed
      BY <1>4, Zenon DEF SetPublicInput
    <3>3. public_inputs' \in Seq(Indices)
      BY <3>1, <3>2
    <3>4. failed' \in BOOLEAN
      BY <3>1, <3>2, Zenon
    <3> QED BY <3>3, <3>4
  <2>3. TypeOK'
    BY <1>3, <1>4, <2>1, <2>2 DEF SetPublicInput, IInv, TypeOK
  <2> QED BY <1>3, <2>1, <2>3 DEF IInv
<1>5. ASSUME NEW a \in Indices, NEW b \in Indices, AssertEqualAgain(a, b)
      PROVE  IInv'
  <2>1. SameChains
    BY <1>5 DEF AssertEqualAgain
  <2>2. failed' \in BOOLEAN
    BY <1>5 DEF AssertEqualAgain, FailedAfter, TagClash, IInv, TypeOK
  <2>3. TypeOK'
    BY <1>3, <1>5, <2>1, <2>2 DEF AssertEqualAgain, IInv, TypeOK
  <2> QED BY <1>3, <2>1, <2>3 DEF IInv
<1>6. ASSUME NEW a \in Indices, NEW b \in Indices, Merge(a, b)
      PROVE  IInv'
  BY <1>6, MergeTypes, MergeChains DEF IInv
<1>7. ASSUME CreateTagPair
      PROVE  IInv'
  <2>1. SameChains
    BY <1>7 DEF CreateTagPair
  <2>2. /\ current_tag \in 0 .. MaxTag /\ current_tag' = current_tag + 4
        /\ current_tag' \in 0 .. MaxTag
        /\ DOMAIN tau' = DOMAIN tau \cup {current_tag + 1, current_tag + 2}
        /\ DOMAIN tau \subseteq 0 .. current_tag
    BY <1>7, CircuitAssumption DEF CreateTagPair, IInv, TypeOK
  <2>3. DOMAIN tau' \subseteq 0 .. current_tag'
    BY <2>2
  <2>4. TypeOK'
    BY <1>3, <1>7, <2>1, <2>2, <2>3 DEF CreateTagPair, IInv, TypeOK
  <2> QED BY <1>3, <2>1, <2>4 DEF IInv
<1>8. ASSUME NEW i \in Indices, NEW t \in DOMAIN tau, AssignTag(i, t)
      PROVE  IInv'
  <2>1. SameChains
    BY <1>8 DEF AssignTag
  <2>2. real_variable_tags' \in [Indices -> DOMAIN tau]
    BY <1>8 DEF AssignTag, IInv, TypeOK
  <2>3. TypeOK'
    BY <1>3, <1>8, <2>1, <2>2 DEF AssignTag, IInv, TypeOK
  <2> QED BY <1>3, <2>1, <2>3 DEF IInv
<1>9. CASE UNCHANGED vars
  <2>1. SameChains
    BY <1>9 DEF vars
  <2>2. TypeOK'
    BY <1>3, <1>9, <2>1 DEF vars, IInv, TypeOK
  <2> QED BY <1>3, <2>1, <2>2 DEF IInv
<1> QED BY <1>1, <1>2, <1>4, <1>5, <1>6, <1>7, <1>8, <1>9 DEF Next, AssertEqual

\* The inductive invariant holds in every reachable state.
THEOREM InductiveInvariant == Spec => []IInv
BY InitIInv, NextIInv, PTL DEF Spec

\* Every vector of the circuit constructor keeps its type.
THEOREM TypesCorrect == Spec => []TypeOK
<1>1. IInv => TypeOK
  BY DEF IInv
<1> QED BY <1>1, InductiveInvariant, PTL

\* Every sequence of assert_equal calls leaves well formed chains: one first,
\* one last, which is the real variable, links inverse of each other.
THEOREM ChainsWellFormed == Spec => []ChainInv
<1>1. IInv => ChainInv
  BY DEF IInv
<1> QED BY <1>1, InductiveInvariant, PTL

\* The walk that assert_equal relies on to update a class visits that class.
THEOREM WalkVisitsClass == Spec => []ChainIsClass
<1>1. IInv => ChainIsClass
  BY ForwardIsClass DEF ChainIsClass
<1> QED BY <1>1, InductiveInvariant, PTL

-----------------------------------------------------------------------------
(* Values. *)

\* One operation keeps the values of a class equal, or marks the circuit failed.
LEMMA ValuesStep == IInv /\ OneValuePerClass /\ [Next]_vars => OneValuePerClass'
<1> SUFFICES ASSUME IInv, OneValuePerClass, [Next]_vars, ~failed',
                    NEW i \in Indices', NEW j \in Indices', Real(i)' = Real(j)'
             PROVE  variables'[i] = variables'[j]
  BY DEF OneValuePerClass
<1>1. ASSUME NEW v \in Values, NewVariable(v), failed' = failed
      PROVE  variables'[i] = variables'[j]
  <2>1. Indices' = Indices \cup {num_variables} /\ num_variables \notin Indices
    BY <1>1, IndicesGrow
  <2>2. \A k \in Indices : variables'[k] = variables[k] /\ Real(k)' = Real(k) /\ Real(k) \in Indices
    BY <1>1, <2>1, IndicesGrow DEF NewVariable, Push, Real, IInv, TypeOK
  <2>3. real_variable_index'[num_variables] = num_variables
    BY <1>1, IndicesGrow DEF NewVariable, Push
  <2> QED BY <1>1, <2>1, <2>2, <2>3 DEF OneValuePerClass, Real
<1>2. ASSUME UNCHANGED <<num_variables, variables, chains>>, failed => failed'
      PROVE  variables'[i] = variables'[j]
  BY <1>2 DEF OneValuePerClass, chains, Indices, Real
<1>3. ASSUME NEW a \in Indices, NEW b \in Indices, Merge(a, b)
      PROVE  variables'[i] = variables'[j]
  <2>1. ~failed /\ GetVariable(a) = GetVariable(b)
    BY <1>3 DEF Merge, FailedAfter
  <2>2. /\ Indices' = Indices /\ variables' = variables
        /\ \A k \in Indices : Real(k)' = IF Real(k) = Real(b) THEN Real(a) ELSE Real(k)
    BY <1>3, MergeVectors DEF Merge
  <2>3. \A k \in Indices : Real(k) \in Indices /\ Real(Real(k)) = Real(k)
    BY DEF IInv, TypeOK, ChainInv, RealIsLast, Real
  <2>4. \A k \in Indices : variables[k] = variables[Real(k)]
    BY <2>1, <2>3 DEF OneValuePerClass
  <2> QED BY <2>1, <2>2, <2>4 DEF GetVariable
<1>4. CASE \E v \in Values : AddVariable(v) \/ AddPublicVariable(v)
  BY <1>1, <1>4 DEF AddVariable, AddPublicVariable
<1>5. CASE \E k \in Indices : SetPublicInput(k)
  <2>1. PICK k \in Indices : SetPublicInput(k)
    BY <1>5
  <2>2. UNCHANGED <<num_variables, variables, chains>>
    BY <2>1 DEF SetPublicInput
  <2>3. failed => failed'
    BY <2>1, Zenon DEF SetPublicInput
  <2> QED BY <1>2, <2>2, <2>3
<1>6. CASE \E a, b \in Indices : AssertEqual(a, b)
  BY <1>2, <1>3, <1>6 DEF AssertEqual, AssertEqualAgain, FailedAfter
<1>7. CASE CreateTagPair
  BY <1>2, <1>7 DEF CreateTagPair
<1>8. CASE \E k \in Indices, t \in DOMAIN tau \ {DUMMY_TAG} : AssignTag(k, t)
  BY <1>2, <1>8 DEF AssignTag
<1>9. CASE UNCHANGED vars
  BY <1>2, <1>9 DEF vars
<1> QED BY <1>4, <1>5, <1>6, <1>7, <1>8, <1>9 DEF Next

\* Members of one class were given one value, unless the circuit has failed:
\* assert_equal reports every pair of different values it joins.
THEOREM ValuesAgree == Spec => []OneValuePerClass
<1>1. Init => OneValuePerClass
  BY DEF Init, OneValuePerClass, Indices
<1> QED BY <1>1, ValuesStep, InductiveInvariant, PTL DEF Spec

-----------------------------------------------------------------------------
(* Steps: what a class has, it keeps. *)

\* What every operation but a merge does to the classes: nothing, except that
\* a new variable is added.
LEMMA OldVariablesUntouched ==
    ASSUME IInv, [Next]_vars,
           NEW i \in Indices, ~ \E a, b \in Indices : Merge(a, b)
    PROVE  /\ i \in Indices'
           /\ Real(i)' = Real(i) /\ Real(i) \in Indices
           /\ variables'[Real(i)] = variables[Real(i)]
           /\ Tag(i) # DUMMY_TAG => Tag(i)' = Tag(i)
<1> USE DEF chains, tagVars
<1>0. Real(i) \in Indices
  BY DEF IInv, TypeOK, Real
<1>1. ASSUME NEW v \in Values, NewVariable(v)
      PROVE  /\ i \in Indices' /\ Real(i)' = Real(i)
             /\ variables'[Real(i)] = variables[Real(i)]
             /\ Tag(i)' = Tag(i)
  BY <1>0, <1>1, IndicesGrow DEF NewVariable, Push, Real, Tag
<1>2. CASE \E v \in Values : AddVariable(v) \/ AddPublicVariable(v)
  BY <1>0, <1>1, <1>2 DEF AddVariable, AddPublicVariable
<1>3. ASSUME UNCHANGED <<num_variables, variables, chains, real_variable_tags>>
      PROVE  /\ i \in Indices' /\ Real(i)' = Real(i)
             /\ variables'[Real(i)] = variables[Real(i)]
             /\ Tag(i)' = Tag(i)
  BY <1>3 DEF Indices, Real, Tag
<1>4. CASE \E k \in Indices : SetPublicInput(k)
  BY <1>0, <1>3, <1>4 DEF SetPublicInput
<1>5. CASE \E a, b \in Indices : AssertEqual(a, b)
  BY <1>0, <1>3, <1>5 DEF AssertEqual, AssertEqualAgain
<1>6. CASE CreateTagPair
  BY <1>0, <1>3, <1>6 DEF CreateTagPair
<1>7. ASSUME NEW k \in Indices, NEW t \in DOMAIN tau, AssignTag(k, t)
      PROVE  /\ i \in Indices' /\ Real(i)' = Real(i)
             /\ variables'[Real(i)] = variables[Real(i)]
             /\ Tag(i) # DUMMY_TAG => Tag(i)' = Tag(i)
  BY <1>0, <1>7 DEF AssignTag, Indices, Real, Tag, IInv, TypeOK
<1>8. CASE UNCHANGED vars
  BY <1>0, <1>3, <1>8 DEF vars
<1> QED BY <1>0, <1>2, <1>4, <1>5, <1>6, <1>7, <1>8 DEF Next, AssertEqual

\* What a step does to the tag of a class.
LEMMA TagStep ==
    ASSUME IInv, [Next]_vars, ~failed', NEW i \in Indices, Tag(i) # DUMMY_TAG
    PROVE  Tag(i)' = Tag(i)
<1>1. CASE ~ \E a, b \in Indices : Merge(a, b)
  BY <1>1, OldVariablesUntouched
<1>2. ASSUME NEW a \in Indices, NEW b \in Indices, Merge(a, b)
      PROVE  Tag(i)' = Tag(i)
  <2>1. ~ TagClash(a, b)
    BY <1>2 DEF Merge, FailedAfter
  <2>2. Real(i)' = IF Real(i) = Real(b) THEN Real(a) ELSE Real(i)
    BY <1>2, MergeVectors
  <2>3. Real(i) \in Indices /\ Real(a) \in Indices
    BY DEF IInv, TypeOK, Real
  <2>4. \A k \in Indices :
          real_variable_tags'[k] = IF k = Real(a) /\ Tag(a) = DUMMY_TAG
                                   THEN Tag(b) ELSE real_variable_tags[k]
    BY <1>2, <2>3 DEF Merge, TagsAfter, IInv, TypeOK
  <2> QED BY <2>1, <2>2, <2>3, <2>4 DEF TagClash, Tag
<1> QED BY <1>1, <1>2

\* No step takes a variable out of its class, or away.
LEMMA ClassesGrow ==
    ASSUME IInv, [Next]_vars, NEW i \in Indices, NEW j \in Indices, Real(i) = Real(j)
    PROVE  i \in Indices' /\ Real(i)' = Real(j)'
<1>1. CASE ~ \E a, b \in Indices : Merge(a, b)
  BY <1>1, OldVariablesUntouched
<1>2. ASSUME NEW a \in Indices, NEW b \in Indices, Merge(a, b)
      PROVE  i \in Indices' /\ Real(i)' = Real(j)'
  BY <1>2, MergeVectors
<1> QED BY <1>1, <1>2

\* A tag stays on its class through every copy constraint, unless the
\* constraint is reported as a failure.
THEOREM TagsAreKept == Spec => TagsKept
<1>1. IInv /\ [Next]_vars =>
        [~failed' => \A i \in Indices : Tag(i) # DUMMY_TAG => Tag(i)' = Tag(i)]_vars
  BY TagStep
<1> QED BY <1>1, InductiveInvariant, PTL DEF Spec, TagsKept

\* The value read through an index never changes, unless the change is
\* reported as a failure.
THEOREM ValuesAreKept == Spec => ValuesKept
<1>1. IInv /\ OneValuePerClass /\ [Next]_vars =>
        [~failed' => \A i \in Indices : GetVariable(i)' = GetVariable(i)]_vars
  <2> SUFFICES ASSUME IInv, [Next]_vars, ~failed', NEW i \in Indices
               PROVE  GetVariable(i)' = GetVariable(i)
    OBVIOUS
  <2>1. CASE ~ \E a, b \in Indices : Merge(a, b)
    BY <2>1, OldVariablesUntouched DEF GetVariable
  <2>2. ASSUME NEW a \in Indices, NEW b \in Indices, Merge(a, b)
        PROVE  GetVariable(i)' = GetVariable(i)
    <3>1. GetVariable(a) = GetVariable(b) /\ variables' = variables
      BY <2>2 DEF Merge, FailedAfter
    <3>2. Real(i)' = IF Real(i) = Real(b) THEN Real(a) ELSE Real(i)
      BY <2>2, MergeVectors
    <3> QED BY <3>1, <3>2 DEF GetVariable
  <2> QED BY <2>1, <2>2
<1> QED BY <1>1, InductiveInvariant, ValuesAgree, PTL DEF Spec, ValuesKept

-----------------------------------------------------------------------------
(* The circuit constructor implements the partition. *)

\* In the abstract specification's terms, the block of a variable is its class.
LEMMA BlockIsClass ==
    ASSUME IInv, NEW a \in Indices
    PROVE  Abstract!BlockOf(a) = Class(a)
<1>1. Class(a) \in Blocks /\ a \in Class(a)
  BY DEF Blocks, Class
<1>2. \A B \in Blocks : a \in B => B = Class(a)
  BY DEF Blocks, Class
<1> QED BY <1>1, <1>2 DEF Abstract!BlockOf

LEMMA NewVariableAdds ==
    ASSUME IInv, NEW v \in Values, NewVariable(v)
    PROVE  Abstract!Add
<1> DEFINE n == num_variables
<1>1. /\ Indices' = Indices \cup {n} /\ n \notin Indices
      /\ n \in 0 .. MaxVariables - 1
  BY IndicesGrow, CircuitAssumption DEF NewVariable
<1>2. \A i \in Indices : Real(i)' = Real(i) /\ Real(i) \in Indices
  BY <1>1, IndicesGrow DEF NewVariable, Push, Real, IInv, TypeOK
<1>3. real_variable_index'[n] = n
  BY IndicesGrow DEF NewVariable, Push
<1> DEFINE NewClass(i) == {j \in Indices' : real_variable_index'[j] = real_variable_index'[i]}
<1>4. NewClass(n) = {n}
  BY <1>1, <1>2, <1>3 DEF Real
<1>5. \A i \in Indices : NewClass(i) = Class(i)
  BY <1>1, <1>2, <1>3 DEF Real, Class
<1>6. Blocks' = {NewClass(i) : i \in Indices'}
  BY DEF Blocks, Class, Real
<1> HIDE DEF NewClass
<1>7. Blocks' = Blocks \cup {{n}}
  BY <1>1, <1>4, <1>5, <1>6 DEF Blocks
<1> QED BY <1>1, <1>7 DEF Abstract!Add

LEMMA MergeUnites ==
    ASSUME IInv, NEW a \in Indices, NEW b \in Indices, Merge(a, b)
    PROVE  Abstract!Unite(a, b)
<1>1. /\ Indices' = Indices /\ Real(a) # Real(b)
      /\ \A i \in Indices : Real(i)' = IF Real(i) = Real(b) THEN Real(a) ELSE Real(i)
  BY MergeVectors
<1> DEFINE NewClass(i) == {j \in Indices : Real(j)' = Real(i)'}
<1>2. Blocks' = {NewClass(i) : i \in Indices}
  BY <1>1 DEF Blocks, Class, Real
<1>3. \A i \in Class(a) \cup Class(b) : NewClass(i) = Class(a) \cup Class(b)
  BY <1>1 DEF Class
<1>4. \A i \in Indices \ (Class(a) \cup Class(b)) :
        NewClass(i) = Class(i) /\ Class(i) # Class(a) /\ Class(i) # Class(b)
  BY <1>1 DEF Class
<1>5. \A i \in Indices : i \in Class(i) /\ Class(i) \in SUBSET Indices
  BY DEF Class
<1>6. \A i \in Class(a) : Class(i) = Class(a)
  BY DEF Class
<1>7. \A i \in Class(b) : Class(i) = Class(b)
  BY DEF Class
<1> HIDE DEF NewClass
<1>8. Blocks' = (Blocks \ {Class(a), Class(b)}) \cup {Class(a) \cup Class(b)}
  <2>1. ASSUME NEW B \in Blocks'
        PROVE  B \in (Blocks \ {Class(a), Class(b)}) \cup {Class(a) \cup Class(b)}
    <3>1. PICK i \in Indices : B = NewClass(i)
      BY <1>2, <2>1
    <3> QED BY <3>1, <1>3, <1>4 DEF Blocks
  <2>2. Class(a) \cup Class(b) \in Blocks'
    BY <1>2, <1>3, <1>5
  <2>3. ASSUME NEW B \in Blocks \ {Class(a), Class(b)}
        PROVE  B \in Blocks'
    <3>1. PICK i \in Indices : B = Class(i)
      BY <2>3 DEF Blocks
    <3>2. i \notin Class(a) \cup Class(b)
      BY <3>1, <1>6, <1>7
    <3> QED BY <3>1, <3>2, <1>2, <1>4
  <2> QED BY <2>1, <2>2, <2>3
<1> QED BY <1>1, <1>8, BlockIsClass DEF Abstract!Unite

\* Every operation is a step of the abstract specification or leaves the
\* partition alone: assert_equal unites two classes, and nothing else ever
\* joins or splits one.
THEOREM ImplementsPartition == Spec => RefinesPartition
<1>1. Init => Abstract!Init
  BY DEF Init, Abstract!Init, Blocks, Indices
<1>2. IInv /\ [Next]_vars => [Abstract!Next]_<<Indices, Blocks>>
  <2> SUFFICES ASSUME IInv, [Next]_vars
               PROVE  Abstract!Next \/ UNCHANGED <<Indices, Blocks>>
    OBVIOUS
  <2>1. ASSUME UNCHANGED <<num_variables, chains>>
        PROVE  UNCHANGED <<Indices, Blocks>>
    BY <2>1 DEF chains, Indices, Blocks, Class, Real
  <2>2. CASE \E v \in Values : AddVariable(v) \/ AddPublicVariable(v)
    BY <2>2, NewVariableAdds DEF AddVariable, AddPublicVariable, Abstract!Next
  <2>3. CASE \E k \in Indices : SetPublicInput(k)
    BY <2>1, <2>3 DEF SetPublicInput
  <2>4. CASE \E a, b \in Indices : AssertEqual(a, b)
    <3>1. PICK a \in Indices, b \in Indices : AssertEqual(a, b)
      BY <2>4
    <3>2. CASE AssertEqualAgain(a, b)
      BY <3>2, <2>1 DEF AssertEqualAgain
    <3>3. CASE Merge(a, b)
      BY <3>3, MergeUnites DEF Abstract!Next
    <3> QED BY <3>1, <3>2, <3>3 DEF AssertEqual
  <2>5. CASE CreateTagPair
    BY <2>1, <2>5 DEF CreateTagPair
  <2>6. CASE \E k \in Indices, t \in DOMAIN tau \ {DUMMY_TAG} : AssignTag(k, t)
    BY <2>1, <2>6 DEF AssignTag
  <2>7. CASE UNCHANGED vars
    BY <2>1, <2>7 DEF vars
  <2> QED BY <2>2, <2>3, <2>4, <2>5, <2>6, <2>7 DEF Next
<1> QED BY <1>1, <1>2, InductiveInvariant, PTL DEF Spec, RefinesPartition, Abstract!Spec

-----------------------------------------------------------------------------
(* Public inputs and tags. *)

\* No index is made public twice.
THEOREM NoPublicTwice == Spec => []PublicOnce
<1>1. Init => PublicOnce
  BY DEF Init, PublicOnce
<1>2. IInv /\ PublicOnce /\ [Next]_vars => PublicOnce'
  <2> SUFFICES ASSUME IInv, PublicOnce, [Next]_vars PROVE PublicOnce'
    OBVIOUS
  <2>1. public_inputs \in Seq(Indices)
    BY DEF IInv, TypeOK
  <2>2. ASSUME NEW i, public_inputs' = Append(public_inputs, i),
               ~ \E n \in 1 .. Len(public_inputs) : public_inputs[n] = i
        PROVE  PublicOnce'
    <3>1. /\ Len(public_inputs) \in Nat
          /\ Len(public_inputs') = Len(public_inputs) + 1
          /\ \A n \in 1 .. Len(public_inputs) : public_inputs'[n] = public_inputs[n]
          /\ public_inputs'[Len(public_inputs) + 1] = i
      BY <2>1, <2>2
    <3> QED BY <2>2, <3>1 DEF PublicOnce
  <2>3. ASSUME UNCHANGED public_inputs
        PROVE  PublicOnce'
    BY <2>3 DEF PublicOnce
  <2>4. ASSUME NEW v \in Values, AddPublicVariable(v)
        PROVE  PublicOnce'
    <3>1. \A n \in 1 .. Len(public_inputs) : public_inputs[n] # num_variables
      BY <2>1, <2>4, IndicesGrow DEF AddPublicVariable
    <3> QED BY <2>2, <2>4, <3>1 DEF AddPublicVariable
  <2>5. ASSUME NEW i \in Indices, SetPublicInput(i)
        PROVE  PublicOnce'
    <3>1. CASE \E n \in 1 .. Len(public_inputs) : public_inputs[n] = i
      BY <2>3, <2>5, <3>1, Zenon DEF SetPublicInput
    <3>2. CASE ~ \E n \in 1 .. Len(public_inputs) : public_inputs[n] = i
      <4>1. public_inputs' = Append(public_inputs, i)
        BY <2>5, <3>2, Zenon DEF SetPublicInput
      <4> QED BY <2>2, <3>2, <4>1
    <3> QED BY <3>1, <3>2
  <2> QED BY <2>3, <2>4, <2>5 DEF Next, vars, AddVariable, AssertEqual, AssertEqualAgain,
             Merge, CreateTagPair, AssignTag
<1> QED BY <1>1, <1>2, InductiveInvariant, PTL DEF Spec

\* tau stays an involution on the tags in use, so tau.at never throws on them.
THEOREM TauIsInvolution == Spec => []TauSwaps
<1>1. Init => TauSwaps
  BY DEF Init, TauSwaps, DUMMY_TAG
<1>2. IInv /\ TauSwaps /\ [Next]_vars => TauSwaps'
  <2> SUFFICES ASSUME IInv, TauSwaps, [Next]_vars PROVE TauSwaps'
    OBVIOUS
  <2>1. CASE CreateTagPair
    <3> DEFINE r == current_tag + 1
               s == current_tag + 2
    <3>1. current_tag \in Nat /\ DOMAIN tau \subseteq 0 .. current_tag
      BY CircuitAssumption DEF IInv, TypeOK
    <3>2. r \notin DOMAIN tau /\ s \notin DOMAIN tau /\ r # s
      BY <3>1
    <3>3. tau' = [t \in DOMAIN tau \cup {r, s} |->
                    CASE t = r -> s [] t = s -> r [] OTHER -> tau[t]]
      BY <2>1 DEF CreateTagPair
    <3> HIDE DEF r, s
    <3>4. /\ DOMAIN tau' = DOMAIN tau \cup {r, s}
          /\ tau'[r] = s /\ tau'[s] = r
          /\ \A t \in DOMAIN tau : tau'[t] = tau[t]
      BY <3>2, <3>3
    <3> QED BY <3>4 DEF TauSwaps
  <2>2. ASSUME UNCHANGED tau
        PROVE  TauSwaps'
    BY <2>2 DEF TauSwaps
  <2> QED BY <2>1, <2>2 DEF Next, vars, tagVars, AddVariable, AddPublicVariable, SetPublicInput,
             AssertEqual, AssertEqualAgain, Merge, AssignTag
<1> QED BY <1>1, <1>2, InductiveInvariant, PTL DEF Spec
=============================================================================
