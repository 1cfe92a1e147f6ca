------------------------- MODULE RangeConstraintsProofs -------------------------
(***************************************************************************)
(* Theorems about RangeConstraints: the chains of copies stay well formed  *)
(* under range lists, deep copies and mirrors, no request for a range is   *)
(* ever dropped, and a circuit that reported no failure is satisfied by    *)
(* its own witness, for every set of ranges and values and every bound.    *)
(***************************************************************************)
EXTENDS RangeConstraints, CircuitConstructorProofs, LeastElements, SequenceTheorems

-----------------------------------------------------------------------------
(* New variables with tags. *)

\* The vectors after add_variable and assign_tag for each of some values.
LEMMA PushTaggedVectors ==
    ASSUME IInv, NEW values, NEW tags, PushTagged(values, tags)
    PROVE  /\ num_variables \in Nat /\ num_variables' \in num_variables .. MaxVariables
           /\ num_variables' = num_variables + Len(values)
           /\ Indices \subseteq Indices' /\ Indices' = 0 .. num_variables' - 1
           /\ \A i \in Indices' :
                /\ real_variable_index'[i] = IF i \in Indices THEN real_variable_index[i] ELSE i
                /\ next_var_index'[i] = IF i \in Indices THEN next_var_index[i] ELSE REAL_VARIABLE
                /\ prev_var_index'[i] = IF i \in Indices THEN prev_var_index[i] ELSE FIRST_VARIABLE_IN_CLASS
                /\ variables'[i] = IF i \in Indices THEN variables[i] ELSE values[i - num_variables + 1]
                /\ real_variable_tags'[i] = tags[i]
           /\ \A f \in {real_variable_index', next_var_index', prev_var_index', variables', real_variable_tags'} :
                f = [i \in Indices' |-> f[i]]
<1> DEFINE n == num_variables + Len(values)
<1>1. num_variables \in Nat /\ n \in num_variables .. MaxVariables /\ num_variables' = n
  BY CircuitAssumption DEF IInv, TypeOK, PushTagged
<1>2. n \in Nat /\ num_variables <= n
  BY <1>1, CircuitAssumption
<1>3. Indices' = 0 .. n - 1 /\ Indices = 0 .. num_variables - 1
  BY <1>1 DEF Indices
<1>4. Indices \subseteq Indices'
  BY <1>1, <1>2, <1>3
<1>5. ASSUME NEW i \in Indices' PROVE i \in Int /\ (i \in Indices <=> i < num_variables)
  BY <1>1, <1>2, <1>3
<1>6. /\ variables' = [i \in 0 .. n - 1 |->
                         IF i < num_variables THEN variables[i] ELSE values[i - num_variables + 1]]
      /\ real_variable_index' = [i \in 0 .. n - 1 |->
                         IF i < num_variables THEN real_variable_index[i]
                                              ELSE num_variables + (i - num_variables + 1) - 1]
      /\ next_var_index' = [i \in 0 .. n - 1 |-> IF i < num_variables THEN next_var_index[i] ELSE REAL_VARIABLE]
      /\ prev_var_index' = [i \in 0 .. n - 1 |->
                         IF i < num_variables THEN prev_var_index[i] ELSE FIRST_VARIABLE_IN_CLASS]
      /\ real_variable_tags' = [i \in 0 .. n - 1 |->
                         IF i < num_variables THEN tags[i] ELSE tags[num_variables + (i - num_variables + 1) - 1]]
  BY DEF PushTagged
<1> HIDE DEF n
<1>7. ASSUME NEW i \in Indices'
      PROVE  /\ num_variables + (i - num_variables + 1) - 1 = i
  BY <1>1, <1>5
<1>8. ASSUME NEW i \in Indices'
      PROVE  /\ real_variable_index'[i] = IF i \in Indices THEN real_variable_index[i] ELSE i
             /\ next_var_index'[i] = IF i \in Indices THEN next_var_index[i] ELSE REAL_VARIABLE
             /\ prev_var_index'[i] = IF i \in Indices THEN prev_var_index[i] ELSE FIRST_VARIABLE_IN_CLASS
             /\ variables'[i] = IF i \in Indices THEN variables[i] ELSE values[i - num_variables + 1]
             /\ real_variable_tags'[i] = tags[i]
  BY <1>3, <1>5, <1>6, <1>7
<1>9. \A f \in {real_variable_index', next_var_index', prev_var_index', variables', real_variable_tags'} :
        f = [i \in Indices' |-> f[i]]
  BY <1>3, <1>6
<1> QED BY <1>1, <1>3, <1>4, <1>8, <1>9 DEF n

\* They leave well formed chains: each new variable is a class of its own.
LEMMA PushTaggedChains ==
    ASSUME IInv, NEW values, NEW tags, PushTagged(values, tags)
    PROVE  ChainInv'
<1>1. Indices \subseteq Indices'
  BY PushTaggedVectors
<1>2. \A i \in Indices : /\ next_var_index'[i] = next_var_index[i]
                         /\ prev_var_index'[i] = prev_var_index[i]
                         /\ real_variable_index'[i] = real_variable_index[i]
  BY PushTaggedVectors
<1>3. \A i \in Indices' \ Indices : /\ next_var_index'[i] = REAL_VARIABLE
                                    /\ prev_var_index'[i] = FIRST_VARIABLE_IN_CLASS
                                    /\ real_variable_index'[i] = i
  BY PushTaggedVectors
<1>4. \A i \in Indices : /\ real_variable_index[i] \in Indices
                         /\ next_var_index[i] \in Indices \cup {REAL_VARIABLE}
                         /\ prev_var_index[i] \in Indices \cup {FIRST_VARIABLE_IN_CLASS}
  BY DEF IInv, TypeOK
<1>5. RealIsLast'
  BY <1>1, <1>2, <1>3, <1>4 DEF IInv, ChainInv, RealIsLast, Real
<1>6. LinksMatch'
  BY <1>1, <1>2, <1>3, <1>4 DEF IInv, ChainInv, LinksMatch, Real
<1>7. OneFirst'
  BY <1>1, <1>2, <1>3, <1>4 DEF IInv, ChainInv, OneFirst, Real
<1>8. FirstReached'
  <2> SUFFICES ASSUME NEW i \in Indices', NEW S \in SUBSET (Indices'),
                      i \in S, PrevClosed(S)'
               PROVE  \E j \in S : /\ prev_var_index'[j] = FIRST_VARIABLE_IN_CLASS
                                   /\ Real(j)' = Real(i)'
    BY DEF FirstReached
  <2>1. CASE i \notin Indices
    BY <2>1, <1>3
  <2>2. CASE i \in Indices
    <3> DEFINE R == S \cap Indices
    <3>1. i \in R /\ R \in SUBSET Indices
      BY <2>2
    <3>2. PrevClosed(R)
      BY <1>1, <1>2, <1>4 DEF PrevClosed
    <3>3. PICK j \in R : prev_var_index[j] = FIRST_VARIABLE_IN_CLASS /\ Real(j) = Real(i)
      BY <3>1, <3>2 DEF IInv, ChainInv, FirstReached
    <3> QED BY <3>3, <2>2, <1>1, <1>2 DEF Real
  <2> QED BY <2>1, <2>2
<1> QED BY <1>5, <1>6, <1>7, <1>8 DEF ChainInv

-----------------------------------------------------------------------------
(***************************************************************************)
(* The invariant.  While the circuit is under construction its chains are  *)
(* well formed and the lists carry tags that are real ones, so a class     *)
(* without a tag is in no list; that a request is enforced needs no more,  *)
(* and stays so when the mirrors are added.                                *)
(***************************************************************************)
RangeList == [range_tag : DOMAIN tau \ {DUMMY_TAG}, tau_tag : DOMAIN tau, variable_indices : Seq(Int)]

ListInv ==
    /\ users \subseteq Indices
    /\ DOMAIN range_lists \subseteq Targets
    /\ \A t \in DOMAIN range_lists : range_lists[t] \in RangeList
    /\ copies \subseteq users \X Indices
    /\ requests \subseteq users \X Targets

RangeInv ==
    /\ ~circuit_finalised => IInv /\ ListInv
    /\ RequestEnforced

LEMMA RangeInitInv == RangeInit => RangeInv
<1> SUFFICES ASSUME RangeInit PROVE RangeInv
  OBVIOUS
<1>1. IInv
  BY InitIInv DEF RangeInit
<1>2. ListInv
  BY DEF RangeInit, ListInv, EmptyVector
<1>3. RequestEnforced
  BY DEF RangeInit, RequestEnforced
<1> QED BY <1>1, <1>2, <1>3 DEF RangeInv

-----------------------------------------------------------------------------
(* Steps of the circuit constructor. *)

\* What the caller does to variables and classes leaves every request enforced.
LEMMA ConstructorStep ==
    ASSUME IInv, ListInv, RequestEnforced, Next, UNCHANGED rangeOnly, users \subseteq users',
           users' \subseteq Indices', UNCHANGED tau
    PROVE  IInv' /\ ListInv' /\ RequestEnforced'
<1>1. IInv'
  BY NextIInv
<1>2. \A i, j \in Indices : Real(i) = Real(j) => i \in Indices' /\ Real(i)' = Real(j)'
  BY ClassesGrow
<1>3. Indices \subseteq Indices'
  BY <1>2
<1>4. ListInv'
  BY <1>3 DEF ListInv, rangeOnly, RangeList
<1>5. RequestEnforced'
  <2> SUFFICES ASSUME ~failed', NEW q \in requests
               PROVE  \E i \in {q[1]} \cup {c[2] : c \in {c \in copies : Real(c[1])' = Real(q[1])'}},
                         t \in DOMAIN range_lists :
                          t <= q[2] /\ Tag(i)' = range_lists[t].range_tag
    BY DEF RequestEnforced, rangeOnly
  <2>1. ~failed
    BY DEF Next, AddVariable, AddPublicVariable, SetPublicInput, AssertEqual, AssertEqualAgain, Merge,
           FailedAfter, CreateTagPair, AssignTag, IInv, TypeOK
  <2>2. q[1] \in Indices /\ \A c \in copies : c[1] \in Indices /\ c[2] \in Indices
    BY DEF ListInv
  <2>3. PICK i \in {q[1]} \cup {c[2] : c \in {c \in copies : Real(c[1]) = Real(q[1])}},
             t \in DOMAIN range_lists :
                t <= q[2] /\ Tag(i) = range_lists[t].range_tag
    BY <2>1 DEF RequestEnforced
  <2>4. i \in Indices /\ Tag(i) # DUMMY_TAG
    BY <2>2, <2>3 DEF ListInv, RangeList
  <2>5. Tag(i)' = Tag(i)
    BY <2>4, TagStep
  <2>6. i \in {q[1]} \cup {c[2] : c \in {c \in copies : Real(c[1])' = Real(q[1])'}}
    BY <1>2, <2>2, <2>3
  <2> QED BY <2>3, <2>5, <2>6
<1> QED BY <1>1, <1>4, <1>5

-----------------------------------------------------------------------------
(* create_new_range_constraint. *)

\* The steps of a list are values of the field.
LEMMA StepsAreValues ==
    ASSUME NEW t \in Targets
    PROVE  StepValues(t) \in Seq(Values) /\ Len(StepValues(t)) \in Nat
<1>1. t \in 1 .. LimbSize - 1 /\ LimbSize \in Nat /\ 0 .. LimbSize - 1 \subseteq Values
  BY RangeAssumption
<1>2. t \div 3 \in Nat /\ 3 * (t \div 3) <= t
  BY <1>1
<1>3. \A k \in 1 .. t \div 3 + 1 : (k - 1) * 3 \in Values
  BY <1>1, <1>2
<1>4. [k \in 1 .. t \div 3 + 1 |-> (k - 1) * 3] \in Seq(Values)
  BY <1>2, <1>3
<1>5. <<t>> \in Seq(Values)
  BY <1>1
<1>6. StepValues(t) = [k \in 1 .. t \div 3 + 1 |-> (k - 1) * 3] \o <<t>>
  BY DEF StepValues, DEFAULT_PLOOKUP_RANGE_STEP_SIZE
<1>7. \A x, y : x \in Seq(Values) /\ y \in Seq(Values) => x \o y \in Seq(Values)
  OBVIOUS
<1>8. StepValues(t) \in Seq(Values)
  BY <1>4, <1>5, <1>6, <1>7
<1> QED BY <1>8

LEMMA NewRangeStep ==
    ASSUME IInv, ListInv, RequestEnforced,
           NEW v \in users, NEW t \in Targets, NewRangeConstraint(v, t)
    PROVE  IInv' /\ ListInv' /\ RequestEnforced'
<1> DEFINE steps == IF IsNew(t) THEN StepValues(t) ELSE << >>
           added == steps \o (IF NeedsCopy(v, t) THEN <<GetVariable(v)>> ELSE << >>)
           copy  == num_variables + Len(steps)
           member == IF NeedsCopy(v, t) THEN <<copy>> ELSE IF JoinsList(v, t) THEN <<v>> ELSE << >>
           list  == [List(t) EXCEPT !.variable_indices = @ \o member]
           tags  == [i \in 0 .. num_variables + Len(added) - 1 |->
                        IF i < num_variables /\ ~(JoinsList(v, t) /\ i = Real(v))
                        THEN real_variable_tags[i] ELSE list.range_tag]
<1>1. /\ PushTagged(added, tags)
      /\ failed' = (failed \/ Low(GetVariable(v)) > t)
      /\ range_lists' = [r \in DOMAIN range_lists \cup {t} |-> IF r = t THEN list ELSE range_lists[r]]
      /\ copies' = copies \cup (IF NeedsCopy(v, t) THEN {<<v, copy>>} ELSE {})
      /\ requests' = requests \cup {<<v, t>>}
      /\ users' = users /\ public_inputs' = public_inputs
  BY DEF NewRangeConstraint
<1>2. /\ IsNew(t) => /\ current_tag + 4 <= MaxTag /\ current_tag' = current_tag + 4
                     /\ DOMAIN tau' = DOMAIN tau \cup {current_tag + 1, current_tag + 2}
      /\ ~IsNew(t) => current_tag' = current_tag /\ tau' = tau
  BY DEF NewRangeConstraint, tagVars, List, NewList
<1>3. /\ current_tag \in Nat /\ DOMAIN tau \subseteq DOMAIN tau' /\ DUMMY_TAG \in DOMAIN tau'
      /\ current_tag' \in 0 .. MaxTag /\ DOMAIN tau' \subseteq 0 .. current_tag'
  <2>1. current_tag \in 0 .. MaxTag /\ MaxTag \in Nat /\ DUMMY_TAG \in DOMAIN tau /\ DOMAIN tau \subseteq 0 .. current_tag
    BY CircuitAssumption DEF IInv, TypeOK
  <2>2. CASE IsNew(t)
    <3>1. current_tag' \in 0 .. MaxTag /\ 0 .. current_tag \subseteq 0 .. current_tag'
          /\ current_tag + 1 \in 0 .. current_tag' /\ current_tag + 2 \in 0 .. current_tag'
      BY <1>2, <2>1, <2>2
    <3> QED BY <1>2, <2>1, <2>2, <3>1
  <2>3. CASE ~IsNew(t)
    BY <1>2, <2>1, <2>3
  <2> QED BY <2>2, <2>3
<1>4. v \in Indices /\ Real(v) \in Indices /\ GetVariable(v) \in Values
  BY DEF ListInv, IInv, TypeOK, Real, GetVariable
<1>5. steps \in Seq(Values) /\ Len(steps) \in Nat
  BY StepsAreValues
<1>6. /\ added \in Seq(Values)
      /\ Len(added) = IF NeedsCopy(v, t) THEN Len(steps) + 1 ELSE Len(steps)
  <2> HIDE DEF steps
  <2>1. CASE NeedsCopy(v, t)
    <3>1. added = steps \o <<GetVariable(v)>>
      BY <2>1
    <3> QED BY <1>4, <1>5, <2>1, <3>1
  <2>2. CASE ~NeedsCopy(v, t)
    <3>1. added = steps \o << >>
      BY <2>2
    <3> QED BY <1>5, <2>2, <3>1
  <2> QED BY <2>1, <2>2
<1>7. num_variables \in Nat /\ copy \in Nat /\ copy \notin Indices
  BY <1>5, CircuitAssumption DEF IInv, TypeOK, Indices
<1>8. List(t) \in [range_tag : DOMAIN tau' \ {DUMMY_TAG}, tau_tag : DOMAIN tau', variable_indices : Seq(Int)]
  <2>1. CASE IsNew(t)
    <3>1. NewList(t).variable_indices \in Seq(Int)
      <4>1. \A k \in 1 .. Len(StepValues(t)) : num_variables + k - 1 \in Int
        BY <1>7, StepsAreValues
      <4>2. Len(StepValues(t)) \in Nat
        BY StepsAreValues
      <4>3. [k \in 1 .. Len(StepValues(t)) |-> num_variables + k - 1] \in Seq(Int)
        BY <4>1, <4>2
      <4> QED BY <4>3 DEF NewList
    <3>2. /\ current_tag + 1 \in DOMAIN tau' \ {DUMMY_TAG}
          /\ current_tag + 2 \in DOMAIN tau'
      BY <1>2, <1>3, <2>1 DEF DUMMY_TAG
    <3> QED BY <2>1, <3>1, <3>2 DEF List, NewList
  <2>2. CASE ~IsNew(t)
    <3>1. t \in DOMAIN range_lists
      BY <2>2 DEF IsNew
    <3>2. range_lists[t] \in RangeList
      BY <3>1 DEF ListInv
    <3> QED BY <1>3, <2>2, <3>2 DEF List, RangeList
  <2> QED BY <2>1, <2>2
<1>9. member \in Seq(Int)
  BY <1>4, <1>7 DEF Indices
<1>10. /\ list \in [range_tag : DOMAIN tau' \ {DUMMY_TAG}, tau_tag : DOMAIN tau', variable_indices : Seq(Int)]
       /\ list.range_tag = List(t).range_tag
  <2> HIDE DEF member
  <2>1. List(t).variable_indices \o member \in Seq(Int)
    BY <1>8, <1>9
  <2>2. list = [List(t) EXCEPT !.variable_indices = List(t).variable_indices \o member]
    OBVIOUS
  <2> QED BY <1>8, <2>1, <2>2
<1> HIDE DEF steps, added, copy, member, list, tags
<1>11. /\ num_variables' \in num_variables .. MaxVariables /\ num_variables' = num_variables + Len(added)
       /\ Indices \subseteq Indices' /\ Indices' = 0 .. num_variables' - 1
       /\ \A i \in Indices' :
            /\ real_variable_index'[i] = IF i \in Indices THEN real_variable_index[i] ELSE i
            /\ next_var_index'[i] = IF i \in Indices THEN next_var_index[i] ELSE REAL_VARIABLE
            /\ prev_var_index'[i] = IF i \in Indices THEN prev_var_index[i] ELSE FIRST_VARIABLE_IN_CLASS
            /\ variables'[i] = IF i \in Indices THEN variables[i] ELSE added[i - num_variables + 1]
            /\ real_variable_tags'[i] = tags[i]
       /\ \A f \in {real_variable_index', next_var_index', prev_var_index', variables', real_variable_tags'} :
            f = [i \in Indices' |-> f[i]]
  BY <1>1, PushTaggedVectors
<1>12. \A i \in Indices' :
          tags[i] = IF i \in Indices /\ ~(JoinsList(v, t) /\ i = Real(v))
                    THEN real_variable_tags[i] ELSE list.range_tag
  BY <1>7, <1>11 DEF tags, Indices
<1>13. IInv'
  <2>1. ChainInv'
    BY <1>1, PushTaggedChains
  <2>2. variables' \in [Indices' -> Values]
    <3>1. ASSUME NEW i \in Indices', i \notin Indices
          PROVE  i - num_variables + 1 \in 1 .. Len(added)
      BY <1>7, <1>11, <3>1 DEF Indices
    <3>2. \A k \in 1 .. Len(added) : added[k] \in Values
      BY <1>6
    <3>3. \A i \in Indices : variables[i] \in Values
      BY DEF IInv, TypeOK
    <3>4. \A i \in Indices' : variables'[i] \in Values
      BY <1>11, <3>1, <3>2, <3>3
    <3> QED BY <1>11, <3>4
  <2>3. next_var_index' \in [Indices' -> Indices' \cup {REAL_VARIABLE}]
    <3>1. \A i \in Indices' : next_var_index'[i] \in Indices' \cup {REAL_VARIABLE}
      BY <1>11 DEF IInv, TypeOK
    <3> QED BY <1>11, <3>1
  <2>4. prev_var_index' \in [Indices' -> Indices' \cup {FIRST_VARIABLE_IN_CLASS}]
    <3>1. \A i \in Indices' : prev_var_index'[i] \in Indices' \cup {FIRST_VARIABLE_IN_CLASS}
      BY <1>11 DEF IInv, TypeOK
    <3> QED BY <1>11, <3>1
  <2>5. real_variable_index' \in [Indices' -> Indices']
    <3>1. \A i \in Indices' : real_variable_index'[i] \in Indices'
      BY <1>11 DEF IInv, TypeOK
    <3> QED BY <1>11, <3>1
  <2>6. real_variable_tags' \in [Indices' -> DOMAIN tau']
    <3>1. \A i \in Indices' : real_variable_tags'[i] \in DOMAIN tau'
      BY <1>3, <1>10, <1>11, <1>12 DEF IInv, TypeOK
    <3> QED BY <1>11, <3>1
  <2>7. num_variables' \in 0 .. MaxVariables
    BY <1>7, <1>11, CircuitAssumption
  <2>8. public_inputs' \in Seq(Indices')
    BY <1>1, <1>11 DEF IInv, TypeOK
  <2>9. failed' \in BOOLEAN
    BY <1>1 DEF IInv, TypeOK
  <2> QED BY <1>3, <2>1, <2>2, <2>3, <2>4, <2>5, <2>6, <2>7, <2>8, <2>9 DEF IInv, TypeOK
<1>14. NeedsCopy(v, t) => copy \in Indices'
  BY <1>5, <1>6, <1>7, <1>11 DEF copy
<1>15. ListInv'
  <2>1. \A r \in DOMAIN range_lists' :
           range_lists'[r] \in [range_tag : DOMAIN tau' \ {DUMMY_TAG}, tau_tag : DOMAIN tau',
                                variable_indices : Seq(Int)]
    BY <1>1, <1>3, <1>10 DEF ListInv, RangeList
  <2>2. copies' \subseteq users' \X Indices'
    BY <1>1, <1>11, <1>14 DEF ListInv
  <2>3. DOMAIN range_lists' \subseteq Targets
    BY <1>1 DEF ListInv
  <2>4. users' \subseteq Indices' /\ requests' \subseteq users' \X Targets
    BY <1>1, <1>11 DEF ListInv
  <2> QED BY <2>1, <2>2, <2>3, <2>4 DEF ListInv, RangeList
\* A list keeps its tag, and so does a class that is in one.
<1>16. \A r \in DOMAIN range_lists : r \in DOMAIN range_lists' /\ range_lists'[r].range_tag = range_lists[r].range_tag
  BY <1>1, <1>10 DEF List, IsNew
<1>17. \A i \in Indices : Real(i)' = Real(i) /\ Real(i) \in Indices
  BY <1>11 DEF Real, IInv, TypeOK
<1>18. ASSUME NEW i \in Indices, Tag(i) # DUMMY_TAG PROVE Tag(i)' = Tag(i)
  <2>1. Real(i) \in Indices /\ Real(i) \in Indices'
    BY <1>11, <1>17
  <2>2. ~(JoinsList(v, t) /\ Real(i) = Real(v))
    BY <1>18 DEF JoinsList, NeedsCopy, Tag
  <2>3. tags[Real(i)] = real_variable_tags[Real(i)]
    BY <1>12, <2>1, <2>2
  <2> QED BY <1>11, <1>17, <2>1, <2>3 DEF Tag
\* The new request.
<1>19. \E i \in {v} \cup {c[2] : c \in {c \in copies' : Real(c[1])' = Real(v)'}}, r \in DOMAIN range_lists' :
          r <= t /\ Tag(i)' = range_lists'[r].range_tag
  <2>1. t \in DOMAIN range_lists' /\ range_lists'[t].range_tag = List(t).range_tag /\ t <= t
    BY <1>1, <1>10, RangeAssumption
  <2>2. CASE AlreadyIn(v, t)
    <3>1. Tag(v) # DUMMY_TAG
      BY <1>8, <2>2 DEF AlreadyIn
    <3> QED BY <1>4, <1>18, <2>1, <2>2, <3>1 DEF AlreadyIn
  <2>3. CASE NarrowerHeld(v, t)
    <3>1. PICK r \in DOMAIN range_lists : range_lists[r].range_tag = Tag(v) /\ r < t
      BY <2>3 DEF NarrowerHeld
    <3>2. Tag(v) # DUMMY_TAG
      BY <3>1 DEF ListInv, RangeList
    <3>3. r \in 1 .. LimbSize - 1 /\ t \in 1 .. LimbSize - 1 /\ LimbSize \in Nat
      BY RangeAssumption DEF ListInv
    <3>4. r <= t
      BY <3>1, <3>3
    <3> QED BY <1>4, <1>16, <1>18, <3>1, <3>2, <3>4
  <2>4. CASE NeedsCopy(v, t)
    <3>1. PICK k : k = copy
      OBVIOUS
    <3>2. k \in Indices' /\ k \notin Indices
      BY <1>7, <1>14, <2>4, <3>1
    <3>3. Tag(k)' = list.range_tag
      BY <1>11, <1>12, <3>2 DEF Tag, Real
    <3>4. k \in {c[2] : c \in {c \in copies' : Real(c[1])' = Real(v)'}}
      <4>1. <<v, k>> \in copies'
        BY <1>1, <2>4, <3>1
      <4>2. <<v, k>>[1] = v /\ <<v, k>>[2] = k
        OBVIOUS
      <4>3. <<v, k>> \in {c \in copies' : Real(c[1])' = Real(v)'}
        BY <4>1, <4>2
      <4> QED BY <4>2, <4>3
    <3> QED BY <1>10, <2>1, <3>3, <3>4
  <2>5. CASE JoinsList(v, t)
    <3>1. tags[Real(v)] = list.range_tag
      BY <1>4, <1>11, <1>12, <2>5
    <3>2. Tag(v)' = list.range_tag
      BY <1>4, <1>11, <1>17, <3>1 DEF Tag
    <3> QED BY <1>10, <2>1, <3>2
  <2> QED BY <2>2, <2>3, <2>4, <2>5 DEF JoinsList
<1>20. RequestEnforced'
  <2> SUFFICES ASSUME ~failed', NEW q \in requests'
               PROVE  \E i \in {q[1]} \cup {c[2] : c \in {c \in copies' : Real(c[1])' = Real(q[1])'}},
                         r \in DOMAIN range_lists' :
                          r <= q[2] /\ Tag(i)' = range_lists'[r].range_tag
    BY DEF RequestEnforced
  <2>1. CASE q = <<v, t>>
    BY <1>19, <2>1
  <2>2. CASE q \in requests
    <3>1. ~failed
      BY <1>1 DEF IInv, TypeOK
    <3>2. q[1] \in Indices /\ \A c \in copies : c[1] \in Indices /\ c[2] \in Indices
      BY <2>2 DEF ListInv
    <3>3. PICK i \in {q[1]} \cup {c[2] : c \in {c \in copies : Real(c[1]) = Real(q[1])}},
               r \in DOMAIN range_lists :
                  r <= q[2] /\ Tag(i) = range_lists[r].range_tag
      BY <2>2, <3>1 DEF RequestEnforced
    <3>4. i \in Indices /\ Tag(i) # DUMMY_TAG
      BY <3>2, <3>3 DEF ListInv, RangeList
    <3>5. i \in {q[1]} \cup {c[2] : c \in {c \in copies' : Real(c[1])' = Real(q[1])'}}
      BY <1>1, <1>17, <3>2, <3>3
    <3> QED BY <1>16, <1>18, <3>3, <3>4, <3>5
  <2> QED BY <1>1, <2>1, <2>2
<1> QED BY <1>13, <1>15, <1>20

-----------------------------------------------------------------------------
(* compute_proving_key, and the whole. *)

\* There are finitely many entries.
LEMMA EntriesFinite ==
    ASSUME ListInv
    PROVE  IsFiniteSet(Entries) /\ Cardinality(Entries) \in Nat
<1> DEFINE D == DOMAIN range_lists
           F == [t \in D |-> {t} \X DOMAIN range_lists[t].variable_indices]
           U == {F[t] : t \in D}
<1>1. IsFiniteSet(D)
  <2>1. LimbSize - 1 \in Int /\ 1 \in Int
    BY RangeAssumption
  <2>2. D \subseteq Targets /\ Targets \subseteq 1 .. LimbSize - 1
    BY RangeAssumption DEF ListInv
  <2>3. IsFiniteSet(1 .. LimbSize - 1)
    BY <2>1, FS_Interval
  <2> QED BY <2>2, <2>3, FS_Subset
<1>2. \A t \in D : IsFiniteSet({t} \X DOMAIN range_lists[t].variable_indices)
  <2> SUFFICES ASSUME NEW t \in D PROVE IsFiniteSet({t} \X DOMAIN range_lists[t].variable_indices)
    OBVIOUS
  <2>1. range_lists[t].variable_indices \in Seq(Int)
    BY DEF ListInv, RangeList
  <2>2. PICK n \in Nat : DOMAIN range_lists[t].variable_indices = 1 .. n
    BY <2>1
  <2>3. IsFiniteSet(1 .. n)
    BY FS_Interval
  <2> QED BY <2>2, <2>3, FS_Singleton, FS_Product
<1>3. F \in Surjection(D, U)
  BY DEF Surjection
<1>4. IsFiniteSet(U)
  BY <1>1, <1>3, FS_Surjection
<1>5. \A x \in U : IsFiniteSet(x)
  BY <1>2
<1>6. Entries = UNION U
  BY DEF Entries
<1> HIDE DEF U
<1> QED BY <1>4, <1>5, <1>6, FS_UNION, FS_CardinalityType

\* The vectors after the mirrors are made.
LEMMA FinaliseVectors ==
    ASSUME IInv, ListInv, Finalise
    PROVE  /\ num_variables' = num_variables + Cardinality(Entries)
           /\ Indices \subseteq Indices' /\ Indices' = 0 .. num_variables' - 1
           /\ \A i \in Indices' :
                /\ Real(i)' = IF i \in Indices THEN Real(i) ELSE i
                /\ variables'[i] = IF i \in Indices THEN variables[i] ELSE MirrorValues[i - num_variables + 1]
                /\ real_variable_tags'[i] = IF i \in Indices THEN real_variable_tags[i]
                                            ELSE range_lists[MadeFor(i)[1]].tau_tag
<1>1. PushTagged(MirrorValues, TagsWithMirrors)
  BY DEF Finalise
<1>2. num_variables \in Nat /\ Cardinality(Entries) \in Nat
  BY EntriesFinite, CircuitAssumption DEF IInv, TypeOK
<1>3. Len(MirrorValues) = Cardinality(Entries)
  BY <1>2 DEF MirrorValues
<1>4. /\ num_variables' = num_variables + Len(MirrorValues)
      /\ Indices \subseteq Indices' /\ Indices' = 0 .. num_variables' - 1
      /\ \A i \in Indices' :
           /\ real_variable_index'[i] = IF i \in Indices THEN real_variable_index[i] ELSE i
           /\ variables'[i] = IF i \in Indices THEN variables[i] ELSE MirrorValues[i - num_variables + 1]
           /\ real_variable_tags'[i] = TagsWithMirrors[i]
  BY <1>1, PushTaggedVectors
<1>5. ASSUME NEW i \in Indices'
      PROVE  TagsWithMirrors[i] = IF i \in Indices THEN real_variable_tags[i]
                                                   ELSE range_lists[MadeFor(i)[1]].tau_tag
  <2>1. i \in 0 .. num_variables + Cardinality(Entries) - 1 /\ (i < num_variables <=> i \in Indices)
    BY <1>2, <1>3, <1>4 DEF Indices
  <2> QED BY <2>1 DEF TagsWithMirrors
<1> QED BY <1>3, <1>4, <1>5 DEF Real

\* The mirrors are new variables: what was enforced before stays so.
LEMMA FinaliseStep ==
    ASSUME IInv, ListInv, RequestEnforced, Finalise
    PROVE  RequestEnforced'
<1>2. UNCHANGED <<failed, range_lists, copies, requests>>
  BY DEF Finalise
<1>5. \A i \in Indices : Real(i) \in Indices /\ Real(i)' = Real(i) /\ Tag(i)' = Tag(i)
  BY FinaliseVectors DEF Real, Tag, IInv, TypeOK
<1> SUFFICES ASSUME ~failed', NEW q \in requests'
             PROVE  \E i \in {q[1]} \cup {c[2] : c \in {c \in copies' : Real(c[1])' = Real(q[1])'}},
                       t \in DOMAIN range_lists' :
                        t <= q[2] /\ Tag(i)' = range_lists'[t].range_tag
  BY DEF RequestEnforced
<1>6. q[1] \in Indices /\ \A c \in copies : c[1] \in Indices /\ c[2] \in Indices
  BY <1>2 DEF ListInv
<1>7. PICK i \in {q[1]} \cup {c[2] : c \in {c \in copies : Real(c[1]) = Real(q[1])}},
           t \in DOMAIN range_lists :
              t <= q[2] /\ Tag(i) = range_lists[t].range_tag
  BY <1>2 DEF RequestEnforced
<1>8. i \in Indices /\ i \in {q[1]} \cup {c[2] : c \in {c \in copies' : Real(c[1])' = Real(q[1])'}}
  BY <1>2, <1>5, <1>6, <1>7
<1> QED BY <1>2, <1>5, <1>7, <1>8

LEMMA RangeNextInv == RangeInv /\ [RangeNext]_rangeVars => RangeInv'
<1> SUFFICES ASSUME RangeInv, [RangeNext]_rangeVars PROVE RangeInv'
  OBVIOUS
<1>1. CASE Finalise
  <2>1. ~circuit_finalised /\ circuit_finalised'
    BY <1>1 DEF Finalise, Unprocessed
  <2> QED BY <1>1, <2>1, FinaliseStep DEF RangeInv
<1>2. ASSUME ~circuit_finalised, NEW v \in UserValues, UserVariable(v) PROVE RangeInv'
  <2>1. v \in Values
    BY RangeAssumption
  <2>2. Next
    BY <1>2, <2>1 DEF UserVariable, Next
  <2>3. UNCHANGED rangeOnly /\ users \subseteq users' /\ UNCHANGED tau
    BY <1>2 DEF UserVariable, AddVariable, tagVars
  <2>4. Indices' = Indices \cup {num_variables}
    BY <1>2, <2>1, IndicesGrow DEF RangeInv, UserVariable, AddVariable
  <2>5. users' \subseteq Indices'
    BY <1>2, <2>4 DEF UserVariable, RangeInv, ListInv
  <2> QED BY <1>2, <2>2, <2>3, <2>5, ConstructorStep DEF RangeInv, rangeOnly
<1>3. ASSUME ~circuit_finalised, NEW a \in users, NEW b \in users, UserAssertEqual(a, b) PROVE RangeInv'
  <2>1. a \in Indices /\ b \in Indices
    BY <1>3 DEF RangeInv, ListInv
  <2>2. Next
    BY <1>3, <2>1 DEF UserAssertEqual, Next
  <2>3. UNCHANGED <<rangeOnly, users, tau, num_variables>>
    BY <1>3 DEF UserAssertEqual, AssertEqual, AssertEqualAgain, Merge, tagVars
  <2>4. users' \subseteq Indices'
    BY <1>3, <2>3 DEF RangeInv, ListInv, Indices
  <2> QED BY <1>3, <2>2, <2>3, <2>4, ConstructorStep DEF RangeInv, rangeOnly
<1>4. ASSUME ~circuit_finalised, NEW v \in users, NEW t \in Targets, NewRangeConstraint(v, t) PROVE RangeInv'
  BY <1>4, NewRangeStep DEF RangeInv
<1>5. ASSUME ~circuit_finalised, NEW v \in users, NEW n \in 1 .. 14, 2 ^ n \in Targets, CreateRangeConstraint(v, n)
      PROVE  RangeInv'
  BY <1>4, <1>5 DEF CreateRangeConstraint
<1>6. CASE UNCHANGED rangeVars
  <2>1. UNCHANGED <<vars, users, range_lists, copies, circuit_finalised, requests>>
    BY <1>6 DEF rangeVars
  <2>2. IInv => IInv'
    BY <2>1, NextIInv
  <2>3. ListInv => ListInv'
    BY <2>1 DEF ListInv, RangeList, Indices, vars, tagVars
  <2>4. RequestEnforced => RequestEnforced'
    BY <2>1 DEF RequestEnforced, Real, Tag, vars, chains
  <2> QED BY <2>1, <2>2, <2>3, <2>4 DEF RangeInv
<1>7. CASE RangeNext /\ ~Finalise
  <2>1. /\ ~circuit_finalised
        /\ \/ \E v \in UserValues : UserVariable(v)
           \/ \E a, b \in users : UserAssertEqual(a, b)
           \/ \E v \in users, t \in Targets : CreateNewRangeConstraint(v, t)
           \/ \E v \in users, n \in {n \in 1 .. 14 : 2 ^ n \in Targets} : CreateRangeConstraint(v, n)
    BY <1>7 DEF RangeNext
  <2> QED BY <2>1, <1>2, <1>3, <1>4, <1>5 DEF CreateNewRangeConstraint
<1> QED BY <1>1, <1>6, <1>7

\* While a circuit is built its chains are well formed, its lists carry tags of
\* tau, and a list is given to every variable the caller asks a range for.
THEOREM RangeInvariant == RangeSpec => []RangeInv
BY RangeInitInv, RangeNextInv, PTL DEF RangeSpec

\* Every range that create_new_range_constraint is asked for is held by a list
\* at least as narrow, through the variable or a deep copy, whatever ranges and
\* copy constraints come before or after, and in the finished circuit.
THEOREM NoRequestDropped == RangeSpec => []RequestEnforced
<1>1. RangeInv => RequestEnforced
  BY DEF RangeInv
<1> QED BY <1>1, RangeInvariant, PTL

-----------------------------------------------------------------------------
(***************************************************************************)
(* Honest witnesses.                                                       *)
(***************************************************************************)

\* SortedList is the list in the order of a permutation that sorts it.
LEMMA SortedListSorts ==
    ASSUME NEW t, NEW m \in Nat, DOMAIN range_lists[t].variable_indices = 1 .. m,
           \A k \in 1 .. m : LowValue(t, k) \in Int
    PROVE  \E p \in [1 .. m -> 1 .. m] :
              /\ \A j, k \in 1 .. m : p[j] = p[k] => j = k
              /\ \A k \in 1 .. m : \E j \in 1 .. m : p[j] = k
              /\ SortedList(t) = [k \in 1 .. m |-> LowValue(t, p[k])]
              /\ \A j, k \in 1 .. m : j < k => LowValue(t, p[j]) <= LowValue(t, p[k])
<1> DEFINE S == 1 .. m
           f == [k \in S |-> LowValue(t, k)]
           R == {e \in S \X S : f[e[1]] < f[e[2]] \/ (f[e[1]] = f[e[2]] /\ e[1] < e[2])}
           rank == Ranks(R, S)
           p == [k \in S |-> CHOOSE j \in S : rank[j] = k - 1]
<1>1. IsFiniteSet(S) /\ Cardinality(S) = m
  <2>1. 1 \in Int /\ m \in Int /\ (1 > m <=> m = 0)
    OBVIOUS
  <2>2. IsFiniteSet(S) /\ Cardinality(S) = IF 1 > m THEN 0 ELSE m - 1 + 1
    BY <2>1, FS_Interval
  <2> QED BY <2>1, <2>2
<1>2. \A x \in S : f[x] \in Int /\ x \in Int /\ f[x] = LowValue(t, x)
  OBVIOUS
<1>3. \A x, y \in S : <<x, y>> \in R <=> f[x] < f[y] \/ (f[x] = f[y] /\ x < y)
  OBVIOUS
<1> HIDE DEF f, R
<1>4a. \A x \in S : <<x, x>> \notin R
  BY <1>2, <1>3
<1>4b. \A x, y, z \in S : <<x, y>> \in R /\ <<y, z>> \in R => <<x, z>> \in R
  BY <1>2, <1>3
<1>4c. \A x, y \in S : x = y \/ <<x, y>> \in R \/ <<y, x>> \in R
  <2> SUFFICES ASSUME NEW x \in S, NEW y \in S, x # y PROVE <<x, y>> \in R \/ <<y, x>> \in R
    OBVIOUS
  <2>1. x < y \/ y < x
    BY <1>2
  <2>2. f[x] < f[y] \/ f[y] < f[x] \/ f[x] = f[y]
    BY <1>2
  <2> QED BY <1>3, <2>1, <2>2
<1>4. TotallyOrders(R, S)
  BY <1>4a, <1>4b, <1>4c DEF TotallyOrders
<1>5. rank = [x \in S |-> Cardinality({y \in S : <<y, x>> \in R})]
  BY DEF Ranks
<1> HIDE DEF S
<1>6. /\ \A x \in S : rank[x] \in 0 .. Cardinality(S) - 1
      /\ \A x, y \in S : <<x, y>> \in R => rank[x] < rank[y]
      /\ \A x, y \in S : rank[x] = rank[y] => x = y
      /\ \A n \in 0 .. Cardinality(S) - 1 : \E x \in S : rank[x] = n
  <2>1. IsFiniteSet(S)
    BY <1>1
  <2> QED BY <1>4, <2>1, RanksNumber
<1> HIDE DEF rank
<1>7. \A k \in S : k \in Int /\ k - 1 \in 0 .. m - 1
  BY DEF S
<1>8. \A k \in S : p[k] \in S /\ rank[p[k]] = k - 1
  <2> SUFFICES ASSUME NEW k \in S PROVE p[k] \in S /\ rank[p[k]] = k - 1
    OBVIOUS
  <2>1. \E j \in S : rank[j] = k - 1
    BY <1>1, <1>6, <1>7
  <2>2. p[k] = CHOOSE j \in S : rank[j] = k - 1
    OBVIOUS
  <2> QED BY <2>1, <2>2
<1>9. p \in [S -> S]
  BY <1>8
<1>10. \A k \in S : Place(t, k) = 1 + rank[k]
  <2> SUFFICES ASSUME NEW k \in S PROVE Place(t, k) = 1 + rank[k]
    OBVIOUS
  <2>1. {j \in DOMAIN range_lists[t].variable_indices :
            \/ LowValue(t, j) < LowValue(t, k)
            \/ LowValue(t, j) = LowValue(t, k) /\ j < k} = {y \in S : <<y, k>> \in R}
    BY <1>2, <1>3 DEF S
  <2> QED BY <1>5, <2>1 DEF Place
<1>11. \A k \in S : p[k] = CHOOSE j \in S : Place(t, j) = k
  <2> SUFFICES ASSUME NEW k \in S PROVE p[k] = CHOOSE j \in S : Place(t, j) = k
    OBVIOUS
  <2>1. \A j \in S : rank[j] \in Int
    BY <1>1, <1>6
  <2>2. \A j \in S : rank[j] = k - 1 <=> Place(t, j) = k
    BY <1>7, <1>10, <2>1
  <2>3. PICK i \in S : rank[i] = k - 1
    BY <1>8
  <2>4. \A j \in S : Place(t, j) = k <=> j = i
    BY <1>6, <2>2, <2>3
  <2>5. (CHOOSE j \in S : Place(t, j) = k) = i
    BY <2>4
  <2>6. p[k] = i
    BY <1>6, <1>8, <2>3
  <2> QED BY <2>5, <2>6
<1>12. SortedList(t) = [k \in S |-> LowValue(t, p[k])]
  <2>1. SortedList(t) = [k \in S |-> LowValue(t, CHOOSE j \in S : Place(t, j) = k)]
    BY DEF SortedList, S
  <2> QED BY <1>11, <2>1
<1> HIDE DEF p
<1>13. ASSUME NEW j \in S, NEW k \in S, p[j] = p[k] PROVE j = k
  <2>1. j - 1 = k - 1 /\ j \in Int /\ k \in Int
    BY <1>7, <1>8, <1>13
  <2> QED BY <2>1
<1>14. \A k \in S : \E j \in S : p[j] = k
  <2> SUFFICES ASSUME NEW k \in S PROVE \E j \in S : p[j] = k
    OBVIOUS
  <2>1. rank[k] \in 0 .. m - 1
    BY <1>1, <1>6
  <2>2. PICK j : j = rank[k] + 1
    OBVIOUS
  <2>3. j \in S /\ j - 1 = rank[k]
    BY <2>1, <2>2 DEF S
  <2>4. p[j] \in S /\ rank[p[j]] = rank[k]
    BY <1>8, <2>3
  <2>5. p[j] = k
    BY <1>6, <2>4
  <2> QED BY <2>3, <2>5
<1>15. ASSUME NEW j \in S, NEW k \in S, j < k PROVE LowValue(t, p[j]) <= LowValue(t, p[k])
  <2>1. p[j] \in S /\ p[k] \in S /\ rank[p[j]] < rank[p[k]]
    BY <1>7, <1>8, <1>15
  <2>2. PICK x \in S, y \in S : x = p[j] /\ y = p[k]
    BY <2>1
  <2>3. rank[x] \in Int /\ rank[y] \in Int /\ rank[x] < rank[y]
    BY <1>1, <1>6, <2>1, <2>2
  <2>4. <<y, x>> \notin R
    BY <1>6, <2>3
  <2>5. ~(f[y] < f[x])
    BY <1>3, <2>4
  <2>6. f[x] <= f[y]
    BY <1>2, <2>5
  <2> QED BY <1>2, <2>2, <2>6
<1> QED BY <1>9, <1>12, <1>13, <1>14, <1>15 DEF S

\* A sorted list with zero, the target and every multiple of three between
\* them climbs from zero to the target in steps of at most three.
LEMMA ListClimbs ==
    ASSUME NEW t \in Nat, NEW m \in Nat, NEW g,
           \A k \in 1 .. m : g[k] \in 0 .. t,
           \A j, k \in 1 .. m : j < k => g[j] <= g[k],
           \E k \in 1 .. m : g[k] = t,
           \A j \in 0 .. t \div 3 : \E k \in 1 .. m : g[k] = 3 * j
    PROVE  /\ m >= 1 /\ g[1] = 0 /\ g[m] = t
           /\ \A k \in 1 .. m - 1 : g[k + 1] - g[k] \in 0 .. 3
<1>1. t \div 3 \in Nat
  OBVIOUS
<1>2. PICK z \in 1 .. m : g[z] = 3 * 0
  BY <1>1
<1>3. PICK l \in 1 .. m : g[l] = t
  OBVIOUS
<1>4. m >= 1 /\ 1 \in 1 .. m /\ m \in 1 .. m
  BY <1>2
<1>5. g[1] = 0
  <2>1. g[1] \in 0 .. t /\ g[z] = 0 /\ (z = 1 \/ 1 < z)
    BY <1>2, <1>4
  <2>2. 1 < z => g[1] <= g[z]
    BY <1>4
  <2> QED BY <2>1, <2>2
<1>6. g[m] = t
  <2>1. g[m] \in 0 .. t /\ (l = m \/ l < m)
    BY <1>4
  <2>2. l < m => g[l] <= g[m]
    BY <1>4
  <2> QED BY <1>3, <2>1, <2>2
<1>7. ASSUME NEW k \in 1 .. m - 1 PROVE g[k + 1] - g[k] \in 0 .. 3
  <2>1. k \in 1 .. m /\ k + 1 \in 1 .. m /\ k < k + 1 /\ k \in Int
    OBVIOUS
  <2>2. PICK x, y : x = g[k] /\ y = g[k + 1]
    OBVIOUS
  <2>3. x \in 0 .. t /\ y \in 0 .. t /\ x <= y
    BY <2>1, <2>2
  <2>4. ASSUME NEW i \in 1 .. m, g[i] > x PROVE y <= g[i]
    <3>1. g[i] \in 0 .. t /\ i \in Int
      OBVIOUS
    <3>2. i > k
      <4> SUFFICES ASSUME ~(i > k) PROVE FALSE
        OBVIOUS
      <4>1. i = k \/ i < k
        BY <2>1, <3>1
      <4>2. i < k => g[i] <= g[k]
        BY <2>1
      <4> QED BY <2>2, <2>3, <2>4, <3>1, <4>1, <4>2
    <3>3. i = k + 1 \/ k + 1 < i
      BY <2>1, <3>1, <3>2
    <3>4. k + 1 < i => g[k + 1] <= g[i]
      BY <2>1
    <3> QED BY <2>2, <2>3, <3>1, <3>3, <3>4
  <2>5. CASE x = t
    BY <2>2, <2>3, <2>5
  <2>6. CASE x < t /\ x \div 3 + 1 <= t \div 3
    <3>1. PICK q : q = x \div 3
      OBVIOUS
    <3>2. q \in Nat /\ 3 * q <= x /\ x < 3 * q + 3 /\ q + 1 \in 0 .. t \div 3
      BY <1>1, <2>3, <2>6, <3>1
    <3>3. PICK i \in 1 .. m : g[i] = 3 * (q + 1)
      BY <3>2
    <3>4. y <= 3 * (q + 1)
      BY <2>3, <2>4, <3>2, <3>3
    <3> QED BY <2>2, <2>3, <3>2, <3>4
  <2>7. CASE x < t /\ ~(x \div 3 + 1 <= t \div 3)
    <3>1. t <= x + 3
      BY <2>3, <2>7
    <3>2. y <= t
      BY <2>3
    <3> QED BY <2>2, <2>3, <3>1, <3>2
  <2> QED BY <2>3, <2>5, <2>6, <2>7
<1> QED BY <1>4, <1>5, <1>6, <1>7

LEMMA TargetsAreNumbers == /\ Targets \subseteq Nat /\ LimbSize \in Nat /\ Values \subseteq Nat
                           /\ \A t \in Targets : t < LimbSize
<1>1. LimbSize \in Nat /\ Targets \subseteq 1 .. LimbSize - 1 /\ Values \subseteq Nat
  BY RangeAssumption
<1> QED BY <1>1

LEMMA ListTypes ==
    ASSUME ListInv, NEW t \in DOMAIN range_lists
    PROVE  /\ t \in Targets /\ t \in Nat /\ t < LimbSize
           /\ range_lists[t].variable_indices \in Seq(Int)
           /\ range_lists[t].range_tag # DUMMY_TAG
           /\ range_lists[t].range_tag \in DOMAIN tau /\ range_lists[t].tau_tag \in DOMAIN tau
<1>1. t \in Targets
  BY DEF ListInv
<1>2. range_lists[t] \in RangeList
  BY DEF ListInv
<1> QED BY <1>1, <1>2, TargetsAreNumbers DEF RangeList

\* The entries of the lists and the indices of their mirrors are one to one.
LEMMA MirrorsAreNew ==
    ASSUME IInv, ListInv
    PROVE  /\ \A t \in DOMAIN range_lists : \A k \in DOMAIN range_lists[t].variable_indices :
                /\ MirrorIndex(t, k) \in num_variables .. num_variables + Cardinality(Entries) - 1
                /\ MadeFor(MirrorIndex(t, k)) = <<t, k>>
           /\ \A i \in num_variables .. num_variables + Cardinality(Entries) - 1 :
                \E t \in DOMAIN range_lists : \E k \in DOMAIN range_lists[t].variable_indices :
                    MirrorIndex(t, k) = i
<1> DEFINE R == {e \in Entries \X Entries : e[1][1] < e[2][1] \/ (e[1][1] = e[2][1] /\ e[1][2] < e[2][2])}
           rank == Ranks(R, Entries)
           c == Cardinality(Entries)
<1>1. /\ \A e \in Entries : /\ e = <<e[1], e[2]>> /\ e[1] \in Int /\ e[2] \in Int
                             /\ e[1] \in DOMAIN range_lists
                             /\ e[2] \in DOMAIN range_lists[e[1]].variable_indices
      /\ \A t \in DOMAIN range_lists : \A k \in DOMAIN range_lists[t].variable_indices : <<t, k>> \in Entries
  <2>1. \A t \in DOMAIN range_lists : t \in Int
    BY ListTypes
  <2>2. \A t \in DOMAIN range_lists : range_lists[t].variable_indices \in Seq(Int)
    BY ListTypes
  <2>3. \A t \in DOMAIN range_lists : \A k \in DOMAIN range_lists[t].variable_indices : k \in Int
    BY <2>2
  <2> QED BY <2>1, <2>3 DEF Entries
<1>2. \A d, e \in Entries : <<d, e>> \in R <=> d[1] < e[1] \/ (d[1] = e[1] /\ d[2] < e[2])
  OBVIOUS
<1>3. IsFiniteSet(Entries) /\ c \in Nat /\ num_variables \in Nat
  BY EntriesFinite, CircuitAssumption DEF IInv, TypeOK
<1> HIDE DEF R
<1>4. TotallyOrders(R, Entries)
  <2>1. \A x \in Entries : <<x, x>> \notin R
    BY <1>1, <1>2
  <2>2. \A x, y, z \in Entries : <<x, y>> \in R /\ <<y, z>> \in R => <<x, z>> \in R
    BY <1>1, <1>2
  <2>3. ASSUME NEW x \in Entries, NEW y \in Entries, x # y PROVE <<x, y>> \in R \/ <<y, x>> \in R
    <3>1. x[1] # y[1] \/ x[2] # y[2]
      BY <1>1, <2>3
    <3>2. x[1] < y[1] \/ y[1] < x[1] \/ (x[1] = y[1] /\ (x[2] < y[2] \/ y[2] < x[2]))
      BY <1>1, <3>1
    <3> QED BY <1>2, <3>2
  <2> QED BY <2>1, <2>2, <2>3 DEF TotallyOrders
<1>5. rank = [x \in Entries |-> Cardinality({y \in Entries : <<y, x>> \in R})]
  BY DEF Ranks
<1>6. ASSUME NEW e \in Entries PROVE MirrorIndex(e[1], e[2]) = num_variables + rank[e]
  <2>1. {d \in Entries : d[1] < e[1] \/ (d[1] = e[1] /\ d[2] < e[2])} = {y \in Entries : <<y, e>> \in R}
    BY <1>2
  <2> QED BY <1>5, <2>1 DEF MirrorIndex
<1>7. /\ \A x \in Entries : rank[x] \in 0 .. c - 1
      /\ \A x, y \in Entries : rank[x] = rank[y] => x = y
      /\ \A n \in 0 .. c - 1 : \E x \in Entries : rank[x] = n
  BY <1>3, <1>4, RanksNumber
<1> HIDE DEF rank, c
<1>8. ASSUME NEW e \in Entries
      PROVE  /\ MirrorIndex(e[1], e[2]) \in num_variables .. num_variables + c - 1
             /\ MadeFor(MirrorIndex(e[1], e[2])) = e
  <2>1. PICK i : i = MirrorIndex(e[1], e[2])
    OBVIOUS
  <2>2. rank[e] \in 0 .. c - 1 /\ i = num_variables + rank[e]
    BY <1>6, <1>7, <2>1
  <2>3. i \in num_variables .. num_variables + c - 1
    BY <1>3, <2>2
  <2>4. \A d \in Entries : MirrorIndex(d[1], d[2]) = i <=> d = e
    <3> SUFFICES ASSUME NEW d \in Entries PROVE MirrorIndex(d[1], d[2]) = i <=> d = e
      OBVIOUS
    <3>1. rank[d] \in 0 .. c - 1 /\ MirrorIndex(d[1], d[2]) = num_variables + rank[d]
      BY <1>6, <1>7
    <3>2. MirrorIndex(d[1], d[2]) = i <=> rank[d] = rank[e]
      BY <1>3, <2>2, <3>1
    <3> QED BY <1>7, <3>2
  <2>5. MadeFor(i) = e
    BY <2>4 DEF MadeFor
  <2> QED BY <2>1, <2>3, <2>5
<1>9. ASSUME NEW i \in num_variables .. num_variables + c - 1
      PROVE  \E e \in Entries : MirrorIndex(e[1], e[2]) = i
  <2>1. PICK n : n = i - num_variables
    OBVIOUS
  <2>2. n \in 0 .. c - 1 /\ i = num_variables + n
    BY <1>3, <2>1
  <2>3. PICK e \in Entries : rank[e] = n
    BY <1>7, <2>2
  <2> QED BY <1>6, <2>2, <2>3
<1>10. ASSUME NEW t \in DOMAIN range_lists, NEW k \in DOMAIN range_lists[t].variable_indices
       PROVE  /\ MirrorIndex(t, k) \in num_variables .. num_variables + c - 1
              /\ MadeFor(MirrorIndex(t, k)) = <<t, k>>
  <2>1. PICK e \in Entries : e = <<t, k>>
    BY <1>1
  <2>2. e[1] = t /\ e[2] = k
    BY <2>1
  <2> QED BY <1>8, <2>1, <2>2
<1> QED BY <1>1, <1>9, <1>10 DEF c

-----------------------------------------------------------------------------
(***************************************************************************)
(* What a witness needs for every range check to hold, as long as no       *)
(* failure is reported.                                                    *)
(***************************************************************************)
Members(t) == DOMAIN range_lists[t].variable_indices
Member(t, k) == range_lists[t].variable_indices[k]

\* The two tags of a list are its own, and no variable carries its tau tag.
TagsApart ==
    \A t \in DOMAIN range_lists :
        /\ range_lists[t].tau_tag # DUMMY_TAG
        /\ \A u \in DOMAIN range_lists :
             /\ range_lists[t].range_tag # range_lists[u].tau_tag
             /\ t # u => /\ range_lists[t].range_tag # range_lists[u].range_tag
                         /\ range_lists[t].tau_tag # range_lists[u].tau_tag
        /\ \A i \in Indices : Tag(i) # range_lists[t].tau_tag

\* The members of a list are its classes, each once: the permutation argument
\* sees the class, the mirror counts the entry.
MembersTagged ==
    \A t \in DOMAIN range_lists : \A k \in Members(t) :
        Member(t, k) \in Indices /\ Tag(Member(t, k)) = range_lists[t].range_tag

MembersDistinct ==
    \A t \in DOMAIN range_lists : \A j, k \in Members(t) : Real(Member(t, j)) = Real(Member(t, k)) => j = k

MembersComplete ==
    \A t \in DOMAIN range_lists : \A r \in Reals :
        real_variable_tags[r] = range_lists[t].range_tag => \E k \in Members(t) : Real(Member(t, k)) = r

\* The values of a list: its steps are there, and every other one was asked
\* for and is in the range.
StepsPresent ==
    \A t \in DOMAIN range_lists : \A n \in DOMAIN StepValues(t) :
        \E k \in Members(t) : GetVariable(Member(t, k)) = StepValues(t)[n]

MembersBounded ==
    \A t \in DOMAIN range_lists : \A k \in Members(t) :
        /\ LowValue(t, k) <= t
        /\ \/ GetVariable(Member(t, k)) <= t
           \/ \E q \in requests : GetVariable(q[1]) = GetVariable(Member(t, k))

HonestLists ==
    /\ TagsApart
    /\ MembersTagged
    /\ MembersDistinct
    /\ MembersComplete
    /\ StepsPresent
    /\ MembersBounded
    /\ CopiesHold

HonestInv == ~circuit_finalised /\ ~failed => HonestLists

-----------------------------------------------------------------------------
(* The finalised circuit. *)

\* The values of a new list: the multiples of three and the target.
LEMMA StepsOfAList ==
    ASSUME NEW t \in Targets
    PROVE  /\ t \div 3 \in Nat
           /\ DOMAIN StepValues(t) = 1 .. t \div 3 + 2
           /\ StepValues(t)[t \div 3 + 2] = t
           /\ \A j \in 0 .. t \div 3 : StepValues(t)[j + 1] = 3 * j
           /\ \A n \in DOMAIN StepValues(t) : StepValues(t)[n] \in 0 .. t
<1>1. t \in Nat
  BY TargetsAreNumbers
<1>2. PICK d : d = t \div 3
  OBVIOUS
<1>3. d \in Nat /\ 3 * d <= t
  BY <1>1, <1>2
<1>4. PICK s : s = [k \in 1 .. d + 1 |-> (k - 1) * 3]
  OBVIOUS
<1>5. StepValues(t) = s \o <<t>>
  BY <1>2, <1>4 DEF StepValues, DEFAULT_PLOOKUP_RANGE_STEP_SIZE
<1>6. s \in Seq(Nat) /\ Len(s) = d + 1
  BY <1>3, <1>4
<1>7. PICK u : u = s \o <<t>>
  OBVIOUS
<1>8. /\ u \in Seq(Nat) /\ Len(u) = d + 2
      /\ u[d + 2] = t
      /\ \A k \in 1 .. d + 1 : u[k] = s[k]
  BY <1>1, <1>3, <1>6, <1>7
<1>9. DOMAIN u = 1 .. d + 2
  BY <1>3, <1>8
<1>10. ASSUME NEW j \in 0 .. d PROVE u[j + 1] = 3 * j
  <2>1. j + 1 \in 1 .. d + 1 /\ j \in Int
    BY <1>3
  <2>2. u[j + 1] = s[j + 1] /\ s[j + 1] = (j + 1 - 1) * 3
    BY <1>4, <1>8, <2>1
  <2> QED BY <2>1, <2>2
<1>11. ASSUME NEW n \in 1 .. d + 2 PROVE u[n] \in 0 .. t
  <2>1. CASE n = d + 2
    BY <1>1, <1>8, <2>1
  <2>2. CASE n # d + 2
    <3>1. PICK j : j = n - 1
      OBVIOUS
    <3>2. j \in 0 .. d /\ n = j + 1
      BY <1>3, <2>2, <3>1
    <3>3. u[n] = 3 * j
      BY <1>10, <3>2
    <3> QED BY <1>1, <1>3, <3>2, <3>3
  <2> QED BY <2>1, <2>2
<1> QED BY <1>2, <1>3, <1>5, <1>7, <1>8, <1>9, <1>10, <1>11

\* A set has as many elements as one it is in a one to one relation with.
LEMMA SameCount ==
    ASSUME NEW K, NEW A, NEW f, IsFiniteSet(K), f \in [K -> A],
           \A j, k \in K : f[j] = f[k] => j = k,
           \A a \in A : \E k \in K : f[k] = a
    PROVE  Cardinality(A) = Cardinality(K)
<1>1. f \in Bijection(K, A)
  BY DEF Bijection, Injection, Surjection, IsInjective
<1> QED BY <1>1, FS_Bijection DEF ExistsBijection

\* The variables and the mirrors of a circuit that is finalised with every
\* constrained value in a limb.
LEMMA MirrorVectors ==
    ASSUME IInv, ListInv, Finalise,
           NEW t \in DOMAIN range_lists, NEW k \in Members(t), NEW M, M = MirrorIndex(t, k)
    PROVE  /\ M \in Indices' /\ M \notin Indices
           /\ Real(M)' = M
           /\ GetVariable(M)' = SortedList(t)[k]
           /\ variables'[M] = SortedList(t)[k]
           /\ real_variable_tags'[M] = range_lists[t].tau_tag
<1>2. M \in num_variables .. num_variables + Cardinality(Entries) - 1 /\ MadeFor(M) = <<t, k>>
  BY MirrorsAreNew DEF Members
<1>3. num_variables \in Nat /\ Cardinality(Entries) \in Nat
  BY EntriesFinite, CircuitAssumption DEF IInv, TypeOK
<1>4. num_variables' = num_variables + Cardinality(Entries) /\ Indices' = 0 .. num_variables' - 1
  BY FinaliseVectors
<1>5. M \in Indices' /\ M \notin Indices
  BY <1>2, <1>3, <1>4 DEF Indices
<1>6. /\ Real(M)' = M
      /\ variables'[M] = MirrorValues[M - num_variables + 1]
      /\ real_variable_tags'[M] = range_lists[MadeFor(M)[1]].tau_tag
  BY <1>5, FinaliseVectors
<1>7. PICK n : n = M - num_variables + 1
  OBVIOUS
<1>8. n \in 1 .. Cardinality(Entries) /\ num_variables + n - 1 = M
  BY <1>2, <1>3, <1>7
<1>9. MirrorValues[n] = SortedList(MadeFor(M)[1])[MadeFor(M)[2]]
  BY <1>8 DEF MirrorValues
<1>10. MadeFor(M)[1] = t /\ MadeFor(M)[2] = k
  BY <1>2
<1>11. variables'[M] = SortedList(t)[k] /\ real_variable_tags'[M] = range_lists[t].tau_tag
  BY <1>6, <1>7, <1>9, <1>10
<1>12. GetVariable(M)' = SortedList(t)[k]
  BY <1>6, <1>11 DEF GetVariable
<1> QED BY <1>5, <1>6, <1>11, <1>12

\* The variables there were before keep their classes, values and tags.
LEMMA FinaliseKeeps ==
    ASSUME IInv, ListInv, Finalise, NEW i \in Indices
    PROVE  /\ i \in Indices' /\ Real(i) \in Indices
           /\ Real(i)' = Real(i) /\ GetVariable(i)' = GetVariable(i)
           /\ variables'[i] = variables[i] /\ real_variable_tags'[i] = real_variable_tags[i]
<1>1. Real(i) \in Indices
  BY DEF IInv, TypeOK, Real
<1>2. Indices \subseteq Indices'
  BY FinaliseVectors
<1>3. Real(i)' = Real(i) /\ variables'[Real(i)] = variables[Real(i)]
  BY <1>1, <1>2, FinaliseVectors
<1>4. variables'[i] = variables[i] /\ real_variable_tags'[i] = real_variable_tags[i]
  BY <1>2, FinaliseVectors
<1> QED BY <1>1, <1>2, <1>3, <1>4 DEF GetVariable

\* The values of a list are its limbs and lie in the range.
LEMMA HonestValues ==
    ASSUME IInv, ListInv, HonestLists, \A q \in requests : GetVariable(q[1]) < LimbSize,
           NEW t \in DOMAIN range_lists, NEW k \in Members(t)
    PROVE  LowValue(t, k) = GetVariable(Member(t, k)) /\ LowValue(t, k) \in 0 .. t
<1>1. PICK v : v = GetVariable(Member(t, k))
  OBVIOUS
<1>2. Member(t, k) \in Indices
  BY DEF HonestLists, MembersTagged
<1>3. v \in Nat
  BY <1>1, <1>2, TargetsAreNumbers DEF IInv, TypeOK, GetVariable, Real
<1>4. t \in Nat /\ t < LimbSize /\ LimbSize \in Nat
  BY ListTypes, TargetsAreNumbers
<1>5. v < LimbSize
  <2>1. v <= t \/ \E q \in requests : GetVariable(q[1]) = v
    BY <1>1 DEF HonestLists, MembersBounded
  <2>2. CASE v <= t
    BY <1>3, <1>4, <2>2
  <2>3. CASE \E q \in requests : GetVariable(q[1]) = v
    BY <2>3
  <2> QED BY <2>1, <2>2, <2>3
<1>6. v % LimbSize = v
  BY <1>3, <1>4, <1>5
<1>7. LowValue(t, k) = v
  BY <1>1, <1>6 DEF LowValue, Low, Member
<1>8. LowValue(t, k) <= t
  BY DEF HonestLists, MembersBounded
<1> QED BY <1>1, <1>3, <1>4, <1>7, <1>8

\* q is f followed by g.
IsJoin(q, f, g) ==
    /\ Len(q) = Len(f) + Len(g)
    /\ \A i \in 1 .. Len(f) + Len(g) : q[i] = IF i <= Len(f) THEN f[i] ELSE g[i - Len(f)]

LEMMA Joined ==
    ASSUME NEW S, NEW f \in Seq(S), NEW g \in Seq(S)
    PROVE  f \o g \in Seq(S) /\ IsJoin(f \o g, f, g)
BY ConcatProperties, Zenon DEF IsJoin

\* Zeros in front of a climb from zero leave it a climb.
ClimbsTo(g, m, t) ==
    /\ m >= 1 /\ g[1] = 0 /\ g[m] = t
    /\ \A k \in 1 .. m : g[k] \in Int
    /\ \A k \in 1 .. m - 1 : g[k + 1] - g[k] \in 0 .. 3

Padded(P, m, g) == [k \in 1 .. P |-> 0] \o [k \in 1 .. m |-> g[k]]

RampsTo(w, t) ==
    /\ Head(w) = 0 /\ Last(w) = t
    /\ \A k \in 1 .. Len(w) - 1 : w[k + 1] - w[k] \in 0 .. 3

LEMMA PaddedClimb ==
    ASSUME NEW P \in Nat, NEW m \in Nat, NEW t \in Nat, NEW g, NEW w,
           ClimbsTo(g, m, t), w = Padded(P, m, g)
    PROVE  RampsTo(w, t)
<1>0. /\ m >= 1 /\ g[1] = 0 /\ g[m] = t
      /\ \A k \in 1 .. m : g[k] \in Int
      /\ \A k \in 1 .. m - 1 : g[k + 1] - g[k] \in 0 .. 3
      /\ w = [k \in 1 .. P |-> 0] \o [k \in 1 .. m |-> g[k]]
  BY DEF ClimbsTo, Padded
<1>1. PICK x, y : x = [k \in 1 .. P |-> 0] /\ y = [k \in 1 .. m |-> g[k]]
  OBVIOUS
<1>2. x \in Seq(Int) /\ Len(x) = P /\ y \in Seq(Int) /\ Len(y) = m
  BY <1>0, <1>1
<1>3. w = x \o y
  BY <1>0, <1>1
<1>4. /\ w \in Seq(Int) /\ Len(w) = P + m
      /\ \A k \in 1 .. P : w[k] = x[k]
      /\ \A k \in P + 1 .. P + m : w[k] = y[k - P]
  <2>1. IsJoin(w, x, y) /\ w \in Seq(Int)
    BY <1>2, <1>3, Joined, Zenon
  <2>2. Len(w) = P + m
    BY <1>2, <2>1 DEF IsJoin
  <2>3. ASSUME NEW k \in 1 .. P PROVE w[k] = x[k]
    <3>1. k \in 1 .. Len(x) + Len(y) /\ k <= Len(x)
      BY <1>2
    <3> QED BY <2>1, <3>1 DEF IsJoin
  <2>4. ASSUME NEW k \in P + 1 .. P + m PROVE w[k] = y[k - P]
    <3>1. k \in 1 .. Len(x) + Len(y) /\ ~(k <= Len(x)) /\ k - Len(x) = k - P
      BY <1>2
    <3> QED BY <2>1, <3>1 DEF IsJoin
  <2> QED BY <2>1, <2>2, <2>3, <2>4
<1>5. \A k \in 1 .. P : w[k] = 0
  BY <1>1, <1>4
<1>6. \A k \in P + 1 .. P + m : w[k] = g[k - P]
  BY <1>1, <1>4
<1>7. w[1] = 0
  <2>1. CASE P = 0
    <3>1. 1 \in P + 1 .. P + m /\ 1 - P = 1
      BY <1>0, <2>1
    <3> QED BY <1>0, <1>6, <3>1
  <2>2. CASE P # 0
    <3>1. 1 \in 1 .. P
      BY <2>2
    <3> QED BY <1>5, <3>1
  <2> QED BY <2>1, <2>2
<1>8. Head(w) = 0
  <2>1. Len(w) # 0
    BY <1>0, <1>4
  <2>2. Head(w) = w[1]
    BY <1>4, <2>1
  <2> QED BY <1>7, <2>2
<1>9. Last(w) = t
  <2>1. P + m \in P + 1 .. P + m /\ P + m - P = m
    BY <1>0
  <2> QED BY <1>0, <1>4, <1>6, <2>1 DEF Last
<1>10. ASSUME NEW k \in 1 .. Len(w) - 1 PROVE w[k + 1] - w[k] \in 0 .. 3
  <2>1. k \in 1 .. P + m - 1 /\ k \in Int
    BY <1>4
  <2>2. CASE k < P
    <3>1. k \in 1 .. P /\ k + 1 \in 1 .. P
      BY <2>1, <2>2
    <3> QED BY <1>5, <3>1
  <2>3. CASE k = P
    <3>1. k \in 1 .. P /\ k + 1 \in P + 1 .. P + m /\ k + 1 - P = 1
      BY <1>0, <2>1, <2>3
    <3>2. w[k] = 0 /\ w[k + 1] = 0
      BY <1>0, <1>5, <1>6, <3>1
    <3> QED BY <3>2
  <2>4. CASE k > P
    <3>1. PICK j : j = k - P
      OBVIOUS
    <3>2. /\ j \in 1 .. m - 1 /\ k \in P + 1 .. P + m /\ k + 1 \in P + 1 .. P + m
          /\ k + 1 - P = j + 1
      BY <2>1, <2>4, <3>1
    <3>3. w[k] = g[j] /\ w[k + 1] = g[j + 1]
      BY <1>6, <3>1, <3>2
    <3> QED BY <1>0, <3>2, <3>3
  <2> QED BY <2>1, <2>2, <2>3, <2>4
<1> QED BY <1>8, <1>9, <1>10 DEF RampsTo

\* The sorted list holds the values of the list in the order p.
IsMirrorOf(t, m, p) ==
    /\ Members(t) = 1 .. m
    /\ p \in [1 .. m -> 1 .. m]
    /\ \A j, k \in 1 .. m : p[j] = p[k] => j = k
    /\ \A k \in 1 .. m : \E j \in 1 .. m : p[j] = k
    /\ \A k \in 1 .. m : SortedList(t)[k] = GetVariable(Member(t, p[k])) /\ SortedList(t)[k] \in 0 .. t
    /\ \A j, k \in 1 .. m : j < k => SortedList(t)[j] <= SortedList(t)[k]

LEMMA MirrorIsSorted ==
    ASSUME IInv, ListInv, HonestLists, \A q \in requests : GetVariable(q[1]) < LimbSize,
           NEW t \in DOMAIN range_lists
    PROVE  \E m \in Nat : \E p : IsMirrorOf(t, m, p)
<1>1. PICK m \in Nat : Members(t) = 1 .. m
  BY ListTypes DEF Members
<1>2. \A k \in 1 .. m : LowValue(t, k) = GetVariable(Member(t, k)) /\ LowValue(t, k) \in 0 .. t
  BY <1>1, HonestValues
<1>3. \A k \in 1 .. m : LowValue(t, k) \in Int
  BY <1>2, ListTypes
<1>4. PICK p \in [1 .. m -> 1 .. m] :
              /\ \A j, k \in 1 .. m : p[j] = p[k] => j = k
              /\ \A k \in 1 .. m : \E j \in 1 .. m : p[j] = k
              /\ SortedList(t) = [k \in 1 .. m |-> LowValue(t, p[k])]
              /\ \A j, k \in 1 .. m : j < k => LowValue(t, p[j]) <= LowValue(t, p[k])
  BY <1>1, <1>3, SortedListSorts DEF Members
<1>5. \A k \in 1 .. m : p[k] \in 1 .. m /\ SortedList(t)[k] = LowValue(t, p[k])
  BY <1>4
<1>6. \A k \in 1 .. m : SortedList(t)[k] = GetVariable(Member(t, p[k])) /\ SortedList(t)[k] \in 0 .. t
  BY <1>2, <1>5
<1>7. \A j, k \in 1 .. m : j < k => SortedList(t)[j] <= SortedList(t)[k]
  BY <1>4, <1>5
<1>8. IsMirrorOf(t, m, p)
  BY <1>1, <1>4, <1>6, <1>7 DEF IsMirrorOf
<1> QED BY <1>8

\* The sort constraint of a list holds of its mirror.
LEMMA SortsHonestly ==
    ASSUME IInv, ListInv, HonestLists, \A q \in requests : GetVariable(q[1]) < LimbSize, Finalise,
           NEW t \in DOMAIN range_lists
    PROVE  SortConstraintHolds(t)'
<1>0. PICK m \in Nat : \E p : IsMirrorOf(t, m, p)
  BY MirrorIsSorted
<1>1. PICK p : IsMirrorOf(t, m, p)
  BY <1>0
<1>2. PICK g : g = SortedList(t)
  OBVIOUS
<1>3. t \in Nat /\ t \in Targets
  BY ListTypes
<1>4. ASSUME NEW n \in DOMAIN StepValues(t) PROVE \E k \in 1 .. m : g[k] = StepValues(t)[n]
  <2>1. PICK k \in 1 .. m : GetVariable(Member(t, k)) = StepValues(t)[n]
    BY <1>1 DEF HonestLists, StepsPresent, IsMirrorOf
  <2>2. PICK j \in 1 .. m : p[j] = k
    BY <1>1 DEF IsMirrorOf
  <2> QED BY <1>1, <1>2, <2>1, <2>2 DEF IsMirrorOf
<1>5. \E k \in 1 .. m : g[k] = t
  <2>1. t \div 3 + 2 \in DOMAIN StepValues(t) /\ StepValues(t)[t \div 3 + 2] = t
    BY <1>3, StepsOfAList
  <2> QED BY <1>4, <2>1
<1>6. ASSUME NEW j \in 0 .. t \div 3 PROVE \E k \in 1 .. m : g[k] = 3 * j
  <2>1. j + 1 \in DOMAIN StepValues(t) /\ StepValues(t)[j + 1] = 3 * j
    BY <1>3, StepsOfAList
  <2> QED BY <1>4, <2>1
<1>7. \A k \in 1 .. m : g[k] \in 0 .. t
  BY <1>1, <1>2 DEF IsMirrorOf
<1>8. \A j, k \in 1 .. m : j < k => g[j] <= g[k]
  BY <1>1, <1>2 DEF IsMirrorOf
<1>9. /\ m >= 1 /\ g[1] = 0 /\ g[m] = t
      /\ \A k \in 1 .. m - 1 : g[k + 1] - g[k] \in 0 .. 3
  BY <1>3, <1>5, <1>6, <1>7, <1>8, ListClimbs
<1>10. PICK M : M = mirrors'[t]
  OBVIOUS
<1>11. M = [k \in 1 .. m |-> MirrorIndex(t, k)]
  BY <1>1, <1>10 DEF Finalise, Members, IsMirrorOf
<1>12. Len(M) = m /\ \A k \in 1 .. m : M[k] = MirrorIndex(t, k)
  BY <1>11
<1>13. \A k \in 1 .. m : GetVariable(M[k])' = g[k]
  <2> SUFFICES ASSUME NEW k \in 1 .. m PROVE GetVariable(M[k])' = g[k]
    OBVIOUS
  <2>1. M[k] = MirrorIndex(t, k) /\ k \in Members(t)
    BY <1>1, <1>12 DEF IsMirrorOf
  <2>2. PICK i : i = M[k]
    OBVIOUS
  <2>3. GetVariable(i)' = SortedList(t)[k]
    BY <2>1, <2>2, MirrorVectors
  <2> QED BY <1>2, <2>2, <2>3
<1>14. PICK P : P = ((ProgramWidth - (m % ProgramWidth)) % ProgramWidth)
                   + (IF m <= ProgramWidth THEN ProgramWidth ELSE 0)
  OBVIOUS
<1>15. P \in Nat
  <2>1. m % 4 \in 0 .. 3
    OBVIOUS
  <2>2. (4 - (m % 4)) % 4 \in 0 .. 3
    BY <2>1
  <2> QED BY <1>14, <2>2 DEF ProgramWidth
<1>16. PICK w : w = SortedWires(t)'
  OBVIOUS
<1>17. w = [k \in 1 .. P |-> 0] \o [k \in 1 .. m |-> GetVariable(M[k])']
  BY <1>10, <1>12, <1>14, <1>16 DEF SortedWires, ProgramWidth
<1>18. [k \in 1 .. m |-> GetVariable(M[k])'] = [k \in 1 .. m |-> g[k]]
  BY <1>13
<1>19. w = Padded(P, m, g)
  BY <1>17, <1>18 DEF Padded
<1>20. ClimbsTo(g, m, t)
  <2>1. \A k \in 1 .. m : g[k] \in Int
    BY <1>3, <1>7
  <2> QED BY <1>9, <2>1 DEF ClimbsTo
<1>21. RampsTo(w, t)
  BY <1>3, <1>15, <1>19, <1>20, PaddedClimb
<1> QED BY <1>16, <1>21 DEF RampsTo, SortConstraintHolds, DEFAULT_PLOOKUP_RANGE_STEP_SIZE

\* A list and its mirror hold the same values, each as often.
LEMMA CountsMatch ==
    ASSUME IInv, ListInv, HonestLists, \A q \in requests : GetVariable(q[1]) < LimbSize, Finalise,
           NEW t \in DOMAIN range_lists
    PROVE  SetEqualityHolds(t)'
<1>0. PICK m \in Nat : \E p : IsMirrorOf(t, m, p)
  BY MirrorIsSorted
<1>1. PICK p : IsMirrorOf(t, m, p)
  BY <1>0
<1>2. /\ Members(t) = 1 .. m /\ p \in [1 .. m -> 1 .. m]
      /\ \A j, k \in 1 .. m : p[j] = p[k] => j = k
      /\ \A k \in 1 .. m : \E j \in 1 .. m : p[j] = k
      /\ \A k \in 1 .. m : SortedList(t)[k] = GetVariable(Member(t, p[k]))
  BY <1>1 DEF IsMirrorOf
<1>3. range_lists' = range_lists
  BY DEF Finalise
<1>4. PICK rt, tt : rt = range_lists[t].range_tag /\ tt = range_lists[t].tau_tag
  OBVIOUS
<1> SUFFICES ASSUME NEW x
             PROVE  TimesUnder(rt, x)' = TimesUnder(tt, x)'
  BY <1>3, <1>4 DEF SetEqualityHolds
<1> DEFINE K == {k \in 1 .. m : GetVariable(Member(t, k)) = x}
           A == {r \in Reals' : real_variable_tags'[r] = rt /\ variables'[r] = x}
           B == {r \in Reals' : real_variable_tags'[r] = tt /\ variables'[r] = x}
           f == [k \in K |-> Real(Member(t, k))]
           J == {j \in 1 .. m : GetVariable(Member(t, p[j])) = x}
           g == [j \in J |-> p[j]]
           h == [j \in J |-> MirrorIndex(t, j)]
<1>5. Reals' = {i \in Indices' : Real(i)' = i}
  BY DEF Reals
<1>6. ASSUME NEW k \in 1 .. m
      PROVE  /\ Member(t, k) \in Indices /\ Real(Member(t, k)) \in Indices
             /\ Real(Real(Member(t, k))) = Real(Member(t, k))
             /\ real_variable_tags[Real(Member(t, k))] = rt
             /\ variables[Real(Member(t, k))] = GetVariable(Member(t, k))
  <2>1. Member(t, k) \in Indices /\ Tag(Member(t, k)) = rt
    BY <1>2, <1>4 DEF HonestLists, MembersTagged
  <2>2. Real(Member(t, k)) \in Indices
    BY <2>1, FinaliseKeeps
  <2> QED BY <2>1, <2>2 DEF IInv, ChainInv, RealIsLast, Tag, GetVariable
\* Every new index is the mirror of an entry.
<1>7. ASSUME NEW i \in Indices', i \notin Indices
      PROVE  \E u \in DOMAIN range_lists : \E k \in Members(u) : i = MirrorIndex(u, k)
  <2>1. num_variables \in Nat /\ Cardinality(Entries) \in Nat
    BY EntriesFinite, CircuitAssumption DEF IInv, TypeOK
  <2>2. PICK n : n = num_variables'
    OBVIOUS
  <2>3. n = num_variables + Cardinality(Entries) /\ i \in 0 .. n - 1
    BY <1>7, <2>2, FinaliseVectors
  <2>4. ~(i \in 0 .. num_variables - 1)
    BY <1>7 DEF Indices
  <2>5. i \in num_variables .. num_variables + Cardinality(Entries) - 1
    BY <2>1, <2>3, <2>4
  <2> QED BY <2>5, MirrorsAreNew DEF Members
\* The classes of the list.
<1>8. Cardinality(A) = Cardinality(K)
  <2>1. IsFiniteSet(K)
    <3>1. IsFiniteSet(1 .. m)
      BY FS_Interval
    <3> QED BY <3>1, FS_Subset
  <2>2. ASSUME NEW k \in K PROVE f[k] \in A
    <3>1. PICK r : r = Real(Member(t, k))
      OBVIOUS
    <3>2. r \in Indices /\ Real(r) = r /\ real_variable_tags[r] = rt /\ variables[r] = x
      BY <1>6, <3>1
    <3>3. r \in Indices' /\ Real(r)' = r /\ real_variable_tags'[r] = rt /\ variables'[r] = x
      BY <3>2, FinaliseKeeps
    <3>4. r \in A
      BY <1>5, <3>3
    <3> QED BY <3>1, <3>4
  <2>3. ASSUME NEW j \in K, NEW k \in K, f[j] = f[k] PROVE j = k
    <3>1. Real(Member(t, j)) = Real(Member(t, k)) /\ j \in Members(t) /\ k \in Members(t)
      BY <1>2, <2>3
    <3> QED BY <3>1 DEF HonestLists, MembersDistinct
  <2>4. ASSUME NEW r \in A PROVE \E k \in K : f[k] = r
    <3>1. r \in Indices' /\ Real(r)' = r /\ real_variable_tags'[r] = rt /\ variables'[r] = x
      BY <1>5
    <3>2. r \in Indices
      <4> SUFFICES ASSUME r \notin Indices PROVE FALSE
        OBVIOUS
      <4>1. PICK u \in DOMAIN range_lists : \E k \in Members(u) : r = MirrorIndex(u, k)
        BY <1>7, <3>1
      <4>2. real_variable_tags'[r] = range_lists[u].tau_tag
        BY <4>1, MirrorVectors
      <4> QED BY <1>4, <3>1, <4>2 DEF HonestLists, TagsApart
    <3>3. Real(r) = r /\ real_variable_tags[r] = rt /\ variables[r] = x
      BY <3>1, <3>2, FinaliseKeeps
    <3>4. PICK k \in Members(t) : Real(Member(t, k)) = r
      BY <1>4, <3>2, <3>3 DEF HonestLists, MembersComplete, Reals
    <3>5. k \in K
      BY <1>2, <1>6, <3>3, <3>4
    <3> QED BY <3>4, <3>5
  <2>5. f \in [K -> A]
    BY <2>2
  <2> HIDE DEF K, A, f
  <2> QED BY <2>1, <2>3, <2>4, <2>5, SameCount
\* The entries in order, and their mirrors.
<1>9. IsFiniteSet(J)
  <2>1. IsFiniteSet(1 .. m)
    BY FS_Interval
  <2> QED BY <2>1, FS_Subset
<1>10. Cardinality(K) = Cardinality(J)
  <2>1. \A j \in J : g[j] \in K
    BY <1>2
  <2>2. g \in [J -> K]
    BY <2>1
  <2>3. \A j, k \in J : g[j] = g[k] => j = k
    BY <1>2
  <2>4. ASSUME NEW k \in K PROVE \E j \in J : g[j] = k
    <3>1. PICK j \in 1 .. m : p[j] = k
      BY <1>2
    <3>2. j \in J
      BY <3>1
    <3> QED BY <3>1, <3>2
  <2> HIDE DEF K, J, g
  <2> QED BY <1>9, <2>2, <2>3, <2>4, SameCount
<1>11. Cardinality(B) = Cardinality(J)
  <2>2. ASSUME NEW j \in J PROVE h[j] \in B
    <3>1. PICK i : i = MirrorIndex(t, j)
      OBVIOUS
    <3>2. j \in Members(t) /\ SortedList(t)[j] = x
      BY <1>2
    <3>3. i \in Indices' /\ Real(i)' = i /\ variables'[i] = x /\ real_variable_tags'[i] = tt
      BY <1>4, <3>1, <3>2, MirrorVectors
    <3>4. i \in B
      BY <1>5, <3>3
    <3> QED BY <3>1, <3>4
  <2>3. ASSUME NEW j \in J, NEW k \in J, h[j] = h[k] PROVE j = k
    <3>1. MirrorIndex(t, j) = MirrorIndex(t, k)
      BY <2>3
    <3>2. j \in DOMAIN range_lists[t].variable_indices /\ k \in DOMAIN range_lists[t].variable_indices
      BY <1>2 DEF Members
    <3>3. MadeFor(MirrorIndex(t, j)) = <<t, j>> /\ MadeFor(MirrorIndex(t, k)) = <<t, k>>
      BY <3>2, MirrorsAreNew
    <3>4. <<t, j>> = <<t, k>>
      BY <3>1, <3>3
    <3> QED BY <3>4
  <2>4. ASSUME NEW r \in B PROVE \E j \in J : h[j] = r
    <3>1. r \in Indices' /\ Real(r)' = r /\ real_variable_tags'[r] = tt /\ variables'[r] = x
      BY <1>5
    <3>2. r \notin Indices
      <4> SUFFICES ASSUME r \in Indices PROVE FALSE
        OBVIOUS
      <4>1. Real(r) = r /\ real_variable_tags[r] = tt
        BY <3>1, FinaliseKeeps
      <4>2. Tag(r) = tt
        BY <4>1 DEF Tag
      <4> QED BY <1>4, <4>2 DEF HonestLists, TagsApart
    <3>3. PICK u \in DOMAIN range_lists : \E k \in Members(u) : r = MirrorIndex(u, k)
      BY <1>7, <3>1, <3>2
    <3>4. PICK k \in Members(u) : r = MirrorIndex(u, k)
      BY <3>3
    <3>5. real_variable_tags'[r] = range_lists[u].tau_tag /\ variables'[r] = SortedList(u)[k]
      BY <3>4, MirrorVectors
    <3>6. u = t
      BY <1>4, <3>1, <3>5 DEF HonestLists, TagsApart
    <3>7. k \in J
      BY <1>2, <3>1, <3>4, <3>5, <3>6
    <3> QED BY <3>4, <3>6, <3>7
  <2>5. h \in [J -> B]
    BY <2>2
  <2> HIDE DEF J, B, h
  <2> QED BY <1>9, <2>3, <2>4, <2>5, SameCount
<1>12. TimesUnder(rt, x)' = Cardinality(A) /\ TimesUnder(tt, x)' = Cardinality(B)
  BY DEF TimesUnder
<1> QED BY <1>8, <1>10, <1>11, <1>12

\* A circuit finalised without a failure is satisfied by its own witness.
LEMMA FinaliseSatisfies ==
    ASSUME IInv, ListInv, ~failed => HonestLists, Finalise
    PROVE  RangeChecksSatisfiable'
<1>1. UNCHANGED <<failed, range_lists, copies, requests>>
  BY DEF Finalise
<1>2. \A q \in requests : q[1] \in Indices
  BY DEF ListInv
<1>3. \A c \in copies : c[1] \in Indices /\ c[2] \in Indices
  BY DEF ListInv
<1>4. \A i \in Indices : GetVariable(i)' = GetVariable(i)
  BY FinaliseKeeps
<1> SUFFICES ASSUME ~failed, \A q \in requests : GetVariable(q[1])' < LimbSize
             PROVE  CopiesHold' /\ \A t \in DOMAIN range_lists : SortConstraintHolds(t)' /\ SetEqualityHolds(t)'
  BY <1>1 DEF RangeChecksSatisfiable
<1>5. HonestLists
  OBVIOUS
<1>6. \A q \in requests : GetVariable(q[1]) < LimbSize
  BY <1>2, <1>4
<1>7. CopiesHold'
  BY <1>1, <1>3, <1>4, <1>5 DEF HonestLists, CopiesHold
<1>8. \A t \in DOMAIN range_lists : SortConstraintHolds(t)'
  BY <1>5, <1>6, SortsHonestly
<1>9. \A t \in DOMAIN range_lists : SetEqualityHolds(t)'
  BY <1>5, <1>6, CountsMatch
<1> QED BY <1>7, <1>8, <1>9

-----------------------------------------------------------------------------
(* The steps while the circuit is built. *)

LEMMA HonestInit == RangeInit => HonestLists
<1> SUFFICES ASSUME RangeInit PROVE HonestLists
  OBVIOUS
<1>1. DOMAIN range_lists = {} /\ copies = {}
  BY DEF RangeInit, EmptyVector
<1> QED BY <1>1 DEF HonestLists, TagsApart, MembersTagged, MembersDistinct, MembersComplete,
              StepsPresent, MembersBounded, CopiesHold

\* Lists of classes that keep their values and tags keep their members.
LEMMA ListsKept ==
    ASSUME ListInv, HonestLists, UNCHANGED <<range_lists, copies, requests>>,
           \A i \in Indices : /\ i \in Indices' /\ GetVariable(i)' = GetVariable(i)
                              /\ Tag(i) # DUMMY_TAG => Tag(i)' = Tag(i)
    PROVE  MembersTagged' /\ StepsPresent' /\ MembersBounded' /\ CopiesHold'
<1>1. \A t \in DOMAIN range_lists : \A k \in Members(t) : Members(t)' = Members(t) /\ Member(t, k)' = Member(t, k)
  BY DEF Members, Member
<1>2. \A t \in DOMAIN range_lists : Members(t)' = Members(t)
  BY DEF Members
<1>3. \A t \in DOMAIN range_lists : \A k \in Members(t) :
         /\ Member(t, k) \in Indices /\ Tag(Member(t, k)) = range_lists[t].range_tag
         /\ range_lists[t].range_tag # DUMMY_TAG
  BY ListTypes DEF HonestLists, MembersTagged
<1>4. \A t \in DOMAIN range_lists : \A k \in Members(t) :
         /\ Member(t, k) \in Indices' /\ Tag(Member(t, k))' = range_lists[t].range_tag
         /\ GetVariable(Member(t, k))' = GetVariable(Member(t, k))
  <2> SUFFICES ASSUME NEW t \in DOMAIN range_lists, NEW k \in Members(t)
               PROVE  /\ Member(t, k) \in Indices' /\ Tag(Member(t, k))' = range_lists[t].range_tag
                      /\ GetVariable(Member(t, k))' = GetVariable(Member(t, k))
    OBVIOUS
  <2>1. PICK i : i = Member(t, k)
    OBVIOUS
  <2>2. Member(t, k)' = i
    BY <1>1, <2>1
  <2>3. i \in Indices' /\ Tag(i)' = range_lists[t].range_tag /\ GetVariable(i)' = GetVariable(i)
    BY <1>3, <2>1
  <2> QED BY <2>1, <2>2, <2>3
<1>5. MembersTagged'
  BY <1>1, <1>2, <1>4 DEF MembersTagged
<1>6. StepsPresent'
  BY <1>2, <1>4 DEF HonestLists, StepsPresent
<1>7. MembersBounded'
  <2>1. \A t \in DOMAIN range_lists : \A k \in Members(t) : LowValue(t, k)' = LowValue(t, k)
    BY <1>4 DEF LowValue, Member
  <2>2. \A q \in requests : q[1] \in Indices
    BY DEF ListInv
  <2> QED BY <1>2, <1>4, <2>1, <2>2 DEF HonestLists, MembersBounded
<1>8. CopiesHold'
  <2>1. \A c \in copies : c[1] \in Indices /\ c[2] \in Indices
    BY DEF ListInv
  <2> QED BY <2>1 DEF HonestLists, CopiesHold
<1> QED BY <1>5, <1>6, <1>7, <1>8

\* A new variable of the caller has no tag.
LEMMA HonestNewVariable ==
    ASSUME IInv, ListInv, HonestLists, NEW v \in Values, NewVariable(v),
           UNCHANGED <<range_lists, copies, requests>>
    PROVE  HonestLists'
<1>1. Indices' = Indices \cup {num_variables} /\ num_variables \notin Indices
  BY IndicesGrow
<1>2. PICK n : n = num_variables
  OBVIOUS
<1>3. /\ \A i \in Indices : /\ real_variable_index'[i] = real_variable_index[i]
                             /\ variables'[i] = variables[i] /\ real_variable_tags'[i] = real_variable_tags[i]
      /\ real_variable_index'[n] = n /\ real_variable_tags'[n] = DUMMY_TAG
  BY <1>1, <1>2, IndicesGrow DEF NewVariable, Push
<1>4. \A i \in Indices : real_variable_index[i] \in Indices
  BY DEF IInv, TypeOK
<1>5. \A i \in Indices : /\ i \in Indices' /\ Real(i) \in Indices /\ Real(i)' = Real(i)
                         /\ GetVariable(i)' = GetVariable(i) /\ Tag(i)' = Tag(i)
  BY <1>1, <1>3, <1>4 DEF Real, GetVariable, Tag
<1>6. MembersTagged' /\ StepsPresent' /\ MembersBounded' /\ CopiesHold'
  BY <1>5, ListsKept
<1>7. Tag(n)' = DUMMY_TAG
  BY <1>3 DEF Tag, Real
<1>8. TagsApart'
  BY <1>1, <1>2, <1>5, <1>7 DEF HonestLists, TagsApart
<1>9. \A t \in DOMAIN range_lists : \A k \in Members(t) :
         /\ Members(t)' = Members(t) /\ Member(t, k) \in Indices
         /\ Real(Member(t, k))' = Real(Member(t, k))
  <2> SUFFICES ASSUME NEW t \in DOMAIN range_lists, NEW k \in Members(t)
               PROVE  /\ Members(t)' = Members(t) /\ Member(t, k) \in Indices
                      /\ Real(Member(t, k))' = Real(Member(t, k))
    OBVIOUS
  <2>1. PICK i : i = Member(t, k)
    OBVIOUS
  <2>2. Member(t, k)' = i /\ Members(t)' = Members(t)
    BY <2>1 DEF Member, Members
  <2>3. i \in Indices
    BY <2>1 DEF HonestLists, MembersTagged
  <2> QED BY <1>5, <2>1, <2>2, <2>3
<1>10. \A t \in DOMAIN range_lists : Members(t)' = Members(t)
  BY DEF Members
<1>11. MembersDistinct'
  BY <1>9, <1>10 DEF HonestLists, MembersDistinct
<1>12. MembersComplete'
  <2> SUFFICES ASSUME NEW t \in DOMAIN range_lists, NEW r \in Indices', Real(r)' = r,
                      real_variable_tags'[r] = range_lists[t].range_tag
               PROVE  \E k \in Members(t) : Real(Member(t, k))' = r
    BY <1>10 DEF MembersComplete, Reals
  <2>1. range_lists[t].range_tag # DUMMY_TAG
    BY ListTypes
  <2>2. r \in Indices
    BY <1>1, <1>2, <1>3, <2>1
  <2>3. Real(r) = r /\ real_variable_tags[r] = range_lists[t].range_tag
    BY <1>3, <1>5, <2>2
  <2>4. PICK k \in Members(t) : Real(Member(t, k)) = r
    BY <2>2, <2>3 DEF HonestLists, MembersComplete, Reals
  <2> QED BY <1>9, <2>4
<1> QED BY <1>6, <1>8, <1>11, <1>12 DEF HonestLists

\* Two classes are joined: the values are equal, and one of them has no tag,
\* so no list has both as members.
LEMMA HonestMerge ==
    ASSUME IInv, ListInv, HonestLists, NEW a \in Indices, NEW b \in Indices, Merge(a, b), ~failed',
           Tag(a) = DUMMY_TAG \/ Tag(a) # Tag(b),
           UNCHANGED <<range_lists, copies, requests>>
    PROVE  HonestLists'
<1>1. /\ Indices' = Indices
      /\ Real(a) \in Indices /\ Real(b) \in Indices /\ Real(a) # Real(b)
      /\ Real(Real(a)) = Real(a) /\ Real(Real(b)) = Real(b)
      /\ \A i \in Indices : Real(i)' = IF Real(i) = Real(b) THEN Real(a) ELSE Real(i)
  BY MergeVectors
<1>2. PICK ra \in Indices, rb \in Indices : ra = Real(a) /\ rb = Real(b)
  BY <1>1
<1>3. /\ ra # rb /\ Real(ra) = ra /\ Real(rb) = rb
      /\ \A i \in Indices : Real(i)' = IF Real(i) = rb THEN ra ELSE Real(i)
  BY <1>1, <1>2
<1>4. Tag(a) = real_variable_tags[ra] /\ Tag(b) = real_variable_tags[rb]
  BY <1>2 DEF Tag
<1>5. variables' = variables /\ variables[ra] = variables[rb] /\ ~TagClash(a, b)
  BY <1>2 DEF Merge, FailedAfter, GetVariable
<1>6. \A i \in Indices : Real(i) \in Indices /\ Real(Real(i)) = Real(i)
  BY DEF IInv, TypeOK, ChainInv, RealIsLast, Real
<1>7. \A i \in Indices : GetVariable(i)' = GetVariable(i)
  BY <1>3, <1>5 DEF GetVariable
<1>8. real_variable_tags[ra] = DUMMY_TAG \/ real_variable_tags[rb] = DUMMY_TAG
  BY <1>4, <1>5 DEF TagClash
<1>9. \A r \in Indices : real_variable_tags'[r] = IF r = ra /\ real_variable_tags[ra] = DUMMY_TAG
                                                 THEN real_variable_tags[rb] ELSE real_variable_tags[r]
  BY <1>2, <1>4 DEF Merge, TagsAfter, IInv, TypeOK
<1>10. \A i \in Indices : Tag(i) # DUMMY_TAG => Tag(i)' = Tag(i)
  <2> SUFFICES ASSUME NEW i \in Indices, Tag(i) # DUMMY_TAG PROVE Tag(i)' = Tag(i)
    OBVIOUS
  <2>1. [Next]_vars
    BY DEF Next, AssertEqual
  <2> QED BY <2>1, TagStep
<1>11. MembersTagged' /\ StepsPresent' /\ MembersBounded' /\ CopiesHold'
  BY <1>1, <1>7, <1>10, ListsKept
<1>12. TagsApart'
  <2>1. \A t \in DOMAIN range_lists : \A i \in Indices : real_variable_tags[Real(i)] # range_lists[t].tau_tag
    BY DEF HonestLists, TagsApart, Tag
  <2>2. ASSUME NEW i \in Indices PROVE \E j \in Indices : Tag(i)' = real_variable_tags[Real(j)]
    <3>1. PICK r \in Indices : r = Real(i)'
      BY <1>3, <1>6
    <3>2. Real(r) = r
      BY <1>3, <1>6, <3>1
    <3>3. Tag(i)' = real_variable_tags'[r]
      BY <3>1 DEF Tag
    <3>4. CASE r = ra /\ real_variable_tags[ra] = DUMMY_TAG
      BY <1>3, <1>9, <3>3, <3>4
    <3>5. CASE ~(r = ra /\ real_variable_tags[ra] = DUMMY_TAG)
      BY <1>9, <3>2, <3>3, <3>5
    <3> QED BY <3>4, <3>5
  <2>3. \A t \in DOMAIN range_lists : \A i \in Indices : Tag(i)' # range_lists[t].tau_tag
    BY <2>1, <2>2
  <2> QED BY <1>1, <2>3 DEF HonestLists, TagsApart
<1>13. \A t \in DOMAIN range_lists : \A k \in Members(t) :
         /\ Member(t, k) \in Indices /\ real_variable_tags[Real(Member(t, k))] = range_lists[t].range_tag
         /\ range_lists[t].range_tag # DUMMY_TAG
  BY ListTypes DEF HonestLists, MembersTagged, Tag
<1>14. \A t \in DOMAIN range_lists : \A k \in Members(t) :
         Real(Member(t, k))' = IF Real(Member(t, k)) = rb THEN ra ELSE Real(Member(t, k))
  <2> SUFFICES ASSUME NEW t \in DOMAIN range_lists, NEW k \in Members(t)
               PROVE  Real(Member(t, k))' = IF Real(Member(t, k)) = rb THEN ra ELSE Real(Member(t, k))
    OBVIOUS
  <2>1. PICK i : i = Member(t, k)
    OBVIOUS
  <2>2. Member(t, k)' = i
    BY <2>1 DEF Member
  <2> QED BY <1>3, <1>13, <2>1, <2>2
<1>15. \A t \in DOMAIN range_lists : Members(t)' = Members(t)
  BY DEF Members
<1>16. MembersDistinct'
  <2> SUFFICES ASSUME NEW t \in DOMAIN range_lists, NEW j \in Members(t), NEW k \in Members(t),
                      Real(Member(t, j))' = Real(Member(t, k))'
               PROVE  j = k
    BY <1>15 DEF MembersDistinct
  <2>1. ~(Real(Member(t, j)) = rb /\ Real(Member(t, k)) = ra)
    BY <1>8, <1>13
  <2>2. ~(Real(Member(t, j)) = ra /\ Real(Member(t, k)) = rb)
    BY <1>8, <1>13
  <2>3. Real(Member(t, j)) = Real(Member(t, k))
    BY <1>14, <2>1, <2>2
  <2> QED BY <2>3 DEF HonestLists, MembersDistinct
<1>17. MembersComplete'
  <2> SUFFICES ASSUME NEW t \in DOMAIN range_lists, NEW r \in Indices, Real(r)' = r,
                      real_variable_tags'[r] = range_lists[t].range_tag
               PROVE  \E k \in Members(t) : Real(Member(t, k))' = r
    BY <1>1, <1>15 DEF MembersComplete, Reals
  <2>1. r # rb
    BY <1>3
  <2>2. Real(r) = r
    BY <1>3, <1>6
  <2>3. CASE r = ra /\ real_variable_tags[ra] = DUMMY_TAG
    <3>1. real_variable_tags[rb] = range_lists[t].range_tag
      BY <1>9, <2>3
    <3>2. PICK k \in Members(t) : Real(Member(t, k)) = rb
      BY <1>3, <3>1 DEF HonestLists, MembersComplete, Reals
    <3> QED BY <1>14, <2>3, <3>2
  <2>4. CASE ~(r = ra /\ real_variable_tags[ra] = DUMMY_TAG)
    <3>1. real_variable_tags[r] = range_lists[t].range_tag
      BY <1>9, <2>4
    <3>2. PICK k \in Members(t) : Real(Member(t, k)) = r
      BY <2>2, <3>1 DEF HonestLists, MembersComplete, Reals
    <3> QED BY <1>14, <2>1, <3>2
  <2> QED BY <2>3, <2>4
<1> QED BY <1>11, <1>12, <1>16, <1>17 DEF HonestLists

-----------------------------------------------------------------------------
(***************************************************************************)
(* A request for a range.  The list it is about gains the steps, if it is  *)
(* new, and the variable or its copy; the other lists gain nothing.        *)
(***************************************************************************)

\* b holds the classes with tag g, each once, but for those of X, with the
\* steps of target t and otherwise values asked for and in its range.
AlmostListOf(b, g, t, X) ==
    /\ \A k \in DOMAIN b :
         /\ b[k] \in Indices /\ Tag(b[k]) = g /\ Real(b[k]) \notin X
         /\ Low(GetVariable(b[k])) <= t
         /\ \/ GetVariable(b[k]) <= t
            \/ \E q \in requests : GetVariable(q[1]) = GetVariable(b[k])
    /\ \A j, k \in DOMAIN b : Real(b[j]) = Real(b[k]) => j = k
    /\ \A r \in Reals : real_variable_tags[r] = g => r \in X \/ \E k \in DOMAIN b : Real(b[k]) = r
    /\ \A n \in DOMAIN StepValues(t) : \E k \in DOMAIN b : GetVariable(b[k]) = StepValues(t)[n]

ListsComplete ==
    \A t \in DOMAIN range_lists :
        AlmostListOf(range_lists[t].variable_indices, range_lists[t].range_tag, t, {})

\* New variables carry g, and so does the class of v if it joins a list; the
\* variables there were keep their class, their value and any other tag.
NewVariables(g, v, joins) ==
    /\ v \in Indices /\ (joins => Tag(v) = DUMMY_TAG)
    /\ requests \subseteq requests' /\ \A q \in requests : q[1] \in Indices
    /\ \A i \in Indices :
         /\ i \in Indices' /\ Real(i) \in Indices /\ Real(Real(i)) = Real(i)
         /\ Real(i)' = Real(i) /\ variables'[i] = variables[i]
         /\ real_variable_tags'[i] = IF joins /\ i = Real(v) THEN g ELSE real_variable_tags[i]
    /\ \A i \in Indices' : i \notin Indices => Real(i)' = i /\ real_variable_tags'[i] = g

LEMMA ListsOfHonest == ASSUME HonestLists PROVE ListsComplete
BY DEF HonestLists, ListsComplete, AlmostListOf, MembersTagged, MembersDistinct, MembersComplete,
       StepsPresent, MembersBounded, Members, Member, LowValue

LEMMA HonestOfLists == ASSUME TagsApart', CopiesHold', ListsComplete' PROVE HonestLists'
<1>1. MembersTagged'
  BY DEF ListsComplete, AlmostListOf, MembersTagged, Members, Member
<1>2. MembersDistinct'
  BY DEF ListsComplete, AlmostListOf, MembersDistinct, Members, Member
<1>3. MembersComplete'
  BY DEF ListsComplete, AlmostListOf, MembersComplete, Members, Member
<1>4. StepsPresent'
  BY DEF ListsComplete, AlmostListOf, StepsPresent, Members, Member
<1>5. MembersBounded'
  BY DEF ListsComplete, AlmostListOf, MembersBounded, Members, Member, LowValue
<1> QED BY <1>1, <1>2, <1>3, <1>4, <1>5 DEF HonestLists

\* What becomes of the values and tags of the variables there were.
LEMMA OldVariables ==
    ASSUME NEW g, NEW v, NEW joins, NewVariables(g, v, joins), NEW i \in Indices
    PROVE  /\ i \in Indices' /\ Real(i)' = Real(i) /\ GetVariable(i)' = GetVariable(i)
           /\ Tag(i)' = IF joins /\ Real(i) = Real(v) THEN g ELSE Tag(i)
           /\ Tag(i) # DUMMY_TAG => Tag(i)' = Tag(i) /\ ~(joins /\ Real(i) = Real(v))
<1>1. PICK r \in Indices : r = Real(i)
  BY DEF NewVariables
<1>2. Real(i)' = r /\ variables'[r] = variables[r]
      /\ real_variable_tags'[r] = IF joins /\ r = Real(v) THEN g ELSE real_variable_tags[r]
  BY <1>1 DEF NewVariables
<1>3. GetVariable(i)' = GetVariable(i)
  BY <1>1, <1>2 DEF GetVariable
<1>4. Tag(i)' = IF joins /\ r = Real(v) THEN g ELSE Tag(i)
  BY <1>1, <1>2 DEF Tag
<1>5. joins /\ r = Real(v) => Tag(i) = DUMMY_TAG
  BY <1>1 DEF NewVariables, Tag
<1> QED BY <1>1, <1>2, <1>3, <1>4, <1>5 DEF NewVariables

\* The members of a list stay members; new classes may be missing.
LEMMA ListGrows ==
    ASSUME NEW g, NEW v, NEW joins, NewVariables(g, v, joins),
           NEW b, NEW h, NEW t, AlmostListOf(b, h, t, {}), h # DUMMY_TAG,
           NEW X, X = {r \in Indices' : h = g /\ (r \notin Indices \/ (joins /\ r = Real(v)))}
    PROVE  AlmostListOf(b, h, t, X)'
<1>1. ASSUME NEW k \in DOMAIN b
      PROVE  /\ b[k] \in Indices /\ b[k] \in Indices' /\ Tag(b[k])' = h
             /\ Real(b[k])' = Real(b[k]) /\ GetVariable(b[k])' = GetVariable(b[k])
             /\ Real(b[k])' \notin X
  <2>1. PICK i \in Indices : i = b[k] /\ Tag(i) = h
    BY DEF AlmostListOf
  <2>2. i \in Indices' /\ Real(i)' = Real(i) /\ GetVariable(i)' = GetVariable(i) /\ Tag(i)' = Tag(i)
        /\ ~(joins /\ Real(i) = Real(v))
    BY <2>1, OldVariables
  <2>3. Real(i) \in Indices
    BY DEF NewVariables
  <2> QED BY <2>1, <2>2, <2>3
<1>2. ASSUME NEW k \in DOMAIN b
      PROVE  /\ Low(GetVariable(b[k])') <= t
             /\ \/ GetVariable(b[k])' <= t
                \/ \E q \in requests' : GetVariable(q[1])' = GetVariable(b[k])'
  <2>1. Low(GetVariable(b[k])) <= t
        /\ (GetVariable(b[k]) <= t \/ \E q \in requests : GetVariable(q[1]) = GetVariable(b[k]))
    BY DEF AlmostListOf
  <2>2. \A q \in requests : q \in requests' /\ q[1] \in Indices
    BY DEF NewVariables
  <2>3. \A q \in requests : GetVariable(q[1])' = GetVariable(q[1])
    BY <2>2, OldVariables
  <2>4. GetVariable(b[k])' = GetVariable(b[k])
    BY <1>1
  <2> QED BY <2>1, <2>2, <2>3, <2>4
<1>3. \A j, k \in DOMAIN b : Real(b[j])' = Real(b[k])' => j = k
  BY <1>1 DEF AlmostListOf
<1>4. ASSUME NEW r \in Indices', Real(r)' = r, real_variable_tags'[r] = h, r \notin X
      PROVE  \E k \in DOMAIN b : Real(b[k])' = r
  <2>1. r \in Indices /\ ~(joins /\ r = Real(v) /\ h = g)
    BY <1>4 DEF NewVariables
  <2>2. Real(r) = r /\ real_variable_tags[r] = h
    BY <1>4, <2>1 DEF NewVariables
  <2>3. PICK k \in DOMAIN b : Real(b[k]) = r
    BY <2>1, <2>2 DEF AlmostListOf, Reals
  <2> QED BY <1>1, <2>3
<1>5. \A n \in DOMAIN StepValues(t) : \E k \in DOMAIN b : GetVariable(b[k])' = StepValues(t)[n]
  BY <1>1 DEF AlmostListOf
<1> QED BY <1>1, <1>2, <1>3, <1>4, <1>5 DEF AlmostListOf, Reals

\* The list of a target nobody asked for before is made of its steps.
RunFrom(n, s) == [k \in 1 .. s |-> n + k - 1]

StepsAt(n, s, t) ==
    /\ s = Len(StepValues(t))
    /\ \A k \in 1 .. s : /\ n + k - 1 \in Indices' /\ n + k - 1 \notin Indices
                        /\ variables'[n + k - 1] = StepValues(t)[k]

LEMMA ListBegins ==
    ASSUME NEW g, NEW v, NEW joins, NewVariables(g, v, joins), NEW t \in Targets,
           \A i \in Indices : real_variable_tags[i] # g,
           NEW n \in Nat, NEW s \in Nat, StepsAt(n, s, t), NEW b, b = RunFrom(n, s),
           NEW X, X = {r \in Indices' : \/ r \notin Indices /\ r \notin n .. n + s - 1
                                        \/ joins /\ r = Real(v)}
    PROVE  AlmostListOf(b, g, t, X)'
<1>1. DOMAIN b = 1 .. s /\ DOMAIN StepValues(t) = 1 .. s
  <2>1. StepValues(t) \in Seq(Values)
    BY StepsAreValues
  <2> QED BY <2>1 DEF StepsAt, RunFrom
<1>2. \A k \in 1 .. s : StepValues(t)[k] \in 0 .. t
  BY <1>1, StepsOfAList
<1>3. t \in Nat /\ t < LimbSize /\ LimbSize \in Nat
  BY TargetsAreNumbers
<1>4. Real(v) \in Indices
  BY DEF NewVariables
<1>5. ASSUME NEW k \in 1 .. s
      PROVE  /\ b[k] \in Indices' /\ Tag(b[k])' = g /\ Real(b[k])' = b[k] /\ b[k] = n + k - 1 /\ b[k] \notin X
             /\ GetVariable(b[k])' = StepValues(t)[k]
  <2>1. PICK i : i = n + k - 1
    OBVIOUS
  <2>2. b[k] = i /\ i \in n .. n + s - 1
    BY <2>1 DEF RunFrom
  <2>3. i \in Indices' /\ i \notin Indices /\ variables'[i] = StepValues(t)[k]
    BY <2>1 DEF StepsAt
  <2>4. Real(i)' = i /\ real_variable_tags'[i] = g
    BY <2>3 DEF NewVariables
  <2>5. i \notin X
    BY <1>4, <2>2, <2>3
  <2>6. Tag(i)' = g /\ GetVariable(i)' = StepValues(t)[k]
    BY <2>3, <2>4 DEF Tag, GetVariable
  <2> QED BY <2>1, <2>2, <2>3, <2>4, <2>5, <2>6
<1>6. ASSUME NEW k \in 1 .. s PROVE GetVariable(b[k])' <= t /\ Low(GetVariable(b[k])') <= t
  <2>1. PICK x : x = StepValues(t)[k]
    OBVIOUS
  <2>2. x \in 0 .. t
    BY <1>2, <2>1
  <2>3. x \in Nat /\ x <= t /\ x < LimbSize
    BY <1>3, <2>2
  <2>4. x % LimbSize = x
    BY <1>3, <2>3
  <2>5. GetVariable(b[k])' = x
    BY <1>5, <2>1
  <2> QED BY <2>3, <2>4, <2>5 DEF Low
<1>7. ASSUME NEW j \in 1 .. s, NEW k \in 1 .. s, Real(b[j])' = Real(b[k])' PROVE j = k
  <2>1. n + j - 1 = n + k - 1
    BY <1>5, <1>7
  <2> QED BY <2>1
<1>8. ASSUME NEW r \in Indices', Real(r)' = r, real_variable_tags'[r] = g, r \notin X
      PROVE  \E k \in 1 .. s : Real(b[k])' = r
  <2>1. r \notin Indices
    BY <1>8 DEF NewVariables
  <2>2. r \in n .. n + s - 1
    BY <1>8, <2>1
  <2>3. PICK k : k = r - n + 1
    OBVIOUS
  <2>4. k \in 1 .. s /\ n + k - 1 = r
    BY <2>2, <2>3
  <2> QED BY <1>5, <2>4
<1> QED BY <1>1, <1>5, <1>6, <1>7, <1>8 DEF AlmostListOf, Reals

\* The variable that was missing is added.
LEMMA ListGains ==
    ASSUME NEW b \in Seq(Int), NEW g, NEW t, NEW x, AlmostListOf(b, g, t, {x})',
           NEW m \in Int, m \in Indices', Real(m)' = x, Tag(m)' = g, Low(GetVariable(m)') <= t,
           \E q \in requests' : GetVariable(q[1])' = GetVariable(m)'
    PROVE  AlmostListOf(b \o <<m>>, g, t, {})'
<1>1. PICK c : c = b \o <<m>>
  OBVIOUS
<1>2. PICK l : l = Len(b)
  OBVIOUS
<1>3. /\ l \in Nat /\ DOMAIN b = 1 .. l /\ DOMAIN c = 1 .. l + 1
      /\ c[l + 1] = m /\ \A k \in 1 .. l : c[k] = b[k]
  BY <1>1, <1>2
<1>4. \A k \in 1 .. l + 1 : k = l + 1 \/ k \in 1 .. l
  BY <1>3
<1>5. \A k \in 1 .. l : k \in 1 .. l + 1 /\ l + 1 \in 1 .. l + 1
  BY <1>3
<1>6. l + 1 \in 1 .. l + 1
  BY <1>3
<1>7. \A k \in 1 .. l + 1 :
         /\ c[k] \in Indices' /\ Tag(c[k])' = g
         /\ Low(GetVariable(c[k])') <= t
         /\ \/ GetVariable(c[k])' <= t
            \/ \E q \in requests' : GetVariable(q[1])' = GetVariable(c[k])'
  BY <1>3, <1>4 DEF AlmostListOf
<1>8. \A j, k \in 1 .. l + 1 : Real(c[j])' = Real(c[k])' => j = k
  <2>1. \A k \in 1 .. l : Real(c[k])' # x
    BY <1>3 DEF AlmostListOf
  <2>2. \A j, k \in 1 .. l : Real(c[j])' = Real(c[k])' => j = k
    BY <1>3 DEF AlmostListOf
  <2>3. Real(c[l + 1])' = x
    BY <1>3
  <2> QED BY <1>4, <2>1, <2>2, <2>3
<1>9. \A r \in Indices' : Real(r)' = r /\ real_variable_tags'[r] = g =>
         \E k \in 1 .. l + 1 : Real(c[k])' = r
  <2> SUFFICES ASSUME NEW r \in Indices', Real(r)' = r, real_variable_tags'[r] = g
               PROVE  \E k \in 1 .. l + 1 : Real(c[k])' = r
    OBVIOUS
  <2>1. CASE r = x
    BY <1>3, <1>6, <2>1
  <2>2. CASE r # x
    <3>1. PICK k \in 1 .. l : Real(b[k])' = r
      BY <1>3, <2>2 DEF AlmostListOf, Reals
    <3> QED BY <1>3, <1>5, <3>1
  <2> QED BY <2>1, <2>2
<1>10. \A n \in DOMAIN StepValues(t) : \E k \in 1 .. l + 1 : GetVariable(c[k])' = StepValues(t)[n]
  <2> SUFFICES ASSUME NEW n \in DOMAIN StepValues(t)
               PROVE  \E k \in 1 .. l + 1 : GetVariable(c[k])' = StepValues(t)[n]
    OBVIOUS
  <2>1. PICK k \in 1 .. l : GetVariable(b[k])' = StepValues(t)[n]
    BY <1>3 DEF AlmostListOf
  <2> QED BY <1>3, <1>5, <2>1
<1>11. AlmostListOf(c, g, t, {})'
  BY <1>3, <1>7, <1>8, <1>9, <1>10 DEF AlmostListOf, Reals
<1> QED BY <1>1, <1>11

\* What create_new_range_constraint does to the variables and their tags, with
\* n variables before, the s steps of a new list and the tag g of the list.
LEMMA NewRangeVectors ==
    ASSUME IInv, ListInv, NEW v \in users, NEW t \in Targets, NewRangeConstraint(v, t),
           NEW n, n = num_variables, NEW g, g = List(t).range_tag,
           NEW s, s = IF IsNew(t) THEN Len(StepValues(t)) ELSE 0
    PROVE  /\ n \in Nat /\ s \in Nat /\ v \in Indices
           /\ Indices = 0 .. n - 1 /\ Indices' = IF NeedsCopy(v, t) THEN 0 .. n + s ELSE 0 .. n + s - 1
           /\ NewVariables(g, v, JoinsList(v, t))
           /\ \A k \in 1 .. s : variables'[n + k - 1] = StepValues(t)[k]
           /\ NeedsCopy(v, t) => variables'[n + s] = GetVariable(v)
<1> DEFINE steps == IF IsNew(t) THEN StepValues(t) ELSE << >>
           added == steps \o (IF NeedsCopy(v, t) THEN <<GetVariable(v)>> ELSE << >>)
           copy  == num_variables + Len(steps)
           member == IF NeedsCopy(v, t) THEN <<copy>> ELSE IF JoinsList(v, t) THEN <<v>> ELSE << >>
           list  == [List(t) EXCEPT !.variable_indices = @ \o member]
           tags  == [i \in 0 .. num_variables + Len(added) - 1 |->
                        IF i < num_variables /\ ~(JoinsList(v, t) /\ i = Real(v))
                        THEN real_variable_tags[i] ELSE list.range_tag]
<1>1. PushTagged(added, tags) /\ requests' = requests \cup {<<v, t>>}
  BY DEF NewRangeConstraint
<1>2. /\ v \in Indices /\ GetVariable(v) \in Values /\ \A i \in Indices : Real(i) \in Indices /\ Real(Real(i)) = Real(i)
  BY DEF ListInv, IInv, TypeOK, ChainInv, RealIsLast, Real, GetVariable
<1>3. steps \in Seq(Values) /\ Len(steps) = s /\ s \in Nat /\ (IsNew(t) => steps = StepValues(t))
  <2>1. << >> \in Seq(Values) /\ Len(<< >>) = 0
    OBVIOUS
  <2> QED BY <2>1, StepsAreValues
<1>4. n \in Nat /\ Indices = 0 .. n - 1
  BY CircuitAssumption DEF IInv, TypeOK, Indices
<1>5. list.range_tag = g
  <2> HIDE DEF member
  <2>1. List(t).range_tag = list.range_tag
    <3>1. CASE IsNew(t)
      BY <3>1 DEF List, NewList
    <3>2. CASE ~IsNew(t)
      <4>1. t \in DOMAIN range_lists
        BY <3>2 DEF IsNew
      <4>2. range_lists[t] \in RangeList
        BY <4>1 DEF ListInv
      <4> QED BY <3>2, <4>2 DEF List, RangeList
    <3> QED BY <3>1, <3>2
  <2> QED BY <2>1
<1> HIDE DEF steps, list
<1>6. /\ added \in Seq(Values)
      /\ Len(added) = IF NeedsCopy(v, t) THEN s + 1 ELSE s
      /\ \A k \in 1 .. s : added[k] = steps[k]
      /\ NeedsCopy(v, t) => added[s + 1] = GetVariable(v)
  <2>1. CASE NeedsCopy(v, t)
    <3>1. added = steps \o <<GetVariable(v)>>
      BY <2>1
    <3> QED BY <1>2, <1>3, <2>1, <3>1
  <2>2. CASE ~NeedsCopy(v, t)
    <3>1. added = steps \o << >>
      BY <2>2
    <3> QED BY <1>3, <2>2, <3>1
  <2> QED BY <2>1, <2>2
<1> HIDE DEF added, tags
<1>7. /\ num_variables' = n + Len(added) /\ Indices \subseteq Indices' /\ Indices' = 0 .. num_variables' - 1
      /\ \A i \in Indices' :
           /\ real_variable_index'[i] = IF i \in Indices THEN real_variable_index[i] ELSE i
           /\ variables'[i] = IF i \in Indices THEN variables[i] ELSE added[i - n + 1]
           /\ real_variable_tags'[i] = tags[i]
  BY <1>1, PushTaggedVectors
<1>8. Indices' = IF NeedsCopy(v, t) THEN 0 .. n + s ELSE 0 .. n + s - 1
  BY <1>3, <1>4, <1>6, <1>7
<1>9. \A i \in Indices' : tags[i] = IF i \in Indices /\ ~(JoinsList(v, t) /\ i = Real(v))
                                    THEN real_variable_tags[i] ELSE g
  <2>1. ASSUME NEW i \in Indices' PROVE i \in 0 .. n + Len(added) - 1 /\ (i < n <=> i \in Indices)
    BY <1>3, <1>4, <1>6, <1>7
  <2> QED BY <1>5, <2>1 DEF tags
<1>10. JoinsList(v, t) => Tag(v) = DUMMY_TAG
  BY DEF JoinsList, NeedsCopy
<1>11. requests \subseteq requests' /\ \A q \in requests : q[1] \in Indices
  BY <1>1 DEF ListInv
<1>12. NewVariables(g, v, JoinsList(v, t))
  <2>1. \A i \in Indices : /\ i \in Indices' /\ Real(i)' = Real(i) /\ variables'[i] = variables[i]
                           /\ real_variable_tags'[i] = IF JoinsList(v, t) /\ i = Real(v) THEN g
                                                       ELSE real_variable_tags[i]
    BY <1>7, <1>9 DEF Real
  <2>2. \A i \in Indices' : i \notin Indices => Real(i)' = i /\ real_variable_tags'[i] = g
    BY <1>7, <1>9 DEF Real
  <2> QED BY <1>2, <1>10, <1>11, <2>1, <2>2 DEF NewVariables
<1>13. \A k \in 1 .. s : variables'[n + k - 1] = StepValues(t)[k]
  <2> SUFFICES ASSUME NEW k \in 1 .. s PROVE variables'[n + k - 1] = StepValues(t)[k]
    OBVIOUS
  <2>1. n + k - 1 \in Indices' /\ n + k - 1 \notin Indices /\ (n + k - 1) - n + 1 = k
    BY <1>3, <1>4, <1>8
  <2>2. IsNew(t)
    OBVIOUS
  <2> QED BY <1>3, <1>6, <1>7, <2>1, <2>2
<1>14. NeedsCopy(v, t) => variables'[n + s] = GetVariable(v)
  <2> SUFFICES ASSUME NeedsCopy(v, t) PROVE variables'[n + s] = GetVariable(v)
    OBVIOUS
  <2>1. n + s \in Indices' /\ n + s \notin Indices /\ (n + s) - n + 1 = s + 1
    BY <1>3, <1>4, <1>8
  <2> QED BY <1>6, <1>7, <2>1
<1> QED BY <1>2, <1>3, <1>4, <1>8, <1>12, <1>13, <1>14

\* The lists after a request, whose target's list has the vector b and tag g.
GainsMember(b, m, t) == range_lists'[t].variable_indices = b \o <<m>>

LEMMA NewRangeLists ==
    ASSUME IInv, ListInv, NEW v \in users, NEW t \in Targets, NewRangeConstraint(v, t),
           NEW n, n = num_variables, NEW g, g = List(t).range_tag, NEW b, b = List(t).variable_indices,
           NEW s, s = IF IsNew(t) THEN Len(StepValues(t)) ELSE 0
    PROVE  /\ b \in Seq(Int) /\ g # DUMMY_TAG
           /\ DOMAIN range_lists' = DOMAIN range_lists \cup {t}
           /\ \A r \in DOMAIN range_lists : r # t => range_lists'[r] = range_lists[r]
           /\ range_lists'[t].range_tag = g /\ range_lists'[t].tau_tag = List(t).tau_tag
           /\ NeedsCopy(v, t) => GainsMember(b, n + s, t)
           /\ JoinsList(v, t) => GainsMember(b, v, t)
           /\ ~NeedsCopy(v, t) /\ ~JoinsList(v, t) => range_lists'[t].variable_indices = b
<1> DEFINE steps == IF IsNew(t) THEN StepValues(t) ELSE << >>
           copy  == num_variables + Len(steps)
           member == IF NeedsCopy(v, t) THEN <<copy>> ELSE IF JoinsList(v, t) THEN <<v>> ELSE << >>
           list  == [List(t) EXCEPT !.variable_indices = @ \o member]
<1>1. range_lists' = [r \in DOMAIN range_lists \cup {t} |-> IF r = t THEN list ELSE range_lists[r]]
  BY DEF NewRangeConstraint
<1>2. copy = n + s
  BY StepsAreValues
<1>3. List(t) \in [range_tag : Nat \ {DUMMY_TAG}, tau_tag : Nat, variable_indices : Seq(Int)]
  <2>1. DOMAIN tau \subseteq Nat /\ current_tag \in Nat
    BY CircuitAssumption DEF IInv, TypeOK
  <2>2. CASE IsNew(t)
    <3>1. n \in Nat
      BY CircuitAssumption DEF IInv, TypeOK
    <3>2. PICK l : l = Len(StepValues(t))
      OBVIOUS
    <3>3. l \in Nat
      BY <3>2, StepsAreValues
    <3>4. \A k \in 1 .. l : n + k - 1 \in Int
      BY <3>1, <3>3
    <3>5. [k \in 1 .. l |-> n + k - 1] \in Seq(Int)
      BY <3>3, <3>4
    <3>6. current_tag + 1 \in Nat \ {DUMMY_TAG} /\ current_tag + 2 \in Nat
      BY <2>1 DEF DUMMY_TAG
    <3>7. List(t) = [range_tag |-> current_tag + 1, tau_tag |-> current_tag + 2,
                     variable_indices |-> [k \in 1 .. l |-> n + k - 1]]
      BY <2>2, <3>2 DEF List, NewList
    <3> QED BY <3>5, <3>6, <3>7
  <2>3. CASE ~IsNew(t)
    <3>1. t \in DOMAIN range_lists
      BY <2>3 DEF IsNew
    <3>2. range_lists[t] \in RangeList
      BY <3>1 DEF ListInv
    <3> QED BY <2>1, <2>3, <3>2 DEF List, RangeList
  <2> QED BY <2>2, <2>3
<1>4. list.range_tag = g /\ list.tau_tag = List(t).tau_tag /\ list.variable_indices = b \o member
  <2> HIDE DEF member
  <2>1. list = [List(t) EXCEPT !.variable_indices = b \o member]
    OBVIOUS
  <2> QED BY <1>3, <2>1
<1>5. b \in Seq(Int) /\ g # DUMMY_TAG
  BY <1>3
<1>6. /\ NeedsCopy(v, t) => member = <<n + s>>
      /\ JoinsList(v, t) => member = <<v>>
      /\ ~NeedsCopy(v, t) /\ ~JoinsList(v, t) => member = << >>
  BY <1>2 DEF JoinsList
<1>7. b \o << >> = b
  BY <1>5
<1> HIDE DEF list, member
<1>8. range_lists'[t] = list
  BY <1>1
<1>9. range_lists'[t].variable_indices = b \o member
  BY <1>4, <1>8
<1>10. /\ NeedsCopy(v, t) => GainsMember(b, n + s, t)
       /\ JoinsList(v, t) => GainsMember(b, v, t)
       /\ ~NeedsCopy(v, t) /\ ~JoinsList(v, t) => range_lists'[t].variable_indices = b
  BY <1>6, <1>7, <1>9 DEF GainsMember
<1> QED BY <1>1, <1>4, <1>5, <1>8, <1>10

LEMMA HonestNewRange ==
    ASSUME IInv, ListInv, HonestLists, NEW v \in users, NEW t \in Targets, NewRangeConstraint(v, t), ~failed'
    PROVE  HonestLists'
<1>1. PICK n, g, b, s, needs, joins :
         /\ n = num_variables /\ g = List(t).range_tag /\ b = List(t).variable_indices
         /\ s = IF IsNew(t) THEN Len(StepValues(t)) ELSE 0
         /\ needs = NeedsCopy(v, t) /\ joins = JoinsList(v, t)
  OBVIOUS
<1>2. /\ NewVariables(g, v, joins) /\ v \in Indices
      /\ needs => variables'[n + s] = GetVariable(v)
  BY <1>1, NewRangeVectors
<1>2a. /\ n \in Nat /\ s \in Nat /\ Indices = 0 .. n - 1
       /\ Indices' = IF needs THEN 0 .. n + s ELSE 0 .. n + s - 1
  BY <1>1, NewRangeVectors
<1>2b. \A k \in 1 .. s : variables'[n + k - 1] = StepValues(t)[k]
  BY <1>1, NewRangeVectors
<1>3. /\ b \in Seq(Int) /\ g # DUMMY_TAG
      /\ DOMAIN range_lists' = DOMAIN range_lists \cup {t}
      /\ \A r \in DOMAIN range_lists : r # t => range_lists'[r] = range_lists[r]
      /\ range_lists'[t].range_tag = g /\ range_lists'[t].tau_tag = List(t).tau_tag
  <2>1. b \in Seq(Int)
    BY <1>1, NewRangeLists
  <2>2. g # DUMMY_TAG
    BY <1>1, NewRangeLists
  <2>3. DOMAIN range_lists' = DOMAIN range_lists \cup {t}
    BY <1>1, NewRangeLists
  <2>4. ASSUME NEW r \in DOMAIN range_lists, r # t PROVE range_lists'[r] = range_lists[r]
    BY <1>1, <2>4, NewRangeLists
  <2>5. range_lists'[t].range_tag = g
    BY <1>1, NewRangeLists, ZenonT(60)
  <2>6. range_lists'[t].tau_tag = List(t).tau_tag
    BY <1>1, NewRangeLists
  <2> QED BY <2>1, <2>2, <2>3, <2>4, <2>5, <2>6
<1>3a. PICK grown : grown = range_lists'[t].variable_indices
  OBVIOUS
<1>3b. /\ needs => GainsMember(b, n + s, t)
       /\ joins => GainsMember(b, v, t)
       /\ ~needs /\ ~joins => grown = b
  BY <1>1, <1>3a, NewRangeLists, ZenonT(60)
<1>4. Low(GetVariable(v)) <= t
  <2>1. failed' = (failed \/ Low(GetVariable(v)) > t)
    BY DEF NewRangeConstraint
  <2>2. PICK x : x = GetVariable(v)
    OBVIOUS
  <2>3. x \in Nat
    BY <1>2, <2>2, TargetsAreNumbers DEF IInv, TypeOK, GetVariable, Real
  <2>4. t \in Nat /\ LimbSize \in Nat /\ LimbSize > 0
    BY TargetsAreNumbers
  <2>5. x % LimbSize \in Nat
    BY <2>3, <2>4
  <2>6. ~(x % LimbSize > t)
    BY <2>1, <2>2 DEF Low
  <2> QED BY <2>2, <2>4, <2>5, <2>6 DEF Low
<1>5. Real(v)' = Real(v) /\ GetVariable(v)' = GetVariable(v) /\ Real(v) \in Indices /\ v \in Indices'
      /\ (joins => Tag(v)' = g)
  <2>1. Real(v) \in Indices
    BY <1>2 DEF NewVariables
  <2>2. /\ v \in Indices' /\ Real(v)' = Real(v) /\ GetVariable(v)' = GetVariable(v)
        /\ Tag(v)' = IF joins /\ Real(v) = Real(v) THEN g ELSE Tag(v)
    BY <1>2, OldVariables
  <2> QED BY <2>1, <2>2
<1>6. <<v, t>> \in requests' /\ <<v, t>>[1] = v
  BY DEF NewRangeConstraint
<1>7. \E q \in requests' : GetVariable(q[1])' = GetVariable(v)
  BY <1>5, <1>6
<1>8. needs => ~joins
  BY <1>1 DEF JoinsList
<1>9. ListsComplete
  BY ListsOfHonest
<1>10. DOMAIN tau \subseteq 0 .. current_tag /\ current_tag \in Nat
       /\ \A i \in Indices : real_variable_tags[i] \in DOMAIN tau /\ Tag(i) \in DOMAIN tau
  BY CircuitAssumption DEF IInv, TypeOK, Tag, Real
\* The tag of the list is that of no other, and a new one that of no variable.
<1>11. /\ IsNew(t) => g = current_tag + 1 /\ List(t).tau_tag = current_tag + 2
       /\ IsNew(t) => \A x \in DOMAIN tau : x # g /\ x # List(t).tau_tag
  <2>1. IsNew(t) => g = current_tag + 1 /\ List(t).tau_tag = current_tag + 2
    BY <1>1 DEF List, NewList
  <2> QED BY <1>10, <2>1
<1>12. \A r \in DOMAIN range_lists : /\ range_lists[r].range_tag \in DOMAIN tau
                                     /\ range_lists[r].tau_tag \in DOMAIN tau
                                     /\ range_lists[r].range_tag # DUMMY_TAG
  BY ListTypes
<1>13. ~IsNew(t) => /\ t \in DOMAIN range_lists /\ g = range_lists[t].range_tag
                    /\ List(t).tau_tag = range_lists[t].tau_tag /\ b = range_lists[t].variable_indices /\ s = 0
  BY <1>1 DEF List, IsNew
<1>14. \A r \in DOMAIN range_lists : r # t => range_lists[r].range_tag # g
  BY <1>11, <1>12, <1>13 DEF HonestLists, TagsApart
\* The list of the target, before the variable or its copy joins it.
<1>15. PICK X : X = IF needs THEN {n + s} ELSE IF joins THEN {Real(v)} ELSE {}
  OBVIOUS
<1>16. AlmostListOf(b, g, t, X)'
  <2>1. CASE IsNew(t)
    <3>1. \A i \in Indices : real_variable_tags[i] # g
      BY <1>10, <1>11, <2>1
    <3>2. s = Len(StepValues(t)) /\ b = RunFrom(n, s)
      BY <1>1, <2>1 DEF List, NewList, RunFrom
    <3>3. StepsAt(n, s, t)
      BY <1>2a, <1>2b, <3>2 DEF StepsAt
    <3>4. X = {r \in Indices' : \/ r \notin Indices /\ r \notin n .. n + s - 1
                                \/ joins /\ r = Real(v)}
      <4>1. \A r \in Indices' : (r \notin Indices /\ r \notin n .. n + s - 1) <=> (needs /\ r = n + s)
        BY <1>2a
      <4>2. needs => n + s \in Indices'
        BY <1>2a
      <4>3. Real(v) \in Indices'
        BY <1>2, <1>5 DEF NewVariables
      <4> QED BY <1>8, <1>15, <4>1, <4>2, <4>3
    <3> QED BY <1>2, <1>2a, <3>1, <3>2, <3>3, <3>4, ListBegins
  <2>2. CASE ~IsNew(t)
    <3>1. AlmostListOf(b, g, t, {})
      BY <1>9, <1>13, <2>2 DEF ListsComplete
    <3>2. X = {r \in Indices' : g = g /\ (r \notin Indices \/ (joins /\ r = Real(v)))}
      <4>1. \A r \in Indices' : r \notin Indices <=> (needs /\ r = n + s)
        BY <1>2a, <1>13, <2>2
      <4>2. needs => n + s \in Indices'
        BY <1>2a
      <4>3. Real(v) \in Indices'
        BY <1>2, <1>5 DEF NewVariables
      <4> QED BY <1>8, <1>15, <4>1, <4>2, <4>3
    <3> QED BY <1>2, <1>3, <3>1, <3>2, ListGrows
  <2> QED BY <2>1, <2>2
<1>17. AlmostListOf(grown, g, t, {})'
  <2>1. CASE needs
    <3>1. PICK m : m = n + s
      OBVIOUS
    <3>2. m \in Int /\ m \in Indices' /\ m \notin Indices
      BY <1>2a, <2>1, <3>1
    <3>3. Real(m)' = m /\ Tag(m)' = g /\ GetVariable(m)' = GetVariable(v)
      BY <1>2, <2>1, <3>1, <3>2 DEF NewVariables, Tag, GetVariable
    <3>4. AlmostListOf(b, g, t, {m})'
      BY <1>15, <1>16, <2>1, <3>1
    <3>5. AlmostListOf(b \o <<m>>, g, t, {})'
      BY <1>3, <1>4, <1>7, <3>2, <3>3, <3>4, ListGains
    <3> QED BY <1>3a, <1>3b, <2>1, <3>1, <3>5 DEF GainsMember
  <2>2. CASE ~needs /\ joins
    <3>1. PICK x : x = Real(v)
      OBVIOUS
    <3>2. AlmostListOf(b, g, t, {x})'
      BY <1>15, <1>16, <2>2, <3>1
    <3>3. v \in Int
      BY <1>2, <1>2a
    <3>4. AlmostListOf(b \o <<v>>, g, t, {})'
      BY <1>3, <1>4, <1>5, <1>7, <2>2, <3>1, <3>2, <3>3, ListGains
    <3> QED BY <1>3a, <1>3b, <2>2, <3>4 DEF GainsMember
  <2>3. CASE ~needs /\ ~joins
    <3>1. X = {} /\ grown = b
      BY <1>3b, <1>15, <2>3
    <3> QED BY <1>16, <3>1
  <2> QED BY <2>1, <2>2, <2>3
\* The other lists.
<1>18. ASSUME NEW r \in DOMAIN range_lists, r # t
       PROVE  AlmostListOf(range_lists[r].variable_indices, range_lists[r].range_tag, r, {})'
  <2>1. PICK d, h : d = range_lists[r].variable_indices /\ h = range_lists[r].range_tag
    OBVIOUS
  <2>2. AlmostListOf(d, h, r, {}) /\ h # DUMMY_TAG /\ h # g
    BY <1>9, <1>12, <1>14, <1>18, <2>1 DEF ListsComplete
  <2>3. {} = {x \in Indices' : h = g /\ (x \notin Indices \/ (joins /\ x = Real(v)))}
    BY <2>2
  <2>4. AlmostListOf(d, h, r, {})'
    BY <1>2, <2>2, <2>3, ListGrows
  <2>5. range_lists'[r].variable_indices = d /\ range_lists'[r].range_tag = h
    BY <1>3, <1>18, <2>1
  <2> QED BY <2>4, <2>5
<1>19. ListsComplete'
  BY <1>3, <1>3a, <1>17, <1>18 DEF ListsComplete
<1>20. TagsApart'
  <2>1. \A i \in Indices' : Tag(i)' = g \/ \E j \in Indices : Tag(i)' = Tag(j)
    <3> SUFFICES ASSUME NEW i \in Indices' PROVE Tag(i)' = g \/ \E j \in Indices : Tag(i)' = Tag(j)
      OBVIOUS
    <3>1. CASE i \in Indices
      BY <1>2, <3>1, OldVariables
    <3>2. CASE i \notin Indices
      BY <1>2, <3>2 DEF NewVariables, Tag
    <3> QED BY <3>1, <3>2
  <2>2. PICK y : y = List(t).tau_tag
    OBVIOUS
  <2>3. /\ y # DUMMY_TAG /\ y # g
        /\ \A i \in Indices : Tag(i) # y
        /\ \A r \in DOMAIN range_lists : r # t => range_lists[r].range_tag # y /\ range_lists[r].tau_tag # y
    <3>1. CASE IsNew(t)
      BY <1>10, <1>11, <1>12, <2>2, <3>1 DEF DUMMY_TAG
    <3>2. CASE ~IsNew(t)
      BY <1>13, <2>2, <3>2 DEF HonestLists, TagsApart
    <3> QED BY <3>1, <3>2
  <2>4. \A r \in DOMAIN range_lists :
          r # t => /\ range_lists[r].tau_tag # DUMMY_TAG /\ range_lists[r].tau_tag # g
                   /\ \A i \in Indices : Tag(i) # range_lists[r].tau_tag
    <3>1. CASE IsNew(t)
      BY <1>11, <1>12, <3>1 DEF HonestLists, TagsApart
    <3>2. CASE ~IsNew(t)
      BY <1>13, <3>2 DEF HonestLists, TagsApart
    <3> QED BY <3>1, <3>2
  <2>5. \A r, u \in DOMAIN range_lists :
          /\ range_lists[r].range_tag # range_lists[u].tau_tag
          /\ r # u => /\ range_lists[r].range_tag # range_lists[u].range_tag
                      /\ range_lists[r].tau_tag # range_lists[u].tau_tag
    BY DEF HonestLists, TagsApart
  <2>6. ASSUME NEW r \in DOMAIN range_lists', NEW u \in DOMAIN range_lists'
        PROVE  /\ range_lists'[r].tau_tag # DUMMY_TAG
               /\ range_lists'[r].range_tag # range_lists'[u].tau_tag
               /\ r # u => /\ range_lists'[r].range_tag # range_lists'[u].range_tag
                           /\ range_lists'[r].tau_tag # range_lists'[u].tau_tag
               /\ \A i \in Indices' : Tag(i)' # range_lists'[r].tau_tag
    <3>1. CASE r = t /\ u = t
      BY <1>3, <2>1, <2>2, <2>3, <3>1
    <3>2. CASE r = t /\ u # t
      BY <1>3, <1>14, <2>1, <2>2, <2>3, <2>4, <3>2
    <3>3. CASE r # t /\ u = t
      BY <1>3, <1>14, <2>1, <2>2, <2>3, <2>4, <3>3
    <3>4. CASE r # t /\ u # t
      BY <1>3, <2>1, <2>4, <2>5, <3>4
    <3> QED BY <3>1, <3>2, <3>3, <3>4
  <2> QED BY <2>6 DEF TagsApart
<1>21. CopiesHold'
  <2>1. PICK m : m = n + s
    OBVIOUS
  <2>2. copies' \subseteq copies \cup (IF needs THEN {<<v, m>>} ELSE {})
    BY <1>1, <2>1, StepsAreValues DEF NewRangeConstraint
  <2>3. \A c \in copies : c[1] \in Indices /\ c[2] \in Indices /\ GetVariable(c[1]) = GetVariable(c[2])
    BY DEF ListInv, HonestLists, CopiesHold
  <2>4. \A c \in copies : GetVariable(c[1])' = GetVariable(c[2])'
    BY <1>2, <2>3, OldVariables
  <2>5. needs => GetVariable(m)' = GetVariable(v)
    <3> SUFFICES ASSUME needs PROVE GetVariable(m)' = GetVariable(v)
      OBVIOUS
    <3>1. m \in Indices' /\ m \notin Indices
      BY <1>2a, <2>1
    <3> QED BY <1>2, <2>1, <3>1 DEF NewVariables, GetVariable
  <2>6. <<v, m>>[1] = v /\ <<v, m>>[2] = m
    OBVIOUS
  <2> QED BY <1>5, <2>2, <2>4, <2>5, <2>6 DEF CopiesHold
<1> QED BY <1>19, <1>20, <1>21, HonestOfLists

-----------------------------------------------------------------------------
(* The invariant of the circuits whose caller never ties two classes of one *)
(* list together.  Once finalised a circuit does not change.                *)

SatisfiableInv == RangeInv /\ HonestInv /\ RangeChecksSatisfiable

LEMMA SatisfiableInitInv == RangeInit => SatisfiableInv
<1> SUFFICES ASSUME RangeInit PROVE SatisfiableInv
  OBVIOUS
<1>1. ~circuit_finalised
  BY DEF RangeInit
<1> QED BY <1>1, RangeInitInv, HonestInit DEF SatisfiableInv, HonestInv, RangeChecksSatisfiable

LEMMA SatisfiableNextInv ==
    ASSUME ~MayMergeTagged, SatisfiableInv, [RangeNext]_rangeVars
    PROVE  SatisfiableInv'
<1>1. RangeInv'
  BY RangeNextInv DEF SatisfiableInv
<1>2. ~circuit_finalised => IInv /\ ListInv /\ (~failed => HonestLists)
  BY DEF SatisfiableInv, RangeInv, HonestInv
<1>3. CASE Finalise
  <2>1. ~circuit_finalised /\ circuit_finalised'
    BY <1>3 DEF Finalise, Unprocessed
  <2>2. RangeChecksSatisfiable'
    BY <1>2, <1>3, <2>1, FinaliseSatisfies
  <2> QED BY <1>1, <2>1, <2>2 DEF SatisfiableInv, HonestInv
\* Any other step leaves an unfinished circuit: that its lists are honest is all.
<1>4. ASSUME ~circuit_finalised, UNCHANGED circuit_finalised, ~failed' => HonestLists'
      PROVE  SatisfiableInv'
  BY <1>1, <1>4 DEF SatisfiableInv, HonestInv, RangeChecksSatisfiable
<1>5. ASSUME ~circuit_finalised, NEW v \in UserValues, UserVariable(v) PROVE SatisfiableInv'
  <2>1. v \in Values
    BY RangeAssumption
  <2>2. NewVariable(v) /\ UNCHANGED <<failed, range_lists, copies, requests, circuit_finalised>>
    BY <1>5 DEF UserVariable, AddVariable, rangeOnly
  <2>3. ~failed' => HonestLists'
    BY <1>2, <1>5, <2>1, <2>2, HonestNewVariable
  <2> QED BY <1>4, <1>5, <2>2, <2>3
<1>6. ASSUME ~circuit_finalised, NEW a \in users, NEW b \in users, UserAssertEqual(a, b)
      PROVE  SatisfiableInv'
  <2>1. a \in Indices /\ b \in Indices /\ failed \in BOOLEAN
    BY <1>2, <1>6 DEF ListInv, IInv, TypeOK
  <2>2. UNCHANGED <<range_lists, copies, requests, circuit_finalised>>
    BY <1>6 DEF UserAssertEqual, rangeOnly
  <2>3. ~failed' => ~failed
    BY <1>6, <2>1 DEF UserAssertEqual, AssertEqual, AssertEqualAgain, Merge, FailedAfter
  <2>4. CASE AssertEqualAgain(a, b)
    <3>1. UNCHANGED <<num_variables, variables, real_variable_index, real_variable_tags>>
      BY <2>4 DEF AssertEqualAgain, chains
    <3>2. ~failed' => HonestLists'
      BY <1>2, <1>6, <2>2, <2>3, <3>1 DEF HonestLists, TagsApart, MembersTagged, MembersDistinct,
        MembersComplete, StepsPresent, MembersBounded, CopiesHold, Members, Member, LowValue, Reals,
        Indices, Real, Tag, GetVariable
    <3> QED BY <1>4, <1>6, <2>2, <3>2
  <2>5. CASE Merge(a, b)
    <3>1. Tag(a) = DUMMY_TAG \/ Tag(a) # Tag(b)
      BY <1>6, <2>5 DEF UserAssertEqual, Merge
    <3>2. ~failed' => HonestLists'
      BY <1>2, <1>6, <2>1, <2>2, <2>3, <2>5, <3>1, HonestMerge
    <3> QED BY <1>4, <1>6, <2>2, <3>2
  <2> QED BY <1>6, <2>4, <2>5 DEF UserAssertEqual, AssertEqual
<1>7. ASSUME ~circuit_finalised, NEW v \in users, NEW t \in Targets, NewRangeConstraint(v, t)
      PROVE  SatisfiableInv'
  <2>1. failed' = (failed \/ Low(GetVariable(v)) > t) /\ UNCHANGED circuit_finalised
    BY <1>7 DEF NewRangeConstraint
  <2>2. ~failed' => ~failed
    BY <1>2, <1>7, <2>1 DEF IInv, TypeOK
  <2>3. ~failed' => HonestLists'
    BY <1>2, <1>7, <2>2, HonestNewRange
  <2> QED BY <1>4, <1>7, <2>1, <2>3
<1>8. ASSUME ~circuit_finalised, NEW v \in users, NEW n \in 1 .. 14, 2 ^ n \in Targets, CreateRangeConstraint(v, n)
      PROVE  SatisfiableInv'
  BY <1>7, <1>8 DEF CreateRangeConstraint
<1>9. CASE UNCHANGED rangeVars
  <2>1. UNCHANGED <<num_variables, variables, real_variable_index, real_variable_tags, failed,
                    range_lists, copies, mirrors, circuit_finalised, requests>>
    BY <1>9 DEF rangeVars, vars, chains
  <2>2. HonestLists => HonestLists'
    BY <2>1 DEF HonestLists, TagsApart, MembersTagged, MembersDistinct, MembersComplete, StepsPresent,
      MembersBounded, CopiesHold, Members, Member, LowValue, Reals, Indices, Real, Tag, GetVariable
  <2>3. RangeChecksSatisfiable => RangeChecksSatisfiable'
    <3>1. \A i : GetVariable(i)' = GetVariable(i)
      BY <2>1 DEF GetVariable, Real
    <3>2. Reals' = Reals
      BY <2>1 DEF Reals, Indices, Real
    <3>3. \A tag, x : TimesUnder(tag, x)' = TimesUnder(tag, x)
      <4> SUFFICES ASSUME NEW tag, NEW x PROVE TimesUnder(tag, x)' = TimesUnder(tag, x)
        OBVIOUS
      <4>1. {r \in Reals : real_variable_tags[r] = tag /\ variables[r] = x}'
              = {r \in Reals : real_variable_tags[r] = tag /\ variables[r] = x}
        BY <2>1, <3>2
      <4> QED BY <4>1 DEF TimesUnder
    <3>4. {variables[r] : r \in Reals}' = {variables[r] : r \in Reals}
      BY <2>1, <3>2
    <3>5. \A t : SetEqualityHolds(t)' = SetEqualityHolds(t)
      BY <2>1, <3>3, <3>4 DEF SetEqualityHolds
    <3>6. \A t : SortedWires(t)' = SortedWires(t)
      <4> SUFFICES ASSUME NEW t PROVE SortedWires(t)' = SortedWires(t)
        OBVIOUS
      <4>1. PICK g : g = mirrors[t]
        OBVIOUS
      <4>2. [k \in 1 .. Len(g) |-> GetVariable(g[k])]' = [k \in 1 .. Len(g) |-> GetVariable(g[k])]
        BY <3>1
      <4> QED BY <2>1, <4>1, <4>2 DEF SortedWires
    <3>7. \A t : SortConstraintHolds(t)' = SortConstraintHolds(t)
      BY <3>6 DEF SortConstraintHolds
    <3>8. CopiesHold' = CopiesHold
      BY <2>1, <3>1 DEF CopiesHold
    <3> QED BY <2>1, <3>1, <3>5, <3>7, <3>8 DEF RangeChecksSatisfiable
  <2> QED BY <1>1, <2>1, <2>2, <2>3 DEF SatisfiableInv, HonestInv
<1>10. CASE RangeNext /\ ~Finalise
  <2>1. /\ ~circuit_finalised
        /\ \/ \E v \in UserValues : UserVariable(v)
           \/ \E a, b \in users : UserAssertEqual(a, b)
           \/ \E v \in users, t \in Targets : CreateNewRangeConstraint(v, t)
           \/ \E v \in users, n \in {n \in 1 .. 14 : 2 ^ n \in Targets} : CreateRangeConstraint(v, n)
    BY <1>10 DEF RangeNext
  <2> QED BY <2>1, <1>5, <1>6, <1>7, <1>8 DEF CreateNewRangeConstraint
<1> QED BY <1>3, <1>9, <1>10

\* The batched range checks accept every honest witness: a circuit finalised
\* without a failure, and with the constrained values in a limb, satisfies its
\* sort constraints, the equality of the tagged sets and its copies, whatever
\* ranges were asked for, in whatever order, as long as the caller never copy
\* constrains two classes of one list (the run range_copies refutes it then).
THEOREM HonestWitnessesSatisfy ==
    ASSUME ~MayMergeTagged
    PROVE  RangeSpec => []RangeChecksSatisfiable
<1>1. RangeInit => SatisfiableInv
  BY SatisfiableInitInv
<1>2. SatisfiableInv /\ [RangeNext]_rangeVars => SatisfiableInv'
  BY SatisfiableNextInv
<1>3. SatisfiableInv => RangeChecksSatisfiable
  BY DEF SatisfiableInv
<1> QED BY <1>1, <1>2, <1>3, PTL DEF RangeSpec
=============================================================================
