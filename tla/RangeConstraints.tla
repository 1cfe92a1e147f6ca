---------------------------- MODULE RangeConstraints ----------------------------
(***************************************************************************)
(* The batched range checks of UltraComposer                               *)
(* (plonk/composer/ultra_composer.{hpp,cpp}) over the variables, copy      *)
(* constraints and tags of CircuitConstructor.                             *)
(*                                                                         *)
(* All the variables constrained to one range [0, target] carry one tag;   *)
(* when the circuit is finalised a sorted mirror of them, under the tag    *)
(* tau sends it to, is proved to climb from 0 to target in steps of at     *)
(* most three.  The set under the one tag must be the set under the other. *)
(*                                                                         *)
(* Every variable the caller constrains is taken to occur in some gate, as *)
(* the comments of create_range_constraint demand.  The constant zero_idx, *)
(* which the callers are never given, is only its value: a padding of 0.   *)
(***************************************************************************)
EXTENDS CircuitConstructor, SequencesExt

CONSTANTS
    UserValues,     \* values the caller gives its variables
    MaxUsers,       \* bound: variables of the caller
    MaxCopies,      \* bound: deep copies
    Targets,        \* ranges the caller asks for
    LimbSize,       \* 2^64: only the low limb of a value is compared and sorted
    MayMergeTagged  \* may the caller copy-constrain two classes with the same tag?

ASSUME RangeAssumption == /\ UserValues \subseteq Values /\ Values \subseteq Nat
                          /\ LimbSize \in Nat /\ 0 .. LimbSize - 1 \subseteq Values
                          /\ Targets \subseteq 1 .. LimbSize - 1
                          /\ MayMergeTagged \in BOOLEAN

VARIABLES
    users,          \* the indices the caller holds
    range_lists,    \* target -> RangeList
    copies,         \* gates "a - b = 0" between a variable and its deep copy
    mirrors,        \* target -> the sorted variables of its sort constraint
    circuit_finalised,
    requests,       \* history: <<index, target>> of create_new_range_constraint
    bitRequests     \* history: <<index, num_bits>> of create_range_constraint

rangeVars == <<vars, users, range_lists, copies, mirrors, circuit_finalised, requests, bitRequests>>

DEFAULT_PLOOKUP_RANGE_STEP_SIZE == 3
ProgramWidth == 4

\* data[0] of a field element
Low(v) == v % LimbSize

Reals == {i \in Indices : Real(i) = i}

\* add_variable and assign_tag for each of a sequence of values
PushTagged(values, tags) ==
    LET n == num_variables + Len(values)
        Extend(f, g(_)) == [i \in 0 .. n - 1 |-> IF i < num_variables THEN f[i] ELSE g(i - num_variables + 1)]
    IN  /\ n \in num_variables .. MaxVariables
        /\ num_variables' = n
        /\ variables' = Extend(variables, LAMBDA k : values[k])
        /\ real_variable_index' = Extend(real_variable_index, LAMBDA k : num_variables + k - 1)
        /\ next_var_index' = Extend(next_var_index, LAMBDA k : REAL_VARIABLE)
        /\ prev_var_index' = Extend(prev_var_index, LAMBDA k : FIRST_VARIABLE_IN_CLASS)
        /\ real_variable_tags' = Extend(tags, LAMBDA k : tags[num_variables + k - 1])

-----------------------------------------------------------------------------
(***************************************************************************)
(* create_range_list                                                       *)
(***************************************************************************)

\* Multiples of the step size up to the target, and the target itself.
StepValues(t) ==
    [k \in 1 .. t \div DEFAULT_PLOOKUP_RANGE_STEP_SIZE + 1 |->
        (k - 1) * DEFAULT_PLOOKUP_RANGE_STEP_SIZE] \o <<t>>

NewList(t) == [ range_tag |-> current_tag + 1,
                tau_tag   |-> current_tag + 2,
                variable_indices |-> [k \in 1 .. Len(StepValues(t)) |-> num_variables + k - 1] ]

IsNew(t) == t \notin DOMAIN range_lists
List(t)  == IF IsNew(t) THEN NewList(t) ELSE range_lists[t]

(***************************************************************************)
(* create_new_range_constraint: what is added to the list depends on the   *)
(* tag the variable's class has already.                                   *)
(***************************************************************************)
AlreadyIn(v, t) == Tag(v) = List(t).range_tag

\* Mutant: a wider range the class has already is taken for a narrower one.
NarrowerHeld_Any(v, t) == \E r \in DOMAIN range_lists : range_lists[r].range_tag = Tag(v)

\* The class is in a list of a smaller target: nothing to do.
NarrowerHeld(v, t) == \E r \in DOMAIN range_lists : range_lists[r].range_tag = Tag(v) /\ r < t

\* The class is in a list of a larger target: a deep copy is constrained.
NeedsCopy(v, t) == Tag(v) # DUMMY_TAG /\ ~AlreadyIn(v, t) /\ ~NarrowerHeld(v, t)

JoinsList(v, t) == ~AlreadyIn(v, t) /\ ~NarrowerHeld(v, t) /\ ~NeedsCopy(v, t)

NewRangeConstraint(v, t) ==
    LET steps == IF IsNew(t) THEN StepValues(t) ELSE << >>
        added == steps \o (IF NeedsCopy(v, t) THEN <<GetVariable(v)>> ELSE << >>)
        copy  == num_variables + Len(steps)
        member == IF NeedsCopy(v, t) THEN <<copy>> ELSE IF JoinsList(v, t) THEN <<v>> ELSE << >>
        list  == [List(t) EXCEPT !.variable_indices = @ \o member]
        tags  == [i \in 0 .. num_variables + Len(added) - 1 |->
                    IF i < num_variables /\ ~(JoinsList(v, t) /\ i = Real(v))
                    THEN real_variable_tags[i] ELSE list.range_tag]
    IN  /\ NeedsCopy(v, t) => Cardinality(copies) < MaxCopies
        /\ failed' = (failed \/ Low(GetVariable(v)) > t)
        /\ IF IsNew(t)
           THEN /\ current_tag + 4 <= MaxTag
                /\ current_tag' = current_tag + 4
                /\ tau' = [x \in DOMAIN tau \cup {list.range_tag, list.tau_tag} |->
                             CASE x = list.range_tag -> list.tau_tag
                               [] x = list.tau_tag   -> list.range_tag
                               [] OTHER              -> tau[x]]
           ELSE UNCHANGED tagVars
        /\ PushTagged(added, tags)
        /\ range_lists' = [r \in DOMAIN range_lists \cup {t} |-> IF r = t THEN list ELSE range_lists[r]]
        /\ copies' = copies \cup (IF NeedsCopy(v, t) THEN {<<v, copy>>} ELSE {})
        /\ requests' = requests \cup {<<v, t>>}
        /\ UNCHANGED <<public_inputs, users, mirrors, circuit_finalised>>

CreateNewRangeConstraint(v, t) == NewRangeConstraint(v, t) /\ UNCHANGED bitRequests

\* create_range_constraint for at most DEFAULT_PLOOKUP_RANGE_BITNUM bits; the
\* gate it adds makes the variable occur in the circuit.
CreateRangeConstraint(v, num_bits) ==
    /\ NewRangeConstraint(v, 2 ^ num_bits)
    /\ bitRequests' = bitRequests \cup {<<v, num_bits>>}

-----------------------------------------------------------------------------
(***************************************************************************)
(* process_range_lists, from compute_proving_key: the lists in the order   *)
(* of their targets, and for each a mirror of its values, sorted, one new  *)
(* variable per entry.  Where an entry goes is the number of entries that  *)
(* come before it.                                                         *)
(***************************************************************************)
LowValue(t, k) == Low(GetVariable(range_lists[t].variable_indices[k]))

\* The place std::sort gives entry k of the list of t.
Place(t, k) ==
    1 + Cardinality({j \in DOMAIN range_lists[t].variable_indices :
                        \/ LowValue(t, j) < LowValue(t, k)
                        \/ LowValue(t, j) = LowValue(t, k) /\ j < k})

SortedList(t) ==
    LET entries == DOMAIN range_lists[t].variable_indices
    IN  [p \in entries |-> LowValue(t, CHOOSE k \in entries : Place(t, k) = p)]

\* The entries of all the lists, and the variable made for the k-th of t.
Entries == UNION {{t} \X DOMAIN range_lists[t].variable_indices : t \in DOMAIN range_lists}

MirrorIndex(t, k) ==
    num_variables + Cardinality({e \in Entries : e[1] < t \/ (e[1] = t /\ e[2] < k)})

\* The entry a new variable is made for; the values and the tags, by index.
MadeFor(i) == CHOOSE e \in Entries : MirrorIndex(e[1], e[2]) = i

MirrorValues == [n \in 1 .. Cardinality(Entries) |->
                    LET e == MadeFor(num_variables + n - 1) IN SortedList(e[1])[e[2]]]

TagsWithMirrors == [i \in 0 .. num_variables + Cardinality(Entries) - 1 |->
                        IF i < num_variables THEN real_variable_tags[i]
                                             ELSE range_lists[MadeFor(i)[1]].tau_tag]

\* Mutant: the mirror is made again by every call of compute_proving_key.
Unprocessed_Always == TRUE

Unprocessed == ~circuit_finalised

Finalise ==
    /\ Unprocessed
    /\ PushTagged(MirrorValues, TagsWithMirrors)
    /\ mirrors' = [t \in DOMAIN range_lists |->
                     [k \in DOMAIN range_lists[t].variable_indices |-> MirrorIndex(t, k)]]
    /\ circuit_finalised' = TRUE
    /\ UNCHANGED <<tagVars, public_inputs, failed, users, range_lists, copies, requests, bitRequests>>

-----------------------------------------------------------------------------
RangeInit ==
    /\ Init
    /\ users = {}
    /\ range_lists = EmptyVector
    /\ copies = {}
    /\ mirrors = EmptyVector
    /\ circuit_finalised = FALSE
    /\ requests = {}
    /\ bitRequests = {}

rangeOnly == <<range_lists, copies, mirrors, circuit_finalised, requests, bitRequests>>

UserVariable(v) ==
    /\ Cardinality(users) < MaxUsers
    /\ AddVariable(v)
    /\ users' = users \cup {num_variables}
    /\ UNCHANGED rangeOnly

UserAssertEqual(a, b) ==
    /\ MayMergeTagged \/ Real(a) = Real(b) \/ Tag(a) = DUMMY_TAG \/ Tag(a) # Tag(b)
    /\ AssertEqual(a, b)
    /\ UNCHANGED <<users, rangeOnly>>

RangeNext ==
    \/ Finalise
    \/ /\ ~circuit_finalised
       /\ \/ \E v \in UserValues : UserVariable(v)
          \/ \E a, b \in users : UserAssertEqual(a, b)
          \/ \E v \in users, t \in Targets : CreateNewRangeConstraint(v, t)
          \/ \E v \in users, n \in {n \in 1 .. 14 : 2 ^ n \in Targets} : CreateRangeConstraint(v, n)

RangeSpec == RangeInit /\ [][RangeNext]_rangeVars

-----------------------------------------------------------------------------
(***************************************************************************)
(* The range checks of a finalised circuit.                                *)
(***************************************************************************)
TimesUnder(tag, x) == Cardinality({r \in Reals : real_variable_tags[r] = tag /\ variables[r] = x})

\* The padded wires of the sort constraint: zero_idx until they fill rows of
\* four, two rows at least, then the mirror.
SortedWires(t) ==
    LET n == Len(mirrors[t])
        padding == ((ProgramWidth - (n % ProgramWidth)) % ProgramWidth)
                   + (IF n <= ProgramWidth THEN ProgramWidth ELSE 0)
    IN  [k \in 1 .. padding |-> 0] \o [k \in 1 .. n |-> GetVariable(mirrors[t][k])]

SortConstraintHolds(t) ==
    LET w == SortedWires(t)
    IN  /\ Head(w) = 0
        /\ Last(w) = t
        /\ \A k \in 1 .. Len(w) - 1 : w[k + 1] - w[k] \in 0 .. DEFAULT_PLOOKUP_RANGE_STEP_SIZE

SetEqualityHolds(t) ==
    \A x \in {variables[r] : r \in Reals} :
        TimesUnder(range_lists[t].range_tag, x) = TimesUnder(range_lists[t].tau_tag, x)

CopiesHold == \A c \in copies : GetVariable(c[1]) = GetVariable(c[2])

\* A finalised circuit that reported no failure is satisfied by the witness it
\* was built with, whatever ranges overlap and whatever variables are copies
\* of each other, as long as the constrained values fit a limb.
RangeChecksSatisfiable ==
    circuit_finalised /\ ~failed /\ (\A q \in requests : GetVariable(q[1]) < LimbSize) =>
        /\ CopiesHold
        /\ \A t \in DOMAIN range_lists : SortConstraintHolds(t) /\ SetEqualityHolds(t)

\* Every range asked for is checked by some list: the variable, or a deep copy
\* a gate ties to it, is in a class under the tag of a list at least as narrow.
\* A later request or copy constraint never takes the check away unnoticed.
RequestEnforced ==
    ~failed =>
        \A q \in requests :
            \E i \in {q[1]} \cup {c[2] : c \in {c \in copies : Real(c[1]) = Real(q[1])}},
               t \in DOMAIN range_lists :
                t <= q[2] /\ Tag(i) = range_lists[t].range_tag

\* A variable constrained to num_bits bits, without a failure, has a value
\* below 2^num_bits ("expected_range = (1ULL << num_bits) - 1ULL").
BitsEnforced ==
    ~failed => \A q \in bitRequests : Low(GetVariable(q[1])) <= 2 ^ q[2] - 1
=============================================================================
