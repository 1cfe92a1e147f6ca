--------------------------- MODULE CircuitConstructor ---------------------------
(***************************************************************************)
(* The witness variables of a circuit under construction and the copy      *)
(* constraints between them: CircuitConstructorBase                        *)
(* (proof_system/circuit_constructors/circuit_constructor_base.{hpp,cpp}), *)
(* with the tags of the generalised permutation argument that the Ultra    *)
(* constructor keeps in the same vectors.                                  *)
(*                                                                         *)
(* An equivalence class of variables that must be equal is a doubly linked *)
(* chain threaded through next_var_index and prev_var_index; its last      *)
(* element is the "real" variable, to which real_variable_index sends      *)
(* every member.  The tag of a class is kept at its real variable.         *)
(*                                                                         *)
(* The vectors are functions over 0 .. num_variables-1, the indices the    *)
(* code uses.  The text of an error (_err) is wording and is left out.     *)
(***************************************************************************)
EXTENDS Integers, Sequences, FiniteSets

CONSTANTS
    Values,         \* field elements a witness may take
    MaxVariables,   \* bound: variables in the circuit
    MaxTag,         \* bound: current_tag
    MaxPublic       \* bound: public inputs

ASSUME CircuitAssumption == /\ MaxVariables \in Nat
                            /\ MaxTag \in Nat
                            /\ MaxPublic \in Nat

DUMMY_TAG == 0

\* The sentinels UINT32_MAX - 1 and UINT32_MAX - 2, written -1 and -2 as in the
\* comment of the header: no index reaches them.
REAL_VARIABLE == -1
FIRST_VARIABLE_IN_CLASS == -2

VARIABLES
    num_variables,          \* variables.size()
    variables,              \* index -> value
    next_var_index,         \* index -> next in class, or REAL_VARIABLE
    prev_var_index,         \* index -> previous in class, or FIRST_VARIABLE_IN_CLASS
    real_variable_index,    \* index -> representative of the class
    real_variable_tags,     \* index -> tag, meaningful at representatives
    current_tag,            \* last tag handed out
    tau,                    \* the permutation on tags
    public_inputs,          \* indices made public, in order
    failed                  \* _failed

chains  == <<next_var_index, prev_var_index, real_variable_index>>
tagVars == <<current_tag, tau>>
vars    == <<num_variables, variables, chains, real_variable_tags, tagVars,
             public_inputs, failed>>

Indices == 0 .. num_variables - 1

Real(i)     == real_variable_index[i]
Class(i)    == {j \in Indices : Real(j) = Real(i)}
Tag(i)      == real_variable_tags[Real(i)]

\* get_variable: the value of the class's real variable.
GetVariable(i) == variables[Real(i)]

-----------------------------------------------------------------------------
(***************************************************************************)
(* The two loops over a chain.  The set of elements a loop visits from i   *)
(* is the least set that holds i and is closed under the link it follows.  *)
(***************************************************************************)

NextClosed(S) == \A i \in S : next_var_index[i] # REAL_VARIABLE => next_var_index[i] \in S
PrevClosed(S) == \A i \in S : prev_var_index[i] # FIRST_VARIABLE_IN_CLASS => prev_var_index[i] \in S

Forward(i)  == {j \in Indices : \A S \in SUBSET Indices : i \in S /\ NextClosed(S) => j \in S}
Backward(i) == {j \in Indices : \A S \in SUBSET Indices : i \in S /\ PrevClosed(S) => j \in S}

\* get_first_variable_in_class
First(i) == CHOOSE j \in Backward(i) : prev_var_index[j] = FIRST_VARIABLE_IN_CLASS

-----------------------------------------------------------------------------
EmptyVector == [i \in {} |-> 0]

Init ==
    /\ num_variables = 0
    /\ variables = EmptyVector
    /\ next_var_index = EmptyVector
    /\ prev_var_index = EmptyVector
    /\ real_variable_index = EmptyVector
    /\ real_variable_tags = EmptyVector
    /\ current_tag = DUMMY_TAG
    /\ tau = [t \in {DUMMY_TAG} |-> DUMMY_TAG]
    /\ public_inputs = << >>
    /\ failed = FALSE

\* emplace_back on a vector that holds num_variables elements
Push(f, x) == [i \in 0 .. num_variables |-> IF i = num_variables THEN x ELSE f[i]]

\* add_variable: a new variable is alone in its class and has no tag.
NewVariable(v) ==
    /\ num_variables < MaxVariables
    /\ num_variables' = num_variables + 1
    /\ variables' = Push(variables, v)
    /\ real_variable_index' = Push(real_variable_index, num_variables)
    /\ next_var_index' = Push(next_var_index, REAL_VARIABLE)
    /\ prev_var_index' = Push(prev_var_index, FIRST_VARIABLE_IN_CLASS)
    /\ real_variable_tags' = Push(real_variable_tags, DUMMY_TAG)

AddVariable(v) ==
    /\ NewVariable(v)
    /\ UNCHANGED <<tagVars, public_inputs, failed>>

AddPublicVariable(v) ==
    /\ Len(public_inputs) < MaxPublic
    /\ NewVariable(v)
    /\ public_inputs' = Append(public_inputs, num_variables)
    /\ UNCHANGED <<tagVars, failed>>

\* set_public_input: compares indices, not classes.
SetPublicInput(i) ==
    /\ IF \E n \in 1 .. Len(public_inputs) : public_inputs[n] = i
       THEN /\ failed' = TRUE
            /\ UNCHANGED public_inputs
       ELSE /\ Len(public_inputs) < MaxPublic
            /\ public_inputs' = Append(public_inputs, i)
            /\ UNCHANGED failed
    /\ UNCHANGED <<num_variables, variables, chains, real_variable_tags, tagVars>>

(***************************************************************************)
(* assert_equal joins the class of b to the class of a: the whole b-chain  *)
(* takes a's real variable, and the last element of the b-chain is tied to *)
(* the first element of the a-chain.  The vectors after the call:          *)
(***************************************************************************)

\* Mutant: the chain is updated from b itself, not from the first of its class.
RealAfter_FromB(a, b) ==
    [i \in Indices |-> IF i \in Forward(b) THEN Real(a) ELSE Real(i)]

RealAfter(a, b) ==
    [i \in Indices |-> IF i \in Forward(First(b)) THEN Real(a) ELSE Real(i)]

\* Mutant: tied to a itself, not to the first of its class.
NextAfter_ToA(a, b) == [next_var_index EXCEPT ![Real(b)] = a]

NextAfter(a, b) == [next_var_index EXCEPT ![Real(b)] = First(a)]

\* Mutant: the back link names b, not the end of b's chain.
PrevAfter_ToB(a, b) == [prev_var_index EXCEPT ![First(a)] = b]

PrevAfter(a, b) == [prev_var_index EXCEPT ![First(a)] = Real(b)]

TagClash(a, b) == Tag(a) # DUMMY_TAG /\ Tag(b) # DUMMY_TAG /\ Tag(a) # Tag(b)

\* Mutant: the tag of b's class is lost when a's class has none.
TagsAfter_Lost(a, b) == real_variable_tags

TagsAfter(a, b) ==
    IF Tag(a) = DUMMY_TAG THEN [real_variable_tags EXCEPT ![Real(a)] = Tag(b)]
                          ELSE real_variable_tags

\* Mutant: a copy constraint between different values is not noticed.
FailedAfter_ValuesIgnored(a, b) == failed \/ (Real(a) # Real(b) /\ TagClash(a, b))

FailedAfter(a, b) ==
    \/ failed
    \/ GetVariable(a) # GetVariable(b)
    \/ Real(a) # Real(b) /\ TagClash(a, b)

\* The two classes are the same already: early return.
AssertEqualAgain(a, b) ==
    /\ Real(a) = Real(b)
    /\ failed' = FailedAfter(a, b)
    /\ UNCHANGED <<num_variables, variables, chains, real_variable_tags, tagVars, public_inputs>>

Merge(a, b) ==
    /\ Real(a) # Real(b)
    /\ real_variable_index' = RealAfter(a, b)
    /\ next_var_index' = NextAfter(a, b)
    /\ prev_var_index' = PrevAfter(a, b)
    /\ real_variable_tags' = TagsAfter(a, b)
    /\ failed' = FailedAfter(a, b)
    /\ UNCHANGED <<num_variables, variables, tagVars, public_inputs>>

AssertEqual(a, b) == AssertEqualAgain(a, b) \/ Merge(a, b)

-----------------------------------------------------------------------------
(***************************************************************************)
(* Tags (ultra_circuit_constructor.hpp).  Every caller takes two new tags  *)
(* and makes tau swap them, which moves current_tag by four; a variable is *)
(* given a tag only while its class has none (the assertion of assign_tag).*)
(***************************************************************************)

\* Mutant: the second get_new_tag does not advance current_tag, and create_tag neither.
CreateTagPair_Stale ==
    /\ current_tag + 4 <= MaxTag
    /\ current_tag' = current_tag + 1
    /\ tau' = [t \in DOMAIN tau \cup {current_tag + 1, current_tag + 2} |->
                 CASE t = current_tag + 1 -> current_tag + 2
                   [] t = current_tag + 2 -> current_tag + 1
                   [] OTHER               -> tau[t]]
    /\ UNCHANGED <<num_variables, variables, chains, real_variable_tags, public_inputs, failed>>

CreateTagPair ==
    LET range_tag == current_tag + 1
        tau_tag   == current_tag + 2
    IN  /\ current_tag + 4 <= MaxTag
        /\ current_tag' = current_tag + 4
        /\ tau' = [t \in DOMAIN tau \cup {range_tag, tau_tag} |->
                     CASE t = range_tag -> tau_tag
                       [] t = tau_tag   -> range_tag
                       [] OTHER         -> tau[t]]
        /\ UNCHANGED <<num_variables, variables, chains, real_variable_tags, public_inputs, failed>>

\* Mutant: the tag is written at the variable, not at its real variable.
AssignTag_AtVariable(i, t) ==
    /\ Tag(i) = DUMMY_TAG
    /\ real_variable_tags' = [real_variable_tags EXCEPT ![i] = t]
    /\ UNCHANGED <<num_variables, variables, chains, tagVars, public_inputs, failed>>

AssignTag(i, t) ==
    /\ Tag(i) = DUMMY_TAG
    /\ real_variable_tags' = [real_variable_tags EXCEPT ![Real(i)] = t]
    /\ UNCHANGED <<num_variables, variables, chains, tagVars, public_inputs, failed>>

Next ==
    \/ \E v \in Values : AddVariable(v) \/ AddPublicVariable(v)
    \/ \E i \in Indices : SetPublicInput(i)
    \/ \E a, b \in Indices : AssertEqual(a, b)
    \/ CreateTagPair
    \/ \E i \in Indices, t \in DOMAIN tau \ {DUMMY_TAG} : AssignTag(i, t)

Spec == Init /\ [][Next]_vars

-----------------------------------------------------------------------------
TypeOK ==
    /\ num_variables \in 0 .. MaxVariables
    /\ variables \in [Indices -> Values]
    /\ next_var_index \in [Indices -> Indices \cup {REAL_VARIABLE}]
    /\ prev_var_index \in [Indices -> Indices \cup {FIRST_VARIABLE_IN_CLASS}]
    /\ real_variable_index \in [Indices -> Indices]
    /\ real_variable_tags \in [Indices -> DOMAIN tau]
    /\ current_tag \in 0 .. MaxTag
    /\ DUMMY_TAG \in DOMAIN tau
    /\ DOMAIN tau \subseteq 0 .. current_tag
    /\ public_inputs \in Seq(Indices)
    /\ failed \in BOOLEAN

(***************************************************************************)
(* The inductive invariant of the chains, by parts.                        *)
(***************************************************************************)

\* The real variable of a class is the last of its chain, and only it.
RealIsLast ==
    \A i \in Indices : /\ Real(Real(i)) = Real(i)
                       /\ next_var_index[i] = REAL_VARIABLE <=> Real(i) = i

\* The two links are inverse of each other and stay inside one class.
LinksMatch ==
    /\ \A i \in Indices : next_var_index[i] # REAL_VARIABLE =>
         /\ prev_var_index[next_var_index[i]] = i
         /\ Real(next_var_index[i]) = Real(i)
    /\ \A i \in Indices : prev_var_index[i] # FIRST_VARIABLE_IN_CLASS =>
         next_var_index[prev_var_index[i]] = i

OneFirst ==
    \A i, j \in Indices :
        /\ prev_var_index[i] = FIRST_VARIABLE_IN_CLASS
        /\ prev_var_index[j] = FIRST_VARIABLE_IN_CLASS
        /\ Real(i) = Real(j)
        => i = j

\* Following prev from any variable ends: what is closed under prev has a first.
FirstReached ==
    \A i \in Indices : \A S \in SUBSET Indices :
        i \in S /\ PrevClosed(S) =>
            \E j \in S : prev_var_index[j] = FIRST_VARIABLE_IN_CLASS /\ Real(j) = Real(i)

ChainInv == RealIsLast /\ LinksMatch /\ OneFirst /\ FirstReached

\* The loops of get_first_variable_in_class and update_real_variable_indices
\* end, and together they visit the class of the variable they start from,
\* all of it and nothing else (what assert_equal takes for granted).
ChainIsClass == \A i \in Indices : Forward(First(i)) = Class(i)

\* Unless the circuit has failed, all the members of a class were given the
\* same value, so it does not matter which of them represents the class.
OneValuePerClass ==
    ~failed => \A i, j \in Indices : Real(i) = Real(j) => variables[i] = variables[j]

\* No index is made public twice: set_public_input refuses it, and
\* add_public_variable uses a new index.
PublicOnce ==
    \A m, n \in 1 .. Len(public_inputs) : public_inputs[m] = public_inputs[n] => m = n

\* tau is an involution on the tags in use: tau.at(tag) of
\* compute_permutation_mapping is defined, and undoes itself.
TauSwaps == \A t \in DOMAIN tau : tau[t] \in DOMAIN tau /\ tau[tau[t]] = t

\* A class that has a tag keeps it for good, whatever is joined to it, unless
\* the join is reported as a failure: a range or memory check once attached to
\* a variable is never dropped.
TagsKept ==
    [][~failed' => \A i \in Indices : Tag(i) # DUMMY_TAG => Tag(i)' = Tag(i)]_vars

\* get_variable(i) is a constant of i: no later copy constraint changes the
\* value read, unless it is reported as a failure.
ValuesKept == [][~failed' => \A i \in Indices : GetVariable(i)' = GetVariable(i)]_vars

(***************************************************************************)
(* The abstract view: a partition of the variables, in which a copy        *)
(* constraint replaces two blocks by their union.                          *)
(***************************************************************************)
Blocks == {Class(i) : i \in Indices}

Abstract == INSTANCE Partition WITH Elements <- 0 .. MaxVariables - 1,
                                    elements <- Indices,
                                    blocks   <- Blocks

RefinesPartition == Abstract!Spec
=============================================================================
