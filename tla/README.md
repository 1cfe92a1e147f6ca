# A TLA+ model of Barretenberg

Barretenberg (`cpp/src/barretenberg`) builds arithmetic circuits, proves them with the PLONK family of proof
systems and verifies the proofs. Most of its lines are field, curve and polynomial arithmetic, which a model
checker has little to say about. Around that arithmetic sits a layer of *stateful bookkeeping*: linked chains
of equal variables, lists of ranges, trees over a transactional store, a transcript, and a queue of work
between the rounds of a prover. Its errors are errors of order and of state. They do not crash; they make a
circuit too weak, a valid proof fail, or a hash path wrong. This project models that layer, and the parts of
the arithmetic where the order of steps, a missing constraint or a choice of the prover decides the result:
the gadgets of the standard library, memory arrays, Honk with its sumcheck, and the Schnorr multisignature.
Those are checked over small prime fields.

All source paths below are relative to `src/cpp/src/barretenberg`.

- [The system](#the-system): the inventory
- [Modules](#modules): how each one corresponds to the code
- [Runs](#runs): what is checked, with which bounds
- [Fairness and deadlock](#fairness-and-deadlock)
- [Proofs](#proofs): what is proved and how
- [Findings and observations](#findings-and-observations)
- [What is not modelled](#what-is-not-modelled) and the [plan](#plan)


## The system

```
   gadgets (stdlib) ──► circuit constructor ──► composer ──► proving key ──► prover ◄──► work queue ◄──► workers
   bool, field,         variables, copies,      range lists,   sigma / id    Plonk or Honk
   ROM and RAM tables   tags, public inputs,    permutation                      │
                        ROM and RAM arrays                                       ▼
                                                                            transcript ──► proof ──► verifier
   stdlib/merkle_tree:  nullifier tree ──► Merkle tree ──► memory store
                        nullifier memory tree ──► memory tree
   crypto/schnorr:      signers ──► nonces ──► signers ──► shares ──► combiner ──► signature
```

| Component | State it keeps | Operations | What is hard | What makes it correct |
|---|---|---|---|---|
| **Circuit constructor** `proof_system/circuit_constructors` | the values; for each index its class, the next and the previous member of its class; tags and `tau`; public inputs; `failed` | `add_variable`, `add_public_variable`, `set_public_input`, `assert_equal`, `create_tag`, `assign_tag` | `assert_equal` splices two linked chains and forwards one class to the other, whatever place the operands have in their chains | classes are a partition; a walk visits exactly one class; a class has one value and one tag, kept for good |
| **Wire permutation** `proof_system/composer`, `honk/utils` | gates; copy cycles; `sigma` and `id` of the key | adding gates, `compute_permutation_mapping`, `compute_witness_base`, the public-input delta | public rows, tags and padding all rewrite the same cells, and two pieces of code shift the rows independently | the argument accepts exactly the tables that respect copies, tags and public inputs; the honest witness is one |
| **Range checks of the ultra composer** `plonk/composer/ultra_composer` | a list per range, deep copies, sorted mirrors | `create_range_constraint`, `create_new_range_constraint`, `process_range_lists` at the end | one variable under several ranges in either order, and copy constraints before or after | a request is never dropped; a valid witness is never rejected |
| **ROM and RAM arrays** `ultra_circuit_constructor`, `plookup_auxiliary_widget` | per array the cells, the records of accesses, the access count; gates, tags and ranges | `create_ROM_array`, `set_ROM_element(_pair)`, `read_ROM_array(_pair)`, `create_RAM_array`, `init_RAM_element`, `read_RAM_array`, `write_RAM_array`, `finalize_circuit` | a second, sorted list of records is tied to the first by tags and checked by comparing neighbours; the sort leaves equal records in any order; the fourth wires are filled in by the prover afterwards | a read returns the cell, or the last write, in *every* witness; the honest witness passes; a ROM circuit does not depend on the witness |
| **Memory tables** `stdlib/primitives/memory` | entries, the array (once it is made), flags; a length | `ram_table`, `rom_table`: make, `read`, `write`; `DynamicArray`: make, `resize`, `read`, `write`, `push`, `pop`, `conditional_push`, `conditional_pop` | the array is made late, at the first use; a length that is a witness | a list of bounded length; calls fail exactly when they are not served |
| **Booleans and field elements** `stdlib/primitives/bool`, `field` | nothing but the circuit; an element carries a lazy scaling, a bool a lazy negation | arithmetic, logic, comparison, selection, slices, decompositions, assertions | witnesses the prover chooses freely (inverses, bits, borrows) must leave one result; constants take other branches | sound for every witness, complete for the honest one |
| **Memory store** `stdlib/merkle_tree/memory_store.hpp` | base map, pending puts, pending deletes | `put`, `del`, `get`, `commit`, `rollback` | which of three maps answers a read | a transactional map |
| **Sparse Merkle tree** `stdlib/merkle_tree/merkle_tree.cpp` | entries of the store, keyed by hash: nodes and stumps (subtrees with one leaf) | `update_element`, `root`, `get_hash_path`, and commit and rollback of the store | forking stumps; deleting nodes that are shared by content; rollback between updates | root and paths are those of the leaves |
| **Dense Merkle tree** `memory_tree.cpp` | one flat array of all layers | `update_element`, `get_hash_path`, `get_sibling_path` | offsets that move from layer to layer | as above |
| **Nullifier trees** `nullifier_tree/` | the leaves as a sorted linked list, and one of the two trees over them | `update_element` | each insertion relinks a neighbour and hashes two leaves | no member can be proved absent, every non-member can; both trees agree |
| **Fiat-Shamir transcript** `transcript/` | elements, challenges, the current round and challenge | `add_element`, `apply_fiat_shamir`, `export_transcript`, the constructor that reads a proof | rounds without challenges or with several; elements added again, or late | a challenge binds all that came before it; the verifier gets the same ones |
| **Work queue** `proof_system/work_queue` | queued items, some handed to workers by number | `add_to_queue`, `process_queue`, `get_*_data`, `put_*_data`, `flush_queue` | results arrive in any order and are matched by number | each result lands under the name it was computed for |
| **Plonk prover** `plonk/proof_system/prover` | the key's polynomial store and quotient parts, the transcript, the queue | preamble, six rounds, `export_proof`, `reset` | a round needs what the queue of the round before put in; the key survives `reset` | proofs finish and are accepted, also the next one of the same key |
| **Plonk verifier, Kate commitments** `plonk/proof_system/verifier`, `commitment_scheme` | transcript, maps of group elements and scalars | `verify_proof`, `batch_open`, `batch_verify` | the order of everything above has to match | accepts what the prover exports |
| **Standard Honk** `honk` (prover, verifier, transcript, sumcheck, Gemini, Shplonk, KZG) | the polynomials folded so far, the claims, the queue, the transcript with its manifest | eleven steps of the prover, `export_proof`, seven of the verifier | foldings, shifts and the order of variables are written several times; words are read from the proof without names | accepts exactly the satisfied tables; rejects a changed proof; prover and verifier hash the same |
| **Schnorr multisignature** `crypto/schnorr` | a signer's private output between two rounds | `construct_signature_round_1`, `construct_signature_round_2`, `combine_signatures`, `verify_signature`, proofs of possession | nothing ties the rounds of a signature together but what the callers pass; several signatures at a time | combines what all members made for one message and list; signs nothing else |

The components interact by plain calls in one thread, with three exceptions. The Merkle trees share state
through the store: a rollback of the store changes the tree under the feet of its client. In the browser
build an outside driver takes items from the work queue, gives them to workers and puts the results back
(`plonk/proof_system/prover/c_bind.cpp`), so that the order of results is not the program's. And the signers of
a multisignature are separate programs, whose messages travel over a transport that is not in the repository.

The remaining components (widgets, arithmetic, the other gadgets, bindings) are in [What is not
modelled](#what-is-not-modelled). The hazards of this code, each with its line and the properties that cover
it, are in `PROJECT.json`; the properties were chosen from that list. Smaller ones, mostly of the kind that an
observation below describes, are: `set_public_input` called twice with one index; half a pair of tags;
`nullifier_tree.cpp:35`, `:61` (leaves beside the store) and `:75` (no capacity check); `memory_tree.cpp:67` (no
index check); `merkle_tree.cpp:150` (size is the last index plus one); `memory_store.hpp:75`;
`work_queue.cpp:76` and `:114`; `prover.cpp:289`; `kate_commitment_scheme.cpp:276`; `ram_table.cpp:138`
(copies of a table); `standard_honk_composer_helper.cpp:170`; `permutation_helper.hpp:213`;
`ultra_composer.cpp:533`; `ultra_circuit_constructor.cpp:636` and `:2034`; `bool.cpp:146`; `field.cpp:1003`.


## Modules

| Module | Models | Uses |
|---|---|---|
| `Partition` | *abstract*: a partition in which blocks are united | |
| `CircuitConstructor` | variables, copy constraints, tags, public inputs | `Partition` as refinement |
| `WirePermutation` | gates, copy cycles, permutation argument | extends `CircuitConstructor` |
| `RangeConstraints` | range lists of the ultra composer | extends `CircuitConstructor` |
| `MemoryArrays` | ROM and RAM arrays, and the identities that check them | |
| `PrimeField` | arithmetic of a prime field | |
| `BoundedList` | *abstract*: a list of bounded length | |
| `MemoryTables` | `ram_table`, `rom_table`, `DynamicArray` | `PrimeField`; `BoundedList` as refinement |
| `Gadgets` | `bool_t` and `field_t` as operators on circuits | `PrimeField` |
| `GadgetPrograms` | programs over them, and all witnesses of their circuits | extends `Gadgets` |
| `KVStore` | *abstract*: a map with commit and rollback | |
| `StoreOps`, `MemoryStore` | the store as operators, and as a component | `KVStore` as refinement |
| `MerkleHash` | injective hashing, reference root and paths | |
| `MerkleTreeOps`, `MerkleTree` | the sparse tree as operators, and as a component | `StoreOps`, `MerkleHash` |
| `MemoryTreeOps` | the dense tree as operators | `MerkleHash` |
| `NullifierList` | the linked list of nullifier leaves | |
| `NullifierTree` | both trees over one list | `NullifierList`, `MerkleTreeOps`, `MemoryTreeOps` |
| `TranscriptOps`, `Transcript` | the transcript as operators, and under arbitrary callers | |
| `Prover` | ultra prover, work queue, workers, verifier | `TranscriptOps` |
| `Sumcheck`, `MultilinearOpening` | the computations of Honk as operators | `PrimeField` |
| `HonkProtocol` | Standard Honk: prover, queue, proof, verifier | both, and `WirePermutation` |
| `Approvals` | *abstract*: a group signs what all its members approved | |
| `Multisig` | the Schnorr multisignature over a transport | `PrimeField`; `Approvals` as refinement |
| `CircuitConstructorProofs`, `WirePermutationProofs`, `RangeConstraintsProofs`, `MemoryArraysProofs`, `ProverProofs` | theorems about the module they are named after | `TLAPS` |
| `HashingProofs` | theorems about `Transcript`, `MerkleTree` and the operators of `MemoryTreeOps` | `TLAPS` |
| `StorageProofs` | theorems about `MemoryStore` and `NullifierList`, on which the trees are built, and about `MemoryTables` | `TLAPS` |
| `LeastElements` | lemmas: the least and the greatest number of a set, induction over a set of naturals | `TLAPS` |
| `MC_*` | the values of the constants that a cfg cannot write | |

A component that is used by others comes as a module of operators (`...Ops`: state in, state out) and a module
that makes actions of them. Operators named `X_Something` next to an `X` are faulty variants of `X`: the
property named in `PROJECT.json` must fail when one of them takes the place of `X`.

### CircuitConstructor

The vectors `variables`, `real_variable_index`, `next_var_index`, `prev_var_index` and `real_variable_tags`
are functions on `0 .. num_variables - 1` under the names of `circuit_constructor_base.hpp`; `tau`,
`current_tag` and `failed` are those of the code (`ultra_circuit_constructor.hpp` for the tags). There is one
action per public operation. `AssertEqual` is the whole of `assert_equal`: it may fail without stopping,
return early for two members of one class, and otherwise splice the chains (`NextAfter`, `PrevAfter`), forward
the class (`RealAfter`), and hand over the tag or report a clash (`TagsAfter`, `FailedAfter`).

The loops of `get_first_variable_in_class` and `update_real_variable_indices` are the least set that is closed
under `prev` or `next` (`Backward`, `Forward`). That the loops end, and end where they should, is not assumed
but stated: `FirstReached` and `ChainIsClass`.

`create_tag(t, tau)` trusts its caller to make pairs. `CreateTagPair` is the pair of calls that every caller
of the ultra composer makes.

### WirePermutation

A cell is a column and a row. `CreateGate` appends the row of wires that any `create_*_gate` appends; its
selectors do not matter for copies. `ComputeMapping` is `compute_permutation_mapping` over the cycles of
`compute_wire_copy_cycles`, and seals the circuit. The code pushes cells on the vector of their variable in the
order in which it walks them (`OccupiedCells`); a cycle is therefore the set of *places* in that order
(`CopyCycle`), with a first (`Leader`, `IsFirst`), a last (`IsLast`) and a `Successor`. `Label` is the integer the Honk encoding gives to an entry
of `sigma` or `id`, public inputs and tags included.

The grand product itself is abstracted by what it decides: for random β and γ over a large field the product
over the rows equals the public-input delta exactly when the two bags of pairs ⟨value, label⟩ are the same
(`ProductIsDelta`). `ArgumentIsExact` then quantifies over *every* table and every vector of public inputs,
which no test can do.

### RangeConstraints

Extends the circuit constructor with the `range_lists`, the gates that tie a variable to its deep copy
(`copies`), and the sorted mirrors. `CreateNewRangeConstraint` is the whole of the function of that name, the
creation of a list and the recursive call through a deep copy included; `CreateRangeConstraint` is the wrapper
that takes a number of bits; `Finalise` is `process_range_lists` as `compute_proving_key` calls it. Only
`data[0]` of a value is compared and sorted (`Low`, with `LimbSize` for 2^64). The caller is restricted to
what the comments of the code ask of it: constrained variables occur in a gate. `requests` and `bitRequests`
are history, for the properties. `std::sort` is modelled by what it does: the place of an entry is one more
than the number of entries before it (`Place`, by value and then by position), and the index of its mirror is
that number taken over all the lists (`MirrorIndex`), so that the model needs no sequence-building loop.

### MemoryArrays

A circuit is a record: the values of the variables, the gates (type, four wires, a constant), the tags and
ranges, and the array with its `state`, `records` and `access_count`. The operators carry the names of the
constructor: an access adds a gate and a record; `FinalizeCircuit` writes a zero to the cells that were never
set (`Initialized`), sorts the records and adds the second list (`ProcessROM`, `ProcessRAM`). What the code
appends one by one in a loop is appended at once, with the wires and values of the k-th record in closed form
(`FreshWires`, `FreshValues`, `AddSortedList`, `AddTimestamps`); that is also what the proofs reason about.
`std::sort` is any permutation that sorts (`Orders`, `Sortings`). A random combination under η is the tuple it
combines, so two fourth wires are equal exactly when the tuples are.

`RomReadsTheCell` and `RamReadsLastWrite` quantify over what a *dishonest* prover may choose. TLC looks at
`Assignments`: the values of all the free variables that are indices of cells, and every order of the second
list; the rest follows (`AssignedValues`, `AssignedFourth`). The theorems (`RomIsSound`, `RamIsSound`) speak of
every assignment. That is where the identities of `plookup_auxiliary_widget.hpp` (`RomConsistent`,
`RamConsistent`, `TimesCompared`) come in. `HonestAccepted` is about the prover's own witness, with the fourth
wires filled in by `FilledIn` at the rows the code lists.
Assumed: one array in a circuit, index witnesses that stay inside the array (`IndexModulus` is the cast to 32
bits), and for RAM that every cell is written at a constant index before a witness decides an index
(`WrittenFirst`) and that the second list is in the order of time within a cell (see the observations).

### MemoryTables and BoundedList

`rom_table`, `ram_table` and `DynamicArray` over the arrays of the composer, given by their contents. A
`field_t` is a value and whether it is a constant. `failed` stands for a reported failure as well as for a
constraint that the witness breaks; `refused` for an assertion of the composer. Where a constraint is on a
witness that the program computes (the flags of `resize`), the witness is *any* that satisfies it. A
`ram_table` and a `DynamicArray` live in one composer, so that the late creation of one array meets the calls
of the other; the `rom_table` has a composer of its own. `BoundedList` is what the array promises.

### Gadgets and GadgetPrograms

Every gadget is an operator from a circuit and operands to a circuit with `results`, and follows the branches
of `bool.cpp` and `field.cpp`: constant or witness, scaled or not, the same witness twice. A program does not
look at its witness, so the value of a variable is a function of the inputs, and one state stands for all
inputs at once. `GadgetPrograms` builds the programs and keeps with each result the function it *means*.
`Solutions` then enumerates all witnesses of the circuit, honest or not. Arithmetic, copies and ranges of the
ultra composer are constraints of their own kind; that ranges and copies are enforced is the matter of
`RangeConstraints` and `WirePermutation`. The prime is small, so `ExponentBits`, `HalfBits` and
`MAX_NO_WRAP_INTEGER_BIT_LENGTH` are parameters that keep their relation to it: a decomposition of twice
`HalfBits` bits covers the field and overlaps it, as 256 bits do in the code.

### StoreOps, MemoryStore and KVStore

`StoreOps` has the store as a record `[store, puts, deletes]` and one operator per method. `MemoryStore` lets
a client call them in any order. `KVStore` is what the store promises: one committed map and one working map.
The refinement holds when a key determines its value (`ContentAddressed`), which is so for the hash-keyed
nodes of a tree, and not for its metadata (see the observations).

### MerkleHash, MerkleTreeOps and MerkleTree

Hashing is the injective pairing `hash_pair_native(l, r) = <<l, r>>`; `TreeHash` and `TreePath` are the
reference, computed from the leaves. A leaf is no pair (`LeafAssumption`): hashes of different things differ.
`MerkleTreeOps` follows `merkle_tree.cpp` function by function over a store record: `update_subtree` is one
call of the recursive `update_element`, with `binary_put`, `fork_stump`, `update_node`, `put_stump` and `remove`
below it. The code goes down before it writes anything, so its recursion is in two parts here: `Way` is the keys
it comes to on the way down, and `update_root` and `get_hash_path` are functions of the height that give each
call what the call below it returned. `PowerOf2[n]` is the code's `1 << n`. `MerkleTree` drives all this: an update of any leaf, a commit or a rollback of the store,
with the leaves and the committed leaves beside it as history.

### MemoryTreeOps, NullifierList and NullifierTree

`NullifierList` is the linked list that both nullifier trees keep: `find_closest_leaf` by unsigned differences
(`Diff`, `Closest`), insertion with relinking (`Insert`), and the insertion of a value that is there already
(`InsertAgain`). `NullifierTree` gives it two trees. `Update` inserts one value and does the tree updates of
both: the sparse tree in a store (`StoreAfter`) and the dense one in a flat array (`DenseAfter`, over
`MemoryTreeOps`). So the tree over the list is checked against the list, and the two implementations against
each other. `TreeInit` follows the constructors, including the order in which the sparse one stores its first
leaf and replaces its zero hashes.

### TranscriptOps and Transcript

A transcript is a record with the fields of the code; `Hash` is an uninterpreted constant. `apply_fiat_shamir`
builds the buffer of the round (`Prefix`, `RoundData`), hashes it, and cuts chunks, hashing again with a
counter when a round has more challenges than a hash has chunks (`RoundChallenges`). Its assertions (right
round, right name, all elements there) are the guard `ReadyFor`, as in a build with assertions. `Transcript`
is a transcript under callers with no discipline: any element at any time, twice, with another value, or after
its round. `export_transcript` and `FromProof` are the two ends of a proof; the names in it, in the order of
the manifest, are `ProofNames` (the entry that k entries precede is the k-th, counting from 0).
`VerifierTranscript` is the verifier's: read from the proof, then one `apply_fiat_shamir` per round
(`VerifierRounds`).

### Prover

Composes the transcript, the work queue, the prover of the ultra flavour and a verifier. A step of `Round` is
one `execute_*_round`; between two rounds the driver empties the queue, either with `ProcessQueue` or with
workers that `Fetch` items by type and number and `PutBack` their results in any order. The number of an item is
a count over the queue, for a fetch and for a result alike (`Number`, `Item`). `RoundDone` is the
driver's contract: the next round starts when all results are in (the driver of the workers is outside the
repository).

A polynomial is *what it was computed from*: a wire knows which proof it was blinded for and which `eta` its
memory records were multiplied by, a grand product knows its wires and challenges, an opening knows what it
opens. Commitments are binding, so the commitment of a polynomial is the polynomial. `Accepts` is
`verify_proof` over these terms: it derives the challenges from the exported proof, requires of the claimed
polynomials what the identities require, and of evaluations and openings that they are of the committed
polynomials. The polynomials of the circuit never change and are left out, and one ν stands for all of them,
as they are chunks of one hash. The key (`store`, `parts`) survives `Reset` as it does in the code, and that
is what the second proof is for.

### PrimeField, Sumcheck, MultilinearOpening and HonkProtocol

`HonkProtocol` runs Standard Honk end to end over a real, small prime field: the keys of a circuit (the
permutation is that of `WirePermutation`, used with `INSTANCE`), the grand product, the rounds of sumcheck,
the foldings of Gemini, the batching of Shplonk and the opening of KZG. Polynomials are the functions of their
coefficients and are *computed*, not named; only two things are abstracted. The commitment of a polynomial is
the polynomial, so commitments are binding and homomorphic, and the pairing check is the identity of
polynomials it stands for. And the hash is one of a few functions that mix their input into the field
(`HashFunctions`), chosen such that no challenge is zero where the code would invert it. As the field has
46337 elements, a false statement could pass with a probability of about degree / 46337 per hash function;
with these it never does.

The prover takes one step per round, and `ProcessQueue` between two of them: a commitment of Honk is *sent*
when its item is processed. The prover may be given any table that differs from the witness in one cell, and
the proof may change in one word on its way (`Deliver`). The verifier reads words without names, as
`receive_from_prover` does, and both transcripts keep the manifest that the code keeps, as a sequence.

### Multisig and Approvals

A point of the group is the scalar it is a multiple of, a hash is an element of the field at once (the
reduction of 256 bits is left out), and the scheme is otherwise computed: nonces, their hash in the order of
the list, challenges, shares, the sums, the verification of the combined signature, and the proofs of
possession. A point and its negative share the x coordinate, which is all that the challenge hashes. The
transport is external, and the worst there is: a call is given *any* list over what was published, so outputs
are lost, repeated, mixed between signatures and reordered; keys may be missing, given twice, damaged, or
carry the proof of another. A signer may have several first rounds open. `shares` and `signatures` are all
that was ever produced. The randomness is a fixed list, with a seed for which no accidental collisions occur.
`Approvals` is the promise: a group signs a message only after all its members approved that.


## Runs

| Run | Question | Bounds | States |
|---|---|---|---|
| `circuit` | Does any sequence of operations leave walks that visit a class, one value and one tag per class, a partition? And does the permutation argument accept exactly the right tables, for any circuit, table and public inputs? | built: 3 variables, 2 values, 2 public inputs, 2 pairs of tags; of those, with gates and a mapping: 2 variables, 1 public input, 1 pair of tags, 1 gate, 3 columns and 2 rows, table values {0, 1} | 168,659 |
| `range_checks` | Is an honest witness accepted and every request enforced, however ranges overlap? | 2 caller's variables, values {2, 4, 10}, ranges 2 and 5, limb of 8, 1 deep copy | 14,828 |
| `range_copies` | *(violation)* The same with copy constraints between two classes already in one list | | |
| `memory_arrays` | Does every witness of a finished array read the right values, and does the honest one pass? | 2 cells, field of 11, indices modulo 4, index values {0, 1, 5}, 1 index witness, 1 stored witness, 4 records, 1 public input | 13,141 |
| `standard_library` | Is a dynamic array a bounded list, and a call refused exactly when it is not served? Does every gadget mean what it says, for every witness? | 2 cells, values {0, 1}; field of 37, inputs {0, 1, 6, 36}, 3 scalings, 3 constants, one gadget on operands in all their forms | 45,492 |
| `memory_store` | Is the store a transactional map when a key determines its value? | 4 keys | 1,296 |
| `merkle_tree` | Are root and paths those of the leaves, with commits and rollbacks between updates? | depth 3, 4 updates, 1 commit, all values different | 47,889 |
| `nullifier_trees` | Is the list sound, and are both trees those of the list? | nullifiers {0, 1, 2, 3, 5, 6}, 6 leaves, depth 3 | 3,262 |
| `transcript` | Do challenges bind what came before them, for undisciplined callers? | 5 rounds, 2 values an element can have, 2 chunks a hash | 2,125 |
| `prover` | Do two proofs in a row finish, bind what they open, and get accepted? | 2 proofs, with and without memory records, any order of workers | 686 |
| `honk` | Does Honk accept exactly the satisfied tables, and no changed proof? | 3 circuits of 8 rows, tables off by one cell, proofs off by one word, 3 hash functions, field of 46337 | 11,949 |
| `multisig` | Do exactly the agreed shares combine, and is nothing else signed? | 2 signers, 3 first rounds, 2 second rounds, 2 messages, 8 lists of keys, field of 46337 | 13,974 |

The longest run, `standard_library`, takes about two and a half minutes, `memory_arrays`, `circuit` and
`multisig` about one, the others less.

### What the properties say

- **circuit.** `ChainIsClass` is what `assert_equal` takes for granted: the walk from the first member visits
  the class. `OneValuePerClass` and `TagsKept` say that a copy constraint never loses a value or a check
  *unless the circuit reports a failure*: the code goes on after a failure, and so does the model.
  `RefinesPartition` says that the whole is a union of blocks. `ArgumentIsExact`: a table and public inputs
  satisfy the argument if and only if copies agree, the two sets of every pair of tags are the same bag, and
  the public rows hold the public inputs. One direction is soundness, the other completeness.
  `HonestWitnessPasses` is completeness for the witness that `compute_witness_base` builds, so that the row
  offsets of two files agree.
- **range_checks.** `RequestEnforced`: every request is held by a list at least as narrow, through the
  variable or through a deep copy tied to it. `RangeChecksSatisfiable`: a circuit that reported no failure
  accepts its own witness. The value 10 is beyond the limb: the code promises nothing for it, and the property
  says so in its antecedent.
- **memory_arrays.** `RomReadsTheCell` and `RamReadsLastWrite` are soundness, for every witness and every order
  of the second list. `HonestAccepted` is both directions for the program's own witness: it passes exactly
  when the program used the array well (indices in range, cells set before they are read), whatever order the
  sort leaves. `RomCircuitIsFixed`: the gates do not depend on that order.
- **standard_library.** `ArrayIsList` is the refinement of `BoundedList`; a fault in a flag of `resize` shows
  as a cell that keeps an old value. `TableKeepsItsCells`: neither the late creation of an array nor the other
  table of the composer changes a cell. `ServesLegalCalls` is exact in both directions, and
  `RefusalsAreReported` says that the composer's assertions are never what stops a program that did nothing
  wrong. `GadgetsAreSound`: in every witness of the circuit the results have the values they mean, and the
  assertions hold. `GadgetsAreComplete`: the program's own witness satisfies the circuit exactly for the inputs
  that its assertions allow.
- **memory_store.** `ImplementsTransactions` is the refinement of `KVStore`.
- **merkle_tree.** `RootMatches`, `PathsMatch`: for every index, written or not, whichever of the subtrees on
  the way are absent, stumps or nodes. `NodesAuthentic`: every stored node hashes to its key, now and after a
  rollback.
- **nullifier_trees.** `LinksSound`, `NoFalseNonMembership` and `NonMembersCovered` are about the list;
  `TreesMatchList` ties both trees to it: all hash paths, the roots from the first update on, the sibling
  paths, and `get_new_hash_path`, which predicts the path after the next update.
- **transcript.** `ChallengesBindElements`: every challenge is a hash of its round's elements *as the
  transcript still holds them* and of the last challenge before it. `NothingRewritten`: no later call changes
  either. `NoChallengeTwice`: no challenge is predictable from another. `VerifierAgrees`: read back from the
  exported proof, the transcript gives the same challenges.
- **prover.** `CommittedIsStored`: whoever computed a commitment and in whatever order it came back, it is of
  the polynomial that is evaluated and opened later. `ProofAccepted` and `BlindedAfresh`: the first proof and
  the ones after `reset` are accepted, and the ones after are blinded anew (for circuits with memory records
  `ProofAccepted` speaks of the first proof only; the findings say why). `EveryProofFinishes` is liveness:
  a missing element, or a result lost to the wrong item, would stop a round for ever.
- **honk.** `AcceptsExactlyTheSatisfied` relates the verdict to what the circuit *means* (`Satisfied`: gates,
  copies, public inputs), over a dozen separately written computations. `AlteredProofIsRejected`: every word of
  a proof is bound. `VerifierFollowsProver`: the manifests of the two transcripts agree to the last byte read.
  `EvaluationsAreMultilinear`: what is left after the foldings is the multilinear extension by its definition.
- **multisig.** `CombinesAgreedShares` is an equivalence: shares combine *exactly* when all members of the group
  made them for the same message, list of nonces and group. `ImplementsApprovals` is the refinement.

### Why these bounds are enough

- `circuit`: a merge involves two classes; with three variables an operand can be the first, the last, or the
  representative of its chain, and merging two of them is followed by another merge. The theorems hold for
  every bound. Two rows and three columns hold a public row, a gate, a padded cell, cycles inside and across
  rows, and a column (the third) that public rows leave at zero. One pair of tags is enough to meet a cell
  label if an offset is wrong.
- `range_checks`: two ranges of different width asked of one variable in both orders give all branches (first
  list, already in this list, in a narrower, in a wider with a deep copy). A longer list adds only more of the
  same classes; that no request is dropped is proved for every bound.
- `memory_arrays`: four records are two cells and two accesses by a witness: a read before, between or after
  writes, of one cell or of two, in a second list of any order. The index 5 is out of the array and, cast,
  inside it.
- `standard_library`: one gadget at a time suffices because its operands already come in every form a program
  can give them (constant, witness, scaled, inverted, the same witness twice), and because a gadget only reads
  its operands. Six and 36 are the quotient and the largest element at which decompositions and borrows turn
  over; 0 and 1 are where inverses and booleans do. Two cells give every length of the array on both sides of
  a resize.
- `merkle_tree`: depth 3 is the least at which a fork happens at a level that is neither the root nor the
  last; four updates let a stump be forked twice and a rolled-back fork be done again.
- `nullifier_trees`: six leaves in eight positions leave padding; the values have a gap, neighbours, and are
  inserted in every order, at either end of the list and in the middle, and again.
- `transcript`: five rounds include one without challenges and one with more than a hash has chunks.
- `prover`: a third proof adds nothing to the residual data of the second: the key holds one polynomial of
  each name.
- `honk`: eight rows are three foldings, so there is a first, a middle and a last one. The circuits have a
  public input or none, copies between gates, and one is not satisfied by its own variables. A table that is
  off in one cell breaks a gate, a copy, a public input, or (in a cell of no gate) nothing at all.
- `multisig`: three first rounds of two signers are one signature and a nonce left over, which may be mixed in
  or belong to a second signature; two second rounds are one from each, for the same or for different
  messages, or two of one signer.


## Fairness and deadlock

Only `Prover` has a liveness property. Its fairness is `WF_vars(Next)`: some part of the program that can go
on does. That is what a sequential program with a driver loop gives; no worker in particular is assumed to be
fair. All the other specifications are clients that may stop at any time, so they have no fairness and no
liveness property.

Deadlock is checked except where the system really stops, or where a bound on the program does: the circuit
is sealed (`circuit`, `range_checks`, `memory_arrays`), the prover has made its last proof (`prover`), the
verdict is there (`honk`), a failed composer promises nothing more and a program has made its calls
(`standard_library`), all signatures the bounds allow are made (`multisig`).


## Proofs

The proofs are checked by TLAPS from assumptions on the constants only: each holds for every number of
variables, tags, keys, leaves, rounds, and every value and hash.

**CircuitConstructorProofs.** `ChainIsClass` is not inductive: a splice is right only if the representative is
the last member, the links of neighbours match, each class has one first member, and it is reached. These four
are `ChainInv`, and `IInv == TypeOK /\ ChainInv` is inductive (`InductiveInvariant`). Reaching the first
member is recursion over a list, out of this prover's reach as such, so it is stated by closed sets: *every*
set of variables that is closed under `prev` holds the first of each of its members. The least closed set that
`Forward` and `Backward` take is then handled with first-order reasoning alone. From it follow
`WalkVisitsClass`, `ValuesAgree`, `TagsAreKept`, `ValuesAreKept`, and the refinement `ImplementsPartition`.
`NoPublicTwice` and `TauIsInvolution` have small invariants of their own.

**WirePermutationProofs.** The `circuit` run checks a program that also adds gates and computes a mapping.
`BuildsACircuit` shows that, as far as the variables go, this program *is* one of the constructor
(`PermSpec => Spec`), so that what is proved of the constructor holds of it. `PermInv` adds that gates name
variables of the circuit and that a circuit with gates fits the rows of the key; from that and from the layout
of the cells (`RowAndColumn`, `OccupiedIsPublicOrGate`) follows `WitnessRespectsCopies`: the columns of
`compute_witness_base` give one value to all cells of a class and place the public inputs, for every width and
every circuit.

**RangeConstraintsProofs.** `RangeInv` says that while a circuit is built its chains are well formed (`IInv`,
so that a merge moves a whole class and its tag), lists carry tags of `tau` other than the dummy tag, and every
request is enforced. The point of the second part: a class without a tag is in no list, so the branch that
gives it one takes it out of none. The branches of `create_new_range_constraint` are the steps of
`NewRangeStep`; `PushTaggedChains` handles the steps, deep copies and mirrors, which are new variables.
`NoRequestDropped` is the property of the run, for every set of ranges and every number of variables. It
assumes that the field holds every value of a limb.

`HonestWitnessesSatisfy` is the other property: a circuit finalised without a failure is satisfied by the
witness it was built with. What must hold of the lists before (`HonestLists`, checked by TLC on the instance of
the run before it was proved): no two lists share a tag and no variable carries a tau tag; the members of a list
are exactly the classes with its tag, *each once*; its steps are among its values; every other value was asked
for and is in the range; deep copies agree. "Each once" is what a merge of two tagged classes breaks, so the
theorem has the hypothesis `~MayMergeTagged`, and the run `range_copies` is the counterexample without it.
Requests keep the lists so (`HonestNewRange`, over `ListBegins`, `ListGrows` and `ListGains`), merges too
(`HonestMerge`: one of the two classes has no tag, so no list has both). At the end the mirrors are sorted:
counting what comes before an entry numbers the entries (`RanksNumber` of `LeastElements`), so `SortedList` is
the list under a permutation and ascends (`SortedListSorts`); with zero, the target and every third value
between them it climbs by at most three (`ListClimbs`), also behind the padding (`PaddedClimb`); and member to
mirror is one to one and keeps values, so the two tagged sets count the same (`CountsMatch`).

**StorageProofs.** *The store.* `StoreInv` says that the maps hold written pairs only and that no key is put and
deleted at once. Reads consult `puts`, then `deletes`, then the base, so without disjointness a commit would
resurrect or lose a key. `ImplementsTransactionsOfContent` is the refinement under `ContentAddressed`. That
assumption is needed: `commit` inserts, and does not overwrite.

*The list of nullifiers.* The invariant is `ListInv` (types, `LinksSound`, distinct values,
`NoFalseNonMembership`) and `NonMembershipProvable`. Distinct values are what makes the closest leaf unique,
and soundness of links is what makes the new leaf's interval the upper part of the one it splits.
`NonMembershipProvable` ranges over all naturals, which TLC cannot enumerate; `AbsenceProvable` gives the
enumerable `NonMembersCovered` from it.

*The tables.* `TablesInv` says that, while nothing has failed, nothing was refused either; that each
table has an array of its own in the composer, though it asks for it late; that exactly the cells with a value
are marked as initialised; and that every cell of a `DynamicArray` has a value and its length is at most `Size`.
One lemma says what a read or a write does to whatever table it is given (`ReadEffect`, `WriteEffect`), another
that the other table keeps its cells meanwhile (`OtherTableKept`), so the six calls that use tables are
instances of these. Indices and lengths live in the field: a difference of two numbers up to `Size` that is
read as a small number is one (`SmallDifference`, `DifferenceLessOne`; here `Modulus > 4 * Size` is used, which
2^254 against an array in memory gives), so a range check stands for a comparison. The loops of the constructor
and of `resize` are inductions over their rounds (`EmptyArrayLoop`, `ResizeLoop`). The flags of `resize` are
witnesses the program chooses; `FlagsAreForced` shows that its constraints leave one choice. From the invariant
follow `RefusedOnlyIfReported` (`RefusalsAreReported`), `LegalCallsAreServed` (`ServesLegalCalls`: a call fails
exactly when it is illegal), `CellsAreKept` (`TableKeepsItsCells`), and the refinement `ArrayImplementsList`
(`ArrayIsList`).

**HashingProofs.** *The transcript.* The invariant is types, `ChallengesBindElements`, and `PrefixIsStart`: the challenge
kept for the next round is the last one given out, or the initial one if none was, also after rounds without
challenges. Without it, nothing ties the next hash to the ones before. `HashedIsNeverRewritten` follows
because `add_element` inserts and does not overwrite, and a round is only hashed when all its elements are
there.

No two challenges are the same (`ChallengesAreDistinct`) under two hypotheses that the theorem states:
`IdealHash` (the hash is injective and no chunk of a hash is one of the two values a chain starts from) and
`CounterFits` (the counter of repeated hashes is a byte, so no round may ask for more challenges than it can
tell apart). The second is one that the code does not check. The argument is one of the least counterexample:
if two rounds had the same hash, so would the rounds before them, down to the first, which starts from no
challenge. `VerifierComputesTheChallenges` needs no hypothesis on the hash: by induction on the rounds, the
verifier's transcript after n rounds holds the prover's elements and the challenges of its first n rounds
(`Follows`). Its lemmas say that an element read from the proof is the one written under that name
(`ReadsWhatWasWritten`), whatever the manifest.

*The Merkle tree*, for every depth, set of updates and number of calls. `StoreOK` says that every entry of the
base and of the pending puts is in order: under a hash are the two children it is made of, or a stump with that
hash, and the metadata is the root of a tree. A hash has one height because a leaf is no pair (`HeightIsUnique`),
so an entry is in order whatever tree it belongs to. All operations keep stores in order (`UpdateRootOK`, by
induction on the height over the cases of one call, `CallIs`), and `NodesAreAuthentic` follows without any
hypothesis, for any number of commits.

That the nodes make up the tree of the leaves needs more. `Stored(s, L)`: there is a set of places, with the
root among them, that is *closed* under what a walk through the store does. A place whose hash is absent is an
empty tree, and the children of a node are places of the set (`Closed`). A stump asks for nothing below it, which
is why the places below an old stump need not be there. An update is an induction along the way up (`Built`): what is beside
the way stays closed (`RestIsClosed`); a call adds a stump (`StumpBuilds`), a fork with two stumps
(`ForkBuilds`, from the height at which two indices part: `Differing`, `StumpOnWay`) or a node (`NodeBuilds`).
The crux is the deletion of the old node. Nodes are shared by content and not counted, so it must be shown that
no other place has that hash: equal trees at two places are empty if no two leaves are equal
(`EqualTreesAreEmpty`), and for an empty tree absence is right (`RemovalIsSafe`). From `TreesAreStored` follow
`RootIsTheTrees` (`RootMatches`) and `PathsAreTheTrees` (`PathsMatch`: what `get_hash_path` makes up below an
absent node or a stump is what is there, `AbsentPath`, `StumpPathIs`).

Both theorems have one hypothesis and one restriction, and both are needed: no value but that of an empty leaf is
written at two indices (`LeavesApart`; without it the observation on `PathsMatch` below is the counterexample),
and they speak of the states up to the second commit, which does not store the new root.

*The dense tree*, for every depth and any leaves, equal ones too. `HoldsTree(hashes, leaves)` says that the
array has each layer but the root at its offset. The layers fill the array without a gap or an overlap
(`OffsetStep`, `OffsetsGrow`, `PlaceInArray`), so an update writes the places above its leaf and no other; its
loop computes the hashes above the leaf as they are afterwards, by induction on the height (`ClimbOnWay`). So
the array of the constructor holds the empty tree, an update leaves the tree with the one leaf replaced, and
what it returns is that tree's root (`DenseTreeIsTheTree`). What is read from such an array is the tree's: hash
paths, sibling paths, and the path that `get_new_hash_path` predicts (`DensePathsAreTheTrees`). The two theorems
are about the operators, which `NullifierTree` applies to the leaves of its list.

**The permutation argument** (in WirePermutationProofs). `PermutationIsExact` is `ArgumentIsExact` for every
circuit, width, table and vector of public inputs: the two bags of pairs ⟨value, label⟩ are equal exactly when
copies agree, public rows hold the public inputs, and the values of a tag are those of its image. It is proved
label by label. `Sides` names, for one label, the cells and public rows that carry it on the left and on the
right; every label is of one of a few kinds (`StepSides`: a cell and its successor; `CutSides` and
`OpeningSides`: where a public row is cut out of its cycle; `TagSides`; `UnoccupiedSides`), and for each kind
the balance of values is one equation (`BalancedCells`, `BalancedInput`, `BalancedTag`). `SuccessorIsOnto` and
`SuccessorIsInjective` make a cycle a cycle, and `SameAroundCycle` goes around it by induction. The invariant
behind it says that classes are well formed, gates name variables, tags come in pairs, and the key is the one
computed from the circuit (`MappingIsComputed`). `WitnessPasses` applies it to the columns of
`compute_witness_base`.

**ProverProofs.** `ProverInv` relates the transcript, the store, the queue and what workers hold. A polynomial
is final from some round on (`FinalFrom`): a commitment in the transcript, and one that is queued, is of a
final polynomial and the one that is stored (`Bound`, `ItemFits`); what is final is stored and blinded for the
proof being made (`Stored`, `Blinded`). The hard conjunct is `Transformed`, for the round in which wires are
transformed: a wire's monomial form is that of this proof *unless* the item that will bring it is still in the
queue and unhandled. For a second proof the store is full of the forms of the first one, and a round that
began early would commit to those. A result does the right thing to all of this whoever computed it
(`ResultIsSound`); items of one type have different numbers (`NumbersDiffer`), so that a result put back is
that of the item it was fetched for; and `process_queue` is an induction over the queue (`ItemByItem`,
`EveryItemIsSound`). From the invariant follow `CommitmentsBindTheStore` (`CommittedIsStored`) and
`NoCommitmentTwice` (`BlindedAfresh`), for any number of proofs and any order of results.

`ProofsAreAccepted` (`ProofAccepted`) rests on a second invariant over the first, `AcceptInv`. Its parts are
`Chained` (every challenge of the transcript is the hash of its round's elements and of the challenge before,
so a verifier that holds the same elements computes the same ones: `SameChain`, `VerifierReachesZ`);
`ElementsBelong` and `QueueBelongs` (what a round or a result brings to the transcript under a name is what
the pairing check expects there: parts of the quotient, evaluations, openings); `FormsMatch` (the Lagrange,
monomial and FFT forms of a polynomial are of the same polynomial once the items that transform it are done,
which is where the order of results matters: the quotient is made of the FFT forms and the openings of the
monomial ones); and `ContentRight` (the polynomials are made of each other as the identities say, with the
challenges of this transcript; the memory records of `w_4` only for the first proof or without records, for
the reason the findings give). Each round and each result is one lemma (`FourthAccepts`, `ResultIsRight`).
At the end the pairing holds of the prover's own transcript (`PairingComesTrue`): the blinding of the parts of
the quotient cancels (`PartsAre`). A verifier has that transcript up to what it does not need
(`ExportIsAccepted`): it reads every element sent (`ReadsWhatWasWritten`, `ProofNamesAre`), adds the sizes
itself, and derives the evaluation of the quotient from the others (`SameQuotient`).

**MemoryArraysProofs.** `ArraysInv` describes the circuit of every reachable state. Until it is finalised it is
`Built`: each constant is a variable of its own that a gate fixes (`ConstantsFixed`); each record has a gate with
its wires and a fourth wire no other record has, and its index is a witness of the program or the constant of a
cell (`RecordsFit`); all other gates fix constants (`OthersFix`); a cell that was set has a record that says so
(`CellsHeld`); a RAM read at the constant zero comes after a write at it (`ZeroWritten`); and the values are those
of an honest run (`Faithful`): what a gate fixes has its value, a record is numbered by the low bits of its index,
a RAM read has the value of the record of its cell before it, the state that of the last one, and the times stay
below the modulus (`Roomy`, from the bound on `MaxRecords` in `MemoryAssumption`). Afterwards it is `Processed`
from a circuit so built with all cells set, for a result that `std::sort` may give. The loop that fills the cells
left out is an induction over the cells (`InductionOverSet`).

Soundness then speaks of *any* assignment to such a circuit. The tags count the same fourth wires on both
sides, so each access is a row of the second list and each row an access. Indices of neighbouring rows differ
by 0 or 1 in a field of more elements than cells, so the rows ascend without gaps and those of one cell are
neighbours. For ROM (`RomIsSound`) neighbours with one index have one fourth wire, hence one value: that of the
record by which the cell was set. For RAM (`RamIsSound`) rows of a cell are in the order of time, by hypothesis,
and a row that is not a write carries the value of the row before it, so by induction along the rows a read has
the value of the greatest write below it; `WrittenFirst` is what makes that write exist. `RamIsSound` needs the
order of time as a hypothesis because the gates do not enforce it (`TimestampsValidated` below). With that,
`RomArraysAreSound` and `RamArraysAreSound` give the properties of the run, and `RomCircuitsAreFixed` that gates,
tags and ranges of a ROM circuit are the same in every order, since the second list only has fresh wires.

`HonestWitnessIsAccepted` is about the one assignment the program and the prover make, in both directions.
`FilledAs` says which values `Processed` appends, `RowsAreFilled` that the prover fills in the fourth wires of
exactly the rows of both lists, each with the kind of its access, although the code lists them by row numbers with
an offset for the public inputs. If the witness is accepted, each access is a row of the second list, whose index
is a cell, so a cast that dropped bits is refused; soundness gives the rest (`AcceptedIsWellUsed`). Conversely, in
a sorted list with a record for every cell the indices climb by at most one and end at the last cell
(`DenseRows`), and neighbours of one cell are neighbours in time (`NeighboursInTime`): so the value a RAM read was
given by the state is that of the row above it. The order of the list is a bijection of the fourth wires of both
lists (`HonestListsAgree`), and a difference of times of one cell is positive and small enough to be its own
residue (`PassedIs`, `HonestRanges`).

**LeastElements.** The library's induction theorems take an operator and cannot be used by the provers at
hand. Induction is therefore stated for *sets*: a set that holds 0 and with n also n + 1 holds every natural
(`InductionOverSet`), from the well-foundedness of the subset order on finite sets. It also gives that a total
order numbers a finite set (`RanksNumber`), which stands for sorting. A recursive function is
shown to exist up to every bound by that induction, and then has its recursion equations (`ItemByItem`,
`RoundsOfTheVerifier`).

**Only model-checked.** That both trees over the nullifiers are the tree of the list (`TreesMatchList`). Each
tree is proved right on its own; what is not proved is the composition, where the sparse tree starts with a
stump stored under a hash of the base class's zero hashes (see the observations), which `NodesAuthentic`
excludes. Neither are gadgets and Honk, whose operators recurse over lists of gates or polynomials; the multisignature (its
properties are true up to collisions of hashes, which no proof excludes); and liveness, which the prover does
not support.


## Findings and observations

One statement of the repository's tests is refuted by a run, with a trace:

- `range_copies`: a copy constraint between two variables that are both in a range list leaves the list one
  entry too long, and a valid witness is rejected. The code treats equal tags as no clash
  (`plonk/composer/composer_base.cpp:33`). The test of copies adds them before the ranges, and passes.

Five more are stated in the modules as definitions that do *not* hold, each with the comment it quotes. To see
one fail, check it as an invariant of the run's configuration with the change given here.

| Definition | What happens | Configuration |
|---|---|---|
| `BitsEnforced` (`RangeConstraints`) | the bound of a range list is inclusive, and `create_range_constraint` passes `2^num_bits` (`plonk/composer/ultra_composer.hpp:223`), so one value too many is accepted | `RangeConstraints.cfg` with `UserValues = {2}`, `MaxUsers = 1` |
| `PathsMatch` (`MerkleTree`) for equal values | nodes are keyed by hash and deleted without counting; a deletion on one side breaks the other if the subtrees are equal (`merkle_tree.cpp:243`) | `MerkleTree.cfg` with `Updates <- EqualUpdates`, `MaxUpdates = 3`, `MaxCommits = 0` |
| `MemoryRecordsAreOfThisProof` (`Prover`) | memory records are computed in place in the proving key (`prover.cpp:621`); after `reset` they start from those of the proof before | `Prover.cfg` |
| `TimestampsValidated` (`MemoryArrays`) | the gates that validate times are laid on the first witnesses of the records, which hold them in the order of the program, and not on the rows of the sorted list (`ultra_circuit_constructor.cpp:2264`): a second list out of order in time satisfies them | `MemoryArrays.cfg` |
| `RomReadsEntry` (`MemoryTables`) | a read at a constant index looks in `entries`, which stays empty until the first read at a witness index (`rom_table.cpp:105`) | `StandardLibrary.cfg` |

Observations that no document contradicts, or that no run reaches:

- *Trees.* `MemoryStore::commit` inserts into the base map and does not overwrite (`memory_store.hpp:66`). For
  hash-keyed nodes that is harmless; the tree's metadata (`root`, `size`) under one fixed key keeps the value
  of the first commit. `RootMatches` holds with one commit and fails with two: `MaxCommits` is 1. A fresh
  sparse nullifier tree has stored its first leaf with the zero hashes of the base class
  (`nullifier_tree.cpp:35`), so its root is not that of the dense tree until the first insertion.
- *Ranges.* Only the low 64 bits of a range-constrained value are looked at when a request is made
  (`ultra_composer.cpp:1210`): a wider value is not reported, though the circuit is then unsatisfiable.
- *Memory tables.* Copies of a `ram_table` or `DynamicArray` share the array but not the flags and the length.
  `resize` accepts a constant length of `max_size`, but a witness only below it, and its range check of
  `max_size` values also admits −1. `conditional_push` on a full and `conditional_pop` on an empty array fail
  even when the predicate is false.
- *Gadgets.* `operator bool_t` (`field.cpp:75`) normalises, and discards the result, against its comment in
  `field.hpp:232`. The identities of four constants check nothing. `pow` cuts a constant exponent to 32 bits.
  `must_imply` over constants only, and assertions on a constant zero, use a null context. `slice` refuses
  values of 254 bits. `decompose_into_bits` has 127 written out.
- *Integers and logic* (read, not modelled). In `plookup/uint` `divmod` announces that both operands are
  normalised and does not normalise the dividend, and its difference admits a remainder equal to the divisor;
  the result of `at` is not constrained. The lookup branch of `logic.cpp` does not tie its chunks to the
  operands. `safe_uint_t::create_constant_witness` returns a constant. `packed_byte_array` appends and slices
  without range constraints.
- *Plonk.* The verifier's maps of group elements are filled by insertion and not cleared
  (`kate_commitment_scheme.cpp:276`): the model uses a verifier once. `put_fft_data` of a split FFT replaces
  the whole polynomial (`work_queue.cpp:114`); only the wasm build queues such items, and the model is of the
  native build. No driver in the repository calls `put_scalar_multiplication_data`.
- *Honk.* `ComposerType::STANDARD_HONK` is passed where a minimum size is expected; `create_prover` moves the
  wires out of the composer helper, so a second prover gets empty ones; a prover that makes a second proof goes
  on with the transcript of the first.
- *Multisignature.* `construct_signature_round_2` does not check that the signer's own key and nonce are in the
  lists it is given. Lists of nonces in different orders make shares that do not combine.


## What is not modelled

- **Transition widgets, polynomials and FFTs, curves, fields, numeric types, cryptographic primitives**: pure
  functions over large domains. A model would restate the arithmetic or assume it.
- **Standard and turbo composers, lookup tables, gates of the turbo and ultra constructors**: they emit gates;
  the copies, ranges and arrays under them are modelled.
- **The other gadgets** (integers, byte arrays, big fields, curves, hashes, recursion) and the join-split
  example: built from the gadgets that are modelled, with wide integer arithmetic on top.
- **ACIR bindings, environment, serialisation, reference strings, benchmarks, the TypeScript wrapper**:
  translation or I/O.

Left out inside modelled components: decomposition into limbs beyond the default range; Lagrange polynomials
built from the mapping; the challenge map of the transcript (a table of the manifest alone); `SMALL_FFT`
items; recursive proofs; insertions beyond the capacity of a tree and indices beyond the array (undefined in
the code; the models enumerate legal ones); several arrays in one circuit; copies and moves of memory tables;
Ultra Honk and IPA; a Honk prover or a verifier that is used twice; signatures of a single signer.

As a share of its lines, most of the repository is in that list: arithmetic on wide integers and elliptic
curves, generated tables, hashes, fuzzers and tests. What is modelled is a choice by what a model checker or a
prover can add to them.


## Plan

The order so far was by weight: what makes a circuit sound first (`CircuitConstructor`, `WirePermutation`,
`RangeConstraints`), then the stateful trees from the store up, the transcript and the prover on it, and then
what builds on these: arrays and the tables over them, gadgets, Honk, and the multisignature. Left, in this
order:

1. **Integer gadgets** (`uint`, `safe_uint`, `logic`): over `Gadgets`, with the lookup tables as relations.
2. **Limb decomposition** (`decompose_into_default_range`, `ultra_composer.cpp` 1092–1195), and the Honk twin
   of `create_new_range_constraint` (`ultra_circuit_constructor.cpp:636`), which does not look at other tags.
3. **Work queue of the wasm build**: split FFTs, and results that arrive after the next round has started.
4. **A verifier that is used twice**; the plonk twin of the wire permutation (`composer_base.cpp`); turbo range
   and logic gates.
5. **A nullifier tree with rollback**: the list lives beside the store and is not rolled back with it.

Proofs: the sparse tree beside a stale stump that no walk reaches, from which `TreesMatchList` follows.
