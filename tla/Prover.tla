-------------------------------- MODULE Prover --------------------------------
(***************************************************************************)
(* The Ultra prover (plonk/proof_system/prover/prover.cpp) and its work    *)
(* queue (proof_system/work_queue/work_queue.cpp): rounds that fill the    *)
(* queue, and a driver that empties it between two rounds, by              *)
(* process_queue or with workers that fetch items by number and put their  *)
(* results back in any order (c_bind.cpp).  One prover makes several       *)
(* proofs, with reset in between, over one proving key.                    *)
(*                                                                         *)
(* A polynomial is what it was computed from.  Commitments are binding:    *)
(* the commitment of a polynomial is that polynomial.  The polynomials of  *)
(* the circuit (selectors, sigmas, tables) never change and are left out.  *)
(***************************************************************************)
EXTENDS TranscriptOps

CONSTANT MaxProofs      \* bound: proofs one prover makes

VARIABLES
    transcript,
    store,          \* key->polynomial_store: <<form, name>> to polynomial
    parts,          \* key->quotient_polynomial_parts
    queue,          \* work_item_queue
    inflight,       \* what workers fetched and did not put back yet
    handled,        \* numbers of the items of this round that workers put back
    round,          \* rounds executed of the current proof
    proofs,         \* the proofs exported so far
    memory          \* does the circuit have memory records?  never changes

keyVars    == <<store, parts>>
driverVars == <<inflight, handled>>
vars == <<transcript, keyVars, queue, driverVars, round, proofs, memory>>

-----------------------------------------------------------------------------
(***************************************************************************)
(* The manifest of the transcript (ultra_composer.hpp) without the         *)
(* polynomials of the circuit; one nu stands for all, which are chunks of  *)
(* one hash.                                                               *)
(***************************************************************************)
Wires     == <<"w_1", "w_2", "w_3", "w_4">>
PolyNames == <<"w_1", "w_2", "w_3", "w_4", "s", "z_perm", "z_lookup">>
Polys     == ToSet(PolyNames)

\* polynomial_label to commitment_label, and to the name at the shifted point.
Label == [w_1 |-> "W_1", w_2 |-> "W_2", w_3 |-> "W_3", w_4 |-> "W_4",
          s |-> "S", z_perm |-> "Z_PERM", z_lookup |-> "Z_LOOKUP"]
Omega == [w_1 |-> "w_1_omega", w_2 |-> "w_2_omega", w_3 |-> "w_3_omega", w_4 |-> "w_4_omega",
          s |-> "s_omega", z_perm |-> "z_perm_omega", z_lookup |-> "z_lookup_omega"]
QuotientLabel == <<"T_1", "T_2", "T_3", "T_4">>

Entry(names, derived, name, n) ==
    [elements |-> [k \in DOMAIN names |-> [name |-> names[k], derived_by_verifier |-> names[k] \in derived]],
     challenge |-> name, num_challenges |-> n]

UltraManifest == <<
    Entry(<<"circuit_size", "public_input_size">>, {"circuit_size", "public_input_size"}, "init", 1),
    Entry(<<"public_inputs", "W_1", "W_2", "W_3">>, {}, "eta", 1),
    Entry(<<"W_4", "S">>, {}, "beta", 2),
    Entry(<<"Z_PERM", "Z_LOOKUP">>, {}, "alpha", 1),
    Entry(QuotientLabel, {}, "z", 1),
    Entry(<<"t">> \o PolyNames \o [k \in DOMAIN PolyNames |-> Omega[PolyNames[k]]], {"t"}, "nu", 1),
    Entry(<<"PI_Z", "PI_Z_OMEGA">>, {}, "separator", 1) >>

ASSUME ProverAssumption == Manifest = UltraManifest /\ MaxProofs \in Nat \ {0}

Challenge(t, name) == t.challenges[name][0]

\* f, and g where f says nothing.
Over(f, g) == [x \in DOMAIN f \cup DOMAIN g |-> IF x \in DOMAIN f THEN f[x] ELSE g[x]]

\* add_element for every name of f.
AddElements(t, f) == [t EXCEPT !.elements = Over(@, f)]

Sizes == [circuit_size |-> "n", public_input_size |-> "l"]      \* of the key

-----------------------------------------------------------------------------
(***************************************************************************)
(* Polynomials.                                                            *)
(***************************************************************************)
ThisProof == Len(proofs) + 1        \* stands for what is random in this proof

\* A wire: its blinding rows, and the etas its memory rows were multiplied
\* by: w_4 = ((w_4 + w_3) eta + w_2) eta + w_1) eta.
NewWire(w) == [wire |-> w, blind |-> 0, etas |-> << >>]

PublicInputs(w_2) == [inputs |-> w_2.wire]

\* s = s_1 + eta s_2 + eta^2 s_3 + eta^3 s_4
SortedList(t) == [sorted_by |-> Challenge(t, "eta"), blind |-> ThisProof]

\* The grand products of the permutation and of the lookups.
GrandProduct(wires, t) == [product |-> wires, beta |-> Challenge(t, "beta"), blind |-> ThisProof]

LookupProduct(wires, s, t) ==
    [lookups |-> wires, s |-> s, eta |-> Challenge(t, "eta"), beta |-> Challenge(t, "beta"), blind |-> ThisProof]

\* The quotient of the identities over the polynomials f.
Quotient(f, t) == [of |-> f, public |-> t.elements["public_inputs"],
                   eta |-> Challenge(t, "eta"), beta |-> Challenge(t, "beta"), alpha |-> Challenge(t, "alpha")]

\* A part of a quotient, and what blinding adds at X^0 and at X^n.
Part(q, i, low, high) == [quotient |-> q, part |-> i, low |-> low, high |-> high]

\* The parts put together: the quotient, and what is left of the blinding.
Combined(ps) == [quotient |-> ps[0].quotient, extra |-> [i \in 0 .. 2 |-> ps[i].high + ps[i + 1].low]]

Evaluation(poly, z, shifted) == [poly |-> poly, z |-> z, shifted |-> shifted]

Opening(f, t) == [opened |-> f, z |-> Challenge(t, "z"), nu |-> Challenge(t, "nu")]

Lagrange(w) == store[<<"lagrange", w>>]
Monomial(p) == store[<<"monomial", p>>]
Fft(p)      == store[<<"fft", p>>]

\* polynomial_store.put
Put(form, name, poly, s) == Over([key \in {<<form, name>>} |-> poly], s)

(***************************************************************************)
(* The work queue.                                                         *)
(***************************************************************************)
Commit(scalars, tag) == [work_type |-> "SCALAR_MULTIPLICATION", tag |-> tag, scalars |-> scalars]
Ifft(tag) == [work_type |-> "IFFT", tag |-> tag]
FftOf(tag) == [work_type |-> "FFT", tag |-> tag]

\* What the computation of an item yields, from the store s.
Computed(item, s) ==
    CASE item.work_type = "SCALAR_MULTIPLICATION" -> item.scalars
      [] item.work_type = "IFFT"                  -> s[<<"lagrange", item.tag>>]
      [] item.work_type = "FFT"                   -> s[<<"monomial", item.tag>>]

\* Where the result of an item goes, in the transcript and the store.
Delivered(item, result, ts) ==
    CASE item.work_type = "SCALAR_MULTIPLICATION" -> [ts EXCEPT !.t = add_element(@, item.tag, result)]
      [] item.work_type = "IFFT" -> [ts EXCEPT !.s = Put("monomial", item.tag, result, @)]
      [] item.work_type = "FFT"  -> [ts EXCEPT !.s = Put("fft", item.tag, result, @)]

\* The transcript and the store after each number of items of the queue.
ProcessedItems ==
    LET after[n \in 0 .. Len(queue)] ==
            IF n = 0 THEN [t |-> transcript, s |-> store]
            ELSE Delivered(queue[n], Computed(queue[n], after[n - 1].s), after[n - 1])
    IN  after

Processed == ProcessedItems[Len(queue)]

WorkerTypes == {"SCALAR_MULTIPLICATION", "IFFT"}

\* Items are numbered within their type, by counting them in the queue.
Number(n) == Cardinality({m \in 1 .. n : queue[m].work_type = queue[n].work_type})

PlacesOf(type) == {n \in DOMAIN queue : queue[n].work_type = type}
NumbersOf(type) == {Number(n) : n \in PlacesOf(type)}

Item(type, k) == queue[CHOOSE n \in PlacesOf(type) : Number(n) = k]

ProcessQueue ==
    /\ inflight = {} /\ queue # << >>
    /\ transcript' = Processed.t
    /\ store' = Processed.s
    /\ queue' = << >>
    /\ handled' = {}
    /\ UNCHANGED <<parts, inflight, round, proofs, memory>>

\* get_ifft_data, get_scalar_multiplication_data
Fetch(type, k) ==
    /\ k \in NumbersOf(type)
    /\ <<type, k>> \notin handled
    /\ \A r \in inflight : r.item # <<type, k>>
    /\ inflight' = inflight \cup {[item |-> <<type, k>>, result |-> Computed(Item(type, k), store)]}
    /\ UNCHANGED <<transcript, keyVars, queue, handled, round, proofs, memory>>

\* Mutant: the result goes to the first item of its type.
Target_First(r) == Item(r.item[1], 1)

Target(r) == Item(r.item[1], r.item[2])

\* put_ifft_data, put_scalar_multiplication_data
PutBack(r) ==
    /\ r \in inflight
    /\ LET ts == Delivered(Target(r), r.result, [t |-> transcript, s |-> store])
       IN  transcript' = ts.t /\ store' = ts.s
    /\ inflight' = inflight \ {r}
    /\ handled' = handled \cup {r.item}
    /\ UNCHANGED <<parts, queue, round, proofs, memory>>

\* The driver goes on when every item was processed or put back.
RoundDone ==
    /\ inflight = {}
    /\ \A k \in DOMAIN queue : queue[k].work_type \in WorkerTypes
    /\ \A type \in WorkerTypes : \A k \in NumbersOf(type) : <<type, k>> \in handled

-----------------------------------------------------------------------------
(***************************************************************************)
(* The rounds.  Each drops the queue of the one before it.                 *)
(***************************************************************************)
Enter(r) ==
    /\ round = r /\ RoundDone
    /\ round' = r + 1
    /\ handled' = {}
    /\ UNCHANGED <<inflight, memory>>

\* Mutant: the loop ends one wire too early.
BlindedWires_TwoOnly == [key \in {"lagrange"} \X {"w_1", "w_2"} |-> [store[key] EXCEPT !.blind = ThisProof]]

BlindedWires == [key \in {"lagrange"} \X {"w_1", "w_2", "w_3"} |-> [store[key] EXCEPT !.blind = ThisProof]]

\* execute_preamble_round
PreambleRound ==
    /\ Enter(0)
    /\ Len(proofs) < MaxProofs
    /\ LET t == AddElements(transcript, Sizes)
       IN  ReadyFor(t, "init") /\ transcript' = apply_fiat_shamir(t)
    /\ store' = Over(BlindedWires, store)
    /\ queue' = <<Ifft("w_1"), Ifft("w_2"), Ifft("w_3")>>
    /\ UNCHANGED <<parts, proofs>>

\* Mutant: the loop ends one wire too early.
WireCommitments_TwoOnly == [k \in 1 .. 2 |-> Commit(Monomial(Wires[k]), Label[Wires[k]])]

\* compute_wire_commitments: w_4 is not known before eta.
WireCommitments == [k \in 1 .. 3 |-> Commit(Monomial(Wires[k]), Label[Wires[k]])]

\* execute_first_round
FirstRound ==
    /\ Enter(1)
    /\ transcript' = add_element(transcript, "public_inputs", PublicInputs(Lagrange("w_2")))
    /\ queue' = WireCommitments
    /\ UNCHANGED <<keyVars, proofs>>

\* add_plookup_memory_records_to_w_4: in place.
MemoryRecords(w_4, t) == IF memory THEN [w_4 EXCEPT !.etas = Append(@, Challenge(t, "eta"))] ELSE w_4

\* execute_second_round
SecondRound ==
    /\ Enter(2)
    /\ ReadyFor(transcript, "eta")
    /\ transcript' = apply_fiat_shamir(transcript)
    /\ LET s   == SortedList(transcript')
           w_4 == [MemoryRecords(Lagrange("w_4"), transcript') EXCEPT !.blind = ThisProof]
       IN  /\ store' = Put("lagrange", "s", s, Put("monomial", "s", s,
                       Put("lagrange", "w_4", w_4, Put("monomial", "w_4", w_4, store))))
           /\ queue' = <<Commit(s, "S"), FftOf("s"), Commit(w_4, "W_4")>>
    /\ UNCHANGED <<parts, proofs>>

\* execute_third_round
ThirdRound ==
    /\ Enter(3)
    /\ ReadyFor(transcript, "beta")
    /\ transcript' = apply_fiat_shamir(transcript)
    /\ LET wires    == [k \in 1 .. 4 |-> Lagrange(Wires[k])]
           z_perm   == GrandProduct(wires, transcript')
           z_lookup == LookupProduct(SubSeq(wires, 1, 3), Lagrange("s"), transcript')
       IN  /\ store' = Put("monomial", "z_perm", z_perm, Put("monomial", "z_lookup", z_lookup, store))
           /\ queue' = <<Commit(z_perm, "Z_PERM"), FftOf("z_perm"), Commit(z_lookup, "Z_LOOKUP"), FftOf("z_lookup")>>
                       \o [k \in 1 .. 4 |-> FftOf(Wires[k])]
    /\ UNCHANGED <<parts, proofs>>

Blinding(i) == 3 * ThisProof + i        \* a random field element, for each part but the last

\* Mutant: the coefficients of X^n keep what an earlier proof left there.
QuotientParts_Residual(q) ==
    [i \in 0 .. 3 |-> Part(q, i, IF i > 0 THEN -Blinding(i - 1) ELSE 0, IF i < 3 THEN parts[i].high + Blinding(i) ELSE 0)]

\* The widgets reset the coefficients of X^n and overwrite the others.
QuotientParts(q) ==
    [i \in 0 .. 3 |-> Part(q, i, IF i > 0 THEN -Blinding(i - 1) ELSE 0, IF i < 3 THEN Blinding(i) ELSE 0)]

\* execute_fourth_round
FourthRound ==
    /\ Enter(4)
    /\ ReadyFor(transcript, "alpha")
    /\ transcript' = apply_fiat_shamir(transcript)
    /\ parts' = QuotientParts(Quotient([p \in Polys |-> Fft(p)], transcript'))
    /\ queue' = [k \in 1 .. 4 |-> Commit(parts'[k - 1], QuotientLabel[k])]
    /\ UNCHANGED <<store, proofs>>

\* add_opening_evaluations_to_transcript
Evaluations(f, z) ==
    Over([p \in Polys |-> Evaluation(f[p], z, FALSE)],
         [o \in {Omega[p] : p \in Polys} |-> Evaluation(f[CHOOSE p \in Polys : Omega[p] = o], z, TRUE)])

\* execute_fifth_round
FifthRound ==
    /\ Enter(5)
    /\ ReadyFor(transcript, "z")
    /\ LET t == apply_fiat_shamir(transcript)
           z == Challenge(t, "z")
       IN  transcript' = AddElements(t, Over([t |-> Evaluation(Combined(parts), z, FALSE)],
                                                Evaluations([p \in Polys |-> Monomial(p)], z)))
    /\ queue' = << >>
    /\ UNCHANGED <<keyVars, proofs>>

\* execute_sixth_round, batch_open
SixthRound ==
    /\ Enter(6)
    /\ ReadyFor(transcript, "nu")
    /\ transcript' = apply_fiat_shamir(transcript)
    /\ LET f == [p \in Polys |-> Monomial(p)]
       IN  queue' = <<Commit(Opening(Over([t |-> Combined(parts)], f), transcript'), "PI_Z"),
                      Commit(Opening(f, transcript'), "PI_Z_OMEGA")>>
    /\ UNCHANGED <<keyVars, proofs>>

\* The end of construct_proof: export_proof.
ExportProof ==
    /\ Enter(7)
    /\ Complete(transcript)
    /\ proofs' = Append(proofs, export_transcript(transcript))
    /\ queue' = << >>
    /\ UNCHANGED <<transcript, keyVars>>

\* reset: the transcript, but nothing of the key.
Reset ==
    /\ round = 8
    /\ transcript' = NewTranscript
    /\ round' = 0
    /\ UNCHANGED <<keyVars, queue, driverVars, proofs, memory>>

Init ==
    /\ transcript = NewTranscript
    /\ store = [key \in {"lagrange"} \X ToSet(Wires) |-> NewWire(key[2])]
    /\ parts = [i \in 0 .. 3 |-> Part("none", i, 0, 0)]
    /\ queue = << >> /\ inflight = {} /\ handled = {}
    /\ round = 0 /\ proofs = << >>
    /\ memory \in BOOLEAN

Round == \/ PreambleRound \/ FirstRound \/ SecondRound \/ ThirdRound
         \/ FourthRound \/ FifthRound \/ SixthRound \/ ExportProof

Worker == \/ \E type \in WorkerTypes : \E k \in NumbersOf(type) : Fetch(type, k)
          \/ \E r \in inflight : PutBack(r)

Next == Round \/ Reset \/ ProcessQueue \/ Worker

\* Some part of the program that can go on does.
Spec == Init /\ [][Next]_vars /\ WF_vars(Next)

-----------------------------------------------------------------------------
(***************************************************************************)
(* The verifier (verifier.cpp, kate_commitment_scheme.cpp).                *)
(***************************************************************************)
\* The challenges before the evaluations: init, eta, beta, alpha and z.
VerifierRounds(start) ==
    LET after[n \in 0 .. 5] == IF n = 0 THEN start ELSE apply_fiat_shamir(after[n - 1])
    IN  after

\* The evaluation of the quotient, from the evaluations of the others.
WithQuotient(t) ==
    LET f == [p \in Polys |-> t.elements[p].poly]
        q == [quotient |-> Quotient(f, t), extra |-> [i \in 0 .. 2 |-> 0]]
    IN  add_element(t, "t", Evaluation(q, Challenge(t, "z"), FALSE))

\* The transcript of the verifier, up to nu.
VerifierTranscript(proof) ==
    apply_fiat_shamir(WithQuotient(VerifierRounds(AddElements(FromProof(proof), Sizes))[5]))

\* The identities that make the numerator a multiple of the vanishing
\* polynomial, for the polynomials f and the challenges of t.
IdentitiesHold(f, t) ==
    LET wires == [k \in 1 .. 4 |-> f[Wires[k]]]
    IN  /\ f["w_4"].etas = IF memory THEN <<Challenge(t, "eta")>> ELSE << >>
        /\ f["s"].sorted_by = Challenge(t, "eta")
        /\ f["z_perm"].product = wires
        /\ f["z_perm"].beta = Challenge(t, "beta")
        /\ f["z_lookup"].lookups = SubSeq(wires, 1, 3)
        /\ f["z_lookup"].s = f["s"]
        /\ f["z_lookup"].eta = Challenge(t, "eta")
        /\ f["z_lookup"].beta = Challenge(t, "beta")

\* The pairing check, with the challenges and the elements of t: it holds when
\* every evaluation is one of the committed polynomials and the two openings
\* are theirs.
PairingHolds(t) ==
    LET e == t.elements
        f == [p \in Polys |-> e[Label[p]]]
        T == [i \in 0 .. 3 |-> e[QuotientLabel[i + 1]]]
    IN  /\ IdentitiesHold(f, t)
        /\ \A i \in 0 .. 3 : T[i].part = i /\ T[i].quotient = T[0].quotient
        /\ e["t"] = Evaluation(Combined(T), Challenge(t, "z"), FALSE)
        /\ \A p \in Polys : /\ e[p] = Evaluation(f[p], Challenge(t, "z"), FALSE)
                            /\ e[Omega[p]] = Evaluation(f[p], Challenge(t, "z"), TRUE)
        /\ e["PI_Z"] = Opening(Over([t |-> Combined(T)], f), t)
        /\ e["PI_Z_OMEGA"] = Opening(f, t)

\* verify_proof
Accepts(proof) == HasProofSize(proof) /\ PairingHolds(VerifierTranscript(proof))

-----------------------------------------------------------------------------
Commitments == {Label[p] : p \in Polys}

\* The transcript keeps pace with the rounds, and what is in flight or handled
\* is an item of the queue, once.
TypeOK ==
    /\ round \in 0 .. 8
    /\ Len(proofs) \in 0 .. MaxProofs
    /\ transcript.current_round = <<0, 1, 1, 2, 3, 4, 5, 6, 6>>[round + 1]
    /\ \A r \in inflight : r.item \notin handled
    /\ \A item \in handled \cup {r.item : r \in inflight} : item[2] \in NumbersOf(item[1])

\* Whoever computes a commitment and in whatever order they come back, the
\* transcript binds the polynomial that the store holds under that name and
\* that is evaluated and opened later.
CommittedIsStored ==
    \A p \in Polys : Label[p] \in DOMAIN transcript.elements =>
        transcript.elements[Label[p]] = Monomial(p)

\* The verifier accepts what the prover exports: the first proof, and every
\* further one made with the same key after reset when the circuit has no
\* memory records.
ProofAccepted ==
    \A k \in DOMAIN proofs : k = 1 \/ ~memory => Accepts(proofs[k])

\* The comment of add_plookup_memory_records_to_w_4, "w4 = w3 * eta^3 + w2 *
\* eta^2 + w1 * eta + read_write_flag", of every proof that is made.
MemoryRecordsAreOfThisProof ==
    round \in 3 .. 8 /\ memory => Lagrange("w_4").etas = <<Challenge(transcript, "eta")>>

\* No commitment to a witness polynomial is sent twice: a key that is used
\* again is blinded again.
BlindedAfresh ==
    \A j, k \in DOMAIN proofs : j # k =>
        \A i \in DOMAIN ProofNames : ProofNames[i] \in Commitments => proofs[j][i] # proofs[k][i]

\* Every proof is finished: when a round derives its challenge, every element
\* of the round is there, put there by the round before it, its queue, or a
\* worker.
EveryProofFinishes == <>(Len(proofs) = MaxProofs)
=============================================================================
