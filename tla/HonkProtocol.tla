----------------------------- MODULE HonkProtocol -----------------------------
(***************************************************************************)
(* The prover and the verifier of Standard Honk (honk/proof_system), with  *)
(* their transcripts (honk/transcript) and the work queue: the prover runs *)
(* its rounds over the wire polynomials it was given, exports the words it *)
(* sent, and the verifier reads them.                                      *)
(*                                                                         *)
(* The keys are those of a circuit of the composer: the permutation of     *)
(* WirePermutation and the selectors of the gates.  The proof may change   *)
(* in one word on its way.                                                 *)
(***************************************************************************)
EXTENDS Sumcheck, MultilinearOpening

CONSTANTS
    LogCircuitSize,
    Circuits,       \* circuits: gates, selectors, variables, public inputs
    HashFunctions   \* members of a family of functions that stand for the hash

CircuitSize == 2 ^ LogCircuitSize
Rows        == 0 .. CircuitSize - 1
NUM_WIRES   == 3
NUM_RANDOMIZED_GATES == 2

\* get_circuit_subgroup_size gives this size to every circuit.
ASSUME HonkAssumption ==
    /\ LogCircuitSize \in Nat \ {0}
    /\ \A c \in Circuits :
        LET rows == Len(c.gates) + Len(c.public_inputs) + NUM_RANDOMIZED_GATES
        IN  CircuitSize \div 2 < rows /\ rows <= CircuitSize

VARIABLES
    circuit,        \* the circuit of the keys
    wires,          \* the wire polynomials the prover was given
    key,            \* the precomputed polynomials of both keys
    hash,           \* the hash function
    transcript,     \* ProverTranscript
    prover,         \* members of the prover
    queue,          \* work_item_queue: labels of the polynomials to commit to
    round,          \* rounds executed of construct_proof
    proof,          \* the proof on its way: a sequence of words, or NoProof
    intact,         \* did it arrive as it was sent?
    verifier,       \* members and locals of verify_proof
    phase,          \* phases executed of verify_proof
    verdict         \* what verify_proof returned, or "none"

inputs       == <<circuit, wires, key, hash>>
proverVars   == <<transcript, prover, queue, round>>
channel      == <<proof, intact>>
verifierVars == <<verifier, phase, verdict>>
vars == <<inputs, proverVars, channel, verifierVars>>

NoProof == << >>

\* Updates several fields of a record.
r \uplus f == [x \in DOMAIN r \cup DOMAIN f |-> IF x \in DOMAIN f THEN f[x] ELSE r[x]]

-----------------------------------------------------------------------------
(***************************************************************************)
(* Keys and wire polynomials of a circuit (StandardHonkComposerHelper).    *)
(***************************************************************************)
Wiring(c) == INSTANCE WirePermutation WITH
    MappedVariables <- 0, MappedPublic <- 0, MappedTag <- 0,
    Values <- Field, MaxVariables <- 0, MaxTag <- 0, MaxPublic <- 0, MaxGates <- 0,
    ProgramWidth <- NUM_WIRES, CellValues <- Field, Generalized <- FALSE,
    num_variables <- Len(c.variables), variables <- [i \in 0 .. Len(c.variables) - 1 |-> c.variables[i + 1]],
    real_variable_index <- [i \in 0 .. Len(c.real) - 1 |-> c.real[i + 1]],
    next_var_index <- << >>, prev_var_index <- << >>, real_variable_tags <- << >>,
    current_tag <- 0, tau <- << >>, failed <- FALSE, mapping <- << >>,
    public_inputs <- c.public_inputs,
    wires <- [g \in DOMAIN c.gates |-> [j \in 0 .. NUM_WIRES - 1 |-> c.gates[g].wires[j + 1]]]

\* construct_lagrange_selector_forms: nothing is asked of the public rows.
Selector(c, q) ==
    LET first == Len(c.public_inputs)
    IN  [i \in Rows |-> IF i - first + 1 \in DOMAIN c.gates
                        THEN c.gates[i - first + 1].selectors[q] % Modulus ELSE 0]

Sigma(c, j) ==
    LET sigmas == Wiring(c)!PermutationMapping.sigmas
    IN  [i \in Rows |-> Wiring(c)!Label(sigmas[<<j, i>>]) % Modulus]

Indicator(row) == [i \in Rows |-> IF i = row THEN 1 ELSE 0]

\* compute_proving_key
Key(c) ==
    [Q_C |-> Selector(c, "c"), Q_L |-> Selector(c, "l"), Q_R |-> Selector(c, "r"),
     Q_O |-> Selector(c, "o"), Q_M |-> Selector(c, "m"),
     SIGMA_1 |-> Sigma(c, 0), SIGMA_2 |-> Sigma(c, 1), SIGMA_3 |-> Sigma(c, 2),
     ID_1 |-> [i \in Rows |-> i], ID_2 |-> [i \in Rows |-> CircuitSize + i],
     ID_3 |-> [i \in Rows |-> 2 * CircuitSize + i],
     LAGRANGE_FIRST |-> Indicator(0), LAGRANGE_LAST |-> Indicator(CircuitSize - 1)]

Cells == (0 .. NUM_WIRES - 1) \X Rows

\* compute_witness_base, and other tables a caller of the Prover may bring:
\* those that differ from it in one cell.
Tables(c) ==
    LET witness == [cell \in Cells |-> Wiring(c)!Witness[cell]]
    IN  {witness} \cup {[witness EXCEPT ![cell] = @ ++ 1] : cell \in Cells}

NumPublic == Len(circuit.public_inputs)

\* The table as three columns.
Column(j) == [i \in Rows |-> wires[<<j, i>>]]

-----------------------------------------------------------------------------
(***************************************************************************)
(* The transcripts.  A word is a field element, or a coefficient of a      *)
(* committed polynomial.                                                   *)
(***************************************************************************)
EmptyTranscript ==
    [round_number |-> 0, previous_challenge_buffer |-> 0, current_round_data |-> << >>, manifest |-> << >>]

\* The hash of a sequence of words, and the i-th of the n chunks of a hash.
\* Nothing below depends on what the function is.
Digest(words) ==
    LET h[i \in 0 .. Len(words)] == IF i = 0 THEN hash ELSE (h[i - 1] ** hash) ++ words[i] ++ i
    IN  h[Len(words)]

Chunk(buffer, i, n) == IF n = 1 THEN buffer ELSE Digest(<<buffer, i>>)

\* consume_prover_element_bytes
Consume(t, label, words) ==
    [t EXCEPT !.current_round_data = @ \o words, !.manifest = Append(@, label)]

GetNextChallengeBuffer(t) ==
    Digest(IF t.round_number > 0 THEN <<t.previous_challenge_buffer>> \o t.current_round_data
                                 ELSE t.current_round_data)

\* get_challenges: the transcript after it, and the challenges.
AfterChallenges(t, labels) ==
    [t EXCEPT !.round_number = @ + 1,
              !.previous_challenge_buffer = GetNextChallengeBuffer(t),
              !.current_round_data = << >>,
              !.manifest = @ \o labels]

Challenges(t, labels) ==
    [i \in DOMAIN labels |-> Chunk(GetNextChallengeBuffer(t), i, Len(labels))]

\* What is sent, as words.
Scalar(x)     == <<x>>
Sequence(f)   == [i \in 1 .. Size(f) |-> f[i - 1]]      \* a function from 0 on
Commitment(f) == [i \in 1 .. CircuitSize |-> Coeff(f, i - 1)]
FromWords(ws) == [i \in 0 .. Len(ws) - 1 |-> ws[i + 1]]

\* A label is a name and a number.
Named(names)      == [k \in DOMAIN names |-> <<names[k], 0>>]
Numbered(name, n) == [k \in 1 .. n |-> <<name, k>>]

\* send_to_verifier, for elements in this order.
Send(t, labels, elements) ==
    LET sent[k \in 0 .. Len(labels)] ==
            IF k = 0 THEN t
            ELSE Consume([sent[k - 1] EXCEPT !.proof_data = @ \o elements[k]], labels[k], elements[k])
    IN  sent[Len(labels)]

\* receive_from_prover, for elements of one size: the reader only counts words.
Received(t, k, size) ==
    SubSeq(proof, t.num_bytes_read + (k - 1) * size + 1, t.num_bytes_read + k * size)

AfterReceive(t, labels, size) ==
    LET read[k \in 0 .. Len(labels)] ==
            IF k = 0 THEN t
            ELSE Consume([read[k - 1] EXCEPT !.num_bytes_read = @ + size], labels[k], Received(t, k, size))
    IN  read[Len(labels)]

-----------------------------------------------------------------------------
(***************************************************************************)
(* construct_proof: one action for each round, and for each time the queue *)
(* is processed.                                                           *)
(***************************************************************************)
Rounds ==
    <<"preamble", "wire_commitments", "queue", "grand_product", "queue", "sumcheck">>
    \o [l \in 1 .. LogCircuitSize |-> "sumcheck_round"]
    \o <<"evaluations", "univariatization", "queue", "pcs_evaluation", "batched_quotient", "queue",
         "partial_evaluation", "kzg", "queue">>

Executes(name) ==
    /\ round < Len(Rounds) /\ Rounds[round + 1] = name
    /\ round' = round + 1
    /\ UNCHANGED <<inputs, channel, verifierVars>>

\* Draws challenges: the values are in Drawn(names).
Drawn(names) == Challenges(transcript, Named(names))
Draw(names)  == transcript' = AfterChallenges(transcript, Named(names))

\* The polynomial in the member that a queued span refers to.
MulScalars(label) ==
    CASE label[1] = "W"           -> Column(label[2] - 1)
      [] label[1] = "Z_PERM"      -> prover.z_permutation
      [] label[1] = "Gemini:FOLD" -> prover.fold_polynomials[label[2] + 2]
      [] label[1] = "Shplonk:Q"   -> prover.batched_quotient_Q
      [] label[1] = "KZG:W"       -> prover.quotient_W

\* Mutant: the last item of the queue is sent first.
ProcessQueue_Backwards ==
    LET reversed == [k \in DOMAIN queue |-> queue[Len(queue) + 1 - k]]
    IN  /\ Executes("queue")
        /\ transcript' = Send(transcript, reversed, [k \in DOMAIN queue |-> Commitment(MulScalars(reversed[k]))])
        /\ queue' = << >>
        /\ UNCHANGED prover

ProcessQueue ==
    /\ Executes("queue")
    /\ transcript' = Send(transcript, queue, [k \in DOMAIN queue |-> Commitment(MulScalars(queue[k]))])
    /\ queue' = << >>
    /\ UNCHANGED prover

Preamble ==
    /\ Executes("preamble")
    /\ transcript' = Send(transcript,
                          Named(<<"circuit_size", "public_input_size">>) \o Numbered("public_input", NumPublic),
                          <<Scalar(CircuitSize), Scalar(NumPublic)>>
                              \o [i \in 1 .. NumPublic |-> Scalar(prover.public_inputs[i])])
    /\ UNCHANGED <<prover, queue>>

WireCommitments ==
    /\ Executes("wire_commitments")
    /\ queue' = queue \o Numbered("W", NUM_WIRES)
    /\ UNCHANGED <<transcript, prover>>

\* compute_public_input_delta
PublicInputDelta(public_inputs, beta, gamma) ==
    LET x(i) == public_inputs[i + 1]
    IN  FieldProduct(Len(public_inputs), LAMBDA i : gamma ++ x(i) ++ (beta ** ((CircuitSize + i) % Modulus)))
        // FieldProduct(Len(public_inputs), LAMBDA i : (gamma ++ x(i)) -- (beta ** (1 + i)))

RelationParameters(public_inputs, beta, gamma) ==
    [beta |-> beta, gamma |-> gamma, public_input_delta |-> PublicInputDelta(public_inputs, beta, gamma)]

\* compute_permutation_grand_product
PermutationGrandProduct(beta, gamma) ==
    LET row(labels, i) == FieldProduct(NUM_WIRES,
                            LAMBDA j : wires[<<j, i>>] ++ (key[labels[j + 1]][i] ** beta) ++ gamma)
        ids    == <<"ID_1", "ID_2", "ID_3">>
        sigmas == <<"SIGMA_1", "SIGMA_2", "SIGMA_3">>
    IN  [i \in Rows |-> IF i = 0 THEN 0
                        ELSE FieldProduct(i, LAMBDA k : row(ids, k))
                             // FieldProduct(i, LAMBDA k : row(sigmas, k))]

GrandProductComputationRound ==
    /\ Executes("grand_product")
    /\ Draw(<<"beta", "gamma">>)
    /\ LET c == Drawn(<<"beta", "gamma">>)
       IN  prover' = prover \uplus
             [relation_parameters |-> RelationParameters(prover.public_inputs, c[1], c[2]),
              z_permutation |-> PermutationGrandProduct(c[1], c[2])]
    /\ queue' = Append(queue, <<"Z_PERM", 0>>)

ProverPolynomials ==
    key \uplus [W_L |-> Column(0), W_R |-> Column(1), W_O |-> Column(2),
                Z_PERM |-> prover.z_permutation, Z_PERM_SHIFT |-> Shifted(prover.z_permutation)]

\* execute_relation_check_rounds: Sumcheck::execute_prover in its steps.
SumcheckBegin ==
    /\ Executes("sumcheck")
    /\ Draw(<<"Sumcheck:alpha", "Sumcheck:zeta">>)
    /\ LET c == Drawn(<<"Sumcheck:alpha", "Sumcheck:zeta">>)
       IN  prover' = prover \uplus
             [alpha |-> c[1], pow |-> PowUnivariate(c[2]), polynomials |-> ProverPolynomials,
              round_size |-> CircuitSize, challenge_point |-> << >>]
    /\ UNCHANGED queue

SumcheckRound ==
    LET l == Len(prover.challenge_point)
        T == RoundUnivariate(prover.polynomials, prover.round_size, prover.relation_parameters,
                             prover.pow, prover.alpha)
        sent == Send(transcript, <<<<"Sumcheck:univariate", l>>>>, <<Sequence(T)>>)
        u == Challenges(sent, <<<<"Sumcheck:u", l>>>>)[1]
    IN  /\ Executes("sumcheck_round")
        /\ transcript' = AfterChallenges(sent, <<<<"Sumcheck:u", l>>>>)
        /\ prover' = prover \uplus
             [challenge_point |-> Append(prover.challenge_point, u),
              polynomials |-> Fold(prover.polynomials, prover.round_size, u),
              pow |-> PartiallyEvaluate(prover.pow, u), round_size |-> prover.round_size \div 2]
        /\ UNCHANGED queue

SumcheckEvaluations ==
    LET values == [i \in 1 .. NUM_POLYNOMIALS |-> prover.polynomials[PolynomialNames[i]][0]]
    IN  /\ Executes("evaluations")
        /\ transcript' = Send(transcript, Named(<<"Sumcheck:evaluations">>), <<values>>)
        /\ prover' = prover \uplus [evaluations |-> values]
        /\ UNCHANGED queue

\* powers_of_rho, and the batches F and G.
Rhos(rho) == [i \in 1 .. NUM_POLYNOMIALS |-> Power(rho, i - 1)]

Batched(names, rhos, f) ==
    PolySum(CircuitSize, Len(names), LAMBDA i : Scaled(f[names[i + 1]], rhos[i + 1]))

UnivariatizationRound ==
    /\ Executes("univariatization")
    /\ Draw(<<"rho">>)
    /\ LET rhos == Rhos(Drawn(<<"rho">>)[1])
           f    == key \uplus [W_L |-> Column(0), W_R |-> Column(1), W_O |-> Column(2),
                               Z_PERM |-> prover.z_permutation]
       IN  prover' = prover \uplus
             [fold_polynomials |-> FoldPolynomials(prover.challenge_point, Batched(UnshiftedNames, rhos, f),
                                       Scaled(prover.z_permutation, rhos[NUM_POLYNOMIALS]))]
    /\ queue' = queue \o Numbered("Gemini:FOLD", LogCircuitSize - 1)

PcsEvaluationRound ==
    LET r         == Drawn(<<"Gemini:r">>)[1]
        witnesses == Witnesses(prover.fold_polynomials, r)
        pairs     == OpeningPairs(witnesses, r)
    IN  /\ Executes("pcs_evaluation")
        /\ transcript' = Send(AfterChallenges(transcript, Named(<<"Gemini:r">>)),
                              Numbered("Gemini:a", LogCircuitSize),
                              [l \in 1 .. LogCircuitSize |-> Scalar(pairs[l + 1].evaluation)])
        /\ prover' = prover \uplus [fold_polynomials |-> << >>,     \* moved into gemini_output
                                    witnesses |-> witnesses, opening_pairs |-> pairs]
        /\ UNCHANGED queue

ShplonkBatchedQuotientRound ==
    /\ Executes("batched_quotient")
    /\ Draw(<<"Shplonk:nu">>)
    /\ LET nu == Drawn(<<"Shplonk:nu">>)[1]
       IN  prover' = prover \uplus
             [nu_challenge |-> nu, batched_quotient_Q |-> BatchedQuotient(prover.opening_pairs, prover.witnesses, nu)]
    /\ queue' = Append(queue, <<"Shplonk:Q", 0>>)

ShplonkPartialEvaluationRound ==
    /\ Executes("partial_evaluation")
    /\ Draw(<<"Shplonk:z">>)
    /\ LET z == Drawn(<<"Shplonk:z">>)[1]
       IN  prover' = prover \uplus
             [shplonk_z |-> z, batched_quotient_Q |-> << >>,        \* moved into G
              shplonk_G |-> PartiallyEvaluated(prover.opening_pairs, prover.witnesses, prover.batched_quotient_Q,
                                               prover.nu_challenge, z)]
    /\ UNCHANGED queue

KzgRound ==
    /\ Executes("kzg")
    /\ prover' = prover \uplus [quotient_W |-> OpeningProof(prover.shplonk_G, prover.shplonk_z, 0)]
    /\ queue' = Append(queue, <<"KZG:W", 0>>)
    /\ UNCHANGED transcript

-----------------------------------------------------------------------------
\* export_proof, and the way to the verifier: a proof of the witness of the
\* composer may change in a word.
Deliver ==
    /\ round = Len(Rounds) /\ proof = NoProof
    /\ LET sent == transcript.proof_data
       IN  \/ proof' = sent /\ intact' = TRUE
           \/ /\ \A cell \in Cells : wires[cell] = Wiring(circuit)!Witness[cell]
              /\ \E k \in DOMAIN sent : proof' = [sent EXCEPT ![k] = @ ++ 1]
              /\ intact' = FALSE
    /\ UNCHANGED <<inputs, proverVars, verifierVars>>

-----------------------------------------------------------------------------
(***************************************************************************)
(* verify_proof, in the phases between the challenges.                     *)
(***************************************************************************)
Phases ==
    <<"preamble", "grand_product", "sumcheck">> \o [l \in 1 .. LogCircuitSize |-> "sumcheck_round"]
    \o <<"evaluations", "gemini", "shplonk">>

Checks(name) ==
    /\ proof # NoProof /\ verdict = "none" /\ Phases[phase + 1] = name
    /\ phase' = phase + 1
    /\ UNCHANGED <<inputs, proverVars, channel>>

Returns(b) == verdict' = IF b THEN "accepted" ELSE "rejected"

VerifyPreamble ==
    LET sizes  == AfterReceive(verifier.transcript, Named(<<"circuit_size", "public_input_size">>), 1)
        inputs_read == AfterReceive(sizes, Numbered("public_input", NumPublic), 1)
        t      == AfterReceive(inputs_read, Numbered("W", NUM_WIRES), CircuitSize)
    IN  /\ Checks("preamble")
        /\ IF /\ Received(verifier.transcript, 1, 1) = Scalar(CircuitSize)
              /\ Received(verifier.transcript, 2, 1) = Scalar(NumPublic)
           THEN /\ verifier' = verifier \uplus
                     [transcript |-> t,
                      public_inputs |-> [i \in 1 .. NumPublic |-> Received(sizes, i, 1)[1]],
                      wire_commitments |-> [j \in 1 .. NUM_WIRES |-> FromWords(Received(inputs_read, j, CircuitSize))]]
                /\ UNCHANGED verdict
           ELSE Returns(FALSE) /\ verifier' = [verifier EXCEPT !.transcript = sizes]

VerifierDraws(t, names) == Challenges(t, Named(names))

VerifyGrandProduct ==
    LET c == VerifierDraws(verifier.transcript, <<"beta", "gamma">>)
        t == AfterChallenges(verifier.transcript, Named(<<"beta", "gamma">>))
    IN  /\ Checks("grand_product")
        /\ verifier' = verifier \uplus
             [transcript |-> AfterReceive(t, Named(<<"Z_PERM">>), CircuitSize),
              relation_parameters |-> RelationParameters(verifier.public_inputs, c[1], c[2]),
              z_permutation_commitment |-> FromWords(Received(t, 1, CircuitSize))]
        /\ UNCHANGED verdict

\* Sumcheck::execute_verifier in its steps.
VerifySumcheckBegin ==
    LET names == <<"Sumcheck:alpha", "Sumcheck:zeta">>
        c == VerifierDraws(verifier.transcript, names)
    IN  /\ Checks("sumcheck")
        /\ verifier' = verifier \uplus
             [transcript |-> AfterChallenges(verifier.transcript, Named(names)), alpha |-> c[1],
              pow |-> PowUnivariate(c[2]), target_total_sum |-> 0, challenge_point |-> << >>]
        /\ UNCHANGED verdict

VerifySumcheckRound ==
    LET l == Len(verifier.challenge_point)
        T == FromWords(Received(verifier.transcript, 1, MAX_RELATION_LENGTH))
        read == AfterReceive(verifier.transcript, <<<<"Sumcheck:univariate", l>>>>, MAX_RELATION_LENGTH)
        u == Challenges(read, <<<<"Sumcheck:u", l>>>>)[1]
    IN  /\ Checks("sumcheck_round")
        /\ verifier' = verifier \uplus
             [transcript |-> AfterChallenges(read, <<<<"Sumcheck:u", l>>>>),
              challenge_point |-> Append(verifier.challenge_point, u),
              target_total_sum |-> NextTargetSum(T, verifier.pow, u),
              pow |-> PartiallyEvaluate(verifier.pow, u)]
        /\ IF CheckSum(T, verifier.pow, verifier.target_total_sum) THEN UNCHANGED verdict ELSE Returns(FALSE)

VerifyEvaluations ==
    LET values == Received(verifier.transcript, 1, NUM_POLYNOMIALS)
        e == [name \in {PolynomialNames[i] : i \in 1 .. NUM_POLYNOMIALS} |->
                values[CHOOSE i \in 1 .. NUM_POLYNOMIALS : PolynomialNames[i] = name]]
    IN  /\ Checks("evaluations")
        /\ verifier' = verifier \uplus
             [transcript |-> AfterReceive(verifier.transcript, Named(<<"Sumcheck:evaluations">>), NUM_POLYNOMIALS),
              evaluations |-> values]
        /\ IF PurportedValue(e, verifier.relation_parameters, verifier.pow, verifier.alpha) = verifier.target_total_sum
           THEN UNCHANGED verdict
           ELSE Returns(FALSE)

\* The batched commitments and evaluation, and Gemini's reduce_verify.
VerifyGemini ==
    LET rhos == Rhos(VerifierDraws(verifier.transcript, <<"rho">>)[1])
        f    == key \uplus [W_L |-> verifier.wire_commitments[1], W_R |-> verifier.wire_commitments[2],
                            W_O |-> verifier.wire_commitments[3], Z_PERM |-> verifier.z_permutation_commitment]
        v    == FieldSum(NUM_POLYNOMIALS, LAMBDA i : verifier.evaluations[i + 1] ** rhos[i + 1])
        t1   == AfterChallenges(verifier.transcript, Named(<<"rho">>))
        t2   == AfterReceive(t1, Numbered("Gemini:FOLD", LogCircuitSize - 1), CircuitSize)
        folds == [l \in 1 .. LogCircuitSize - 1 |-> FromWords(Received(t1, l, CircuitSize))]
        r    == VerifierDraws(t2, <<"Gemini:r">>)[1]
        t3   == AfterChallenges(t2, Named(<<"Gemini:r">>))
        a    == [l \in 1 .. LogCircuitSize |-> Received(t3, l, 1)[1]]
    IN  /\ Checks("gemini")
        /\ verifier' = verifier \uplus
             [transcript |-> AfterReceive(t3, Numbered("Gemini:a", LogCircuitSize), 1),
              gemini_claim |-> GeminiClaims(v, verifier.challenge_point, r, a,
                                  Batched(UnshiftedNames, rhos, f),
                                  Scaled(f["Z_PERM"], rhos[NUM_POLYNOMIALS]), folds)]
        /\ UNCHANGED verdict

\* Mutant: the result of the pairing is not looked at.
VerifyShplonkKzg_NoPairing ==
    LET nu == VerifierDraws(verifier.transcript, <<"Shplonk:nu">>)[1]
        t1 == AfterChallenges(verifier.transcript, Named(<<"Shplonk:nu">>))
        t2 == AfterReceive(t1, Named(<<"Shplonk:Q">>), CircuitSize)
        t3 == AfterChallenges(t2, Named(<<"Shplonk:z">>))
    IN  /\ Checks("shplonk")
        /\ verifier' = [verifier EXCEPT !.transcript = AfterReceive(t3, Named(<<"KZG:W">>), CircuitSize)]
        /\ Returns(TRUE)

\* Shplonk's and KZG's reduce_verify, and the pairing.
VerifyShplonkKzg ==
    LET claims == verifier.gemini_claim
        nu == VerifierDraws(verifier.transcript, <<"Shplonk:nu">>)[1]
        t1 == AfterChallenges(verifier.transcript, Named(<<"Shplonk:nu">>))
        Q  == FromWords(Received(t1, 1, CircuitSize))
        t2 == AfterReceive(t1, Named(<<"Shplonk:Q">>), CircuitSize)
        z  == VerifierDraws(t2, <<"Shplonk:z">>)[1]
        t3 == AfterChallenges(t2, Named(<<"Shplonk:z">>))
        G  == PartiallyEvaluated(claims, [j \in DOMAIN claims |-> claims[j].commitment], Q, nu, z)
    IN  /\ Checks("shplonk")
        /\ verifier' = [verifier EXCEPT !.transcript = AfterReceive(t3, Named(<<"KZG:W">>), CircuitSize)]
        /\ Returns(PairingCheck(G, z, 0, FromWords(Received(t3, 1, CircuitSize))))

-----------------------------------------------------------------------------
Init ==
    /\ circuit \in Circuits
    /\ wires \in Tables(circuit)
    /\ key = Key(circuit)
    /\ hash \in HashFunctions
    /\ transcript = EmptyTranscript \uplus [proof_data |-> << >>]
    \* the constructor takes the public inputs from W_R
    /\ prover = [public_inputs |-> [i \in 1 .. NumPublic |-> wires[<<1, i - 1>>]]]
    /\ queue = << >>
    /\ round = 0
    /\ proof = NoProof
    /\ intact = TRUE
    /\ verifier = [transcript |-> EmptyTranscript \uplus [num_bytes_read |-> 0]]
    /\ phase = 0
    /\ verdict = "none"

ConstructProof ==
    \/ Preamble \/ WireCommitments \/ GrandProductComputationRound
    \/ SumcheckBegin \/ SumcheckRound \/ SumcheckEvaluations
    \/ UnivariatizationRound \/ PcsEvaluationRound
    \/ ShplonkBatchedQuotientRound \/ ShplonkPartialEvaluationRound \/ KzgRound
    \/ ProcessQueue

VerifyProof ==
    \/ VerifyPreamble \/ VerifyGrandProduct
    \/ VerifySumcheckBegin \/ VerifySumcheckRound \/ VerifyEvaluations
    \/ VerifyGemini \/ VerifyShplonkKzg

Next == ConstructProof \/ Deliver \/ VerifyProof

HonkSpec == Init /\ [][Next]_vars

-----------------------------------------------------------------------------
(***************************************************************************)
(* What the protocol is for.                                               *)
(***************************************************************************)
\* The table satisfies the gates, gives one value to the cells that share a
\* variable, and has the public inputs in both cells of their rows.
Satisfied ==
    /\ \A g \in DOMAIN circuit.gates :
        LET q == circuit.gates[g].selectors
            w(j) == wires[<<j, NumPublic + g - 1>>]
        IN  ((q.m * (w(0) ** w(1))) + (q.l * w(0)) + (q.r * w(1)) + (q.o * w(2)) + q.c) % Modulus = 0
    /\ Wiring(circuit)!CopiesHold(wires)
    /\ Wiring(circuit)!PublicHold(wires, [i \in 0 .. NumPublic - 1 |-> prover.public_inputs[i + 1]])

\* The verifier accepts the proof the prover made from a table iff the table
\* satisfies the circuit: the relations, the sumcheck, the folding and the
\* openings lose nothing and let nothing more pass, whatever cell is off.
AcceptsExactlyTheSatisfied ==
    intact /\ verdict # "none" => (verdict = "accepted" <=> Satisfied)

\* A proof that changed in one word is rejected: every word that is sent is
\* bound by a later challenge or by a check.
AlteredProofIsRejected == ~intact => verdict # "accepted"

\* The verifier reads what it expects: over a proof that arrived intact it
\* goes through the elements and challenges of the prover, in their order,
\* and ends with the same hash at the end of the proof.
VerifierFollowsProver ==
    intact =>
        LET mine   == verifier.transcript.manifest
            theirs == transcript.manifest
        IN  /\ Len(mine) <= Len(theirs) /\ mine = SubSeq(theirs, 1, Len(mine))
            /\ verdict = "accepted" =>
                /\ mine = theirs
                /\ verifier.transcript.previous_challenge_buffer = transcript.previous_challenge_buffer
                /\ verifier.transcript.num_bytes_read = Len(proof)

\* The multilinear extension of f at u, by its definition.
MultilinearExtension(f, u) ==
    FieldSum(CircuitSize, LAMBDA i :
        f[i] ** FieldProduct(LogCircuitSize, LAMBDA l :
                    IF (i \div 2 ^ l) % 2 = 1 THEN u[l + 1] ELSE 1 -- u[l + 1]))

\* What the prover claims after d foldings are the evaluations of the
\* multilinear extensions at the challenges, the shift of z_perm included.
EvaluationsAreMultilinear ==
    "evaluations" \in DOMAIN prover =>
        \A i \in 1 .. NUM_POLYNOMIALS :
            prover.evaluations[i] =
                MultilinearExtension(ProverPolynomials[PolynomialNames[i]], prover.challenge_point)
=============================================================================
