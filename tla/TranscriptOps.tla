----------------------------- MODULE TranscriptOps -----------------------------
(***************************************************************************)
(* The Fiat-Shamir transcript (transcript/transcript.{hpp,cpp}) as a value *)
(* and the operators that change it.  The manifest says, round by round,   *)
(* which elements are hashed and how many challenges they give.            *)
(*                                                                         *)
(* The hash is a parameter.  A challenge is a chunk of a hash: the hash of *)
(* the round, or that hash hashed again with a one-byte counter.  Elements *)
(* are values of the size their manifest entry says, so that a proof is    *)
(* the sequence of their values.                                           *)
(***************************************************************************)
EXTENDS Integers, Sequences, FiniteSets, SequencesExt

CONSTANTS
    Manifest,           \* a sequence of RoundManifests
    Hash(_, _),         \* of the bytes before the round's data, and that data
    NoPrefix,           \* nothing: what precedes the data of the first round
    ZeroChallenge,      \* current_challenge as it is initialised
    ChallengesPerHash   \* PRNG_OUTPUT_SIZE / num_challenge_bytes

num_rounds == Len(Manifest)
Rounds == 0 .. num_rounds - 1

RoundManifest(r)  == Manifest[r + 1]
NumChallenges(r)  == RoundManifest(r).num_challenges
ChallengeName(r)  == RoundManifest(r).challenge
Entries(r)        == RoundManifest(r).elements
Names(r)          == {Entries(r)[k].name : k \in DOMAIN Entries(r)}

\* Distinct rounds have distinct elements and distinct challenges.
ASSUME ManifestAssumption ==
    /\ num_rounds \in Nat
    /\ \A r \in Rounds : NumChallenges(r) \in Nat /\ IsFiniteSet(DOMAIN Entries(r))
    /\ \A q, r \in Rounds : q # r => /\ ChallengeName(q) # ChallengeName(r)
                                     /\ Names(q) \cap Names(r) = {}
    /\ ChallengesPerHash \in Nat \ {0}

Nothing == [x \in {} |-> x]

NewTranscript == [ elements          |-> Nothing,
                   current_round     |-> 0,
                   current_challenge |-> ZeroChallenge,
                   challenges        |-> Nothing ]

\* Mutant: a later value replaces the one that is there.
Inserted_Overwrites(f, k, v) == [x \in DOMAIN f \cup {k} |-> IF x = k THEN v ELSE f[x]]

\* std::map::insert: a key that is present keeps its value.
Inserted(f, k, v) == [x \in DOMAIN f \cup {k} |-> IF x \in DOMAIN f THEN f[x] ELSE v]

add_element(t, name, v) == [t EXCEPT !.elements = Inserted(@, name, v)]

\* The data of a round, in the order of its manifest.
RoundData(t, r) == [k \in DOMAIN Entries(r) |-> t.elements[Entries(r)[k].name]]

\* Mutant: the hash is not repeated when its chunks are used up.
Chunk_SameHash(base, k) == [hash |-> base, counter |-> << >>, chunk |-> k % ChallengesPerHash]

\* The k-th challenge of a round: the chunks of the round's hash, then those
\* of the hash repeated with a counter, which is cast to one byte.
Chunk(base, k) == [ hash    |-> base,
                    counter |-> IF k < ChallengesPerHash THEN << >>
                                ELSE <<(k \div ChallengesPerHash) % 256>>,
                    chunk   |-> k % ChallengesPerHash ]

RoundChallenges(base, n) == [k \in 0 .. n - 1 |-> Chunk(base, k)]

\* The assertions of apply_fiat_shamir: the caller is at this round and every
\* element of the round is in the transcript.
ReadyFor(t, name) ==
    /\ t.current_round < num_rounds
    /\ name = ChallengeName(t.current_round)
    /\ NumChallenges(t.current_round) > 0 => Names(t.current_round) \subseteq DOMAIN t.elements

Prefix(t) == IF t.current_round = 0 THEN NoPrefix ELSE t.current_challenge

\* Mutant: the chain is not carried on, every round hashes after the first challenge.
apply_fiat_shamir_Unchained(t) ==
    LET r    == t.current_round
        n    == NumChallenges(r)
        cs   == RoundChallenges(Hash(Prefix(t), RoundData(t, r)), n)
        next == [t EXCEPT !.current_round = r + 1]
    IN  IF n = 0 THEN next ELSE [next EXCEPT !.challenges = Inserted(@, ChallengeName(r), cs)]

apply_fiat_shamir(t) ==
    LET r    == t.current_round
        n    == NumChallenges(r)
        cs   == RoundChallenges(Hash(Prefix(t), RoundData(t, r)), n)
        next == [t EXCEPT !.current_round = r + 1]
    IN  IF n = 0 THEN next
        ELSE [next EXCEPT !.current_challenge = cs[n - 1],
                          !.challenges = Inserted(@, ChallengeName(r), cs)]

-----------------------------------------------------------------------------
(***************************************************************************)
(* The proof: the elements the verifier does not derive, one after the     *)
(* other, and the transcript read from it.                                 *)
(***************************************************************************)
\* The places in the manifest, <<round, index>>, of the elements that are sent.
SentPlaces == {p \in UNION {{r} \X DOMAIN Entries(r) : r \in Rounds} :
                  ~Entries(p[1])[p[2]].derived_by_verifier}

Precedes(p, q) == p[1] < q[1] \/ (p[1] = q[1] /\ p[2] < q[2])

\* Their names, in the order of the manifest.
ProofNames == [n \in 1 .. Cardinality(SentPlaces) |->
    LET p == CHOOSE p \in SentPlaces : Cardinality({q \in SentPlaces : Precedes(q, p)}) = n - 1
    IN  Entries(p[1])[p[2]].name]

Complete(t) == \A r \in Rounds : Names(r) \subseteq DOMAIN t.elements

\* Mutant: the values are written in reverse order.
export_transcript_Reversed(t) == Reverse([k \in DOMAIN ProofNames |-> t.elements[ProofNames[k]]])

export_transcript(t) == [k \in DOMAIN ProofNames |-> t.elements[ProofNames[k]]]

\* The constructor from a buffer; it throws when the size is not the sum of
\* the sizes in the manifest.
HasProofSize(proof) == Len(proof) = Len(ProofNames)

FromProof(proof) ==
    [NewTranscript EXCEPT !.elements =
        [name \in ToSet(ProofNames) |->
            proof[CHOOSE k \in DOMAIN ProofNames :
                    /\ ProofNames[k] = name
                    /\ \A j \in 1 .. k - 1 : ProofNames[j] # name]]]
=============================================================================
