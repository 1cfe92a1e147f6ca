------------------------------ MODULE Transcript ------------------------------
(***************************************************************************)
(* One transcript (transcript/transcript.cpp) under callers that add any   *)
(* element at any time, also twice and also after the round it belongs to  *)
(* was hashed, as a work queue that is fed from outside can, and apply the *)
(* Fiat-Shamir transform whenever its assertions let them.                 *)
(***************************************************************************)
EXTENDS TranscriptOps

CONSTANT Buffers    \* the values an element can have

VARIABLE transcript

AllNames == UNION {Names(r) : r \in Rounds}

Init == transcript = NewTranscript

AddElement(name, buffer) == transcript' = add_element(transcript, name, buffer)

ApplyFiatShamir(challenge_name) ==
    /\ ReadyFor(transcript, challenge_name)
    /\ transcript' = apply_fiat_shamir(transcript)

Next ==
    \/ \E name \in AllNames, buffer \in Buffers : AddElement(name, buffer)
    \/ \E r \in Rounds : ApplyFiatShamir(ChallengeName(r))

Spec == Init /\ [][Next]_transcript

-----------------------------------------------------------------------------
Hashed(t) == {r \in 0 .. t.current_round - 1 : NumChallenges(r) > 0}

TypeOK ==
    /\ transcript.current_round \in 0 .. num_rounds
    /\ DOMAIN transcript.elements \subseteq AllNames
    /\ \A name \in DOMAIN transcript.elements : transcript.elements[name] \in Buffers
    /\ DOMAIN transcript.challenges = {ChallengeName(r) : r \in Hashed(transcript)}

\* The last rounds before r that gave a challenge: one, or none.
LastHashedBefore(r) ==
    {q \in 0 .. r - 1 : NumChallenges(q) > 0 /\ \A s \in q + 1 .. r - 1 : NumChallenges(s) = 0}

\* What the hash of round r starts from.
HashStarts(t, r) ==
    IF r = 0 THEN {NoPrefix}
    ELSE IF \A q \in 0 .. r - 1 : NumChallenges(q) = 0 THEN {ZeroChallenge}
    ELSE {t.challenges[ChallengeName(q)][NumChallenges(q) - 1] : q \in LastHashedBefore(r)}

\* Every challenge is the hash of the last challenge of the round before it
\* that has one and of what the transcript holds now for the elements of its
\* own round: so, inductively, of all that the proof will say of the rounds
\* up to it.  Elements that come late or twice do not change that.
ChallengesBindElements ==
    \A r \in Hashed(transcript) :
        /\ Names(r) \subseteq DOMAIN transcript.elements
        /\ \E prefix \in HashStarts(transcript, r) :
            transcript.challenges[ChallengeName(r)]
                = RoundChallenges(Hash(prefix, RoundData(transcript, r)), NumChallenges(r))

\* No two challenges are the same chunk of the same hash, not even those of
\* rounds with the same data: none is predictable from another.
NoChallengeTwice ==
    \A q, r \in Hashed(transcript) :
        \A i \in 0 .. NumChallenges(q) - 1, j \in 0 .. NumChallenges(r) - 1 :
            transcript.challenges[ChallengeName(q)][i] = transcript.challenges[ChallengeName(r)][j]
                => q = r /\ i = j

\* A step never changes a challenge that was given out, nor an element of a
\* round that was hashed.
NothingRewritten ==
    [][ \A r \in Hashed(transcript) :
            /\ r \in Hashed(transcript')
            /\ transcript'.challenges[ChallengeName(r)] = transcript.challenges[ChallengeName(r)]
            /\ RoundData(transcript', r) = RoundData(transcript, r) ]_transcript

-----------------------------------------------------------------------------
(***************************************************************************)
(* The verifier: it reads the elements from the proof, adds those it       *)
(* derives, and applies the rounds in the order of the manifest.           *)
(***************************************************************************)
VerifierStart(t) ==
    LET read == FromProof(export_transcript(t))
    IN  [read EXCEPT !.elements = [name \in AllNames |->
            IF name \in DOMAIN @ THEN @[name] ELSE t.elements[name]]]

\* The verifier's transcript after each number of rounds.
VerifierRounds(t) ==
    LET after[n \in 0 .. num_rounds] ==
            IF n = 0 THEN VerifierStart(t) ELSE apply_fiat_shamir(after[n - 1])
    IN  after

VerifierTranscript(t) == VerifierRounds(t)[num_rounds]

\* A verifier that is given the exported proof, and derives for itself the
\* values the prover derived, computes the prover's challenges.
VerifierAgrees ==
    transcript.current_round = num_rounds /\ Complete(transcript) =>
        /\ HasProofSize(export_transcript(transcript))
        /\ VerifierTranscript(transcript).challenges = transcript.challenges
=============================================================================
