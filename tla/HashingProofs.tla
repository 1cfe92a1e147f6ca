----------------------------- MODULE HashingProofs -----------------------------
(***************************************************************************)
(* What is built from hashes: the transcript and the Merkle trees.         *)
(*                                                                         *)
(* The transcript, for every manifest and every hash: each challenge binds *)
(* the elements of its round and the challenge before it, and nothing that *)
(* was hashed or given out is rewritten, whenever and however often        *)
(* elements are added; no challenge is given twice, and a verifier with    *)
(* the proof derives the same ones.                                        *)
(*                                                                         *)
(* The Merkle tree, for every depth, every set of updates and any order of *)
(* updates, commits and rollbacks: a node found under a hash has that      *)
(* hash; and, where no value is written at two indices, until the second   *)
(* commit, the root and the hash paths are those of the tree of the        *)
(* leaves.                                                                 *)
(*                                                                         *)
(* The dense tree, for every depth and any leaves: the array holds the     *)
(* tree of the leaves through every update, and what is read from it is    *)
(* the tree's.                                                             *)
(***************************************************************************)
EXTENDS Transcript, MerkleTree, LeastElements, FiniteSetTheorems, TLAPS

\* What the next round will hash is what ChallengesBindElements will say of it.
PrefixIsStart ==
    IF transcript.current_round = 0
    THEN transcript.current_challenge = ZeroChallenge
    ELSE transcript.current_challenge \in HashStarts(transcript, transcript.current_round)

IsTranscript ==
    /\ transcript = [ elements          |-> transcript.elements,
                      current_round     |-> transcript.current_round,
                      current_challenge |-> transcript.current_challenge,
                      challenges        |-> transcript.challenges ]
    /\ transcript.challenges = [c \in DOMAIN transcript.challenges |-> transcript.challenges[c]]

TranscriptInv == IsTranscript /\ TypeOK /\ ChallengesBindElements /\ PrefixIsStart

\* What a step may do to a transcript.
Extends(t, u) ==
    /\ \A name \in DOMAIN t.elements : /\ name \in DOMAIN u.elements
                                       /\ u.elements[name] = t.elements[name]
    /\ Hashed(t) \subseteq Hashed(u)
    /\ \A r \in Hashed(t) : u.challenges[ChallengeName(r)] = t.challenges[ChallengeName(r)]

-----------------------------------------------------------------------------
\* The start of a round's hash depends only on the challenges before it.
LEMMA StartsUnchanged ==
    ASSUME NEW t, NEW u, NEW r \in Nat,
           \A q \in 0 .. r - 1 : NumChallenges(q) > 0 =>
                u.challenges[ChallengeName(q)] = t.challenges[ChallengeName(q)]
    PROVE  HashStarts(u, r) = HashStarts(t, r)
  <1>1. \A q \in LastHashedBefore(r) : u.challenges[ChallengeName(q)] = t.challenges[ChallengeName(q)]
    BY DEF LastHashedBefore
  <1> QED
    BY <1>1 DEF HashStarts

\* What the hash after a round starts from.
LEMMA NextStart ==
    ASSUME NEW t, NEW r \in Nat, \A q \in 0 .. r : NumChallenges(q) \in Nat
    PROVE  HashStarts(t, r + 1) =
                IF NumChallenges(r) > 0 THEN {t.challenges[ChallengeName(r)][NumChallenges(r) - 1]}
                ELSE IF r = 0 THEN {ZeroChallenge} ELSE HashStarts(t, r)
<1>1. r + 1 # 0 /\ (r + 1) - 1 = r
  OBVIOUS
<1>2. CASE NumChallenges(r) > 0
  <2>1. LastHashedBefore(r + 1) = {r}
    <3>1. r \in LastHashedBefore(r + 1)
      BY <1>1, <1>2 DEF LastHashedBefore
    <3>2. ASSUME NEW q \in LastHashedBefore(r + 1) PROVE q = r
      <4>1. q \in 0 .. r /\ \A s \in q + 1 .. r : NumChallenges(s) = 0
        BY <1>1 DEF LastHashedBefore
      <4>2. CASE q # r
        <5>1. r \in q + 1 .. r
          BY <4>1, <4>2
        <5> QED BY <1>2, <4>1, <5>1
      <4> QED BY <4>2
    <3> QED BY <3>1, <3>2
  <2>2. ~ \A q \in 0 .. (r + 1) - 1 : NumChallenges(q) = 0
    BY <1>1, <1>2
  <2> QED BY <1>1, <1>2, <2>1, <2>2 DEF HashStarts
<1>3. CASE ~ NumChallenges(r) > 0
  <2>1. NumChallenges(r) = 0
    BY <1>3
  <2>2. LastHashedBefore(r + 1) = LastHashedBefore(r)
    BY <1>1, <2>1 DEF LastHashedBefore
  <2>3. (\A q \in 0 .. (r + 1) - 1 : NumChallenges(q) = 0) <=> (\A q \in 0 .. r - 1 : NumChallenges(q) = 0)
    BY <1>1, <2>1
  <2>4. CASE r = 0
    <3>1. \A q \in 0 .. (r + 1) - 1 : NumChallenges(q) = 0
      BY <2>1, <2>4
    <3> QED BY <1>1, <1>3, <2>4, <3>1 DEF HashStarts
  <2>5. CASE r # 0
    BY <1>1, <1>3, <2>2, <2>3, <2>5 DEF HashStarts
  <2> QED BY <2>4, <2>5
<1> QED BY <1>2, <1>3

\* The data of a round whose elements are all there is not changed by a step.
LEMMA DataUnchanged ==
    ASSUME NEW t, NEW u, Extends(t, u), NEW r \in Rounds, Names(r) \subseteq DOMAIN t.elements
    PROVE  RoundData(u, r) = RoundData(t, r) /\ Names(r) \subseteq DOMAIN u.elements
  <1>1. \A k \in DOMAIN Entries(r) : Entries(r)[k].name \in DOMAIN t.elements
    BY DEF Names
  <1> QED
    BY <1>1 DEF RoundData, Extends

\* What a challenge is bound to, it stays bound to.
LEMMA StaysBound ==
    ASSUME NEW t, NEW u, Extends(t, u), t.current_round \in 0 .. num_rounds,
           NEW r \in Hashed(t), Names(r) \subseteq DOMAIN t.elements,
           NEW prefix \in HashStarts(t, r),
           t.challenges[ChallengeName(r)]
                = RoundChallenges(Hash(prefix, RoundData(t, r)), NumChallenges(r))
    PROVE  /\ Names(r) \subseteq DOMAIN u.elements
           /\ prefix \in HashStarts(u, r)
           /\ u.challenges[ChallengeName(r)]
                = RoundChallenges(Hash(prefix, RoundData(u, r)), NumChallenges(r))
  <1>1. r \in Rounds /\ r \in Nat /\ \A q \in 0 .. r - 1 : NumChallenges(q) > 0 => q \in Hashed(t)
    BY ManifestAssumption DEF Hashed, Rounds
  <1>2. \A q \in 0 .. r - 1 : NumChallenges(q) > 0 =>
            u.challenges[ChallengeName(q)] = t.challenges[ChallengeName(q)]
    BY <1>1 DEF Extends
  <1>3. HashStarts(u, r) = HashStarts(t, r)
    BY <1>1, <1>2, StartsUnchanged
  <1>4. RoundData(u, r) = RoundData(t, r) /\ Names(r) \subseteq DOMAIN u.elements
    BY <1>1, DataUnchanged
  <1> QED
    BY <1>3, <1>4 DEF Extends

-----------------------------------------------------------------------------
LEMMA InitTranscript == Init => TranscriptInv
  <1> SUFFICES ASSUME Init PROVE TranscriptInv
    OBVIOUS
  <1>1. /\ transcript = NewTranscript
        /\ transcript.current_round = 0
        /\ transcript.current_challenge = ZeroChallenge
        /\ DOMAIN transcript.elements = {}
        /\ DOMAIN transcript.challenges = {}
    BY DEF Init, NewTranscript, Nothing
  <1>2. IsTranscript
    BY DEF Init, NewTranscript, Nothing, IsTranscript
  <1>3. Hashed(transcript) = {}
    BY <1>1 DEF Hashed
  <1>4. TypeOK
    BY <1>1, <1>3, ManifestAssumption DEF TypeOK
  <1>5. ChallengesBindElements /\ PrefixIsStart
    BY <1>1, <1>3 DEF ChallengesBindElements, PrefixIsStart
  <1> QED
    BY <1>2, <1>4, <1>5 DEF TranscriptInv

\* An element that is added is new, or changes nothing.
LEMMA AddElementFacts ==
    ASSUME TranscriptInv, NEW name \in AllNames, NEW buffer \in Buffers, AddElement(name, buffer)
    PROVE  /\ IsTranscript' /\ TypeOK'
           /\ transcript'.current_round = transcript.current_round
           /\ transcript'.current_challenge = transcript.current_challenge
           /\ transcript'.challenges = transcript.challenges
           /\ Extends(transcript, transcript')
  <1>1. /\ transcript'.elements = Inserted(transcript.elements, name, buffer)
        /\ transcript'.current_round = transcript.current_round
        /\ transcript'.current_challenge = transcript.current_challenge
        /\ transcript'.challenges = transcript.challenges
        /\ IsTranscript'
    BY DEF TranscriptInv, IsTranscript, AddElement, add_element
  <1>2. Hashed(transcript') = Hashed(transcript)
    BY <1>1 DEF Hashed
  <1>3. Extends(transcript, transcript')
    BY <1>1, <1>2 DEF Extends, Inserted
  <1>4. TypeOK'
    BY <1>1, <1>2 DEF TypeOK, TranscriptInv, Inserted
  <1> QED
    BY <1>1, <1>3, <1>4

LEMMA AddElementKeeps ==
    ASSUME TranscriptInv, NEW name \in AllNames, NEW buffer \in Buffers, AddElement(name, buffer)
    PROVE  TranscriptInv'
  <1> DEFINE t == transcript
             u == transcript'
  <1>1. /\ IsTranscript' /\ TypeOK'
        /\ u.current_round = t.current_round
        /\ u.current_challenge = t.current_challenge
        /\ u.challenges = t.challenges
        /\ Extends(t, u)
    BY AddElementFacts
  <1>2. t.current_round \in 0 .. num_rounds /\ t.current_round \in Nat
    BY ManifestAssumption DEF TranscriptInv, TypeOK
  <1>3. Hashed(u) = Hashed(t)
    BY <1>1 DEF Hashed
  <1>4. ChallengesBindElements'
    <2> SUFFICES ASSUME NEW r \in Hashed(u)
                 PROVE  /\ Names(r) \subseteq DOMAIN u.elements
                        /\ \E prefix \in HashStarts(u, r) :
                             u.challenges[ChallengeName(r)]
                               = RoundChallenges(Hash(prefix, RoundData(u, r)), NumChallenges(r))
      BY DEF ChallengesBindElements
    <2>1. r \in Hashed(t) /\ Names(r) \subseteq DOMAIN t.elements
      BY <1>3 DEF TranscriptInv, ChallengesBindElements
    <2>2. PICK prefix \in HashStarts(t, r) :
             t.challenges[ChallengeName(r)]
                = RoundChallenges(Hash(prefix, RoundData(t, r)), NumChallenges(r))
      BY <2>1 DEF TranscriptInv, ChallengesBindElements
    <2> QED
      BY <1>1, <1>2, <2>1, <2>2, StaysBound
  <1>5. HashStarts(u, u.current_round) = HashStarts(t, t.current_round)
    BY <1>1, <1>2, StartsUnchanged
  <1>6. PrefixIsStart'
    BY <1>1, <1>5 DEF PrefixIsStart, TranscriptInv
  <1> QED
    BY <1>1, <1>4, <1>6 DEF TranscriptInv

-----------------------------------------------------------------------------
\* What a round of the Fiat-Shamir transform does: the challenge of a round is
\* new, and it is the hash of its data after the challenge before it.
LEMMA ApplyFacts ==
    ASSUME TranscriptInv, NEW r \in Rounds, ApplyFiatShamir(ChallengeName(r))
    PROVE  /\ r = transcript.current_round
           /\ transcript'.current_round = r + 1
           /\ transcript'.elements = transcript.elements
           /\ IsTranscript' /\ TypeOK'
           /\ Extends(transcript, transcript')
           /\ NumChallenges(r) = 0 =>
                /\ transcript'.current_challenge = transcript.current_challenge
                /\ transcript'.challenges = transcript.challenges
                /\ Hashed(transcript') = Hashed(transcript)
           /\ NumChallenges(r) > 0 =>
                /\ Hashed(transcript') = Hashed(transcript) \cup {r}
                /\ Names(r) \subseteq DOMAIN transcript.elements
                /\ transcript'.challenges[ChallengeName(r)]
                     = RoundChallenges(Hash(Prefix(transcript), RoundData(transcript, r)), NumChallenges(r))
                /\ transcript'.current_challenge
                     = transcript'.challenges[ChallengeName(r)][NumChallenges(r) - 1]
  <1> DEFINE t == transcript
             u == transcript'
             cs == RoundChallenges(Hash(Prefix(t), RoundData(t, r)), NumChallenges(r))
  <1>1. /\ t.current_round \in Nat /\ t.current_round < num_rounds /\ r \in Nat /\ num_rounds \in Nat
        /\ t.current_round \in Rounds
        /\ NumChallenges(r) \in Nat
    BY ManifestAssumption DEF TranscriptInv, TypeOK, ApplyFiatShamir, ReadyFor, Rounds
  <1>2. r = t.current_round
    BY <1>1, ManifestAssumption DEF ApplyFiatShamir, ReadyFor
  <1>3. ChallengeName(r) \notin DOMAIN t.challenges
    <2>1. \A q \in Hashed(t) : q \in Rounds /\ q # r
      BY <1>1, <1>2 DEF Hashed, Rounds
    <2> QED
      BY <2>1, ManifestAssumption DEF TranscriptInv, TypeOK
  <1>4. u = IF NumChallenges(r) = 0
            THEN [t EXCEPT !.current_round = r + 1]
            ELSE [[t EXCEPT !.current_round = r + 1]
                    EXCEPT !.current_challenge = cs[NumChallenges(r) - 1],
                           !.challenges = Inserted(@, ChallengeName(r), cs)]
    BY <1>2 DEF ApplyFiatShamir, apply_fiat_shamir
  <1>5. u.current_round = r + 1 /\ u.elements = t.elements /\ IsTranscript'
    BY <1>4 DEF TranscriptInv, IsTranscript, Inserted
  <1>6. CASE NumChallenges(r) = 0
    <2>1. /\ u.current_challenge = t.current_challenge
          /\ u.challenges = t.challenges
      BY <1>4, <1>6 DEF TranscriptInv, IsTranscript
    <2>2. Hashed(u) = Hashed(t)
      BY <1>1, <1>2, <1>5, <1>6 DEF Hashed
    <2>3. Extends(t, u)
      BY <1>5, <2>1, <2>2 DEF Extends
    <2>4. DOMAIN u.challenges = {ChallengeName(q) : q \in Hashed(u)}
      BY <2>1, <2>2 DEF TranscriptInv, TypeOK
    <2>5. TypeOK'
      BY <1>1, <1>2, <1>5, <2>4 DEF TranscriptInv, TypeOK
    <2> QED
      BY <1>2, <1>5, <1>6, <2>1, <2>2, <2>3, <2>5
  <1>7. CASE NumChallenges(r) > 0
    <2>1. /\ u.current_challenge = cs[NumChallenges(r) - 1]
          /\ u.challenges = Inserted(t.challenges, ChallengeName(r), cs)
      BY <1>4, <1>7 DEF TranscriptInv, IsTranscript
    <2>2. /\ DOMAIN u.challenges = DOMAIN t.challenges \cup {ChallengeName(r)}
          /\ \A c \in DOMAIN t.challenges : u.challenges[c] = t.challenges[c]
          /\ u.challenges[ChallengeName(r)] = cs
      BY <1>3, <2>1 DEF Inserted
    <2>3. Hashed(u) = Hashed(t) \cup {r}
      BY <1>1, <1>2, <1>5, <1>7 DEF Hashed
    <2>4. Names(r) \subseteq DOMAIN t.elements
      BY <1>2, <1>7 DEF ApplyFiatShamir, ReadyFor
    <2>5. TypeOK'
      <3>1. DOMAIN t.challenges = {ChallengeName(q) : q \in Hashed(t)}
        BY DEF TranscriptInv, TypeOK
      <3>2. DOMAIN u.challenges = {ChallengeName(q) : q \in Hashed(u)}
        BY <2>2, <2>3, <3>1
      <3> QED
        BY <1>1, <1>2, <1>5, <3>2 DEF TranscriptInv, TypeOK
    <2>6. Extends(t, u)
      BY <1>5, <2>2, <2>3 DEF TranscriptInv, TypeOK, Extends
    <2> QED
      BY <1>2, <1>5, <1>7, <2>1, <2>2, <2>3, <2>4, <2>5, <2>6
  <1> QED
    BY <1>1, <1>6, <1>7

\* The prefix of the next round is the last challenge given out.
LEMMA PrefixAdvances ==
    ASSUME TranscriptInv, NEW r \in Rounds, ApplyFiatShamir(ChallengeName(r))
    PROVE  PrefixIsStart'
  <1> DEFINE t == transcript
             u == transcript'
  <1>1. /\ r = t.current_round /\ u.current_round = r + 1 /\ r \in Nat
        /\ \A q \in 0 .. r : NumChallenges(q) \in Nat
        /\ r + 1 # 0 /\ NumChallenges(r) \in Nat
    BY ApplyFacts, ManifestAssumption DEF Rounds
  <1>2. CASE NumChallenges(r) > 0
    <2>1. u.current_challenge = u.challenges[ChallengeName(r)][NumChallenges(r) - 1]
      BY <1>2, ApplyFacts
    <2>2. HashStarts(u, r + 1) = {u.challenges[ChallengeName(r)][NumChallenges(r) - 1]}
      BY <1>1, <1>2, NextStart
    <2> QED
      BY <1>1, <2>1, <2>2 DEF PrefixIsStart
  <1>3. CASE NumChallenges(r) = 0
    <2>1. u.current_challenge = t.current_challenge /\ u.challenges = t.challenges
      BY <1>3, ApplyFacts
    <2>2. HashStarts(u, r + 1) = IF r = 0 THEN {ZeroChallenge} ELSE HashStarts(u, r)
      <3>1. ~ NumChallenges(r) > 0
        BY <1>3
      <3> QED
        BY <1>1, <3>1, NextStart
    <2>3. HashStarts(u, r) = HashStarts(t, r)
      BY <1>1, <2>1, StartsUnchanged
    <2>4. t.current_challenge \in IF r = 0 THEN {ZeroChallenge} ELSE HashStarts(t, r)
      BY <1>1 DEF TranscriptInv, PrefixIsStart
    <2> QED
      BY <1>1, <2>1, <2>2, <2>3, <2>4 DEF PrefixIsStart
  <1> QED
    BY <1>1, <1>2, <1>3

LEMMA ApplyKeeps ==
    ASSUME TranscriptInv, NEW r \in Rounds, ApplyFiatShamir(ChallengeName(r))
    PROVE  TranscriptInv'
  <1> DEFINE t == transcript
             u == transcript'
             BoundIn(v, q) ==
                /\ Names(q) \subseteq DOMAIN v.elements
                /\ \E prefix \in HashStarts(v, q) :
                     v.challenges[ChallengeName(q)]
                       = RoundChallenges(Hash(prefix, RoundData(v, q)), NumChallenges(q))
  <1>1. /\ r = t.current_round /\ r \in Nat /\ t.current_round \in 0 .. num_rounds
        /\ NumChallenges(r) \in Nat
        /\ Extends(t, u) /\ u.elements = t.elements
        /\ IsTranscript' /\ TypeOK'
    BY ApplyFacts, ManifestAssumption DEF Rounds, TranscriptInv, TypeOK
  <1>2. ASSUME NEW q \in Hashed(t) PROVE BoundIn(u, q)
    <2>1. BoundIn(t, q)
      BY <1>2 DEF TranscriptInv, ChallengesBindElements
    <2> HIDE DEF t, u
    <2> QED
      BY <1>1, <2>1, StaysBound
  <1>3. ASSUME NumChallenges(r) > 0 PROVE BoundIn(u, r)
    <2>1. /\ Names(r) \subseteq DOMAIN u.elements
          /\ u.challenges[ChallengeName(r)]
                = RoundChallenges(Hash(Prefix(t), RoundData(t, r)), NumChallenges(r))
      BY <1>1, <1>3, ApplyFacts
    <2>2. RoundData(u, r) = RoundData(t, r)
      BY <1>1 DEF RoundData
    <2>3. Prefix(t) \in HashStarts(t, r)
      BY <1>1 DEF TranscriptInv, PrefixIsStart, Prefix, HashStarts
    <2>4. HashStarts(u, r) = HashStarts(t, r)
      <3>1. \A q \in 0 .. r - 1 : NumChallenges(q) > 0 => q \in Hashed(t)
        BY <1>1 DEF Hashed
      <3>2. \A q \in 0 .. r - 1 : NumChallenges(q) > 0 =>
                u.challenges[ChallengeName(q)] = t.challenges[ChallengeName(q)]
        BY <1>1, <3>1 DEF Extends
      <3> QED
        BY <1>1, <3>2, StartsUnchanged
    <2> QED
      BY <2>1, <2>2, <2>3, <2>4
  <1>4. \A q \in Hashed(u) : BoundIn(u, q)
    <2>1. Hashed(u) = IF NumChallenges(r) = 0 THEN Hashed(t) ELSE Hashed(t) \cup {r}
      BY <1>1, ApplyFacts
    <2> QED
      BY <1>1, <1>2, <1>3, <2>1
  <1>5. ChallengesBindElements'
    BY <1>4 DEF ChallengesBindElements
  <1> QED
    BY <1>1, <1>5, PrefixAdvances DEF TranscriptInv

-----------------------------------------------------------------------------
\* Each step keeps the invariant and only extends the transcript.
LEMMA StepExtends ==
    ASSUME TranscriptInv, [Next]_transcript
    PROVE  TranscriptInv' /\ Extends(transcript, transcript')
  <1>1. CASE \E name \in AllNames, buffer \in Buffers : AddElement(name, buffer)
    BY <1>1, AddElementFacts, AddElementKeeps
  <1>2. CASE \E r \in Rounds : ApplyFiatShamir(ChallengeName(r))
    BY <1>2, ApplyFacts, ApplyKeeps
  <1>3. CASE UNCHANGED transcript
    <2>1. TranscriptInv'
      BY <1>3 DEF TranscriptInv, IsTranscript, TypeOK, ChallengesBindElements, PrefixIsStart
    <2> QED
      BY <1>3, <2>1 DEF Extends
  <1> QED
    BY <1>1, <1>2, <1>3 DEF Next

\* The invariant holds whatever the manifest, the hash and the callers.
THEOREM TranscriptInvariant == Spec => []TranscriptInv
  <1>1. TranscriptInv /\ [Next]_transcript => TranscriptInv'
    BY StepExtends
  <1> QED
    BY <1>1, InitTranscript, PTL DEF Spec

\* The elements are of the manifest and the challenges are exactly those of
\* the rounds that were applied and have one.
THEOREM TranscriptTypeOK == Spec => []TypeOK
  <1>1. TranscriptInv => TypeOK
    BY DEF TranscriptInv
  <1> QED
    BY <1>1, TranscriptInvariant, PTL

\* Every challenge is the hash of the challenge before it and of the elements
\* of its round, as the transcript holds them at any later time.
THEOREM ChallengesAreBound == Spec => []ChallengesBindElements
  <1>1. TranscriptInv => ChallengesBindElements
    BY DEF TranscriptInv
  <1> QED
    BY <1>1, TranscriptInvariant, PTL

\* No step changes a challenge, or the data of a round that was hashed.
THEOREM HashedIsNeverRewritten == Spec => NothingRewritten
  <1>1. TranscriptInv /\ [Next]_transcript =>
            [ \A r \in Hashed(transcript) :
                /\ r \in Hashed(transcript')
                /\ transcript'.challenges[ChallengeName(r)] = transcript.challenges[ChallengeName(r)]
                /\ RoundData(transcript', r) = RoundData(transcript, r) ]_transcript
    <2> SUFFICES ASSUME TranscriptInv, [Next]_transcript, NEW r \in Hashed(transcript)
                 PROVE  /\ r \in Hashed(transcript')
                        /\ transcript'.challenges[ChallengeName(r)] = transcript.challenges[ChallengeName(r)]
                        /\ RoundData(transcript', r) = RoundData(transcript, r)
      OBVIOUS
    <2>1. Extends(transcript, transcript')
      BY StepExtends
    <2>2. r \in Rounds /\ Names(r) \subseteq DOMAIN transcript.elements
      BY ManifestAssumption DEF TranscriptInv, TypeOK, ChallengesBindElements, Hashed, Rounds
    <2>3. RoundData(transcript', r) = RoundData(transcript, r)
      BY <2>1, <2>2, DataUnchanged
    <2> QED
      BY <2>1, <2>3 DEF Extends
  <1> QED
    BY <1>1, TranscriptInvariant, PTL DEF Spec, NothingRewritten

-----------------------------------------------------------------------------
\* A quotient is small when the dividend is.
LEMMA QuotientBelow ==
    ASSUME NEW C \in Nat \ {0}, NEW m \in Nat, NEW k \in Nat, k < m * C
    PROVE  k \div C \in Nat /\ k \div C < m
<1>1. PICK q \in Nat : q = k \div C
  OBVIOUS
<1>2. C * q <= k
  BY <1>1
<1>3. CASE q >= m
  <2>1. PICK d \in Nat : q = m + d
    <3>1. q - m \in Nat /\ q = m + (q - m)
      BY <1>3
    <3> QED BY <3>1
  <2>2. C * q = m * C + C * d
    BY <2>1
  <2>3. C * d \in Nat /\ m * C \in Nat /\ C * q \in Nat
    OBVIOUS
  <2> QED BY <1>2, <2>2, <2>3
<1> QED BY <1>1, <1>3

\* A chunk is of one hash and one index, while the counter does not come round.
LEMMA OwnChunk ==
    ASSUME NEW base, NEW other,
           NEW i \in 0 .. 256 * ChallengesPerHash - 1, NEW j \in 0 .. 256 * ChallengesPerHash - 1,
           Chunk(base, i) = Chunk(other, j)
    PROVE  base = other /\ i = j
<1> DEFINE C == ChallengesPerHash
<1>1. C \in Nat \ {0} /\ i \in Nat /\ j \in Nat /\ i < 256 * C /\ j < 256 * C
  BY ManifestAssumption
<1>2. /\ base = other
      /\ i % C = j % C
      /\ Chunk(base, i).counter = Chunk(other, j).counter
  BY DEF Chunk
<1> HIDE DEF C
<1>a. i \div C \in Nat /\ i \div C < 256 /\ j \div C \in Nat /\ j \div C < 256
  <2>1. 256 \in Nat
    OBVIOUS
  <2> QED BY <1>1, <2>1, QuotientBelow, Zenon
<1>3. PICK a \in Nat : a = i \div C /\ a < 256
  BY <1>a
<1>4. PICK b \in Nat : b = j \div C /\ b < 256
  BY <1>a
<1> USE DEF C
<1>5. /\ a = 0 <=> i < C
      /\ b = 0 <=> j < C
  <2>1. i < C => a = 0
    BY <1>1, <1>3
  <2>2. a = 0 => i < C
    BY <1>1, <1>3
  <2>3. j < C => b = 0
    BY <1>1, <1>4
  <2>4. b = 0 => j < C
    BY <1>1, <1>4
  <2> QED BY <2>1, <2>2, <2>3, <2>4
<1>6. /\ Chunk(base, i).counter = IF a = 0 THEN << >> ELSE <<a>>
      /\ Chunk(other, j).counter = IF b = 0 THEN << >> ELSE <<b>>
  <2>1. a % 256 = a /\ b % 256 = b
    BY <1>3, <1>4
  <2> QED BY <1>3, <1>4, <1>5, <2>1 DEF Chunk
<1>7. a = b
  BY <1>2, <1>6
<1> QED BY <1>1, <1>2, <1>3, <1>4, <1>7

-----------------------------------------------------------------------------
(***************************************************************************)
(* No challenge is given twice, if the hash is injective and gives neither *)
(* of the two values a chain can start from, and the counter of the chunks *)
(* does not come round: it is one byte.                                    *)
(***************************************************************************)
IdealHash ==
    /\ \A p, d, q, e : Hash(p, d) = Hash(q, e) => p = q /\ d = e
    /\ \A p, d, k : Chunk(Hash(p, d), k) \notin {NoPrefix, ZeroChallenge}

CounterFits == \A r \in Rounds : NumChallenges(r) <= 256 * ChallengesPerHash

\* The hash a round's challenges are chunks of, and what it starts from.
HashedFrom(r, prefix) ==
    /\ prefix \in HashStarts(transcript, r)
    /\ transcript.challenges[ChallengeName(r)]
         = RoundChallenges(Hash(prefix, RoundData(transcript, r)), NumChallenges(r))

\* Every hash but the first starts from the last challenge before it.
LEMMA StartOfHash ==
    ASSUME TranscriptInv, NEW r \in Hashed(transcript), NEW prefix \in HashStarts(transcript, r)
    PROVE  \/ prefix \in {NoPrefix, ZeroChallenge} /\ \A q \in Hashed(transcript) : ~ q < r
           \/ \E q \in Hashed(transcript) : \E start :
                /\ q < r
                /\ \A s \in Hashed(transcript) : s < r => s <= q
                /\ HashedFrom(q, start)
                /\ prefix = Chunk(Hash(start, RoundData(transcript, q)), NumChallenges(q) - 1)
<1>1. /\ transcript.current_round \in Nat
      /\ \A q \in Hashed(transcript) : q \in Nat /\ NumChallenges(q) \in Nat /\ NumChallenges(q) > 0
      /\ \A q \in 0 .. r - 1 : q \in Hashed(transcript) <=> NumChallenges(q) # 0
      /\ \A q \in Hashed(transcript) : q < r => q \in 0 .. r - 1
  BY ManifestAssumption DEF TranscriptInv, TypeOK, Hashed, Rounds
<1>2. CASE r = 0
  <2>1. prefix = NoPrefix
    BY <1>2 DEF HashStarts
  <2>2. \A q \in Hashed(transcript) : ~ q < r
    BY <1>1, <1>2
  <2> QED BY <2>1, <2>2
<1>3. CASE r # 0 /\ \A q \in 0 .. r - 1 : NumChallenges(q) = 0
  BY <1>1, <1>3 DEF HashStarts
<1>4. CASE r # 0 /\ ~ \A q \in 0 .. r - 1 : NumChallenges(q) = 0
  <2>1. PICK q \in LastHashedBefore(r) :
            prefix = transcript.challenges[ChallengeName(q)][NumChallenges(q) - 1]
    BY <1>4 DEF HashStarts
  <2>2. q \in 0 .. r - 1 /\ q \in Hashed(transcript) /\ NumChallenges(q) - 1 \in 0 .. NumChallenges(q) - 1
    BY <1>1, <2>1 DEF LastHashedBefore
  <2>3. ASSUME NEW s \in Hashed(transcript), s < r PROVE s <= q
    <3>1. s \in 0 .. r - 1 /\ NumChallenges(s) # 0
      BY <1>1, <2>3
    <3>2. s \notin q + 1 .. r - 1
      BY <2>1, <3>1 DEF LastHashedBefore
    <3> QED BY <2>2, <3>1, <3>2
  <2>4. PICK start \in HashStarts(transcript, q) : HashedFrom(q, start)
    BY <2>2 DEF TranscriptInv, ChallengesBindElements, HashedFrom
  <2>5. prefix = Chunk(Hash(start, RoundData(transcript, q)), NumChallenges(q) - 1)
    BY <2>1, <2>2, <2>4 DEF HashedFrom, RoundChallenges
  <2>6. \E q1 \in Hashed(transcript) : \E start1 :
          /\ q1 < r
          /\ \A s \in Hashed(transcript) : s < r => s <= q1
          /\ HashedFrom(q1, start1)
          /\ prefix = Chunk(Hash(start1, RoundData(transcript, q1)), NumChallenges(q1) - 1)
    <3>1. q < r
      BY <1>1, <2>2
    <3> QED BY <2>2, <2>3, <2>4, <2>5, <3>1
  <2> QED BY <2>6
<1> QED BY <1>2, <1>3, <1>4

\* No two rounds have the same hash: the chains before them would be equal
\* from the first hash on, which starts from no challenge.
LEMMA HashesDiffer ==
    ASSUME IdealHash, CounterFits, TranscriptInv,
           NEW q \in Hashed(transcript), NEW r \in Hashed(transcript), q < r,
           NEW from, NEW start, HashedFrom(q, from), HashedFrom(r, start),
           Hash(from, RoundData(transcript, q)) = Hash(start, RoundData(transcript, r))
    PROVE  FALSE
<1> DEFINE H == Hashed(transcript)
           D(s) == RoundData(transcript, s)
           T == {s \in H : \E u \in H : \E a, b : /\ s < u /\ HashedFrom(s, a) /\ HashedFrom(u, b)
                                              /\ Hash(a, D(s)) = Hash(b, D(u))}
<1>1. /\ \A s \in H : s \in Nat /\ s \in Rounds /\ NumChallenges(s) \in Nat /\ NumChallenges(s) > 0
      /\ ChallengesPerHash \in Nat
  BY ManifestAssumption DEF TranscriptInv, TypeOK, Hashed, Rounds
<1>2. q \in T
  OBVIOUS
<1>3. PICK s \in T : \A n \in T : s <= n
  <2>1. T \in SUBSET Nat
    BY <1>1
  <2> HIDE DEF T
  <2> QED BY <1>2, <2>1, LeastNumber
<1>4. PICK u, a, b : /\ u \in H /\ s < u /\ HashedFrom(s, a) /\ HashedFrom(u, b)
                     /\ Hash(a, D(s)) = Hash(b, D(u))
  BY <1>3
<1> HIDE DEF T
<1>5. a = b /\ s \in H
  BY <1>3, <1>4 DEF IdealHash, T
<1>6. PICK v, c : /\ v \in H /\ v < u /\ s <= v
                  /\ HashedFrom(v, c)
                  /\ b = Chunk(Hash(c, D(v)), NumChallenges(v) - 1)
  BY <1>4, <1>5, StartOfHash DEF HashedFrom
<1>7. b \notin {NoPrefix, ZeroChallenge}
  BY <1>6 DEF IdealHash
<1>8. PICK w, d : /\ w \in H /\ w < s
                  /\ HashedFrom(w, d)
                  /\ a = Chunk(Hash(d, D(w)), NumChallenges(w) - 1)
  BY <1>4, <1>5, <1>7, StartOfHash DEF HashedFrom
<1>9. Hash(d, D(w)) = Hash(c, D(v))
  <2>1. \A n \in H : NumChallenges(n) - 1 \in 0 .. 256 * ChallengesPerHash - 1
    BY <1>1 DEF CounterFits
  <2> QED BY <1>5, <1>6, <1>8, <2>1, OwnChunk
<1>10. w \in T
  <2>1. w < v
    BY <1>1, <1>5, <1>6, <1>8
  <2> QED BY <1>6, <1>8, <1>9, <2>1 DEF T
<1> QED BY <1>1, <1>3, <1>5, <1>8, <1>10

LEMMA ChallengesDiffer ==
    ASSUME IdealHash, CounterFits, TranscriptInv
    PROVE  NoChallengeTwice
<1> SUFFICES ASSUME NEW q \in Hashed(transcript), NEW r \in Hashed(transcript),
                    NEW i \in 0 .. NumChallenges(q) - 1, NEW j \in 0 .. NumChallenges(r) - 1,
                    transcript.challenges[ChallengeName(q)][i] = transcript.challenges[ChallengeName(r)][j]
             PROVE  q = r /\ i = j
  BY DEF NoChallengeTwice
<1>1. /\ q \in Nat /\ r \in Nat
      /\ i \in 0 .. 256 * ChallengesPerHash - 1 /\ j \in 0 .. 256 * ChallengesPerHash - 1
  BY ManifestAssumption DEF CounterFits, TranscriptInv, TypeOK, Hashed, Rounds
<1>2. PICK from : HashedFrom(q, from)
  BY DEF TranscriptInv, ChallengesBindElements, HashedFrom
<1>3. PICK start : HashedFrom(r, start)
  BY DEF TranscriptInv, ChallengesBindElements, HashedFrom
<1>4. Chunk(Hash(from, RoundData(transcript, q)), i) = Chunk(Hash(start, RoundData(transcript, r)), j)
  BY <1>2, <1>3 DEF HashedFrom, RoundChallenges
<1>5. Hash(from, RoundData(transcript, q)) = Hash(start, RoundData(transcript, r)) /\ i = j
  BY <1>1, <1>4, OwnChunk
<1>6. ~ q < r
  BY <1>2, <1>3, <1>5, HashesDiffer
<1>7. ~ r < q
  BY <1>2, <1>3, <1>5, HashesDiffer
<1> QED BY <1>1, <1>5, <1>6, <1>7

\* No two challenges are the same, of one round or of two, whatever the callers
\* add: for a hash without collisions and rounds of fewer challenges than the
\* one-byte counter can tell apart.
THEOREM ChallengesAreDistinct ==
    ASSUME IdealHash, CounterFits
    PROVE  Spec => []NoChallengeTwice
<1>1. TranscriptInv => NoChallengeTwice
  BY ChallengesDiffer
<1> QED BY <1>1, TranscriptInvariant, PTL

-----------------------------------------------------------------------------
(***************************************************************************)
(* The verifier: it reads the proof, which is a sequence of the elements   *)
(* that are sent, and its rounds follow the prover's one by one.           *)
(***************************************************************************)
LEMMA ProofHasALength ==
    Cardinality(SentPlaces) \in Nat /\ DOMAIN ProofNames = 1 .. Cardinality(SentPlaces)
<1> DEFINE Of(r) == {r} \X DOMAIN Entries(r)
           parts == {Of(r) : r \in Rounds}
<1>1. IsFiniteSet(Rounds)
  <2>1. 0 \in Int /\ num_rounds - 1 \in Int
    BY ManifestAssumption
  <2> QED BY <2>1, FS_Interval DEF Rounds
<1>2. IsFiniteSet(parts)
  <2>1. [r \in Rounds |-> Of(r)] \in Surjection(Rounds, parts)
    BY DEF Surjection
  <2> QED BY <1>1, <2>1, FS_Surjection
<1>3. \A part \in parts : IsFiniteSet(part)
  <2> SUFFICES ASSUME NEW r \in Rounds PROVE IsFiniteSet(Of(r))
    OBVIOUS
  <2>1. IsFiniteSet({r}) /\ IsFiniteSet(DOMAIN Entries(r))
    BY ManifestAssumption, FS_Singleton
  <2> QED BY <2>1, FS_Product
<1>4. IsFiniteSet(UNION parts)
  <2> HIDE DEF parts
  <2> QED BY <1>2, <1>3, FS_UNION
<1>5. SentPlaces \in SUBSET (UNION parts)
  BY DEF SentPlaces
<1> HIDE DEF parts
<1>6. IsFiniteSet(SentPlaces)
  BY <1>4, <1>5, FS_Subset
<1> QED BY <1>6, FS_CardinalityType DEF ProofNames

LEMMA ProofIsLongEnough == ASSUME NEW t PROVE HasProofSize(export_transcript(t))
<1>1. PICK n \in Nat : DOMAIN ProofNames = 1 .. n
  BY ProofHasALength
<1>2. \A s : DOMAIN s = 1 .. n => Len(s) = n
  BY <1>1
<1> QED BY <1>1, <1>2 DEF HasProofSize, export_transcript

\* An element that is read is the one that was written under its name.
LEMMA ReadsWhatWasWritten ==
    ASSUME NEW t, NEW name \in ToSet(ProofNames)
    PROVE  FromProof(export_transcript(t)).elements[name] = t.elements[name]
<1> DEFINE first(k) == /\ ProofNames[k] = name
                       /\ \A j \in 1 .. k - 1 : ProofNames[j] # name
           At == {k \in DOMAIN ProofNames : ProofNames[k] = name}
<1>1. PICK n \in Nat : DOMAIN ProofNames = 1 .. n
  BY ProofHasALength
<1>2. \E k \in DOMAIN ProofNames : first(k)
  <2>1. At # {} /\ At \in SUBSET Nat
    BY <1>1 DEF ToSet
  <2>2. PICK k \in At : \A j \in At : k <= j
    <3> HIDE DEF At
    <3> QED BY <2>1, LeastNumber
  <2>3. \A j \in 1 .. k - 1 : j \notin At /\ j \in DOMAIN ProofNames
    BY <1>1, <2>2
  <2> QED BY <2>2, <2>3
<1>3. PICK k : k = CHOOSE i \in DOMAIN ProofNames : first(i)
  OBVIOUS
<1>4. k \in DOMAIN ProofNames /\ ProofNames[k] = name
  BY <1>2, <1>3
<1>5. export_transcript(t)[k] = t.elements[name]
  BY <1>4 DEF export_transcript
<1>6. FromProof(export_transcript(t)).elements[name] = export_transcript(t)[CHOOSE i \in DOMAIN ProofNames : first(i)]
  BY DEF FromProof, NewTranscript
<1> QED BY <1>3, <1>5, <1>6

LEMMA VerifierStartsWithTheElements ==
    ASSUME NEW t
    PROVE  VerifierStart(t) = [ elements          |-> [name \in AllNames |-> t.elements[name]],
                                current_round     |-> 0,
                                current_challenge |-> ZeroChallenge,
                                challenges        |-> Nothing ]
<1> DEFINE v == FromProof(export_transcript(t))
<1>1. /\ v = [NewTranscript EXCEPT !.elements = v.elements]
      /\ DOMAIN v.elements = ToSet(ProofNames)
  BY DEF FromProof, NewTranscript
<1>2. \A name \in ToSet(ProofNames) : v.elements[name] = t.elements[name]
  BY ReadsWhatWasWritten
<1>3. VerifierStart(t) = [v EXCEPT !.elements =
            [name \in AllNames |-> IF name \in DOMAIN v.elements THEN v.elements[name] ELSE t.elements[name]]]
  BY DEF VerifierStart
<1> HIDE DEF v
<1>4. [name \in AllNames |-> IF name \in DOMAIN v.elements THEN v.elements[name] ELSE t.elements[name]]
        = [name \in AllNames |-> t.elements[name]]
  BY <1>1, <1>2
<1>5. VerifierStart(t) = [v EXCEPT !.elements = [name \in AllNames |-> t.elements[name]]]
  BY <1>3, <1>4
<1> QED BY <1>1, <1>5 DEF NewTranscript

\* The rounds of the verifier are a recursive function: it exists on every
\* interval of rounds, by induction on its end.
LEMMA RoundsOfTheVerifier ==
    ASSUME NEW t
    PROVE  /\ VerifierRounds(t)[0] = VerifierStart(t)
           /\ \A n \in 0 .. num_rounds - 1 :
                VerifierRounds(t)[n + 1] = apply_fiat_shamir(VerifierRounds(t)[n])
<1> DEFINE IsUpTo(g, b) == g = [n \in 0 .. b |-> IF n = 0 THEN VerifierStart(t)
                                                 ELSE apply_fiat_shamir(g[n - 1])]
           S == {b \in Nat : \E g : IsUpTo(g, b)}
<1>1. 0 \in S
  <2> DEFINE g == [n \in 0 .. 0 |-> VerifierStart(t)]
  <2>1. IsUpTo(g, 0)
    OBVIOUS
  <2> QED BY <2>1
<1>2. ASSUME NEW b \in Nat, b \in S PROVE b + 1 \in S
  <2>1. PICK g : IsUpTo(g, b)
    BY <1>2
  <2> DEFINE h == [n \in 0 .. b + 1 |-> IF n = b + 1 THEN apply_fiat_shamir(g[b]) ELSE g[n]]
             k == [n \in 0 .. b + 1 |-> IF n = 0 THEN VerifierStart(t) ELSE apply_fiat_shamir(h[n - 1])]
  <2>2. ASSUME NEW n \in 0 .. b + 1 PROVE h[n] = k[n]
    <3>1. CASE n = 0
      BY <2>1, <3>1
    <3>2. CASE n = b + 1
      BY <2>1, <3>2
    <3>3. CASE n \in 1 .. b
      <4>1. n - 1 \in 0 .. b /\ n \in 0 .. b /\ n # 0 /\ n # b + 1 /\ n - 1 # b + 1 /\ n - 1 \in 0 .. b + 1
        BY <3>3
      <4>2. g[n] = apply_fiat_shamir(g[n - 1])
        BY <2>1, <4>1
      <4> QED BY <4>1, <4>2
    <3> QED BY <3>1, <3>2, <3>3
  <2>3. h = k
    BY <2>2
  <2> HIDE DEF h
  <2>4. IsUpTo(h, b + 1)
    BY <2>3
  <2> QED BY <2>4
<1>3. \E g : IsUpTo(g, num_rounds)
  <2>1. Nat \subseteq S
    <3> HIDE DEF S
    <3> QED BY <1>1, <1>2, InductionOverSet
  <2> QED BY <2>1, ManifestAssumption
<1>4. IsUpTo(VerifierRounds(t), num_rounds)
  BY <1>3 DEF VerifierRounds
<1> QED BY <1>4, ManifestAssumption

\* A hash starts from one value.
LEMMA OneStart ==
    ASSUME NEW t, NEW r \in Nat, \A q \in 0 .. r : NumChallenges(q) \in Nat,
           NEW a \in HashStarts(t, r), NEW b \in HashStarts(t, r)
    PROVE  a = b
<1>1. ASSUME NEW p \in LastHashedBefore(r), NEW q \in LastHashedBefore(r) PROVE p = q
  <2>1. /\ p \in 0 .. r - 1 /\ NumChallenges(p) # 0 /\ \A s \in p + 1 .. r - 1 : NumChallenges(s) = 0
        /\ q \in 0 .. r - 1 /\ NumChallenges(q) # 0 /\ \A s \in q + 1 .. r - 1 : NumChallenges(s) = 0
    BY DEF LastHashedBefore
  <2>2. ~ p < q
    <3>1. p < q => q \in p + 1 .. r - 1
      BY <2>1
    <3> QED BY <2>1, <3>1
  <2>3. ~ q < p
    <3>1. q < p => p \in q + 1 .. r - 1
      BY <2>1
    <3> QED BY <2>1, <3>1
  <2> QED BY <2>1, <2>2, <2>3
<1> QED BY <1>1 DEF HashStarts

\* A transcript that holds the same data and, of the rounds before round n,
\* the same challenges.
Follows(v, n) ==
    /\ v = [ elements          |-> v.elements,
             current_round     |-> n,
             current_challenge |-> v.current_challenge,
             challenges        |-> v.challenges ]
    /\ \A name \in AllNames : v.elements[name] = transcript.elements[name]
    /\ v.challenges = [c \in {ChallengeName(q) : q \in Hashed(v)} |-> transcript.challenges[c]]
    /\ IF n = 0 THEN v.current_challenge = ZeroChallenge
       ELSE v.current_challenge \in HashStarts(transcript, n)

LEMMA SameData ==
    ASSUME NEW v, NEW n, Follows(v, n), NEW r \in Rounds
    PROVE  RoundData(v, r) = RoundData(transcript, r)
<1>1. \A k \in DOMAIN Entries(r) : Entries(r)[k].name \in AllNames
  BY DEF AllNames, Names
<1> QED BY <1>1 DEF Follows, RoundData

LEMMA StartFollows == Follows(VerifierStart(transcript), 0)
<1> DEFINE v == VerifierStart(transcript)
<1>1. v = [ elements          |-> [name \in AllNames |-> transcript.elements[name]],
            current_round     |-> 0,
            current_challenge |-> ZeroChallenge,
            challenges        |-> Nothing ]
  BY VerifierStartsWithTheElements
<1> HIDE DEF v
<1>2. Hashed(v) = {}
  BY <1>1 DEF Hashed
<1>3. v.challenges = [c \in {ChallengeName(q) : q \in Hashed(v)} |-> transcript.challenges[c]]
  BY <1>1, <1>2 DEF Nothing
<1>4. Follows(v, 0)
  BY <1>1, <1>3 DEF Follows
<1> QED BY <1>4 DEF v

LEMMA RoundFollows ==
    ASSUME TranscriptInv, transcript.current_round = num_rounds,
           NEW v, NEW n \in Rounds, Follows(v, n)
    PROVE  Follows(apply_fiat_shamir(v), n + 1)
<1> DEFINE t == transcript
           w == apply_fiat_shamir(v)
           cs == RoundChallenges(Hash(Prefix(v), RoundData(v, n)), NumChallenges(n))
<1>1. /\ n \in Nat /\ n < num_rounds /\ num_rounds \in Nat
      /\ v.current_round = n
      /\ \A q \in 0 .. n : q \in Rounds /\ NumChallenges(q) \in Nat
      /\ n + 1 # 0
  BY ManifestAssumption DEF Rounds, Follows
<1>2. /\ NumChallenges(n) = 0 => w = [v EXCEPT !.current_round = n + 1]
      /\ NumChallenges(n) # 0 =>
            w = [[v EXCEPT !.current_round = n + 1] EXCEPT
                    !.current_challenge = cs[NumChallenges(n) - 1],
                    !.challenges = Inserted(@, ChallengeName(n), cs)]
  BY <1>1 DEF apply_fiat_shamir
<1>3. /\ w = [ elements |-> v.elements, current_round |-> n + 1,
               current_challenge |-> w.current_challenge, challenges |-> w.challenges ]
      /\ \A name \in AllNames : w.elements[name] = t.elements[name]
  BY <1>2 DEF Follows
<1>4. w.current_round = n + 1
  BY <1>3
<1>5. CASE NumChallenges(n) = 0
  <2>1. w.challenges = v.challenges /\ w.current_challenge = v.current_challenge
    BY <1>2, <1>5 DEF Follows
  <2>2. Hashed(w) = Hashed(v)
    BY <1>1, <1>4, <1>5 DEF Hashed
  <2>3. w.current_challenge \in HashStarts(t, n + 1)
    <3>1. ~ NumChallenges(n) > 0
      BY <1>1, <1>5
    <3>2. HashStarts(t, n + 1) = IF n = 0 THEN {ZeroChallenge} ELSE HashStarts(t, n)
      BY <1>1, <3>1, NextStart
    <3> QED BY <1>1, <2>1, <3>2 DEF Follows
  <2>4. w.challenges = [c \in {ChallengeName(q) : q \in Hashed(w)} |-> t.challenges[c]]
    BY <2>1, <2>2 DEF Follows
  <2> HIDE DEF w
  <2>5. Follows(w, n + 1)
    BY <1>1, <1>3, <2>3, <2>4 DEF Follows
  <2> QED BY <2>5 DEF w
<1>6. CASE NumChallenges(n) # 0
  <2>1. w.challenges = Inserted(v.challenges, ChallengeName(n), cs)
        /\ w.current_challenge = cs[NumChallenges(n) - 1]
    BY <1>2, <1>6 DEF Follows
  <2>2. Hashed(w) = Hashed(v) \cup {n} /\ n \in Hashed(t) /\ \A q \in Hashed(v) : q \in Rounds /\ q # n
    BY <1>1, <1>4, <1>6 DEF Hashed, Rounds
  <2>3. cs = t.challenges[ChallengeName(n)]
    <3>1. PICK prefix \in HashStarts(t, n) :
            t.challenges[ChallengeName(n)] = RoundChallenges(Hash(prefix, RoundData(t, n)), NumChallenges(n))
      BY <2>2 DEF TranscriptInv, ChallengesBindElements
    <3>2. Prefix(v) \in HashStarts(t, n)
      <4>1. CASE n = 0
        BY <1>1, <4>1 DEF Prefix, HashStarts
      <4>2. CASE n # 0
        BY <1>1, <4>2 DEF Prefix, Follows
      <4> QED BY <4>1, <4>2
    <3>3. Prefix(v) = prefix
      BY <1>1, <3>1, <3>2, OneStart
    <3>4. RoundData(v, n) = RoundData(t, n)
      BY SameData
    <3> QED BY <3>1, <3>3, <3>4
  <2>4. ChallengeName(n) \notin DOMAIN v.challenges
    BY <2>2, ManifestAssumption DEF Follows
  <2>5. w.challenges = [c \in {ChallengeName(q) : q \in Hashed(w)} |-> t.challenges[c]]
    <3> DEFINE before == {ChallengeName(q) : q \in Hashed(v)}
               after  == {ChallengeName(q) : q \in Hashed(w)}
    <3>1. after = before \cup {ChallengeName(n)}
      BY <2>2
    <3>2. /\ DOMAIN v.challenges = before
          /\ \A c \in before : v.challenges[c] = t.challenges[c]
      BY DEF Follows
    <3>3. ASSUME NEW c \in after
          PROVE  (IF c \in before THEN v.challenges[c] ELSE cs) = t.challenges[c]
      BY <2>3, <3>1, <3>2
    <3> HIDE DEF before, after, w, cs
    <3>4. w.challenges = [c \in after |-> IF c \in before THEN v.challenges[c] ELSE cs]
      BY <2>1, <3>1, <3>2 DEF Inserted
    <3>5. w.challenges = [c \in after |-> t.challenges[c]]
      BY <3>3, <3>4
    <3> QED BY <3>5 DEF after
  <2>6. w.current_challenge \in HashStarts(t, n + 1)
    <3>1. NumChallenges(n) > 0
      BY <1>1, <1>6
    <3>2. HashStarts(t, n + 1) = {t.challenges[ChallengeName(n)][NumChallenges(n) - 1]}
      BY <1>1, <3>1, NextStart
    <3> QED BY <2>1, <2>3, <3>2
  <2> HIDE DEF w
  <2>7. Follows(w, n + 1)
    BY <1>1, <1>3, <2>5, <2>6 DEF Follows
  <2> QED BY <2>7 DEF w
<1> QED BY <1>5, <1>6

LEMMA VerifierFollows ==
    ASSUME TranscriptInv, transcript.current_round = num_rounds
    PROVE  VerifierTranscript(transcript).challenges = transcript.challenges
<1> DEFINE after == VerifierRounds(transcript)
           S == {n \in Nat : n <= num_rounds => Follows(after[n], n)}
<1>1. 0 \in S
  BY RoundsOfTheVerifier, StartFollows
<1>2. ASSUME NEW n \in Nat, n \in S PROVE n + 1 \in S
  <2> SUFFICES ASSUME n + 1 <= num_rounds PROVE Follows(after[n + 1], n + 1)
    OBVIOUS
  <2>1. n \in Rounds /\ n \in 0 .. num_rounds - 1 /\ n <= num_rounds
    BY ManifestAssumption DEF Rounds
  <2>2. after[n + 1] = apply_fiat_shamir(after[n])
    BY <2>1, RoundsOfTheVerifier
  <2>3. Follows(after[n], n)
    BY <1>2, <2>1
  <2> HIDE DEF after
  <2> QED BY <2>1, <2>2, <2>3, RoundFollows
<1>3. Follows(after[num_rounds], num_rounds)
  <2>1. Nat \subseteq S
    <3> HIDE DEF S
    <3> QED BY <1>1, <1>2, InductionOverSet
  <2> QED BY <2>1, ManifestAssumption
<1>4. PICK v : v = after[num_rounds]
  OBVIOUS
<1>5. v.current_round = num_rounds
  BY <1>3, <1>4 DEF Follows
<1>6. Hashed(v) = Hashed(transcript)
  BY <1>5 DEF Hashed
<1>7. v.challenges = [c \in {ChallengeName(q) : q \in Hashed(transcript)} |-> transcript.challenges[c]]
  BY <1>3, <1>4, <1>6 DEF Follows
<1>8. transcript.challenges = [c \in {ChallengeName(q) : q \in Hashed(transcript)} |-> transcript.challenges[c]]
  BY DEF TranscriptInv, TypeOK, IsTranscript
<1> QED BY <1>4, <1>7, <1>8 DEF VerifierTranscript

\* A verifier that reads the proof computes the prover's challenges, whatever
\* the manifest, the hash and the order in which the prover was fed.
THEOREM VerifierComputesTheChallenges == Spec => []VerifierAgrees
<1>1. TranscriptInv => VerifierAgrees
  BY ProofIsLongEnough, VerifierFollows DEF VerifierAgrees
<1> QED BY <1>1, TranscriptInvariant, PTL

-----------------------------------------------------------------------------
(***************************************************************************)
(* The Merkle tree: first, of numbers and their bits.                      *)
(***************************************************************************)

LEMMA PowersExist == \E f : f = [n \in 0 .. Depth + 1 |-> IF n = 0 THEN 1 ELSE 2 * f[n - 1]]
<1> DEFINE Loop(g, m) == g = [n \in 0 .. m |-> IF n = 0 THEN 1 ELSE 2 * g[n - 1]]
           S == {m \in Nat : \E g : Loop(g, m)}
<1>1. 0 \in S
  <2>1. PICK g : g = [n \in 0 .. 0 |-> 1]
    OBVIOUS
  <2>2. Loop(g, 0)
    BY <2>1
  <2> QED BY <2>2
<1>2. ASSUME NEW m \in Nat, m \in S PROVE m + 1 \in S
  <2>1. PICK g : Loop(g, m)
    BY <1>2
  <2>2. PICK v : v = 2 * g[m]
    OBVIOUS
  <2>3. PICK h : h = [n \in 0 .. m + 1 |-> IF n = m + 1 THEN v ELSE g[n]]
    OBVIOUS
  <2>4. ASSUME NEW n \in 0 .. m + 1 PROVE h[n] = IF n = 0 THEN 1 ELSE 2 * h[n - 1]
    <3>1. CASE n = m + 1
      <4>1. n - 1 = m /\ n # 0 /\ h[n] = v /\ h[m] = g[m]
        BY <2>3, <3>1
      <4> QED BY <2>2, <4>1
    <3>2. CASE n # m + 1
      <4>1. n \in 0 .. m /\ h[n] = g[n]
        BY <2>3, <3>2
      <4>2. n # 0 => n - 1 \in 0 .. m + 1 /\ n - 1 # m + 1 /\ h[n - 1] = g[n - 1]
        BY <2>3, <4>1
      <4> QED BY <2>1, <4>1, <4>2
    <3> QED BY <3>1, <3>2
  <2>5. h = [n \in 0 .. m + 1 |-> h[n]]
    BY <2>3
  <2>6. Loop(h, m + 1)
    BY <2>4, <2>5
  <2> HIDE DEF Loop
  <2>7. m + 1 \in Nat /\ \E e : Loop(e, m + 1)
    BY <2>6
  <2> QED BY <2>7
<1> HIDE DEF S
<1>3. Depth + 1 \in S
  BY <1>1, <1>2, InductionOverSet, DepthAssumption
<1> QED BY <1>3 DEF S

LEMMA PowerFacts ==
    /\ PowerOf2[0] = 1
    /\ \A n \in 0 .. Depth : PowerOf2[n + 1] = 2 * PowerOf2[n]
    /\ \A n \in 0 .. Depth + 1 : PowerOf2[n] \in Nat \ {0}
<1>1. PowerOf2 = [n \in 0 .. Depth + 1 |-> IF n = 0 THEN 1 ELSE 2 * PowerOf2[n - 1]]
  <2> DEFINE Loop(f) == f = [n \in 0 .. Depth + 1 |-> IF n = 0 THEN 1 ELSE 2 * f[n - 1]]
  <2>1. PowerOf2 = CHOOSE f : Loop(f)
    BY DEF PowerOf2
  <2>2. \E f : Loop(f)
    BY PowersExist
  <2> HIDE DEF Loop
  <2>3. Loop(PowerOf2)
    BY <2>1, <2>2
  <2> QED BY <2>3 DEF Loop
<1>2. PowerOf2[0] = 1
  BY <1>1, DepthAssumption
<1>3. ASSUME NEW n \in 0 .. Depth PROVE PowerOf2[n + 1] = 2 * PowerOf2[n]
  <2>1. n + 1 \in 0 .. Depth + 1 /\ n + 1 # 0 /\ (n + 1) - 1 = n
    BY DepthAssumption
  <2> QED BY <1>1, <2>1
<1> DEFINE S == {n \in Nat : n <= Depth + 1 => PowerOf2[n] \in Nat \ {0}}
<1>4. 0 \in S
  BY <1>2
<1>5. ASSUME NEW n \in Nat, n \in S PROVE n + 1 \in S
  <2> SUFFICES ASSUME n + 1 <= Depth + 1 PROVE PowerOf2[n + 1] \in Nat \ {0}
    OBVIOUS
  <2>1. n \in 0 .. Depth
    BY DepthAssumption
  <2>2. PICK p \in Nat \ {0} : p = PowerOf2[n]
    BY <1>5, <2>1, DepthAssumption
  <2> QED BY <1>3, <2>1, <2>2
<1> HIDE DEF S
<1>6. Nat \subseteq S
  BY <1>4, <1>5, InductionOverSet
<1>7. \A n \in 0 .. Depth + 1 : PowerOf2[n] \in Nat \ {0}
  BY <1>6, DepthAssumption DEF S
<1> QED BY <1>2, <1>3, <1>7

\* Division, with the remainder.
LEMMA Division ==
    ASSUME NEW p \in Nat \ {0}, NEW x \in Nat
    PROVE  \E q, r \in Nat : r < p /\ x = p * q + r /\ q = x \div p /\ r = x % p
<1>1. PICK q \in Nat : q = x \div p
  OBVIOUS
<1>2. PICK r \in Nat : r = x % p
  OBVIOUS
<1>3. p * q <= x
  BY <1>1
<1>4. x < p * (q + 1)
  BY <1>1
<1>5. r < p
  BY <1>2
<1>6. x = p * q + r
  BY <1>1, <1>2
<1> QED BY <1>1, <1>2, <1>5, <1>6

LEMMA DivisionIsUnique ==
    ASSUME NEW p \in Nat \ {0}, NEW q \in Nat, NEW r \in Nat, r < p
    PROVE  (p * q + r) \div p = q /\ (p * q + r) % p = r
  OBVIOUS

\* One more bit is shifted away, or kept.
LEMMA OneBitMore ==
    ASSUME NEW p \in Nat \ {0}, NEW x \in Nat
    PROVE  /\ x \div (2 * p) = (x \div p) \div 2
           /\ (x \div p) % 2 = 0 => x % (2 * p) = x % p
           /\ (x \div p) % 2 = 1 => x % (2 * p) = p + (x % p)
<1>1. PICK q \in Nat, r \in Nat : r < p /\ x = p * q + r /\ q = x \div p /\ r = x % p
  BY Division
<1>2. PICK k \in Nat, b \in {0, 1} : q = 2 * k + b /\ k = q \div 2 /\ b = q % 2
  OBVIOUS
<1>3. PICK t \in Nat : t = p * b + r
  <2>1. p * b + r \in Nat
    OBVIOUS
  <2> QED BY <2>1
<1>4. b = 0 => t = r
  BY <1>3
<1>5. b = 1 => t = p + r
  BY <1>3
<1>6. t < 2 * p
  BY <1>1, <1>2, <1>4, <1>5
<1>7. x = (2 * p) * k + t
  <2>1. p * q = p * (2 * k) + p * b
    BY <1>2
  <2>2. p * (2 * k) = (2 * p) * k
    OBVIOUS
  <2>3. p * q \in Nat /\ p * b \in Nat /\ (2 * p) * k \in Nat
    OBVIOUS
  <2> QED BY <1>1, <1>3, <2>1, <2>2, <2>3
<1>8. x \div (2 * p) = k /\ x % (2 * p) = t
  <2>1. 2 * p \in Nat \ {0}
    OBVIOUS
  <2> QED BY <1>6, <1>7, <2>1, DivisionIsUnique
<1>9. x \div (2 * p) = (x \div p) \div 2
  BY <1>1, <1>2, <1>8
<1>10. (x \div p) % 2 = b /\ x % p = r /\ x % (2 * p) = t
  BY <1>1, <1>2, <1>8
<1>11. (x \div p) % 2 = 0 => x % (2 * p) = x % p
  BY <1>4, <1>10
<1>12. (x \div p) % 2 = 1 => x % (2 * p) = p + (x % p)
  <2> SUFFICES ASSUME (x \div p) % 2 = 1 PROVE x % (2 * p) = p + (x % p)
    OBVIOUS
  <2>1. t = p + r
    BY <1>5, <1>10
  <2>2. x % (2 * p) = t /\ x % p = r
    BY <1>10
  <2> QED BY <2>1, <2>2
<1> QED BY <1>9, <1>11, <1>12

\* Of the bits of an index: what is left of the bit at n, the bit, and what is
\* right of it.
LEMMA BitFacts ==
    ASSUME NEW x \in Nat, NEW n \in 0 .. Depth
    PROVE  /\ x \div PowerOf2[n] \in Nat
           /\ x \div PowerOf2[n + 1] = (x \div PowerOf2[n]) \div 2
           /\ BitSet(x, n) <=> (x \div PowerOf2[n]) % 2 = 1
           /\ keep_n_lsb(x, n) \in 0 .. PowerOf2[n] - 1
           /\ keep_n_lsb(x, n + 1) = keep_n_lsb(x, n) + (IF BitSet(x, n) THEN PowerOf2[n] ELSE 0)
<1>1. PICK p \in Nat \ {0} : p = PowerOf2[n] /\ 2 * p = PowerOf2[n + 1]
  BY PowerFacts, DepthAssumption
<1>2. PICK q, r \in Nat : r < p /\ x = p * q + r /\ q = x \div p /\ r = x % p
  BY Division
<1>3. x \div PowerOf2[n + 1] = q \div 2
  BY <1>1, <1>2, OneBitMore
<1>4. BitSet(x, n) <=> q % 2 = 1
  BY <1>1, <1>2 DEF BitSet
<1>5. PICK k : k = keep_n_lsb(x, n + 1)
  OBVIOUS
<1>6. keep_n_lsb(x, n) = r
  BY <1>1, <1>2 DEF keep_n_lsb
<1>7. k = r + (IF BitSet(x, n) THEN p ELSE 0)
  <2>1. CASE q % 2 = 1
    <3>1. x % (2 * p) = p + (x % p)
      BY <1>2, <2>1, OneBitMore
    <3>2. k = p + (x % p)
      BY <1>1, <1>5, <3>1 DEF keep_n_lsb
    <3>3. k = p + r
      BY <1>2, <3>2
    <3> QED BY <1>4, <2>1, <3>3
  <2>2. CASE q % 2 # 1
    <3>1. q % 2 = 0
      BY <2>2
    <3>2. x % (2 * p) = x % p
      BY <1>2, <3>1, OneBitMore
    <3>3. k = r
      BY <1>1, <1>2, <1>5, <3>2 DEF keep_n_lsb
    <3> QED BY <1>4, <2>2, <3>3
  <2> QED BY <2>1, <2>2
<1>8. r \in 0 .. p - 1
  BY <1>2
<1>9. x \div PowerOf2[n] = q
  BY <1>1, <1>2
<1>10. keep_n_lsb(x, n + 1) = keep_n_lsb(x, n) + (IF BitSet(x, n) THEN PowerOf2[n] ELSE 0)
  BY <1>1, <1>5, <1>6, <1>7
<1>11. keep_n_lsb(x, n) \in 0 .. PowerOf2[n] - 1
  BY <1>1, <1>6, <1>8
<1> QED BY <1>3, <1>4, <1>9, <1>10, <1>11

LEMMA SmallIndex ==
    ASSUME NEW n \in 0 .. Depth, NEW x \in 0 .. PowerOf2[n] - 1
    PROVE  x \in Nat /\ x \div PowerOf2[n] = 0 /\ keep_n_lsb(x, n) = x
<1>1. PICK p \in Nat \ {0} : p = PowerOf2[n]
  BY PowerFacts, DepthAssumption
<1>2. x \in Nat /\ x < p /\ p * 0 + x = x
  BY <1>1
<1>3. x \div p = 0 /\ x % p = x
  <2>1. (p * 0 + x) \div p = 0 /\ (p * 0 + x) % p = x
    BY <1>2, DivisionIsUnique
  <2> QED BY <1>2, <2>1
<1> QED BY <1>1, <1>2, <1>3 DEF keep_n_lsb

LEMMA DropOneBit ==
    ASSUME NEW x \in Nat, NEW n \in 0 .. Depth
    PROVE  /\ keep_n_lsb(x, n + 1) \in Nat
           /\ keep_n_lsb(keep_n_lsb(x, n + 1), n) = keep_n_lsb(x, n)
<1>1. PICK p \in Nat \ {0} : p = PowerOf2[n]
  BY PowerFacts, DepthAssumption
<1>2. PICK r : r = keep_n_lsb(x, n)
  OBVIOUS
<1>3. r \in Nat /\ r < p
  BY <1>1, <1>2, BitFacts
<1>4. keep_n_lsb(x, n + 1) = r + (IF BitSet(x, n) THEN p ELSE 0)
  BY <1>1, <1>2, BitFacts
<1>5. CASE BitSet(x, n)
  <2>1. keep_n_lsb(x, n + 1) = p * 1 + r
    BY <1>1, <1>3, <1>4, <1>5
  <2>2. (p * 1 + r) % p = r
    BY <1>1, <1>3, DivisionIsUnique
  <2> QED BY <1>1, <1>2, <1>3, <2>1, <2>2 DEF keep_n_lsb
<1>6. CASE ~ BitSet(x, n)
  <2>1. keep_n_lsb(x, n + 1) = r
    BY <1>3, <1>4, <1>6
  <2>2. keep_n_lsb(r, n) = r
    BY <1>1, <1>3, SmallIndex
  <2> QED BY <1>2, <1>3, <2>1, <2>2
<1> QED BY <1>5, <1>6

LEMMA KeepInDepth ==
    ASSUME NEW x \in Nat, NEW n \in 0 .. Depth
    PROVE  keep_n_lsb(x, n) \in Nat
<1>1. PowerOf2[n] \in Nat
  BY PowerFacts, DepthAssumption
<1> QED BY <1>1, BitFacts

\* The low bits of an index are those of its low bits.
LEMMA KeptLow ==
    ASSUME NEW x \in Nat, NEW n \in 0 .. Depth, NEW m \in 0 .. n
    PROVE  keep_n_lsb(keep_n_lsb(x, n), m) = keep_n_lsb(x, m)
<1> DEFINE Kept(j) == \A y \in Nat : keep_n_lsb(keep_n_lsb(y, m + j), m) = keep_n_lsb(y, m)
           S == {j \in Nat : m + j <= Depth => Kept(j)}
<1>1. 0 \in S
  <2>1. m \in 0 .. Depth /\ m + 0 = m
    BY DepthAssumption
  <2>2. ASSUME NEW y \in Nat PROVE keep_n_lsb(keep_n_lsb(y, m), m) = keep_n_lsb(y, m)
    <3>1. keep_n_lsb(y, m) \in 0 .. PowerOf2[m] - 1
      BY <2>1, BitFacts
    <3> QED BY <2>1, <3>1, SmallIndex
  <2> QED BY <2>1, <2>2
<1>2. ASSUME NEW j \in Nat, j \in S PROVE j + 1 \in S
  <2> SUFFICES ASSUME m + (j + 1) <= Depth PROVE Kept(j + 1)
    OBVIOUS
  <2>1. Kept(j) /\ m + j \in 0 .. Depth /\ m + (j + 1) = (m + j) + 1
    BY <1>2, DepthAssumption
  <2>2. ASSUME NEW y \in Nat PROVE keep_n_lsb(keep_n_lsb(y, m + (j + 1)), m) = keep_n_lsb(y, m)
    <3>1. PICK z : z = keep_n_lsb(y, m + (j + 1))
      OBVIOUS
    <3>2. z \in Nat /\ keep_n_lsb(z, m + j) = keep_n_lsb(y, m + j)
      BY <2>1, <3>1, DropOneBit
    <3>3. keep_n_lsb(keep_n_lsb(z, m + j), m) = keep_n_lsb(z, m)
      BY <2>1, <3>2
    <3>4. keep_n_lsb(keep_n_lsb(y, m + j), m) = keep_n_lsb(y, m)
      BY <2>1
    <3> QED BY <3>1, <3>2, <3>3, <3>4
  <2> QED BY <2>2
<1> HIDE DEF S
<1>3. n - m \in S
  BY <1>1, <1>2, InductionOverSet, DepthAssumption
<1>4. Kept(n - m)
  BY <1>3, DepthAssumption DEF S
<1>5. m + (n - m) = n
  BY DepthAssumption
<1> QED BY <1>4, <1>5

LEMMA KeptBit ==
    ASSUME NEW x \in Nat, NEW n \in 0 .. Depth, NEW m \in 0 .. n - 1
    PROVE  BitSet(keep_n_lsb(x, n), m) <=> BitSet(x, m)
<1>1. PICK y : y = keep_n_lsb(x, n)
  OBVIOUS
<1>2. m \in 0 .. Depth /\ m \in 0 .. n /\ m + 1 \in 0 .. n /\ y \in Nat
  <2>1. m \in 0 .. Depth /\ m \in 0 .. n /\ m + 1 \in 0 .. n
    BY DepthAssumption
  <2>2. y \in Nat
    BY <1>1, KeepInDepth
  <2> QED BY <2>1, <2>2
<1>3. keep_n_lsb(y, m) = keep_n_lsb(x, m) /\ keep_n_lsb(y, m + 1) = keep_n_lsb(x, m + 1)
  BY <1>1, <1>2, KeptLow
<1>4. PICK r \in Nat, p \in Nat \ {0} : r = keep_n_lsb(x, m) /\ p = PowerOf2[m]
  BY <1>2, KeepInDepth, PowerFacts, DepthAssumption
<1>5. keep_n_lsb(x, m + 1) = r + (IF BitSet(x, m) THEN p ELSE 0)
  BY <1>2, <1>4, BitFacts
<1>6. keep_n_lsb(y, m + 1) = r + (IF BitSet(y, m) THEN p ELSE 0)
  <2>1. keep_n_lsb(y, m + 1) = keep_n_lsb(y, m) + (IF BitSet(y, m) THEN PowerOf2[m] ELSE 0)
    BY <1>2, BitFacts
  <2> QED BY <1>3, <1>4, <2>1
<1>7. BitSet(y, m) <=> BitSet(x, m)
  <2>1. CASE BitSet(x, m) /\ ~ BitSet(y, m)
    BY <1>3, <1>4, <1>5, <1>6, <2>1
  <2>2. CASE ~ BitSet(x, m) /\ BitSet(y, m)
    BY <1>3, <1>4, <1>5, <1>6, <2>2
  <2> QED BY <2>1, <2>2, Zenon
<1> QED BY <1>1, <1>7

\* The bits of two indices below and above the first in which they differ.
LEMMA Differing ==
    ASSUME NEW n \in 0 .. Depth, NEW a \in 0 .. PowerOf2[n] - 1, NEW b \in 0 .. PowerOf2[n] - 1,
           NEW c, c = DifferingBits(a, b)
    PROVE  /\ c \in 0 .. n
           /\ \A i \in c .. Depth : BitSet(a, i) <=> BitSet(b, i)
           /\ c # 0 => (BitSet(a, c - 1) <=> ~ BitSet(b, c - 1))
           /\ c = 0 <=> a = b
<1> DEFINE Same(h) == a \div PowerOf2[h] = b \div PowerOf2[h]
           T == {h \in 0 .. Depth : Same(h)}
<1>1. a \in Nat /\ b \in Nat /\ Same(n) /\ n \in Nat
  BY SmallIndex
<1>2. PICK m \in T : \A h \in T : m <= h
  <2>1. T \in SUBSET Nat /\ n \in T
    BY <1>1
  <2> HIDE DEF T
  <2> QED BY <2>1, LeastNumber
<1>3. c \in 0 .. Depth /\ Same(c) /\ \A g \in 0 .. c - 1 : ~ Same(g)
  <2>1. m \in 0 .. Depth /\ Same(m) /\ \A g \in 0 .. m - 1 : ~ Same(g)
    <3>1. ASSUME NEW g \in 0 .. m - 1, Same(g) PROVE FALSE
      <4>1. g \in T /\ g < m
        BY <1>2, <3>1, DepthAssumption
      <4> QED BY <1>2, <4>1
    <3> QED BY <1>2, <3>1
  <2> HIDE DEF Same
  <2>2. c = CHOOSE h \in 0 .. Depth : Same(h) /\ \A g \in 0 .. h - 1 : ~ Same(g)
    BY DEF DifferingBits, Same
  <2> QED BY <2>1, <2>2
<1>4. c <= n
  <2>1. ~ (n \in 0 .. c - 1)
    BY <1>1, <1>3
  <2> QED BY <1>1, <1>3, <2>1
<1>5. ASSUME NEW h \in 0 .. Depth - 1, Same(h) PROVE Same(h + 1)
  <2>1. a \div PowerOf2[h + 1] = (a \div PowerOf2[h]) \div 2
    BY <1>1, BitFacts, DepthAssumption
  <2>2. b \div PowerOf2[h + 1] = (b \div PowerOf2[h]) \div 2
    BY <1>1, BitFacts, DepthAssumption
  <2> QED BY <1>5, <2>1, <2>2
<1> DEFINE S == {j \in Nat : c + j <= Depth => Same(c + j)}
<1>6. \A i \in c .. Depth : Same(i)
  <2>1. 0 \in S
    BY <1>3
  <2>2. ASSUME NEW j \in Nat, j \in S PROVE j + 1 \in S
    <3> SUFFICES ASSUME c + (j + 1) <= Depth PROVE Same(c + (j + 1))
      OBVIOUS
    <3>1. c + j \in 0 .. Depth - 1 /\ c + (j + 1) = (c + j) + 1 /\ c + j <= Depth
      BY <1>3, DepthAssumption
    <3> HIDE DEF Same
    <3>2. Same(c + j)
      BY <2>2, <3>1
    <3> QED BY <1>5, <3>1, <3>2
  <2> HIDE DEF S
  <2>3. ASSUME NEW i \in c .. Depth PROVE Same(i)
    <3>1. i - c \in Nat /\ c + (i - c) = i /\ i <= Depth
      BY <1>3, DepthAssumption
    <3>2. i - c \in S
      BY <2>1, <2>2, <3>1, InductionOverSet
    <3> HIDE DEF Same
    <3> QED BY <3>1, <3>2 DEF S
  <2> HIDE DEF Same
  <2> QED BY <2>3
<1>7. ASSUME NEW i \in c .. Depth PROVE BitSet(a, i) <=> BitSet(b, i)
  BY <1>6 DEF BitSet
<1>8. ASSUME c # 0 PROVE BitSet(a, c - 1) <=> ~ BitSet(b, c - 1)
  <2>1. PICK d \in 0 .. Depth : d = c - 1 /\ d + 1 = c
    <3>1. c - 1 \in 0 .. Depth /\ (c - 1) + 1 = c
      BY <1>3, <1>8, DepthAssumption
    <3> QED BY <3>1
  <2>2. d \in 0 .. c - 1
    BY <1>3, <1>8, <2>1
  <2>3. PICK q, r \in Nat : q = a \div PowerOf2[d] /\ r = b \div PowerOf2[d]
    BY <1>1, <2>1, BitFacts
  <2>4. a \div PowerOf2[c] = q \div 2 /\ b \div PowerOf2[c] = r \div 2
    <3>1. a \div PowerOf2[d + 1] = (a \div PowerOf2[d]) \div 2
      BY <1>1, BitFacts
    <3>2. b \div PowerOf2[d + 1] = (b \div PowerOf2[d]) \div 2
      BY <1>1, BitFacts
    <3> QED BY <2>1, <2>3, <3>1, <3>2
  <2>5. q # r
    BY <1>3, <2>2, <2>3
  <2>6. q \div 2 = r \div 2
    BY <1>3, <2>4
  <2>7. (BitSet(a, d) <=> q % 2 = 1) /\ (BitSet(b, d) <=> r % 2 = 1)
    BY <2>3 DEF BitSet
  <2>8. q % 2 = 1 <=> r % 2 # 1
    BY <2>5, <2>6
  <2> QED BY <2>1, <2>7, <2>8
<1>9. c = 0 <=> a = b
  <2>1. a \div PowerOf2[0] = a /\ b \div PowerOf2[0] = b
    BY <1>1, PowerFacts
  <2>2. Same(0) <=> a = b
    BY <2>1
  <2>3. c # 0 => 0 \in 0 .. c - 1
    BY <1>3
  <2> HIDE DEF Same
  <2> QED BY <1>3, <2>2, <2>3
<1>10. c \in 0 .. n
  BY <1>3, <1>4
<1> QED BY <1>7, <1>8, <1>9, <1>10

-----------------------------------------------------------------------------
(***************************************************************************)
(* The recursive functions of the model.                                   *)
(***************************************************************************)

\* The recursive functions of the model are what their definitions say.
LEMMA ZeroHashesAre ==
    \E g : /\ zero_hashes_ = g
              /\ g[0] = ZeroLeaf
              /\ \A h \in 0 .. Depth - 1 : g[h + 1] = hash_pair_native(g[h], g[h])
<1> DEFINE Loop(g, m) == g = [h \in 0 .. m |-> IF h = 0 THEN ZeroLeaf ELSE hash_pair_native(g[h - 1], g[h - 1])]
           S == {m \in Nat : \E g : Loop(g, m)}
<1>1. 0 \in S
  <2>1. PICK g : g = [h \in 0 .. 0 |-> ZeroLeaf]
    OBVIOUS
  <2>2. Loop(g, 0)
    BY <2>1
  <2> QED BY <2>2
<1>2. ASSUME NEW m \in Nat, m \in S PROVE m + 1 \in S
  <2>1. PICK g : Loop(g, m)
    BY <1>2
  <2>2. PICK v : v = hash_pair_native(g[m], g[m])
    OBVIOUS
  <2>3. PICK f : f = [h \in 0 .. m + 1 |-> IF h = m + 1 THEN v ELSE g[h]]
    OBVIOUS
  <2>4. ASSUME NEW h \in 0 .. m + 1 PROVE f[h] = IF h = 0 THEN ZeroLeaf ELSE hash_pair_native(f[h - 1], f[h - 1])
    <3>1. CASE h = m + 1
      <4>1. h - 1 = m /\ h # 0 /\ f[h] = v /\ f[m] = g[m]
        BY <2>3, <3>1
      <4> QED BY <2>2, <3>1, <4>1
    <3>2. CASE h # m + 1
      <4>1. h \in 0 .. m /\ f[h] = g[h]
        BY <2>3, <3>2
      <4>2. h # 0 => h - 1 \in 0 .. m + 1 /\ h - 1 # m + 1 /\ f[h - 1] = g[h - 1]
        BY <2>3, <4>1
      <4> QED BY <2>1, <4>1, <4>2
    <3> QED BY <3>1, <3>2
  <2>5. f = [h \in 0 .. m + 1 |-> f[h]]
    BY <2>3
  <2>6. Loop(f, m + 1)
    BY <2>4, <2>5
  <2> HIDE DEF Loop
  <2>7. m + 1 \in Nat /\ \E e : Loop(e, m + 1)
    BY <2>6
  <2> QED BY <2>7
<1> HIDE DEF S
<1>3. Depth \in S
  BY <1>1, <1>2, InductionOverSet, DepthAssumption
<1>4. PICK g : Loop(g, Depth) /\ zero_hashes_ = g
  <2> DEFINE chosen == CHOOSE g : Loop(g, Depth)
  <2>1. Loop(chosen, Depth)
    BY <1>3 DEF S
  <2>2. zero_hashes_ = chosen
    BY DEF zero_hashes_
  <2> QED BY <2>1, <2>2
<1>5. g[0] = ZeroLeaf
  BY <1>4, DepthAssumption
<1>6. ASSUME NEW h \in 0 .. Depth - 1 PROVE g[h + 1] = hash_pair_native(g[h], g[h])
  <2>1. h + 1 \in 0 .. Depth /\ h + 1 # 0 /\ (h + 1) - 1 = h
    BY DepthAssumption
  <2> QED BY <1>4, <2>1
<1> HIDE DEF Loop
<1> QED BY <1>4, <1>5, <1>6

LEMMA ZeroPathIs ==
    ASSUME NEW index, NEW value
    PROVE  \E g : /\ ZeroPath(index, value) = g
              /\ g[0] = value
              /\ \A i \in 0 .. Depth - 1 : g[i + 1] = hash_pair_native(Ordered(index, i, g[i], zero_hashes_[i])[1], Ordered(index, i, g[i], zero_hashes_[i])[2])
<1> DEFINE Loop(g, m) == g = [i \in 0 .. m |-> IF i = 0 THEN value ELSE hash_pair_native(Ordered(index, i - 1, g[i - 1], zero_hashes_[i - 1])[1], Ordered(index, i - 1, g[i - 1], zero_hashes_[i - 1])[2])]
           S == {m \in Nat : \E g : Loop(g, m)}
<1>1. 0 \in S
  <2>1. PICK g : g = [i \in 0 .. 0 |-> value]
    OBVIOUS
  <2>2. Loop(g, 0)
    BY <2>1
  <2> QED BY <2>2
<1>2. ASSUME NEW m \in Nat, m \in S PROVE m + 1 \in S
  <2>1. PICK g : Loop(g, m)
    BY <1>2
  <2>2. PICK v : v = hash_pair_native(Ordered(index, m, g[m], zero_hashes_[m])[1], Ordered(index, m, g[m], zero_hashes_[m])[2])
    OBVIOUS
  <2>3. PICK f : f = [i \in 0 .. m + 1 |-> IF i = m + 1 THEN v ELSE g[i]]
    OBVIOUS
  <2>4. ASSUME NEW i \in 0 .. m + 1 PROVE f[i] = IF i = 0 THEN value ELSE hash_pair_native(Ordered(index, i - 1, f[i - 1], zero_hashes_[i - 1])[1], Ordered(index, i - 1, f[i - 1], zero_hashes_[i - 1])[2])
    <3>1. CASE i = m + 1
      <4>1. i - 1 = m /\ i # 0 /\ f[i] = v /\ f[m] = g[m]
        BY <2>3, <3>1
      <4> QED BY <2>2, <3>1, <4>1
    <3>2. CASE i # m + 1
      <4>1. i \in 0 .. m /\ f[i] = g[i]
        BY <2>3, <3>2
      <4>2. i # 0 => i - 1 \in 0 .. m + 1 /\ i - 1 # m + 1 /\ f[i - 1] = g[i - 1]
        BY <2>3, <4>1
      <4> QED BY <2>1, <4>1, <4>2
    <3> QED BY <3>1, <3>2
  <2>5. f = [i \in 0 .. m + 1 |-> f[i]]
    BY <2>3
  <2>6. Loop(f, m + 1)
    BY <2>4, <2>5
  <2> HIDE DEF Loop
  <2>7. m + 1 \in Nat /\ \E e : Loop(e, m + 1)
    BY <2>6
  <2> QED BY <2>7
<1> HIDE DEF S
<1>3. Depth \in S
  BY <1>1, <1>2, InductionOverSet, DepthAssumption
<1>4. PICK g : Loop(g, Depth) /\ ZeroPath(index, value) = g
  <2> DEFINE chosen == CHOOSE g : Loop(g, Depth)
  <2>1. Loop(chosen, Depth)
    BY <1>3 DEF S
  <2>2. ZeroPath(index, value) = chosen
    BY DEF ZeroPath
  <2> QED BY <2>1, <2>2
<1>5. g[0] = value
  BY <1>4, DepthAssumption
<1>6. ASSUME NEW i \in 0 .. Depth - 1 PROVE g[i + 1] = hash_pair_native(Ordered(index, i, g[i], zero_hashes_[i])[1], Ordered(index, i, g[i], zero_hashes_[i])[2])
  <2>1. i + 1 \in 0 .. Depth /\ i + 1 # 0 /\ (i + 1) - 1 = i
    BY DepthAssumption
  <2> QED BY <1>4, <2>1
<1> HIDE DEF Loop
<1> QED BY <1>4, <1>5, <1>6

LEMMA LayersAre ==
    ASSUME NEW lv, NEW d \in 0 .. Depth
    PROVE  \E g : /\ Layers(lv, d) = g
              /\ g[0] = lv
              /\ \A h \in 0 .. d - 1 : g[h + 1] = [n \in 0 .. PowerOf2[d - (h + 1)] - 1 |-> hash_pair_native(g[h][2 * n], g[h][2 * n + 1])]
<1> DEFINE Loop(g, m) == g = [h \in 0 .. m |-> IF h = 0 THEN lv ELSE [n \in 0 .. PowerOf2[d - h] - 1 |-> hash_pair_native(g[h - 1][2 * n], g[h - 1][2 * n + 1])]]
           S == {m \in Nat : \E g : Loop(g, m)}
<1>1. 0 \in S
  <2>1. PICK g : g = [h \in 0 .. 0 |-> lv]
    OBVIOUS
  <2>2. Loop(g, 0)
    BY <2>1
  <2> QED BY <2>2
<1>2. ASSUME NEW m \in Nat, m \in S PROVE m + 1 \in S
  <2>1. PICK g : Loop(g, m)
    BY <1>2
  <2>2. PICK v : v = [n \in 0 .. PowerOf2[d - (m + 1)] - 1 |-> hash_pair_native(g[m][2 * n], g[m][2 * n + 1])]
    OBVIOUS
  <2>3. PICK f : f = [h \in 0 .. m + 1 |-> IF h = m + 1 THEN v ELSE g[h]]
    OBVIOUS
  <2>4. ASSUME NEW h \in 0 .. m + 1 PROVE f[h] = IF h = 0 THEN lv ELSE [n \in 0 .. PowerOf2[d - h] - 1 |-> hash_pair_native(f[h - 1][2 * n], f[h - 1][2 * n + 1])]
    <3>1. CASE h = m + 1
      <4>1. h - 1 = m /\ h # 0 /\ f[h] = v /\ f[m] = g[m]
        BY <2>3, <3>1
      <4> QED BY <2>2, <3>1, <4>1
    <3>2. CASE h # m + 1
      <4>1. h \in 0 .. m /\ f[h] = g[h]
        BY <2>3, <3>2
      <4>2. h # 0 => h - 1 \in 0 .. m + 1 /\ h - 1 # m + 1 /\ f[h - 1] = g[h - 1]
        BY <2>3, <4>1
      <4> QED BY <2>1, <4>1, <4>2
    <3> QED BY <3>1, <3>2
  <2>5. f = [h \in 0 .. m + 1 |-> f[h]]
    BY <2>3
  <2>6. Loop(f, m + 1)
    BY <2>4, <2>5
  <2> HIDE DEF Loop
  <2>7. m + 1 \in Nat /\ \E e : Loop(e, m + 1)
    BY <2>6
  <2> QED BY <2>7
<1> HIDE DEF S
<1>3. d \in S
  BY <1>1, <1>2, InductionOverSet, DepthAssumption
<1>4. PICK g : Loop(g, d) /\ Layers(lv, d) = g
  <2> DEFINE chosen == CHOOSE g : Loop(g, d)
  <2>1. Loop(chosen, d)
    BY <1>3 DEF S
  <2>2. Layers(lv, d) = chosen
    BY DEF Layers
  <2> QED BY <2>1, <2>2
<1>5. g[0] = lv
  BY <1>4, DepthAssumption
<1>6. ASSUME NEW h \in 0 .. d - 1 PROVE g[h + 1] = [n \in 0 .. PowerOf2[d - (h + 1)] - 1 |-> hash_pair_native(g[h][2 * n], g[h][2 * n + 1])]
  <2>1. h + 1 \in 0 .. d /\ h + 1 # 0 /\ (h + 1) - 1 = h
    BY DepthAssumption
  <2> QED BY <1>4, <2>1
<1> HIDE DEF Loop
<1> QED BY <1>4, <1>5, <1>6

LEMMA WayIs ==
    ASSUME NEW s, NEW index
    PROVE  \E g : /\ Way(s, index) = g
              /\ g[0] = root(s)
              /\ \A d \in 0 .. Depth - 1 : g[d + 1] = Get(s, NodeKey(g[d]))[IF BitSet(index, Depth - (d + 1)) THEN 2 ELSE 1]
<1> DEFINE Loop(g, m) == g = [d \in 0 .. m |-> IF d = 0 THEN root(s) ELSE Get(s, NodeKey(g[d - 1]))[IF BitSet(index, Depth - d) THEN 2 ELSE 1]]
           S == {m \in Nat : \E g : Loop(g, m)}
<1>1. 0 \in S
  <2>1. PICK g : g = [d \in 0 .. 0 |-> root(s)]
    OBVIOUS
  <2>2. Loop(g, 0)
    BY <2>1
  <2> QED BY <2>2
<1>2. ASSUME NEW m \in Nat, m \in S PROVE m + 1 \in S
  <2>1. PICK g : Loop(g, m)
    BY <1>2
  <2>2. PICK v : v = Get(s, NodeKey(g[m]))[IF BitSet(index, Depth - (m + 1)) THEN 2 ELSE 1]
    OBVIOUS
  <2>3. PICK f : f = [d \in 0 .. m + 1 |-> IF d = m + 1 THEN v ELSE g[d]]
    OBVIOUS
  <2>4. ASSUME NEW d \in 0 .. m + 1 PROVE f[d] = IF d = 0 THEN root(s) ELSE Get(s, NodeKey(f[d - 1]))[IF BitSet(index, Depth - d) THEN 2 ELSE 1]
    <3>1. CASE d = m + 1
      <4>1. d - 1 = m /\ d # 0 /\ f[d] = v /\ f[m] = g[m]
        BY <2>3, <3>1
      <4> QED BY <2>2, <3>1, <4>1
    <3>2. CASE d # m + 1
      <4>1. d \in 0 .. m /\ f[d] = g[d]
        BY <2>3, <3>2
      <4>2. d # 0 => d - 1 \in 0 .. m + 1 /\ d - 1 # m + 1 /\ f[d - 1] = g[d - 1]
        BY <2>3, <4>1
      <4> QED BY <2>1, <4>1, <4>2
    <3> QED BY <3>1, <3>2
  <2>5. f = [d \in 0 .. m + 1 |-> f[d]]
    BY <2>3
  <2>6. Loop(f, m + 1)
    BY <2>4, <2>5
  <2> HIDE DEF Loop
  <2>7. m + 1 \in Nat /\ \E e : Loop(e, m + 1)
    BY <2>6
  <2> QED BY <2>7
<1> HIDE DEF S
<1>3. Depth \in S
  BY <1>1, <1>2, InductionOverSet, DepthAssumption
<1>4. PICK g : Loop(g, Depth) /\ Way(s, index) = g
  <2> DEFINE chosen == CHOOSE g : Loop(g, Depth)
  <2>1. Loop(chosen, Depth)
    BY <1>3 DEF S
  <2>2. Way(s, index) = chosen
    BY DEF Way
  <2> QED BY <2>1, <2>2
<1>5. g[0] = root(s)
  BY <1>4, DepthAssumption
<1>6. ASSUME NEW d \in 0 .. Depth - 1 PROVE g[d + 1] = Get(s, NodeKey(g[d]))[IF BitSet(index, Depth - (d + 1)) THEN 2 ELSE 1]
  <2>1. d + 1 \in 0 .. Depth /\ d + 1 # 0 /\ (d + 1) - 1 = d
    BY DepthAssumption
  <2> QED BY <1>4, <2>1
<1> HIDE DEF Loop
<1> QED BY <1>4, <1>5, <1>6

LEMMA UpdateRootIs ==
    ASSUME NEW s, NEW value, NEW index, NEW way, way = Way(s, index)
    PROVE  \E g : /\ update_root(s, value, index) = g[Depth]
              /\ g[0] = [s |-> s, hash |-> value]
              /\ \A h \in 0 .. Depth - 1 : g[h + 1] = update_subtree(s, way[Depth - (h + 1)], value, keep_n_lsb(index, h + 1), h + 1, g[h])
<1> DEFINE Loop(g, m) == g = [h \in 0 .. m |-> IF h = 0 THEN [s |-> s, hash |-> value] ELSE update_subtree(s, way[Depth - h], value, keep_n_lsb(index, h), h, g[h - 1])]
           S == {m \in Nat : \E g : Loop(g, m)}
<1>1. 0 \in S
  <2>1. PICK g : g = [h \in 0 .. 0 |-> [s |-> s, hash |-> value]]
    OBVIOUS
  <2>2. Loop(g, 0)
    BY <2>1
  <2> QED BY <2>2
<1>2. ASSUME NEW m \in Nat, m \in S PROVE m + 1 \in S
  <2>1. PICK g : Loop(g, m)
    BY <1>2
  <2>2. PICK v : v = update_subtree(s, way[Depth - (m + 1)], value, keep_n_lsb(index, (m + 1)), (m + 1), g[m])
    OBVIOUS
  <2>3. PICK f : f = [h \in 0 .. m + 1 |-> IF h = m + 1 THEN v ELSE g[h]]
    OBVIOUS
  <2>4. ASSUME NEW h \in 0 .. m + 1 PROVE f[h] = IF h = 0 THEN [s |-> s, hash |-> value] ELSE update_subtree(s, way[Depth - h], value, keep_n_lsb(index, h), h, f[h - 1])
    <3>1. CASE h = m + 1
      <4>1. h - 1 = m /\ h # 0 /\ f[h] = v /\ f[m] = g[m]
        BY <2>3, <3>1
      <4> QED BY <2>2, <3>1, <4>1
    <3>2. CASE h # m + 1
      <4>1. h \in 0 .. m /\ f[h] = g[h]
        BY <2>3, <3>2
      <4>2. h # 0 => h - 1 \in 0 .. m + 1 /\ h - 1 # m + 1 /\ f[h - 1] = g[h - 1]
        BY <2>3, <4>1
      <4> QED BY <2>1, <4>1, <4>2
    <3> QED BY <3>1, <3>2
  <2>5. f = [h \in 0 .. m + 1 |-> f[h]]
    BY <2>3
  <2>6. Loop(f, m + 1)
    BY <2>4, <2>5
  <2> HIDE DEF Loop
  <2>7. m + 1 \in Nat /\ \E e : Loop(e, m + 1)
    BY <2>6
  <2> QED BY <2>7
<1> HIDE DEF S
<1>3. Depth \in S
  BY <1>1, <1>2, InductionOverSet, DepthAssumption
<1>4. PICK g : Loop(g, Depth) /\ update_root(s, value, index) = g[Depth]
  <2> DEFINE chosen == CHOOSE g : Loop(g, Depth)
  <2>1. Loop(chosen, Depth)
    BY <1>3 DEF S
  <2>2. update_root(s, value, index) = chosen[Depth]
    BY DEF update_root
  <2> QED BY <2>1, <2>2
<1>5. g[0] = [s |-> s, hash |-> value]
  BY <1>4, DepthAssumption
<1>6. ASSUME NEW h \in 0 .. Depth - 1 PROVE g[h + 1] = update_subtree(s, way[Depth - (h + 1)], value, keep_n_lsb(index, h + 1), h + 1, g[h])
  <2>1. h + 1 \in 0 .. Depth /\ h + 1 # 0 /\ (h + 1) - 1 = h
    BY DepthAssumption
  <2> QED BY <1>4, <2>1
<1> HIDE DEF Loop
<1> QED BY <1>4, <1>5, <1>6

LEMMA HashPathIs ==
    ASSUME NEW s, NEW index, NEW way, way = Way(s, index)
    PROVE  \E g : /\ get_hash_path(s, index) = g[Depth]
              /\ g[0] = << >>
              /\ \A h \in 0 .. Depth - 1 : g[h + 1] = PathBelow(s, way[Depth - (h + 1)], h, index, g[h])
<1> DEFINE Loop(g, m) == g = [h \in 0 .. m |-> IF h = 0 THEN << >> ELSE PathBelow(s, way[Depth - h], h - 1, index, g[h - 1])]
           S == {m \in Nat : \E g : Loop(g, m)}
<1>1. 0 \in S
  <2>1. PICK g : g = [h \in 0 .. 0 |-> << >>]
    OBVIOUS
  <2>2. Loop(g, 0)
    BY <2>1
  <2> QED BY <2>2
<1>2. ASSUME NEW m \in Nat, m \in S PROVE m + 1 \in S
  <2>1. PICK g : Loop(g, m)
    BY <1>2
  <2>2. PICK v : v = PathBelow(s, way[Depth - (m + 1)], m, index, g[m])
    OBVIOUS
  <2>3. PICK f : f = [h \in 0 .. m + 1 |-> IF h = m + 1 THEN v ELSE g[h]]
    OBVIOUS
  <2>4. ASSUME NEW h \in 0 .. m + 1 PROVE f[h] = IF h = 0 THEN << >> ELSE PathBelow(s, way[Depth - h], h - 1, index, f[h - 1])
    <3>1. CASE h = m + 1
      <4>1. h - 1 = m /\ h # 0 /\ f[h] = v /\ f[m] = g[m]
        BY <2>3, <3>1
      <4> QED BY <2>2, <3>1, <4>1
    <3>2. CASE h # m + 1
      <4>1. h \in 0 .. m /\ f[h] = g[h]
        BY <2>3, <3>2
      <4>2. h # 0 => h - 1 \in 0 .. m + 1 /\ h - 1 # m + 1 /\ f[h - 1] = g[h - 1]
        BY <2>3, <4>1
      <4> QED BY <2>1, <4>1, <4>2
    <3> QED BY <3>1, <3>2
  <2>5. f = [h \in 0 .. m + 1 |-> f[h]]
    BY <2>3
  <2>6. Loop(f, m + 1)
    BY <2>4, <2>5
  <2> HIDE DEF Loop
  <2>7. m + 1 \in Nat /\ \E e : Loop(e, m + 1)
    BY <2>6
  <2> QED BY <2>7
<1> HIDE DEF S
<1>3. Depth \in S
  BY <1>1, <1>2, InductionOverSet, DepthAssumption
<1>4. PICK g : Loop(g, Depth) /\ get_hash_path(s, index) = g[Depth]
  <2> DEFINE chosen == CHOOSE g : Loop(g, Depth)
  <2>1. Loop(chosen, Depth)
    BY <1>3 DEF S
  <2>2. get_hash_path(s, index) = chosen[Depth]
    BY DEF get_hash_path
  <2> QED BY <2>1, <2>2
<1>5. g[0] = << >>
  BY <1>4, DepthAssumption
<1>6. ASSUME NEW h \in 0 .. Depth - 1 PROVE g[h + 1] = PathBelow(s, way[Depth - (h + 1)], h, index, g[h])
  <2>1. h + 1 \in 0 .. Depth /\ h + 1 # 0 /\ (h + 1) - 1 = h
    BY DepthAssumption
  <2> QED BY <1>4, <2>1
<1> HIDE DEF Loop
<1> QED BY <1>4, <1>5, <1>6
LEMMA ForkStumpIs ==
    ASSUME NEW s, NEW value1, NEW index1, NEW value2, NEW index2,
           NEW height \in Nat, NEW c \in 0 .. height
    PROVE  \E g : /\ fork_stump(s, value1, index1, value2, index2, height, c) = g[height]
                 /\ g[c] = fork(s, value1, index1, value2, index2, c)
                 /\ \A h \in c .. height - 1 :
                        g[h + 1] = binary_put(g[h].s, index1, g[h].hash, zero_hashes_[h], h + 1)
<1> DEFINE Base == fork(s, value1, index1, value2, index2, c)
           Step(r, h) == binary_put(r.s, index1, r.hash, zero_hashes_[h - 1], h)
           Loop(g, m) == g = [h \in c .. m |-> IF h = c THEN fork(s, value1, index1, value2, index2, h)
                                                       ELSE Step(g[h - 1], h)]
           S == {j \in Nat : \E g : Loop(g, c + j)}
<1>1. 0 \in S
  <2>1. PICK g : g = [h \in c .. c + 0 |-> Base]
    OBVIOUS
  <2>2. \A h \in c .. c + 0 : h = c
    OBVIOUS
  <2>3. Loop(g, c + 0)
    BY <2>1, <2>2
  <2> QED BY <2>3
<1>2. ASSUME NEW j \in Nat, j \in S PROVE j + 1 \in S
  <2>1. PICK m \in Nat : m = c + j /\ m + 1 = c + (j + 1) /\ c <= m
    OBVIOUS
  <2>2. PICK g : Loop(g, m)
    BY <1>2, <2>1
  <2>3. PICK v : v = Step(g[m], m + 1)
    OBVIOUS
  <2>4. PICK f : f = [h \in c .. m + 1 |-> IF h = m + 1 THEN v ELSE g[h]]
    OBVIOUS
  <2> HIDE DEF Step
  <2>5. ASSUME NEW h \in c .. m + 1
        PROVE  f[h] = IF h = c THEN fork(s, value1, index1, value2, index2, h) ELSE Step(f[h - 1], h)
    <3>1. CASE h = m + 1
      <4>1. h - 1 = m /\ h # c /\ f[h] = v /\ f[m] = g[m]
        BY <2>1, <2>4, <3>1
      <4> QED BY <2>3, <3>1, <4>1
    <3>2. CASE h # m + 1
      <4>1. h \in c .. m /\ f[h] = g[h]
        BY <2>4, <3>2
      <4>2. h # c => h - 1 \in c .. m + 1 /\ h - 1 # m + 1 /\ f[h - 1] = g[h - 1]
        BY <2>4, <4>1
      <4> QED BY <2>2, <4>1, <4>2
    <3> QED BY <3>1, <3>2
  <2>6. f = [h \in c .. m + 1 |-> f[h]]
    BY <2>4
  <2>7. Loop(f, m + 1)
    BY <2>5, <2>6
  <2> HIDE DEF Loop
  <2>8. j + 1 \in Nat /\ Loop(f, c + (j + 1))
    BY <2>1, <2>7
  <2> QED BY <2>8
<1> HIDE DEF S
<1>3. height - c \in S
  BY <1>1, <1>2, InductionOverSet
<1>4. \E g : Loop(g, height)
  <2>1. PICK g : Loop(g, c + (height - c))
    <3> HIDE DEF Loop
    <3> QED BY <1>3 DEF S
  <2>2. c + (height - c) = height
    OBVIOUS
  <2> HIDE DEF Loop
  <2> QED BY <2>1, <2>2
<1>5. PICK g : Loop(g, height) /\ fork_stump(s, value1, index1, value2, index2, height, c) = g[height]
  <2> DEFINE chosen == CHOOSE g : Loop(g, height)
  <2>1. Loop(chosen, height)
    BY <1>4
  <2>2. fork_stump(s, value1, index1, value2, index2, height, c) = chosen[height]
    BY DEF fork_stump
  <2> QED BY <2>1, <2>2
<1>6. g[c] = Base
  BY <1>5
<1>7. ASSUME NEW h \in c .. height - 1
      PROVE  g[h + 1] = binary_put(g[h].s, index1, g[h].hash, zero_hashes_[h], h + 1)
  <2>1. h + 1 \in c .. height /\ h + 1 # c /\ (h + 1) - 1 = h
    OBVIOUS
  <2> QED BY <1>5, <2>1
<1> HIDE DEF Loop
<1> QED BY <1>5, <1>6, <1>7

-----------------------------------------------------------------------------
(***************************************************************************)
(* Hashes as trees: a hash has one height.                                 *)
(***************************************************************************)

LeafHashes == {ZeroLeaf} \cup {Leaf(u[2]) : u \in Updates}

\* The hashes of trees of each height.
Trees[h \in 0 .. Depth] == IF h = 0 THEN LeafHashes ELSE Trees[h - 1] \X Trees[h - 1]


LEMMA TreesAre ==
    \E g : /\ Trees = g
              /\ g[0] = LeafHashes
              /\ \A h \in 0 .. Depth - 1 : g[h + 1] = g[h] \X g[h]
<1> DEFINE Loop(g, m) == g = [h \in 0 .. m |-> IF h = 0 THEN LeafHashes ELSE (g[h - 1] \X g[h - 1])]
           S == {m \in Nat : \E g : Loop(g, m)}
<1>1. 0 \in S
  <2>1. PICK g : g = [h \in 0 .. 0 |-> LeafHashes]
    OBVIOUS
  <2>2. Loop(g, 0)
    BY <2>1
  <2> QED BY <2>2
<1>2. ASSUME NEW m \in Nat, m \in S PROVE m + 1 \in S
  <2>1. PICK g : Loop(g, m)
    BY <1>2
  <2>2. PICK v : v = (g[m] \X g[m])
    OBVIOUS
  <2>3. PICK f : f = [h \in 0 .. m + 1 |-> IF h = m + 1 THEN v ELSE g[h]]
    OBVIOUS
  <2>4. ASSUME NEW h \in 0 .. m + 1 PROVE f[h] = IF h = 0 THEN LeafHashes ELSE (f[h - 1] \X f[h - 1])
    <3>1. CASE h = m + 1
      <4>1. h - 1 = m /\ h # 0 /\ f[h] = v /\ f[m] = g[m]
        BY <2>3, <3>1
      <4> QED BY <2>2, <3>1, <4>1
    <3>2. CASE h # m + 1
      <4>1. h \in 0 .. m /\ f[h] = g[h]
        BY <2>3, <3>2
      <4>2. h # 0 => h - 1 \in 0 .. m + 1 /\ h - 1 # m + 1 /\ f[h - 1] = g[h - 1]
        BY <2>3, <4>1
      <4> QED BY <2>1, <4>1, <4>2
    <3> QED BY <3>1, <3>2
  <2>5. f = [h \in 0 .. m + 1 |-> f[h]]
    BY <2>3
  <2>6. Loop(f, m + 1)
    BY <2>4, <2>5
  <2> HIDE DEF Loop
  <2>7. m + 1 \in Nat /\ \E e : Loop(e, m + 1)
    BY <2>6
  <2> QED BY <2>7
<1> HIDE DEF S
<1>3. Depth \in S
  BY <1>1, <1>2, InductionOverSet, DepthAssumption
<1>4. PICK g : Loop(g, Depth) /\ Trees = g
  <2> DEFINE chosen == CHOOSE g : Loop(g, Depth)
  <2>1. Loop(chosen, Depth)
    BY <1>3 DEF S
  <2>2. Trees = chosen
    BY DEF Trees
  <2> QED BY <2>1, <2>2
<1>5. g[0] = LeafHashes
  BY <1>4, DepthAssumption
<1>6. ASSUME NEW h \in 0 .. Depth - 1 PROVE g[h + 1] = g[h] \X g[h]
  <2>1. h + 1 \in 0 .. Depth /\ h + 1 # 0 /\ (h + 1) - 1 = h
    BY DepthAssumption
  <2> QED BY <1>4, <2>1
<1> HIDE DEF Loop
<1> QED BY <1>4, <1>5, <1>6


LEMMA ZeroHashFacts ==
    /\ zero_hashes_[0] = ZeroLeaf
    /\ \A h \in 0 .. Depth - 1 : zero_hashes_[h + 1] = <<zero_hashes_[h], zero_hashes_[h]>>
BY ZeroHashesAre DEF hash_pair_native

LEMMA ZeroPathFacts ==
    ASSUME NEW index, NEW value, NEW zp, zp = ZeroPath(index, value)
    PROVE  /\ zp[0] = value
           /\ \A h \in 0 .. Depth - 1 : zp[h + 1] = Ordered(index, h, zp[h], zero_hashes_[h])
<1>1. PICK g : /\ ZeroPath(index, value) = g
               /\ g[0] = value
               /\ \A i \in 0 .. Depth - 1 : g[i + 1] = hash_pair_native(Ordered(index, i, g[i], zero_hashes_[i])[1],
                                                                        Ordered(index, i, g[i], zero_hashes_[i])[2])
  BY ZeroPathIs
<1>2. \A i, x, y : hash_pair_native(Ordered(index, i, x, y)[1], Ordered(index, i, x, y)[2]) = Ordered(index, i, x, y)
  BY DEF hash_pair_native, Ordered
<1> QED BY <1>1, <1>2

LEMMA TreeFacts ==
    /\ Trees[0] = LeafHashes
    /\ \A h \in 0 .. Depth - 1 : Trees[h + 1] = Trees[h] \X Trees[h]
BY TreesAre

\* A leaf is no pair.
LEMMA LeafIsNoPair ==
    ASSUME NEW a, NEW b
    PROVE  <<a, b>> \notin LeafHashes
<1>1. Len(<<a, b>>) = 2
  OBVIOUS
<1>2. \A v : Len(Leaf(v)) = 1
  BY DEF Leaf
<1> QED BY <1>1, <1>2, LeafAssumption DEF LeafHashes

\* A hash has one height.
LEMMA HeightIsUnique ==
    ASSUME NEW g \in 0 .. Depth, NEW h \in 0 .. Depth, NEW t, t \in Trees[g], t \in Trees[h]
    PROVE  g = h
<1> DEFINE Apart(m) == \A n \in 0 .. Depth : m < n => Trees[m] \cap Trees[n] = {}
           S == {m \in Nat : m <= Depth => Apart(m)}
<1>1. ASSUME NEW n \in 0 .. Depth, n # 0 PROVE n - 1 \in 0 .. Depth - 1 /\ Trees[n] = Trees[n - 1] \X Trees[n - 1]
  <2>1. n - 1 \in 0 .. Depth - 1 /\ (n - 1) + 1 = n
    BY <1>1, DepthAssumption
  <2> QED BY <2>1, TreeFacts
<1>2. 0 \in S
  <2>1. ASSUME NEW n \in 0 .. Depth, 0 < n, NEW x, x \in Trees[0], x \in Trees[n] PROVE FALSE
    <3>1. PICK a \in Trees[n - 1], b \in Trees[n - 1] : x = <<a, b>>
      BY <1>1, <2>1
    <3> QED BY <2>1, <3>1, LeafIsNoPair, TreeFacts
  <2> QED BY <2>1
<1>3. ASSUME NEW m \in Nat, m \in S PROVE m + 1 \in S
  <2> SUFFICES ASSUME m + 1 <= Depth PROVE Apart(m + 1)
    OBVIOUS
  <2>1. ASSUME NEW n \in 0 .. Depth, m + 1 < n, NEW x, x \in Trees[m + 1], x \in Trees[n] PROVE FALSE
    <3>1. PICK k \in 0 .. Depth - 1 : Trees[n] = Trees[k] \X Trees[k] /\ m < k
      <4>1. n # 0 /\ m < n - 1
        BY <2>1
      <4> QED BY <1>1, <4>1
    <3>2. Trees[m + 1] = Trees[m] \X Trees[m]
      BY TreeFacts, DepthAssumption
    <3>3. PICK a, b : x = <<a, b>> /\ a \in Trees[m]
      BY <2>1, <3>2
    <3>4. PICK c, d : x = <<c, d>> /\ c \in Trees[k]
      BY <2>1, <3>1
    <3>5. a \in Trees[k]
      BY <3>3, <3>4
    <3>6. k \in 0 .. Depth /\ Apart(m)
      BY <1>3, DepthAssumption
    <3> QED BY <3>1, <3>3, <3>5, <3>6
  <2> QED BY <2>1
<1> HIDE DEF S
<1>4. Nat \subseteq S
  BY <1>2, <1>3, InductionOverSet
<1>5. \A m \in 0 .. Depth : Apart(m)
  BY <1>4, DepthAssumption DEF S
<1>6. ~ (g < h) /\ ~ (h < g)
  BY <1>5
<1> QED BY <1>6, DepthAssumption

LEMMA ZerosAreTrees == \A h \in 0 .. Depth : zero_hashes_[h] \in Trees[h]
<1> DEFINE S == {h \in Nat : h <= Depth => zero_hashes_[h] \in Trees[h]}
<1>1. 0 \in S
  BY ZeroHashFacts, TreeFacts DEF LeafHashes
<1>2. ASSUME NEW h \in Nat, h \in S PROVE h + 1 \in S
  <2> SUFFICES ASSUME h + 1 <= Depth PROVE zero_hashes_[h + 1] \in Trees[h + 1]
    OBVIOUS
  <2>1. h \in 0 .. Depth - 1 /\ zero_hashes_[h] \in Trees[h]
    BY <1>2, DepthAssumption
  <2>2. zero_hashes_[h + 1] = <<zero_hashes_[h], zero_hashes_[h]>> /\ Trees[h + 1] = Trees[h] \X Trees[h]
    BY <2>1, ZeroHashFacts, TreeFacts
  <2> QED BY <2>1, <2>2
<1> HIDE DEF S
<1>3. Nat \subseteq S
  BY <1>1, <1>2, InductionOverSet
<1> QED BY <1>3, DepthAssumption DEF S

LEMMA ZeroPathsAreTrees ==
    ASSUME NEW index, NEW value \in LeafHashes, NEW h \in 0 .. Depth
    PROVE  ZeroPath(index, value)[h] \in Trees[h]
<1>1. PICK zp : zp = ZeroPath(index, value)
  OBVIOUS
<1> DEFINE S == {k \in Nat : k <= Depth => zp[k] \in Trees[k]}
<1>2. 0 \in S
  BY <1>1, ZeroPathFacts, TreeFacts
<1>3. ASSUME NEW k \in Nat, k \in S PROVE k + 1 \in S
  <2> SUFFICES ASSUME k + 1 <= Depth PROVE zp[k + 1] \in Trees[k + 1]
    OBVIOUS
  <2>1. k \in 0 .. Depth - 1 /\ k \in 0 .. Depth /\ zp[k] \in Trees[k]
    BY <1>3, DepthAssumption
  <2>2. zp[k + 1] = Ordered(index, k, zp[k], zero_hashes_[k])
    BY <1>1, <2>1, ZeroPathFacts
  <2>3. Trees[k + 1] = Trees[k] \X Trees[k] /\ zero_hashes_[k] \in Trees[k]
    BY <2>1, TreeFacts, ZerosAreTrees
  <2> QED BY <2>1, <2>2, <2>3 DEF Ordered
<1> HIDE DEF S
<1>4. Nat \subseteq S
  BY <1>2, <1>3, InductionOverSet
<1> QED BY <1>1, <1>4, DepthAssumption DEF S

-----------------------------------------------------------------------------
(***************************************************************************)
(* Stores in order: what is found under a hash has that hash.              *)
(***************************************************************************)

IsStore(s) == s = [store |-> s.store, puts |-> s.puts, deletes |-> s.deletes]

LEMMA PutEffect ==
    ASSUME NEW s, IsStore(s), NEW k, NEW v, NEW t, t = AfterPut(s, k, v)
    PROVE  /\ IsStore(t) /\ t.store = s.store
           /\ DOMAIN t.puts = DOMAIN s.puts \cup {k}
           /\ \A x \in DOMAIN t.puts : t.puts[x] = IF x = k THEN v ELSE s.puts[x]
           /\ Has(t, k) /\ Get(t, k) = v
           /\ \A x : x # k => (Has(t, x) <=> Has(s, x)) /\ Get(t, x) = Get(s, x)
<1>1. PICK p : p = [x \in DOMAIN s.puts \cup {k} |-> IF x = k THEN v ELSE s.puts[x]]
  OBVIOUS
<1>2. t = [store |-> s.store, puts |-> p, deletes |-> s.deletes \ {k}]
  BY <1>1 DEF IsStore, AfterPut
<1>3. t.store = s.store /\ t.puts = p /\ t.deletes = s.deletes \ {k} /\ IsStore(t)
  BY <1>2 DEF IsStore
<1>4. Has(t, k) /\ Get(t, k) = v
  BY <1>1, <1>3 DEF Has, Get
<1>5. ASSUME NEW x, x # k PROVE (Has(t, x) <=> Has(s, x)) /\ Get(t, x) = Get(s, x)
  BY <1>1, <1>3, <1>5 DEF Has, Get
<1> QED BY <1>1, <1>3, <1>4, <1>5

LEMMA DelEffect ==
    ASSUME NEW s, IsStore(s), NEW k, NEW t, t = AfterDel(s, k)
    PROVE  /\ IsStore(t) /\ t.store = s.store
           /\ DOMAIN t.puts = DOMAIN s.puts \ {k}
           /\ \A x \in DOMAIN t.puts : t.puts[x] = s.puts[x]
           /\ ~ Has(t, k)
           /\ \A x : x # k => (Has(t, x) <=> Has(s, x)) /\ Get(t, x) = Get(s, x)
<1>1. PICK p : p = [x \in DOMAIN s.puts \ {k} |-> s.puts[x]]
  OBVIOUS
<1>2. t = [store |-> s.store, puts |-> p, deletes |-> s.deletes \cup {k}]
  BY <1>1 DEF IsStore, AfterDel
<1>3. t.store = s.store /\ t.puts = p /\ t.deletes = s.deletes \cup {k} /\ IsStore(t)
  BY <1>2 DEF IsStore
<1>4. ASSUME NEW x, x # k PROVE (Has(t, x) <=> Has(s, x)) /\ Get(t, x) = Get(s, x)
  BY <1>1, <1>3, <1>4 DEF Has, Get
<1> QED BY <1>1, <1>3, <1>4 DEF Has

-----------------------------------------------------------------------------
\* A tree of height h, and a stump <<value, index, TRUE>> with that hash.
StumpOf(t, h, d) == \E i \in 0 .. PowerOf2[h] - 1, v \in LeafHashes :
                        d = <<v, i, TRUE>> /\ t = ZeroPath(i, v)[h]

\* What may be found under a key: under a hash the two children it is made of or
\* a stump with that hash, as metadata the root of a tree.
EntryOK(k, d) ==
    /\ k[1] = "node" => \E h \in 1 .. Depth : k[2] \in Trees[h] /\ (d = k[2] \/ StumpOf(k[2], h, d))
    /\ k = MetaKey => d[1] \in Trees[Depth]

MapOK(f) == \A k \in DOMAIN f : EntryOK(k, f[k])

StoreOK(s) == IsStore(s) /\ MapOK(s.store) /\ MapOK(s.puts)

LEMMA PutIsOK ==
    ASSUME NEW s, StoreOK(s), NEW k, NEW v, EntryOK(k, v)
    PROVE  StoreOK(AfterPut(s, k, v))
<1>1. PICK t : t = AfterPut(s, k, v)
  OBVIOUS
<1>2. /\ IsStore(t) /\ t.store = s.store
      /\ DOMAIN t.puts = DOMAIN s.puts \cup {k}
      /\ \A x \in DOMAIN t.puts : t.puts[x] = IF x = k THEN v ELSE s.puts[x]
  BY <1>1, PutEffect DEF StoreOK
<1>3. MapOK(t.puts)
  BY <1>2 DEF MapOK, StoreOK
<1> QED BY <1>1, <1>2, <1>3 DEF StoreOK

LEMMA DelIsOK ==
    ASSUME NEW s, StoreOK(s), NEW k
    PROVE  StoreOK(AfterDel(s, k))
<1>1. PICK t : t = AfterDel(s, k)
  OBVIOUS
<1>2. /\ IsStore(t) /\ t.store = s.store
      /\ DOMAIN t.puts = DOMAIN s.puts \ {k}
      /\ \A x \in DOMAIN t.puts : t.puts[x] = s.puts[x]
  BY <1>1, DelEffect DEF StoreOK
<1>3. MapOK(t.puts)
  BY <1>2 DEF MapOK, StoreOK
<1> QED BY <1>1, <1>2, <1>3 DEF StoreOK

LEMMA GetIsOK ==
    ASSUME NEW s, StoreOK(s), NEW k, Has(s, k)
    PROVE  EntryOK(k, Get(s, k))
<1>1. k \in DOMAIN s.puts => EntryOK(k, Get(s, k))
  BY DEF StoreOK, MapOK, Get
<1>2. k \notin DOMAIN s.puts => EntryOK(k, Get(s, k))
  BY DEF StoreOK, MapOK, Get, Has
<1> QED BY <1>1, <1>2

\* The keys of nodes, leaves and metadata.
LEMMA KeyFacts ==
    ASSUME NEW t, NEW d
    PROVE  /\ EntryOK(NodeKey(t), d) <=> \E h \in 1 .. Depth : t \in Trees[h] /\ (d = t \/ StumpOf(t, h, d))
           /\ \A i : EntryOK(LeafKey(i), d) /\ LeafKey(i) # NodeKey(t) /\ LeafKey(i) # MetaKey
           /\ EntryOK(MetaKey, d) <=> d[1] \in Trees[Depth]
           /\ NodeKey(t) # MetaKey
           /\ \A u : NodeKey(t) = NodeKey(u) <=> t = u
<1>1. /\ NodeKey(t)[1] = "node" /\ NodeKey(t)[2] = t /\ MetaKey[1] = "meta"
      /\ \A i : LeafKey(i)[1] = "leaf"
  BY DEF NodeKey, LeafKey, MetaKey
<1>2. "node" # "meta" /\ "leaf" # "node" /\ "leaf" # "meta"
  OBVIOUS
<1>3. NodeKey(t) # MetaKey /\ \A i : LeafKey(i) # NodeKey(t) /\ LeafKey(i) # MetaKey
  BY <1>1, <1>2
<1>4. \A u : NodeKey(t) = NodeKey(u) <=> t = u
  BY DEF NodeKey
<1>5. EntryOK(NodeKey(t), d) <=> \E h \in 1 .. Depth : t \in Trees[h] /\ (d = t \/ StumpOf(t, h, d))
  BY <1>1, <1>3 DEF EntryOK
<1>6. \A i : EntryOK(LeafKey(i), d)
  BY <1>1, <1>2, <1>3 DEF EntryOK
<1>7. EntryOK(MetaKey, d) <=> d[1] \in Trees[Depth]
  BY <1>1, <1>2 DEF EntryOK
<1> QED BY <1>3, <1>4, <1>5, <1>6, <1>7

\* A node of two children is found as they are, a stump with its hash.
LEMMA NodeIs ==
    ASSUME NEW s, StoreOK(s), NEW h \in 0 .. Depth, NEW t \in Trees[h], Has(s, NodeKey(t)),
           NEW d, d = Get(s, NodeKey(t))
    PROVE  /\ h # 0
           /\ IsStump(d) => StumpOf(t, h, d)
           /\ ~ IsStump(d) => d = t
<1>1. PICK g \in 1 .. Depth : t \in Trees[g] /\ (d = t \/ StumpOf(t, g, d))
  BY GetIsOK, KeyFacts
<1>2. g = h /\ h # 0
  BY <1>1, HeightIsUnique, DepthAssumption
<1>3. PICK k \in 0 .. Depth - 1 : h = k + 1 /\ Trees[h] = Trees[k] \X Trees[k]
  <2>1. h - 1 \in 0 .. Depth - 1 /\ h = (h - 1) + 1
    BY <1>2, DepthAssumption
  <2> QED BY <2>1, TreeFacts
<1>4. d = t => ~ IsStump(d)
  <2>1. PICK a, b : t = <<a, b>>
    BY <1>3
  <2>2. Len(<<a, b>>) = 2
    OBVIOUS
  <2> QED BY <2>1, <2>2 DEF IsStump
<1>5. StumpOf(t, h, d) => IsStump(d)
  <2> SUFFICES ASSUME NEW i, NEW v, d = <<v, i, TRUE>> PROVE IsStump(d)
    BY DEF StumpOf
  <2> QED BY DEF IsStump
<1> QED BY <1>1, <1>2, <1>4, <1>5

-----------------------------------------------------------------------------
(***************************************************************************)
(* What the parts of update_element do to a store in order.                *)
(***************************************************************************)

\* What a call of update_element returns for a subtree of height h.
ResultOK(r, h) == StoreOK(r.s) /\ r.hash \in Trees[h]

\* The store and the hash after a node of two children has been put.
WithPair(s, t) == [s |-> AfterPut(s, NodeKey(t), t), hash |-> t]

LEMMA OrderedIsTree ==
    ASSUME NEW h \in 0 .. Depth - 1, NEW a \in Trees[h], NEW b \in Trees[h], NEW i
    PROVE  Ordered(i, h, a, b) \in Trees[h + 1]
BY TreeFacts DEF Ordered

LEMMA WithPairOK ==
    ASSUME NEW s, StoreOK(s), NEW h \in 0 .. Depth - 1, NEW t \in Trees[h + 1]
    PROVE  ResultOK(WithPair(s, t), h + 1)
<1>1. h + 1 \in 1 .. Depth
  BY DepthAssumption
<1>2. EntryOK(NodeKey(t), t)
  BY <1>1, KeyFacts
<1> QED BY <1>2, PutIsOK DEF ResultOK, WithPair

LEMMA BinaryPutIs ==
    ASSUME NEW s, NEW i, NEW a, NEW b, NEW h \in Nat
    PROVE  binary_put(s, i, a, b, h + 1) = WithPair(s, Ordered(i, h, a, b))
<1>1. PICK pair : pair = Ordered(i, h, a, b)
  OBVIOUS
<1>2. pair = <<pair[1], pair[2]>>
  BY <1>1 DEF Ordered
<1>3. (h + 1) - 1 = h
  OBVIOUS
<1>4. binary_put(s, i, a, b, h + 1) = [s |-> put(s, <<pair[1], pair[2]>>, pair[1], pair[2]), hash |-> <<pair[1], pair[2]>>]
  BY <1>1, <1>3 DEF binary_put, hash_pair_native
<1>5. put(s, <<pair[1], pair[2]>>, pair[1], pair[2]) = AfterPut(s, NodeKey(pair), pair)
  BY <1>2 DEF put
<1> QED BY <1>1, <1>2, <1>4, <1>5 DEF WithPair

LEMMA PutStumpOK ==
    ASSUME NEW s, StoreOK(s), NEW h \in 1 .. Depth, NEW i \in 0 .. PowerOf2[h] - 1, NEW v \in LeafHashes,
           NEW t, t = ZeroPath(i, v)[h]
    PROVE  /\ t \in Trees[h] /\ StumpOf(t, h, <<v, i, TRUE>>)
           /\ put_stump(s, t, i, v) = AfterPut(s, NodeKey(t), <<v, i, TRUE>>)
           /\ StoreOK(put_stump(s, t, i, v))
<1>1. t \in Trees[h]
  BY ZeroPathsAreTrees, DepthAssumption
<1>2. StumpOf(t, h, <<v, i, TRUE>>)
  BY DEF StumpOf
<1>3. EntryOK(NodeKey(t), <<v, i, TRUE>>)
  BY <1>1, <1>2, KeyFacts
<1>4. put_stump(s, t, i, v) = AfterPut(s, NodeKey(t), <<v, i, TRUE>>)
  BY DEF put_stump
<1>5. StoreOK(AfterPut(s, NodeKey(t), <<v, i, TRUE>>))
  BY <1>3, PutIsOK
<1> QED BY <1>1, <1>2, <1>4, <1>5

\* The store below a fork at height h + 1: two stumps, or two leaves.
WithStumps(s, value1, index1, value2, index2, h) ==
    IF h = 0 THEN s
    ELSE put_stump(put_stump(s, ZeroPath(keep_n_lsb(index1, h), value1)[h], keep_n_lsb(index1, h), value1),
                   ZeroPath(keep_n_lsb(index2, h), value2)[h], keep_n_lsb(index2, h), value2)

LEMMA ForkIs ==
    ASSUME NEW s, NEW value1, NEW index1 \in Nat, NEW value2, NEW index2, NEW h \in 0 .. Depth - 1
    PROVE  fork(s, value1, index1, value2, index2, h + 1) =
              WithPair(WithStumps(s, value1, index1, value2, index2, h),
                       Ordered(index1, h, ZeroPath(keep_n_lsb(index1, h), value1)[h],
                                          ZeroPath(keep_n_lsb(index2, h), value2)[h]))
<1>1. h \in Nat /\ (h + 1) - 1 = h /\ (h + 1 = 1 <=> h = 0)
  BY DepthAssumption
<1>2. CASE h = 0
  <2>1. fork(s, value1, index1, value2, index2, h + 1) = binary_put(s, keep_n_lsb(index1, 1), value1, value2, h + 1)
    BY <1>1, <1>2 DEF fork
  <2>2. fork(s, value1, index1, value2, index2, h + 1) = WithPair(s, Ordered(keep_n_lsb(index1, 1), 0, value1, value2))
    BY <1>1, <1>2, <2>1, BinaryPutIs
  <2>3. BitSet(keep_n_lsb(index1, 1), 0) <=> BitSet(index1, 0)
    <3>1. 1 \in 0 .. Depth /\ 0 \in 0 .. 1 - 1
      BY DepthAssumption
    <3> QED BY <3>1, KeptBit
  <2>4. Ordered(keep_n_lsb(index1, 1), 0, value1, value2) = Ordered(index1, 0, value1, value2)
    BY <2>3 DEF Ordered
  <2>5. ZeroPath(keep_n_lsb(index1, h), value1)[h] = value1 /\ ZeroPath(keep_n_lsb(index2, h), value2)[h] = value2
    BY <1>2, ZeroPathFacts
  <2> QED BY <1>2, <2>2, <2>4, <2>5 DEF WithStumps
<1>3. CASE h # 0
  <2>1. fork(s, value1, index1, value2, index2, h + 1) =
           binary_put(WithStumps(s, value1, index1, value2, index2, h), index1,
                      ZeroPath(keep_n_lsb(index1, h), value1)[h], ZeroPath(keep_n_lsb(index2, h), value2)[h], h + 1)
    BY <1>1, <1>3 DEF fork, WithStumps, compute_zero_path_hash
  <2> QED BY <1>1, <2>1, BinaryPutIs
<1> QED BY <1>2, <1>3

LEMMA WithStumpsOK ==
    ASSUME NEW s, StoreOK(s), NEW value1 \in LeafHashes, NEW index1 \in Nat,
           NEW value2 \in LeafHashes, NEW index2 \in Nat, NEW h \in 0 .. Depth - 1
    PROVE  StoreOK(WithStumps(s, value1, index1, value2, index2, h))
<1>1. CASE h = 0
  BY <1>1 DEF WithStumps
<1>2. CASE h # 0
  <2>1. h \in 1 .. Depth /\ h \in 0 .. Depth
    BY <1>2, DepthAssumption
  <2>2. /\ keep_n_lsb(index1, h) \in 0 .. PowerOf2[h] - 1
        /\ keep_n_lsb(index2, h) \in 0 .. PowerOf2[h] - 1
    BY <2>1, BitFacts
  <2>3. StoreOK(put_stump(s, ZeroPath(keep_n_lsb(index1, h), value1)[h], keep_n_lsb(index1, h), value1))
    BY <2>1, <2>2, PutStumpOK
  <2> QED BY <1>2, <2>1, <2>2, <2>3, PutStumpOK DEF WithStumps
<1> QED BY <1>1, <1>2

LEMMA ForkStumpOK ==
    ASSUME NEW s, StoreOK(s), NEW value1 \in LeafHashes, NEW index1 \in Nat,
           NEW value2 \in LeafHashes, NEW index2 \in Nat,
           NEW height \in 0 .. Depth, NEW c \in 1 .. height
    PROVE  ResultOK(fork_stump(s, value1, index1, value2, index2, height, c), height)
<1>1. height \in Nat /\ c \in 0 .. height /\ height <= Depth
  BY DepthAssumption
<1>2. PICK g : /\ fork_stump(s, value1, index1, value2, index2, height, c) = g[height]
               /\ g[c] = fork(s, value1, index1, value2, index2, c)
               /\ \A h \in c .. height - 1 :
                      g[h + 1] = binary_put(g[h].s, index1, g[h].hash, zero_hashes_[h], h + 1)
  BY <1>1, ForkStumpIs
<1> DEFINE S == {j \in Nat : c + j <= height => ResultOK(g[c + j], c + j)}
<1>3. 0 \in S
  <2>1. PICK h \in 0 .. Depth - 1 : c = h + 1 /\ h \in 0 .. Depth
    <3>1. c - 1 \in 0 .. Depth - 1 /\ c = (c - 1) + 1 /\ c - 1 \in 0 .. Depth
      BY <1>1, DepthAssumption
    <3> QED BY <3>1
  <2>2. PICK a, b : a = ZeroPath(keep_n_lsb(index1, h), value1)[h] /\ b = ZeroPath(keep_n_lsb(index2, h), value2)[h]
    OBVIOUS
  <2>3. Ordered(index1, h, a, b) \in Trees[h + 1]
    BY <2>1, <2>2, ZeroPathsAreTrees, OrderedIsTree
  <2>4. ResultOK(g[c], c)
    BY <1>2, <2>1, <2>2, <2>3, ForkIs, WithStumpsOK, WithPairOK
  <2>5. c + 0 = c
    OBVIOUS
  <2> QED BY <2>4, <2>5
<1>4. ASSUME NEW j \in Nat, j \in S PROVE j + 1 \in S
  <2> SUFFICES ASSUME c + (j + 1) <= height PROVE ResultOK(g[c + (j + 1)], c + (j + 1))
    OBVIOUS
  <2>1. PICK h : h = c + j
    OBVIOUS
  <2>2. h + 1 = c + (j + 1) /\ h \in c .. height - 1 /\ h \in 0 .. Depth - 1 /\ h \in 0 .. Depth /\ h \in Nat /\ c + j <= height
    BY <1>1, <2>1, DepthAssumption
  <2>3. ResultOK(g[h], h)
    BY <1>4, <2>1, <2>2
  <2>4. g[h + 1] = WithPair(g[h].s, Ordered(index1, h, g[h].hash, zero_hashes_[h]))
    BY <1>2, <2>2, BinaryPutIs
  <2>5. StoreOK(g[h].s) /\ g[h].hash \in Trees[h] /\ zero_hashes_[h] \in Trees[h]
    BY <2>2, <2>3, ZerosAreTrees DEF ResultOK
  <2>6. Ordered(index1, h, g[h].hash, zero_hashes_[h]) \in Trees[h + 1]
    BY <2>2, <2>5, OrderedIsTree
  <2>7. ResultOK(g[h + 1], h + 1)
    BY <2>2, <2>4, <2>5, <2>6, WithPairOK
  <2> QED BY <2>2, <2>7
<1> HIDE DEF S
<1>5. height - c \in S
  BY <1>1, <1>3, <1>4, InductionOverSet
<1>6. c + (height - c) = height
  BY <1>1
<1> QED BY <1>1, <1>2, <1>5, <1>6 DEF S

\* A call above a node of two children.
LEMMA UpdateNodeIs ==
    ASSUME NEW s, NEW a, NEW b, NEW right \in BOOLEAN, NEW sub, NEW t, NEW old,
           t = IF right THEN <<a, sub.hash>> ELSE <<sub.hash, b>>,
           old = IF right THEN b ELSE a
    PROVE  update_node(s, <<a, b>>, right, sub) =
              IF old # sub.hash THEN [WithPair(sub.s, t) EXCEPT !.s = AfterDel(@, NodeKey(old))]
                                ELSE WithPair(sub.s, t)
<1>1. PICK pair : pair = [<<a, b>> EXCEPT ![IF right THEN 2 ELSE 1] = sub.hash]
  OBVIOUS
<1>2. pair = t /\ t = <<pair[1], pair[2]>>
  <2>1. CASE right
    BY <1>1, <2>1
  <2>2. CASE ~ right
    BY <1>1, <2>2
  <2> QED BY <2>1, <2>2
<1>3. <<a, b>>[IF right THEN 2 ELSE 1] = old
  OBVIOUS
<1>4. put(sub.s, <<pair[1], pair[2]>>, pair[1], pair[2]) = AfterPut(sub.s, NodeKey(t), t)
  BY <1>2 DEF put
<1>5. PICK kept : kept = AfterPut(sub.s, NodeKey(t), t)
  OBVIOUS
<1>6. update_node(s, <<a, b>>, right, sub) = [s |-> IF old # sub.hash THEN AfterDel(kept, NodeKey(old)) ELSE kept, hash |-> t]
  BY <1>1, <1>2, <1>3, <1>4, <1>5 DEF update_node, hash_pair_native, OldNodeGone, remove
<1> QED BY <1>5, <1>6 DEF WithPair

IsNode(s, t) == Has(s, NodeKey(t)) /\ ~ IsStump(Get(s, NodeKey(t)))

LEMMA RootOK ==
    ASSUME NEW s, StoreOK(s)
    PROVE  root(s) \in Trees[Depth]
<1>1. Has(s, MetaKey) => Get(s, MetaKey)[1] \in Trees[Depth]
  BY GetIsOK, KeyFacts
<1>2. zero_hashes_[Depth] \in Trees[Depth]
  BY ZerosAreTrees, DepthAssumption
<1> QED BY <1>1, <1>2 DEF root

\* A node of two children.
LEMMA ChildrenOfNode ==
    ASSUME NEW s, StoreOK(s), NEW h \in 0 .. Depth - 1, NEW t \in Trees[h + 1], IsNode(s, t)
    PROVE  \E a, b \in Trees[h] : t = <<a, b>> /\ Get(s, NodeKey(t)) = <<a, b>>
<1>1. h + 1 \in 0 .. Depth
  BY DepthAssumption
<1>2. Get(s, NodeKey(t)) = t
  BY <1>1, NodeIs DEF IsNode
<1>3. PICK a, b \in Trees[h] : t = <<a, b>>
  BY TreeFacts
<1> QED BY <1>2, <1>3

\* The way down from a node.
LEMMA WayDown ==
    ASSUME NEW s, StoreOK(s), NEW index, NEW way, way = Way(s, index),
           NEW h \in 0 .. Depth - 1, way[Depth - (h + 1)] \in Trees[h + 1], IsNode(s, way[Depth - (h + 1)])
    PROVE  \E a, b \in Trees[h] :
              /\ way[Depth - (h + 1)] = <<a, b>> /\ Get(s, NodeKey(way[Depth - (h + 1)])) = <<a, b>>
              /\ way[Depth - h] = IF BitSet(index, h) THEN b ELSE a
<1>1. PICK d \in 0 .. Depth - 1 : d = Depth - (h + 1) /\ d + 1 = Depth - h /\ Depth - (d + 1) = h
  <2>1. Depth - (h + 1) \in 0 .. Depth - 1 /\ Depth - (h + 1) + 1 = Depth - h /\ Depth - (Depth - (h + 1) + 1) = h
    BY DepthAssumption
  <2> QED BY <2>1
<1>2. way[d + 1] = Get(s, NodeKey(way[d]))[IF BitSet(index, Depth - (d + 1)) THEN 2 ELSE 1]
  BY WayIs
<1>3. PICK a, b \in Trees[h] : way[d] = <<a, b>> /\ Get(s, NodeKey(way[d])) = <<a, b>>
  BY <1>1, ChildrenOfNode
<1>4. way[d + 1] = IF BitSet(index, h) THEN b ELSE a
  BY <1>1, <1>2, <1>3
<1> QED BY <1>1, <1>3, <1>4

\* What a call does, by what it finds under its key t: nothing or its own stump,
\* the stump of another index, or a node of two children.
CallCases(s, t, value, index, h, sub, r) ==
    \/ /\ ~ Has(s, NodeKey(t)) \/ \E v \in LeafHashes : t = ZeroPath(index, v)[h + 1]
       /\ ~ IsNode(s, t)
       /\ r = [s |-> put_stump(s, ZeroPath(index, value)[h + 1], index, value), hash |-> ZeroPath(index, value)[h + 1]]
    \/ \E i \in 0 .. PowerOf2[h + 1] - 1, v \in LeafHashes :
          /\ t = ZeroPath(i, v)[h + 1] /\ i # index
          /\ r = fork_stump(s, v, i, value, index, h + 1, DifferingBits(i, index))
    \/ IsNode(s, t) /\ \E a, b \in Trees[h] :
          t = <<a, b>> /\ r = update_node(s, <<a, b>>, BitSet(index, h), sub)

LEMMA CallIs ==
    ASSUME NEW s, StoreOK(s), NEW h \in 0 .. Depth - 1, NEW t \in Trees[h + 1],
           NEW value, NEW index, NEW sub, NEW r, r = update_subtree(s, t, value, index, h + 1, sub)
    PROVE  CallCases(s, t, value, index, h, sub, r)
<1> SUFFICES \/ /\ ~ Has(s, NodeKey(t)) \/ \E v \in LeafHashes : t = ZeroPath(index, v)[h + 1]
                /\ ~ IsNode(s, t)
                /\ r = [s |-> put_stump(s, ZeroPath(index, value)[h + 1], index, value), hash |-> ZeroPath(index, value)[h + 1]]
             \/ \E i \in 0 .. PowerOf2[h + 1] - 1, v \in LeafHashes :
                   /\ t = ZeroPath(i, v)[h + 1] /\ i # index
                   /\ r = fork_stump(s, v, i, value, index, h + 1, DifferingBits(i, index))
             \/ IsNode(s, t) /\ \E a, b \in Trees[h] :
                   t = <<a, b>> /\ r = update_node(s, <<a, b>>, BitSet(index, h), sub)
  BY DEF CallCases
<1>1. PICK d : d = Get(s, NodeKey(t))
  OBVIOUS
<1>2. h + 1 \in 0 .. Depth /\ (h + 1) - 1 = h
  BY DepthAssumption
<1>3. CASE ~ Has(s, NodeKey(t))
  BY <1>3 DEF update_subtree, compute_zero_path_hash, IsNode
<1>4. CASE Has(s, NodeKey(t)) /\ IsStump(d)
  <2>1. StumpOf(t, h + 1, d)
    BY <1>1, <1>2, <1>4, NodeIs
  <2>2. PICK i \in 0 .. PowerOf2[h + 1] - 1, v \in LeafHashes : d = <<v, i, TRUE>> /\ t = ZeroPath(i, v)[h + 1]
    BY <2>1 DEF StumpOf
  <2>3. d[1] = v /\ d[2] = i /\ ~ IsNode(s, t)
    BY <1>1, <1>4, <2>2 DEF IsNode
  <2>4. CASE i = index
    BY <1>1, <1>4, <2>2, <2>3, <2>4 DEF update_subtree, compute_zero_path_hash
  <2>5. CASE i # index
    BY <1>1, <1>4, <2>2, <2>3, <2>5 DEF update_subtree
  <2> QED BY <2>4, <2>5
<1>5. CASE Has(s, NodeKey(t)) /\ ~ IsStump(d)
  <2>1. IsNode(s, t)
    BY <1>1, <1>5 DEF IsNode
  <2>2. PICK a, b \in Trees[h] : t = <<a, b>> /\ d = <<a, b>>
    BY <1>1, <2>1, ChildrenOfNode
  <2>3. r = update_node(s, <<a, b>>, BitSet(index, h), sub)
    BY <1>1, <1>2, <1>5, <2>2 DEF update_subtree
  <2> QED BY <2>1, <2>2, <2>3
<1> QED BY <1>3, <1>4, <1>5

LEMMA CallOK ==
    ASSUME NEW s, StoreOK(s), NEW h \in 0 .. Depth - 1, NEW t \in Trees[h + 1],
           NEW value \in LeafHashes, NEW index \in Nat, NEW i, i = keep_n_lsb(index, h + 1),
           NEW sub, IsNode(s, t) => ResultOK(sub, h)
    PROVE  ResultOK(update_subtree(s, t, value, i, h + 1, sub), h + 1)
<1>1. h + 1 \in 1 .. Depth /\ h + 1 \in 0 .. Depth
  BY DepthAssumption
<1>2. i \in 0 .. PowerOf2[h + 1] - 1 /\ i \in Nat
  BY <1>1, BitFacts, KeepInDepth
<1>3. PICK r : r = update_subtree(s, t, value, i, h + 1, sub)
  OBVIOUS
<1>4. CASE r = [s |-> put_stump(s, ZeroPath(i, value)[h + 1], i, value), hash |-> ZeroPath(i, value)[h + 1]]
  <2>1. PICK z : z = ZeroPath(i, value)[h + 1]
    OBVIOUS
  <2>2. z \in Trees[h + 1] /\ StoreOK(put_stump(s, z, i, value))
    BY <1>1, <1>2, <2>1, PutStumpOK
  <2>3. r.s = put_stump(s, z, i, value) /\ r.hash = z
    BY <1>4, <2>1
  <2> QED BY <1>3, <2>2, <2>3 DEF ResultOK
<1>5. ASSUME NEW j \in 0 .. PowerOf2[h + 1] - 1, NEW v \in LeafHashes, j # i,
             r = fork_stump(s, v, j, value, i, h + 1, DifferingBits(j, i))
      PROVE  ResultOK(r, h + 1)
  <2>1. DifferingBits(j, i) \in 1 .. h + 1
    <3>1. PICK c : c = DifferingBits(j, i)
      OBVIOUS
    <3>2. c \in 0 .. h + 1 /\ c # 0
      BY <1>1, <1>2, <1>5, <3>1, Differing
    <3> QED BY <3>1, <3>2
  <2>2. j \in Nat
    BY <1>1, SmallIndex
  <2> QED BY <1>1, <1>2, <1>5, <2>1, <2>2, ForkStumpOK
<1>6. ASSUME IsNode(s, t), NEW a \in Trees[h], NEW b \in Trees[h],
             r = update_node(s, <<a, b>>, BitSet(i, h), sub)
      PROVE  ResultOK(r, h + 1)
  <2>1. PICK new, old : /\ new = IF BitSet(i, h) THEN <<a, sub.hash>> ELSE <<sub.hash, b>>
                        /\ old = IF BitSet(i, h) THEN b ELSE a
    OBVIOUS
  <2>2. BitSet(i, h) \in BOOLEAN
    BY DEF BitSet
  <2>3. r = IF old # sub.hash THEN [WithPair(sub.s, new) EXCEPT !.s = AfterDel(@, NodeKey(old))]
                              ELSE WithPair(sub.s, new)
    BY <1>6, <2>1, <2>2, UpdateNodeIs
  <2>4. StoreOK(sub.s) /\ sub.hash \in Trees[h]
    BY <1>6 DEF ResultOK
  <2>5. new \in Trees[h + 1]
    BY <2>1, <2>4, TreeFacts
  <2>6. ResultOK(WithPair(sub.s, new), h + 1)
    BY <2>4, <2>5, WithPairOK
  <2>7. PICK w : w = WithPair(sub.s, new)
    OBVIOUS
  <2>8. StoreOK(w.s) /\ w.hash \in Trees[h + 1] /\ w = [s |-> w.s, hash |-> w.hash]
    BY <2>6, <2>7 DEF ResultOK, WithPair
  <2>9. [w EXCEPT !.s = AfterDel(@, NodeKey(old))] = [s |-> AfterDel(w.s, NodeKey(old)), hash |-> w.hash]
    BY <2>8
  <2> QED BY <2>3, <2>7, <2>8, <2>9, DelIsOK DEF ResultOK
<1>7. \/ r = [s |-> put_stump(s, ZeroPath(i, value)[h + 1], i, value), hash |-> ZeroPath(i, value)[h + 1]]
      \/ \E j \in 0 .. PowerOf2[h + 1] - 1, v \in LeafHashes :
            j # i /\ r = fork_stump(s, v, j, value, i, h + 1, DifferingBits(j, i))
      \/ IsNode(s, t) /\ \E a, b \in Trees[h] : r = update_node(s, <<a, b>>, BitSet(i, h), sub)
  <2>1. CallCases(s, t, value, i, h, sub, r)
    BY <1>3, CallIs
  <2> QED BY <2>1 DEF CallCases
<1> QED BY <1>3, <1>4, <1>5, <1>6, <1>7

\* An update keeps a store in order, whatever tree it holds.
LEMMA UpdateRootOK ==
    ASSUME NEW s, StoreOK(s), NEW value \in LeafHashes, NEW index \in Nat
    PROVE  ResultOK(update_root(s, value, index), Depth)
<1>1. PICK way : way = Way(s, index)
  OBVIOUS
<1>2. PICK g : /\ update_root(s, value, index) = g[Depth]
               /\ g[0] = [s |-> s, hash |-> value]
               /\ \A h \in 0 .. Depth - 1 :
                     g[h + 1] = update_subtree(s, way[Depth - (h + 1)], value, keep_n_lsb(index, h + 1), h + 1, g[h])
  BY <1>1, UpdateRootIs
<1> DEFINE S == {h \in Nat : h <= Depth => (way[Depth - h] \in Trees[h] => ResultOK(g[h], h))}
<1>3. 0 \in S
  BY <1>2, TreeFacts DEF ResultOK
<1>4. ASSUME NEW h \in Nat, h \in S PROVE h + 1 \in S
  <2> SUFFICES ASSUME h + 1 <= Depth, way[Depth - (h + 1)] \in Trees[h + 1]
               PROVE  ResultOK(g[h + 1], h + 1)
    OBVIOUS
  <2>1. h \in 0 .. Depth - 1
    BY DepthAssumption
  <2>2. ASSUME IsNode(s, way[Depth - (h + 1)]) PROVE ResultOK(g[h], h)
    <3>1. way[Depth - h] \in Trees[h]
      BY <1>1, <2>1, <2>2, WayDown
    <3> QED BY <1>4, <2>1, <3>1, DepthAssumption
  <2> QED BY <1>2, <2>1, <2>2, CallOK
<1> HIDE DEF S
<1>5. Depth \in S
  BY <1>3, <1>4, InductionOverSet, DepthAssumption
<1>6. way[Depth - Depth] \in Trees[Depth]
  <2>1. way[0] = root(s) /\ Depth - Depth = 0
    BY <1>1, WayIs, DepthAssumption
  <2> QED BY <2>1, RootOK
<1> QED BY <1>2, <1>5, <1>6, DepthAssumption DEF S

LEMMA AfterUpdateOK ==
    ASSUME NEW s, StoreOK(s), NEW value \in LeafHashes, NEW index \in Nat
    PROVE  StoreOK(AfterUpdate(s, index, value))
<1>1. PICK p : p = AfterPut(s, LeafKey(index), value)
  OBVIOUS
<1>2. StoreOK(p)
  BY <1>1, PutIsOK, KeyFacts
<1>3. PICK r : r = update_root(p, value, index)
  OBVIOUS
<1>4. StoreOK(r.s) /\ r.hash \in Trees[Depth]
  BY <1>2, <1>3, UpdateRootOK DEF ResultOK
<1>5. EntryOK(MetaKey, <<r.hash, index + 1>>)
  BY <1>4, KeyFacts
<1>6. AfterUpdate(s, index, value) = AfterPut(r.s, MetaKey, <<r.hash, index + 1>>)
  BY <1>1, <1>3 DEF AfterUpdate
<1> QED BY <1>4, <1>5, <1>6, PutIsOK

-----------------------------------------------------------------------------
(***************************************************************************)
(* The layers of a tree, and the first theorem of the Merkle tree.         *)
(***************************************************************************)

\* The places of layer h of a tree of height d, and that above an index.
Places(d, h) == 0 .. PowerOf2[d - h] - 1
Above(index, h) == index \div PowerOf2[h]

LEMMA PlacesBelow ==
    ASSUME NEW d \in 0 .. Depth, NEW h \in 0 .. d - 1, NEW n \in Places(d, h + 1)
    PROVE  n \in Nat /\ 2 * n \in Places(d, h) /\ 2 * n + 1 \in Places(d, h)
<1>1. d - (h + 1) \in 0 .. Depth /\ d - h = (d - (h + 1)) + 1
  BY DepthAssumption
<1>2. PICK p \in Nat \ {0} : p = PowerOf2[d - (h + 1)] /\ PowerOf2[d - h] = 2 * p
  BY <1>1, PowerFacts, DepthAssumption
<1> QED BY <1>2 DEF Places

LEMMA PlaceAbove ==
    ASSUME NEW d \in 0 .. Depth, NEW index \in 0 .. PowerOf2[d] - 1
    PROVE  /\ index \in Nat /\ Above(index, 0) = index /\ Above(index, d) = 0
           /\ \A h \in 0 .. d : Above(index, h) \in Places(d, h)
           /\ \A h \in 0 .. d - 1 : /\ Above(index, h + 1) = Above(index, h) \div 2
                                    /\ BitSet(index, h) <=> Above(index, h) % 2 = 1
<1>1. index \in Nat /\ Above(index, d) = 0
  BY SmallIndex DEF Above
<1>2. Above(index, 0) = index
  BY <1>1, PowerFacts DEF Above
<1>3. ASSUME NEW h \in 0 .. d - 1
      PROVE  /\ Above(index, h + 1) = Above(index, h) \div 2
             /\ BitSet(index, h) <=> Above(index, h) % 2 = 1
  <2>1. h \in 0 .. Depth
    BY DepthAssumption
  <2> QED BY <1>1, <2>1, BitFacts DEF Above
<1> DEFINE S == {h \in Nat : h <= d => Above(index, h) \in Places(d, h)}
<1>4. 0 \in S
  <2>1. d - 0 = d
    BY DepthAssumption
  <2> QED BY <1>2, <2>1 DEF Places
<1>5. ASSUME NEW h \in Nat, h \in S PROVE h + 1 \in S
  <2> SUFFICES ASSUME h + 1 <= d PROVE Above(index, h + 1) \in Places(d, h + 1)
    OBVIOUS
  <2>1. h \in 0 .. d - 1 /\ d - (h + 1) \in 0 .. Depth /\ d - h = (d - (h + 1)) + 1 /\ h <= d
    BY DepthAssumption
  <2>2. PICK p \in Nat \ {0} : p = PowerOf2[d - (h + 1)] /\ PowerOf2[d - h] = 2 * p
    BY <2>1, PowerFacts, DepthAssumption
  <2>3. PICK n \in Nat : n = Above(index, h) /\ n < 2 * p
    BY <1>5, <2>1, <2>2 DEF Places
  <2>4. Above(index, h + 1) = n \div 2
    BY <1>3, <2>1, <2>3
  <2> QED BY <2>2, <2>3, <2>4 DEF Places
<1> HIDE DEF S
<1>6. Nat \subseteq S
  BY <1>4, <1>5, InductionOverSet
<1>7. ASSUME NEW h \in 0 .. d PROVE Above(index, h) \in Places(d, h)
  <2>1. h \in Nat /\ h <= d
    BY DepthAssumption
  <2> QED BY <1>6, <2>1 DEF S
<1> QED BY <1>1, <1>2, <1>3, <1>7

LEMMA LayerFacts ==
    ASSUME NEW d \in 0 .. Depth, NEW lv, NEW L, L = Layers(lv, d)
    PROVE  /\ L[0] = lv
           /\ \A h \in 0 .. d - 1 : \A n \in Places(d, h + 1) : L[h + 1][n] = <<L[h][2 * n], L[h][2 * n + 1]>>
<1>1. PICK g : /\ L = g /\ g[0] = lv
               /\ \A h \in 0 .. d - 1 : g[h + 1] = [n \in 0 .. PowerOf2[d - (h + 1)] - 1 |->
                                                      hash_pair_native(g[h][2 * n], g[h][2 * n + 1])]
  BY LayersAre
<1>2. ASSUME NEW h \in 0 .. d - 1, NEW n \in Places(d, h + 1)
      PROVE  L[h + 1][n] = <<L[h][2 * n], L[h][2 * n + 1]>>
  <2>1. n \in 0 .. PowerOf2[d - (h + 1)] - 1
    BY DEF Places
  <2>2. g[h + 1][n] = hash_pair_native(g[h][2 * n], g[h][2 * n + 1])
    BY <1>1, <2>1
  <2> QED BY <1>1, <2>2 DEF hash_pair_native
<1> QED BY <1>1, <1>2

\* The tree with the one leaf of a stump has the stump's hash.
LEMMA StumpHashIs ==
    ASSUME NEW d \in 0 .. Depth, NEW i \in 0 .. PowerOf2[d] - 1, NEW v, NEW lv,
           lv = [n \in 0 .. PowerOf2[d] - 1 |-> IF n = i THEN v ELSE ZeroLeaf]
    PROVE  TreeHash(lv, d) = ZeroPath(i, v)[d]
<1>1. PICK L, zp : L = Layers(lv, d) /\ zp = ZeroPath(i, v)
  OBVIOUS
<1> DEFINE S == {h \in Nat : h <= d => \A n \in Places(d, h) :
                                L[h][n] = IF n = Above(i, h) THEN zp[h] ELSE zero_hashes_[h]}
<1>2. 0 \in S
  <2>1. d - 0 = d
    BY DepthAssumption
  <2>2. Places(d, 0) = 0 .. PowerOf2[d] - 1
    BY <2>1 DEF Places
  <2>3. L[0] = lv /\ zp[0] = v /\ zero_hashes_[0] = ZeroLeaf /\ Above(i, 0) = i
    BY <1>1, LayerFacts, ZeroPathFacts, ZeroHashFacts, PlaceAbove
  <2>4. ASSUME NEW n \in Places(d, 0) PROVE L[0][n] = IF n = Above(i, 0) THEN zp[0] ELSE zero_hashes_[0]
    <3>1. n \in 0 .. PowerOf2[d] - 1
      BY <2>2
    <3>2. lv[n] = IF n = i THEN v ELSE ZeroLeaf
      BY <3>1
    <3> QED BY <2>3, <3>2
  <2> QED BY <2>4
<1>3. ASSUME NEW h \in Nat, h \in S PROVE h + 1 \in S
  <2> SUFFICES ASSUME h + 1 <= d, NEW n \in Places(d, h + 1)
               PROVE  L[h + 1][n] = IF n = Above(i, h + 1) THEN zp[h + 1] ELSE zero_hashes_[h + 1]
    OBVIOUS
  <2>1. h \in 0 .. d - 1 /\ h \in 0 .. d /\ h \in 0 .. Depth - 1 /\ h <= d
    BY DepthAssumption
  <2>2. n \in Nat /\ 2 * n \in Places(d, h) /\ 2 * n + 1 \in Places(d, h)
    BY <2>1, PlacesBelow
  <2>3. L[h + 1][n] = <<L[h][2 * n], L[h][2 * n + 1]>>
    <3>1. \A k \in 0 .. d - 1 : \A m \in Places(d, k + 1) : L[k + 1][m] = <<L[k][2 * m], L[k][2 * m + 1]>>
      BY <1>1, LayerFacts, SMTT(20)
    <3> QED BY <2>1, <3>1
  <2>4. /\ L[h][2 * n] = IF 2 * n = Above(i, h) THEN zp[h] ELSE zero_hashes_[h]
        /\ L[h][2 * n + 1] = IF 2 * n + 1 = Above(i, h) THEN zp[h] ELSE zero_hashes_[h]
    BY <1>3, <2>1, <2>2
  <2>5. PICK a \in Nat : a = Above(i, h) /\ Above(i, h + 1) = a \div 2 /\ (BitSet(i, h) <=> a % 2 = 1)
    <3>1. Above(i, h) \in Nat
      <4>1. d - h \in 0 .. Depth + 1
        BY <2>1, DepthAssumption
      <4>2. PowerOf2[d - h] \in Nat
        BY <4>1, PowerFacts
      <4>3. Above(i, h) \in Places(d, h)
        BY <2>1, PlaceAbove
      <4> QED BY <4>2, <4>3 DEF Places
    <3>2. Above(i, h + 1) = Above(i, h) \div 2 /\ (BitSet(i, h) <=> Above(i, h) % 2 = 1)
      BY <2>1, PlaceAbove
    <3> QED BY <3>1, <3>2
  <2>6. zp[h + 1] = Ordered(i, h, zp[h], zero_hashes_[h]) /\ zero_hashes_[h + 1] = <<zero_hashes_[h], zero_hashes_[h]>>
    BY <1>1, <2>1, ZeroPathFacts, ZeroHashFacts
  <2>7. CASE a = 2 * n
    <3>1. a % 2 # 1 /\ a \div 2 = n /\ 2 * n + 1 # a
      BY <2>2, <2>7
    <3> QED BY <2>3, <2>4, <2>5, <2>6, <2>7, <3>1 DEF Ordered
  <2>8. CASE a = 2 * n + 1
    <3>1. a % 2 = 1 /\ a \div 2 = n /\ 2 * n # a
      BY <2>2, <2>8
    <3> QED BY <2>3, <2>4, <2>5, <2>6, <2>8, <3>1 DEF Ordered
  <2>9. CASE a # 2 * n /\ a # 2 * n + 1
    <3>1. a \div 2 # n
      BY <2>2, <2>5, <2>9
    <3> QED BY <2>3, <2>4, <2>5, <2>6, <2>9, <3>1
  <2> QED BY <2>7, <2>8, <2>9
<1> HIDE DEF S
<1>4. d \in S
  BY <1>2, <1>3, InductionOverSet, DepthAssumption
<1>5. Above(i, d) = 0 /\ 0 \in Places(d, d)
  <2>1. d - d = 0
    BY DepthAssumption
  <2> QED BY <2>1, PlaceAbove, PowerFacts DEF Places
<1>6. L[d][0] = zp[d]
  BY <1>4, <1>5, DepthAssumption DEF S
<1> QED BY <1>1, <1>6 DEF TreeHash

LEMMA EmptyStoreOK == StoreOK(EmptyStore)
BY DEF StoreOK, EmptyStore, EmptyMap, IsStore, MapOK

LEMMA CommitOK ==
    ASSUME NEW s, StoreOK(s)
    PROVE  StoreOK(AfterCommit(s))
<1>1. PICK f : f = [k \in (DOMAIN s.store \cup DOMAIN s.puts) \ s.deletes |->
                       IF k \in DOMAIN s.store THEN s.store[k] ELSE s.puts[k]]
  OBVIOUS
<1>2. AfterCommit(s) = [store |-> f, puts |-> EmptyMap, deletes |-> {}]
  BY <1>1 DEF AfterCommit
<1>3. MapOK(f)
  BY <1>1 DEF MapOK, StoreOK
<1> QED BY <1>2, <1>3 DEF StoreOK, EmptyMap, IsStore, MapOK

LEMMA RollbackOK ==
    ASSUME NEW s, StoreOK(s)
    PROVE  StoreOK(AfterRollback(s))
<1>1. PICK e : e = EmptyMap
  OBVIOUS
<1>2. PICK t : t = AfterRollback(s)
  OBVIOUS
<1>3. IsStore(s)
  BY DEF StoreOK
<1>4. t = [s EXCEPT !.puts = e, !.deletes = {}]
  BY <1>1, <1>2 DEF AfterRollback
<1>5. t.store = s.store /\ t.puts = e /\ IsStore(t)
  BY <1>3, <1>4 DEF IsStore
<1>6. MapOK(EmptyMap)
  BY DEF MapOK, EmptyMap
<1> QED BY <1>1, <1>2, <1>5, <1>6 DEF StoreOK

LEMMA OKIsAuthentic ==
    ASSUME NEW s, StoreOK(s)
    PROVE  Authentic(s)
<1> SUFFICES ASSUME NEW key, key[1] = "node", Has(s, key), NEW data, data = Get(s, key)
             PROVE  IF IsStump(data) THEN \E h \in 1 .. Depth : StumpHash(data, h) = key[2]
                                     ELSE hash_pair_native(data[1], data[2]) = key[2]
  BY DEF Authentic
<1>1. EntryOK(key, data)
  BY GetIsOK
<1>2. PICK h, t : h \in 1 .. Depth /\ t = key[2] /\ t \in Trees[h] /\ (data = t \/ StumpOf(t, h, data))
  BY <1>1 DEF EntryOK
<1>3. CASE StumpOf(t, h, data)
  <2>1. PICK i \in 0 .. PowerOf2[h] - 1, v \in LeafHashes : data = <<v, i, TRUE>> /\ t = ZeroPath(i, v)[h]
    BY <1>3 DEF StumpOf
  <2>2. h \in 0 .. Depth /\ data[1] = v /\ data[2] = i /\ IsStump(data)
    BY <1>2, <2>1, DepthAssumption DEF IsStump
  <2>3. PICK lv : lv = [n \in 0 .. PowerOf2[h] - 1 |-> IF n = i THEN v ELSE ZeroLeaf]
    OBVIOUS
  <2>4. StumpHash(data, h) = TreeHash(lv, h)
    BY <2>2, <2>3 DEF StumpHash
  <2> QED BY <1>2, <2>1, <2>2, <2>3, <2>4, StumpHashIs
<1>4. CASE data = t
  <2>1. h - 1 \in 0 .. Depth - 1 /\ h = (h - 1) + 1
    BY <1>2, DepthAssumption
  <2>2. PICK a, b : t = <<a, b>>
    BY <1>2, <2>1, TreeFacts
  <2>3. Len(<<a, b>>) = 2
    OBVIOUS
  <2> QED BY <1>2, <1>4, <2>2, <2>3 DEF IsStump, hash_pair_native
<1> QED BY <1>2, <1>3, <1>4

TreeOK == StoreOK(db)

\* Each node found under a hash has that hash, whatever is committed, and
\* however often.
THEOREM NodesAreAuthentic == MerkleSpec => []NodesAuthentic
<1>1. MerkleInit => TreeOK
  BY EmptyStoreOK DEF MerkleInit, TreeOK
<1>2. TreeOK /\ [MerkleNext]_treeVars => TreeOK'
  <2> SUFFICES ASSUME TreeOK, [MerkleNext]_treeVars PROVE TreeOK'
    OBVIOUS
  <2>1. ASSUME NEW u \in Updates, update_element(u[1], u[2]) PROVE TreeOK'
    <3>1. u[1] \in Nat /\ Leaf(u[2]) \in LeafHashes
      <4>1. u[1] \in 0 .. PowerOf2[Depth] - 1
        BY MerkleAssumption DEF Indices
      <4>2. PowerOf2[Depth] \in Nat
        BY PowerFacts, DepthAssumption
      <4> QED BY <4>1, <4>2 DEF LeafHashes
    <3> QED BY <2>1, <3>1, AfterUpdateOK DEF update_element, TreeOK
  <2>2. CASE Commit
    BY <2>2, CommitOK DEF Commit, TreeOK
  <2>3. CASE Rollback
    BY <2>3, RollbackOK DEF Rollback, TreeOK
  <2>4. CASE UNCHANGED treeVars
    BY <2>4 DEF treeVars, TreeOK
  <2> QED BY <2>1, <2>2, <2>3, <2>4 DEF MerkleNext
<1>3. TreeOK => NodesAuthentic
  BY OKIsAuthentic, RollbackOK DEF NodesAuthentic, TreeOK
<1> QED BY <1>1, <1>2, <1>3, PTL DEF MerkleSpec

-----------------------------------------------------------------------------
(***************************************************************************)
(* The tree on the way to an index and beside it, before and after a write.*)
(***************************************************************************)

\* The leaves after a write.
Overwrite(lv, index, value) == [lv EXCEPT ![index] = value]

Beside(n) == IF n % 2 = 0 THEN n + 1 ELSE n - 1

\* No two indices have the same leaf, but that of a leaf never written.
LeavesDiffer(lv) == \A i, j \in Indices : i # j /\ lv[i] = lv[j] => lv[i] = ZeroLeaf

LEMMA LayerIsPairs ==
    ASSUME NEW lv, NEW L, L = Layers(lv, Depth), NEW h \in 0 .. Depth - 1, NEW n \in Places(Depth, h + 1)
    PROVE  /\ n \in Nat /\ 2 * n \in Places(Depth, h) /\ 2 * n + 1 \in Places(Depth, h)
           /\ L[h + 1][n] = <<L[h][2 * n], L[h][2 * n + 1]>>
<1>1. Depth \in 0 .. Depth
  BY DepthAssumption
<1>2. \A k \in 0 .. Depth - 1 : \A m \in Places(Depth, k + 1) : L[k + 1][m] = <<L[k][2 * m], L[k][2 * m + 1]>>
  BY <1>1, LayerFacts
<1>3. n \in Nat /\ 2 * n \in Places(Depth, h) /\ 2 * n + 1 \in Places(Depth, h)
  BY <1>1, PlacesBelow
<1> QED BY <1>2, <1>3

LEMMA LeavesAreLayer ==
    ASSUME NEW lv, NEW L, L = Layers(lv, Depth)
    PROVE  L[0] = lv /\ Places(Depth, 0) = Indices /\ Places(Depth, Depth) = {0}
<1>1. Depth \in 0 .. Depth /\ Depth - 0 = Depth /\ Depth - Depth = 0
  BY DepthAssumption
<1>2. L[0] = lv
  BY <1>1, LayerFacts
<1>3. 0 .. 1 - 1 = {0}
  OBVIOUS
<1> QED BY <1>1, <1>2, <1>3, PowerFacts DEF Places, Indices

LEMMA LayersAreTrees ==
    ASSUME NEW lv \in [Indices -> LeafHashes], NEW L, L = Layers(lv, Depth)
    PROVE  \A h \in 0 .. Depth : \A n \in Places(Depth, h) : L[h][n] \in Trees[h]
<1> DEFINE S == {h \in Nat : h <= Depth => \A n \in Places(Depth, h) : L[h][n] \in Trees[h]}
<1>1. 0 \in S
  BY LeavesAreLayer, TreeFacts
<1>2. ASSUME NEW h \in Nat, h \in S PROVE h + 1 \in S
  <2> SUFFICES ASSUME h + 1 <= Depth, NEW n \in Places(Depth, h + 1) PROVE L[h + 1][n] \in Trees[h + 1]
    OBVIOUS
  <2>1. h \in 0 .. Depth - 1
    BY DepthAssumption
  <2>2. /\ 2 * n \in Places(Depth, h) /\ 2 * n + 1 \in Places(Depth, h)
        /\ L[h + 1][n] = <<L[h][2 * n], L[h][2 * n + 1]>>
    BY <2>1, LayerIsPairs
  <2>3. L[h][2 * n] \in Trees[h] /\ L[h][2 * n + 1] \in Trees[h]
    BY <1>2, <2>1, <2>2, DepthAssumption
  <2> QED BY <2>1, <2>2, <2>3, TreeFacts
<1> HIDE DEF S
<1>3. Nat \subseteq S
  BY <1>1, <1>2, InductionOverSet
<1>4. ASSUME NEW h \in 0 .. Depth PROVE h \in Nat /\ h <= Depth /\ h \in S
  BY <1>3, DepthAssumption
<1> QED BY <1>4 DEF S

\* The two siblings at each height on the way from an index.
LEMMA SiblingsOnWay ==
    ASSUME NEW lv, NEW L, L = Layers(lv, Depth), NEW index \in Indices, NEW h \in 0 .. Depth - 1,
           NEW a, a = Above(index, h)
    PROVE  /\ a \in Places(Depth, h) /\ a \in Nat
           /\ Beside(a) \in Places(Depth, h) /\ Beside(a) \in Nat /\ Beside(a) # a
           /\ Above(index, h + 1) \in Places(Depth, h + 1)
           /\ Above(index, h + 1) = a \div 2
           /\ L[h + 1][Above(index, h + 1)] = Ordered(index, h, L[h][a], L[h][Beside(a)])
<1>1. Depth \in 0 .. Depth /\ index \in 0 .. PowerOf2[Depth] - 1 /\ h \in 0 .. Depth /\ h + 1 \in 0 .. Depth
  BY DepthAssumption DEF Indices
<1>2. \A k \in 0 .. Depth : Above(index, k) \in Places(Depth, k)
  BY <1>1, PlaceAbove
<1>3. \A k \in 0 .. Depth - 1 : /\ Above(index, k + 1) = Above(index, k) \div 2
                                /\ BitSet(index, k) <=> Above(index, k) % 2 = 1
  BY <1>1, PlaceAbove
<1>4. PICK b : b = Above(index, h + 1)
  OBVIOUS
<1>5. b \in Places(Depth, h + 1) /\ b = a \div 2 /\ (BitSet(index, h) <=> a % 2 = 1)
  BY <1>1, <1>2, <1>3, <1>4
<1>6. /\ b \in Nat /\ 2 * b \in Places(Depth, h) /\ 2 * b + 1 \in Places(Depth, h)
      /\ L[h + 1][b] = <<L[h][2 * b], L[h][2 * b + 1]>>
  BY <1>5, LayerIsPairs
<1>7. a \in Places(Depth, h) /\ a \in Nat
  <2>1. Depth - h \in 0 .. Depth + 1
    BY <1>1, DepthAssumption
  <2>2. PowerOf2[Depth - h] \in Nat
    BY <2>1, PowerFacts
  <2>3. a \in Places(Depth, h)
    BY <1>1, <1>2
  <2> QED BY <2>2, <2>3 DEF Places
<1>8. CASE a % 2 = 1
  <2>1. a = 2 * b + 1 /\ a % 2 # 0
    BY <1>5, <1>6, <1>7, <1>8
  <2>2. Beside(a) = 2 * b
    BY <1>6, <2>1 DEF Beside
  <2>3. Ordered(index, h, L[h][a], L[h][Beside(a)]) = <<L[h][2 * b], L[h][2 * b + 1]>>
    BY <1>5, <1>8, <2>1, <2>2 DEF Ordered
  <2> QED BY <1>4, <1>5, <1>6, <1>7, <2>1, <2>2, <2>3
<1>9. CASE a % 2 # 1
  <2>1. a = 2 * b /\ a % 2 = 0
    <3>1. b = a \div 2
      BY <1>5
    <3> QED BY <1>7, <1>9, <3>1
  <2>2. Beside(a) = 2 * b + 1
    BY <1>6, <2>1 DEF Beside
  <2>3. Ordered(index, h, L[h][a], L[h][Beside(a)]) = <<L[h][2 * b], L[h][2 * b + 1]>>
    BY <1>5, <1>9, <2>1, <2>2 DEF Ordered
  <2> QED BY <1>4, <1>5, <1>6, <1>7, <2>1, <2>2, <2>3
<1> QED BY <1>8, <1>9

\* The children of a place off the way are off the way.
LEMMA OffTheWay ==
    ASSUME NEW index \in Indices, NEW h \in 0 .. Depth - 1, NEW n \in Places(Depth, h + 1), n # Above(index, h + 1)
    PROVE  2 * n # Above(index, h) /\ 2 * n + 1 # Above(index, h)
<1>1. Depth \in 0 .. Depth /\ index \in 0 .. PowerOf2[Depth] - 1
  BY DepthAssumption DEF Indices
<1>2. \A k \in 0 .. Depth - 1 : Above(index, k + 1) = Above(index, k) \div 2
  BY <1>1, PlaceAbove
<1>3. n \in Nat
  BY <1>1, PlacesBelow
<1>4. (2 * n) \div 2 = n /\ (2 * n + 1) \div 2 = n
  BY <1>3
<1> QED BY <1>2, <1>4

\* A write changes the hashes on its way only.
LEMMA RestUnchanged ==
    ASSUME NEW lv, DOMAIN lv = Indices, NEW index \in Indices, NEW value,
           NEW L, L = Layers(lv, Depth), NEW M, M = Layers(Overwrite(lv, index, value), Depth)
    PROVE  /\ M[0][index] = value
           /\ \A h \in 0 .. Depth : \A n \in Places(Depth, h) : n # Above(index, h) => M[h][n] = L[h][n]
<1>1. L[0] = lv /\ M[0] = Overwrite(lv, index, value) /\ Places(Depth, 0) = Indices
  BY LeavesAreLayer
<1> DEFINE Same(h) == \A n \in Places(Depth, h) : n # Above(index, h) => M[h][n] = L[h][n]
           S == {h \in Nat : h <= Depth => Same(h)}
<1>2. Above(index, 0) = index
  <2>1. Depth \in 0 .. Depth /\ index \in 0 .. PowerOf2[Depth] - 1
    BY DepthAssumption DEF Indices
  <2> QED BY <2>1, PlaceAbove
<1>9. M[0][index] = value /\ \A i \in Indices : i # index => M[0][i] = lv[i]
  BY <1>1 DEF Overwrite
<1>3. 0 \in S
  BY <1>1, <1>2, <1>9
<1>4. ASSUME NEW h \in Nat, h \in S PROVE h + 1 \in S
  <2> SUFFICES ASSUME h + 1 <= Depth PROVE Same(h + 1)
    <3> HIDE DEF Same
    <3> QED OBVIOUS
  <2> SUFFICES ASSUME NEW n \in Places(Depth, h + 1), n # Above(index, h + 1)
               PROVE  M[h + 1][n] = L[h + 1][n]
    OBVIOUS
  <2>1. h \in 0 .. Depth - 1 /\ h <= Depth
    BY DepthAssumption
  <2>2. /\ 2 * n \in Places(Depth, h) /\ 2 * n + 1 \in Places(Depth, h)
        /\ L[h + 1][n] = <<L[h][2 * n], L[h][2 * n + 1]>>
    BY <2>1, LayerIsPairs
  <2>3. M[h + 1][n] = <<M[h][2 * n], M[h][2 * n + 1]>>
    BY <2>1, LayerIsPairs
  <2>4. 2 * n # Above(index, h) /\ 2 * n + 1 # Above(index, h)
    BY <2>1, OffTheWay
  <2>5. M[h][2 * n] = L[h][2 * n] /\ M[h][2 * n + 1] = L[h][2 * n + 1]
    BY <1>4, <2>1, <2>2, <2>4
  <2> QED BY <2>2, <2>3, <2>5
<1> HIDE DEF S
<1>5. Nat \subseteq S
  BY <1>3, <1>4, InductionOverSet
<1>6. ASSUME NEW h \in 0 .. Depth PROVE h \in Nat /\ h <= Depth /\ h \in S
  BY <1>5, DepthAssumption
<1> QED BY <1>9, <1>6 DEF S

\* Equal trees at two places of a layer are empty.
LEMMA EqualTreesAreEmpty ==
    ASSUME NEW lv, LeavesDiffer(lv), NEW L, L = Layers(lv, Depth),
           NEW h \in 0 .. Depth, NEW n \in Places(Depth, h), NEW m \in Places(Depth, h), n # m, L[h][n] = L[h][m]
    PROVE  L[h][n] = zero_hashes_[h]
<1> DEFINE Empty(k) == \A i, j \in Places(Depth, k) : i # j /\ L[k][i] = L[k][j] => L[k][i] = zero_hashes_[k]
           S == {k \in Nat : k <= Depth => Empty(k)}
<1>1. 0 \in S
  BY LeavesAreLayer, ZeroHashFacts DEF LeavesDiffer
<1>2. ASSUME NEW k \in Nat, k \in S PROVE k + 1 \in S
  <2> SUFFICES ASSUME k + 1 <= Depth, NEW i \in Places(Depth, k + 1), NEW j \in Places(Depth, k + 1),
                      i # j, L[k + 1][i] = L[k + 1][j]
               PROVE  L[k + 1][i] = zero_hashes_[k + 1]
    OBVIOUS
  <2>1. k \in 0 .. Depth - 1 /\ k <= Depth
    BY DepthAssumption
  <2>2. /\ i \in Nat /\ 2 * i \in Places(Depth, k) /\ 2 * i + 1 \in Places(Depth, k)
        /\ L[k + 1][i] = <<L[k][2 * i], L[k][2 * i + 1]>>
    BY <2>1, LayerIsPairs
  <2>3. /\ j \in Nat /\ 2 * j \in Places(Depth, k) /\ 2 * j + 1 \in Places(Depth, k)
        /\ L[k + 1][j] = <<L[k][2 * j], L[k][2 * j + 1]>>
    BY <2>1, LayerIsPairs
  <2>4. L[k][2 * i] = L[k][2 * j] /\ L[k][2 * i + 1] = L[k][2 * j + 1]
    <3>1. PICK a, b, c, d : a = L[k][2 * i] /\ b = L[k][2 * i + 1] /\ c = L[k][2 * j] /\ d = L[k][2 * j + 1]
      OBVIOUS
    <3>2. <<a, b>> = <<c, d>>
      BY <2>2, <2>3, <3>1
    <3> QED BY <3>1, <3>2
  <2>5. 2 * i # 2 * j /\ 2 * i + 1 # 2 * j + 1
    BY <2>2, <2>3
  <2>6. L[k][2 * i] = zero_hashes_[k] /\ L[k][2 * i + 1] = zero_hashes_[k]
    BY <1>2, <2>1, <2>2, <2>3, <2>4, <2>5
  <2> QED BY <2>1, <2>2, <2>6, ZeroHashFacts
<1> HIDE DEF S
<1>3. Nat \subseteq S
  BY <1>1, <1>2, InductionOverSet
<1>4. h \in Nat /\ h <= Depth /\ h \in S
  BY <1>3, DepthAssumption
<1> QED BY <1>4 DEF S

LEMMA EmptyBelow ==
    ASSUME NEW lv, NEW L, L = Layers(lv, Depth), NEW h \in 0 .. Depth - 1, NEW n \in Places(Depth, h + 1),
           L[h + 1][n] = zero_hashes_[h + 1]
    PROVE  L[h][2 * n] = zero_hashes_[h] /\ L[h][2 * n + 1] = zero_hashes_[h]
<1>1. L[h + 1][n] = <<L[h][2 * n], L[h][2 * n + 1]>>
  BY LayerIsPairs
<1>2. zero_hashes_[h + 1] = <<zero_hashes_[h], zero_hashes_[h]>>
  BY ZeroHashFacts
<1>3. PICK a, b, z : a = L[h][2 * n] /\ b = L[h][2 * n + 1] /\ z = zero_hashes_[h]
  OBVIOUS
<1>4. <<a, b>> = <<z, z>>
  BY <1>1, <1>2, <1>3
<1> QED BY <1>3, <1>4

\* Bits that are not used do not count.
LEMMA ZeroPathLow ==
    ASSUME NEW x \in Nat, NEW n \in 0 .. Depth, NEW v
    PROVE  \A g \in 0 .. n : ZeroPath(keep_n_lsb(x, n), v)[g] = ZeroPath(x, v)[g]
<1>1. PICK a, b, y : a = ZeroPath(x, v) /\ b = ZeroPath(y, v) /\ y = keep_n_lsb(x, n)
  OBVIOUS
<1> DEFINE S == {g \in Nat : g <= n => b[g] = a[g]}
<1>2. 0 \in S
  BY <1>1, ZeroPathFacts
<1>3. ASSUME NEW g \in Nat, g \in S PROVE g + 1 \in S
  <2> SUFFICES ASSUME g + 1 <= n PROVE b[g + 1] = a[g + 1]
    OBVIOUS
  <2>1. g \in 0 .. n - 1 /\ g \in 0 .. Depth - 1 /\ b[g] = a[g]
    BY <1>3, DepthAssumption
  <2>2. a[g + 1] = Ordered(x, g, a[g], zero_hashes_[g]) /\ b[g + 1] = Ordered(y, g, b[g], zero_hashes_[g])
    BY <1>1, <2>1, ZeroPathFacts
  <2>3. BitSet(y, g) <=> BitSet(x, g)
    BY <1>1, <2>1, KeptBit
  <2> QED BY <2>1, <2>2, <2>3 DEF Ordered
<1> HIDE DEF S
<1>4. Nat \subseteq S
  BY <1>2, <1>3, InductionOverSet
<1>5. ASSUME NEW g \in 0 .. n PROVE b[g] = a[g]
  <2>1. g \in Nat /\ g <= n /\ g \in S
    BY <1>4, DepthAssumption
  <2> QED BY <2>1 DEF S
<1> QED BY <1>1, <1>5

LEMMA ZeroPathOfZero == \A e : \A h \in 0 .. Depth : ZeroPath(e, ZeroLeaf)[h] = zero_hashes_[h]
<1> SUFFICES ASSUME NEW e PROVE \A h \in 0 .. Depth : ZeroPath(e, ZeroLeaf)[h] = zero_hashes_[h]
  OBVIOUS
<1>1. PICK a : a = ZeroPath(e, ZeroLeaf)
  OBVIOUS
<1> DEFINE S == {h \in Nat : h <= Depth => a[h] = zero_hashes_[h]}
<1>2. 0 \in S
  BY <1>1, ZeroPathFacts, ZeroHashFacts
<1>3. ASSUME NEW h \in Nat, h \in S PROVE h + 1 \in S
  <2> SUFFICES ASSUME h + 1 <= Depth PROVE a[h + 1] = zero_hashes_[h + 1]
    OBVIOUS
  <2>1. h \in 0 .. Depth - 1 /\ a[h] = zero_hashes_[h]
    BY <1>3, DepthAssumption
  <2>2. a[h + 1] = Ordered(e, h, a[h], zero_hashes_[h]) /\ zero_hashes_[h + 1] = <<zero_hashes_[h], zero_hashes_[h]>>
    BY <1>1, <2>1, ZeroPathFacts, ZeroHashFacts
  <2> QED BY <2>1, <2>2 DEF Ordered
<1> HIDE DEF S
<1>4. Nat \subseteq S
  BY <1>2, <1>3, InductionOverSet
<1>5. ASSUME NEW h \in 0 .. Depth PROVE h \in Nat /\ h <= Depth /\ h \in S
  BY <1>4, DepthAssumption
<1> QED BY <1>1, <1>5 DEF S

LEMMA OrderedIsInjective ==
    ASSUME NEW i, NEW j, NEW h, NEW a, NEW b, NEW c, NEW d, Ordered(i, h, a, b) = Ordered(j, h, c, d)
    PROVE  IF BitSet(i, h) <=> BitSet(j, h) THEN a = c /\ b = d ELSE a = d /\ b = c
BY DEF Ordered

\* Below a hash that is the zero path of e, on the way to index: the zero path up
\* from the height at which e and index part, empty trees below and beside.
LEMMA StumpOnWay ==
    ASSUME NEW lv, NEW L, L = Layers(lv, Depth), NEW index \in Indices, NEW h \in 0 .. Depth,
           NEW e \in 0 .. PowerOf2[h] - 1, NEW v, NEW zp, zp = ZeroPath(e, v),
           L[h][Above(index, h)] = zp[h], NEW c, c = DifferingBits(e, keep_n_lsb(index, h))
    PROVE  /\ c \in 0 .. h
           /\ \A g \in 0 .. h : L[g][Above(index, g)] = IF g < c THEN zero_hashes_[g] ELSE zp[g]
           /\ \A g \in 0 .. h - 1 : L[g][Beside(Above(index, g))] = IF g + 1 = c THEN zp[g] ELSE zero_hashes_[g]
<1>1. h \in Nat /\ h <= Depth /\ index \in Nat
  <2>1. PowerOf2[Depth] \in Nat
    BY PowerFacts, DepthAssumption
  <2> QED BY <2>1, DepthAssumption DEF Indices
<1>2. PICK y : y = keep_n_lsb(index, h) /\ y \in 0 .. PowerOf2[h] - 1
  BY <1>1, BitFacts
<1>3. c \in 0 .. h /\ c \in Nat
  BY <1>2, Differing
<1>4. /\ \A i \in c .. Depth : BitSet(e, i) <=> BitSet(y, i)
      /\ c # 0 => (BitSet(e, c - 1) <=> ~ BitSet(y, c - 1))
  BY <1>2, Differing
<1>5. \A g \in 0 .. h - 1 : BitSet(y, g) <=> BitSet(index, g)
  BY <1>1, <1>2, KeptBit
<1> DEFINE Right(g) == L[g][Above(index, g)] = IF g < c THEN zero_hashes_[g] ELSE zp[g]
           Beyond(g) == L[g][Beside(Above(index, g))] = IF g + 1 = c THEN zp[g] ELSE zero_hashes_[g]
<1>6. ASSUME NEW g \in 0 .. h - 1, Right(g + 1) PROVE Right(g) /\ Beyond(g)
  <2>1. g \in 0 .. Depth - 1 /\ g \in Nat
    BY <1>1, DepthAssumption
  <2>2. PICK a, b : a = L[g][Above(index, g)] /\ b = L[g][Beside(Above(index, g))]
    OBVIOUS
  <2>3. L[g + 1][Above(index, g + 1)] = Ordered(index, g, a, b)
    BY <2>1, <2>2, SiblingsOnWay
  <2>4. zp[g + 1] = Ordered(e, g, zp[g], zero_hashes_[g]) /\ zero_hashes_[g + 1] = <<zero_hashes_[g], zero_hashes_[g]>>
    BY <2>1, ZeroPathFacts, ZeroHashFacts
  <2>5. PICK z, p : z = zero_hashes_[g] /\ p = zp[g]
    OBVIOUS
  <2>6. CASE g + 1 < c
    <3>1. Ordered(index, g, a, b) = <<z, z>>
      BY <1>6, <2>3, <2>4, <2>5, <2>6
    <3>2. a = z /\ b = z
      BY <3>1 DEF Ordered
    <3>3. g < c /\ g + 1 # c
      BY <1>3, <2>1, <2>6
    <3> QED BY <2>2, <2>5, <3>2, <3>3
  <2>7. CASE g + 1 = c
    <3>1. Ordered(index, g, a, b) = Ordered(e, g, p, z)
      BY <1>6, <2>3, <2>4, <2>5, <2>7
    <3>2. c - 1 = g /\ c # 0 /\ g < c
      BY <1>3, <2>1, <2>7
    <3>3. BitSet(e, g) <=> ~ BitSet(index, g)
      BY <1>4, <1>5, <3>2
    <3>4. a = z /\ b = p
      BY <3>1, <3>3, OrderedIsInjective
    <3> QED BY <2>2, <2>5, <2>7, <3>2, <3>4
  <2>8. CASE g + 1 > c
    <3>1. Ordered(index, g, a, b) = Ordered(e, g, p, z)
      <4>1. ~ (g + 1 < c)
        BY <1>3, <2>1, <2>8
      <4> QED BY <1>6, <2>3, <2>4, <2>5, <4>1
    <3>2. g \in c .. Depth /\ ~ (g < c) /\ g + 1 # c
      BY <1>1, <1>3, <2>1, <2>8, DepthAssumption
    <3>3. BitSet(e, g) <=> BitSet(index, g)
      BY <1>4, <1>5, <3>2
    <3>4. a = p /\ b = z
      BY <3>1, <3>3, OrderedIsInjective
    <3> QED BY <2>2, <2>5, <3>2, <3>4
  <2>9. g + 1 < c \/ g + 1 = c \/ g + 1 > c
    BY <1>3, <2>1
  <2> QED BY <2>6, <2>7, <2>8, <2>9
<1>7. Right(h)
  <2>1. ~ (h < c)
    BY <1>1, <1>3
  <2> QED BY <2>1
<1> HIDE DEF Right, Beyond
<1> DEFINE S == {j \in Nat : j <= h => Right(h - j)}
<1>8. \A g \in 0 .. h : Right(g)
  <2>1. 0 \in S
    BY <1>1, <1>7
  <2>2. ASSUME NEW j \in Nat, j \in S PROVE j + 1 \in S
    <3> SUFFICES ASSUME j + 1 <= h PROVE Right(h - (j + 1))
      OBVIOUS
    <3>1. PICK g : g = h - (j + 1)
      OBVIOUS
    <3>2. g \in 0 .. h - 1 /\ g + 1 = h - j /\ j <= h
      BY <1>1, <3>1
    <3> QED BY <1>6, <2>2, <3>1, <3>2
  <2> HIDE DEF S
  <2>3. Nat \subseteq S
    BY <2>1, <2>2, InductionOverSet
  <2>4. ASSUME NEW g \in 0 .. h PROVE Right(g)
    <3>1. h - g \in Nat /\ h - g <= h /\ h - (h - g) = g
      BY <1>1
    <3>2. h - g \in S
      BY <2>3, <3>1
    <3>3. Right(h - (h - g))
      BY <3>1, <3>2 DEF S
    <3> QED BY <3>1, <3>3
  <2> QED BY <2>4
<1>9. ASSUME NEW g \in 0 .. h - 1 PROVE Beyond(g)
  <2>1. g + 1 \in 0 .. h
    BY <1>1
  <2> QED BY <1>6, <1>8, <2>1
<1> QED BY <1>3, <1>8, <1>9 DEF Right, Beyond

\* Where only empty trees are beside the way, a write makes its zero path.
LEMMA WriteOnWay ==
    ASSUME NEW lv \in [Indices -> LeafHashes], NEW index \in Indices, NEW value,
           NEW L, L = Layers(lv, Depth), NEW M, M = Layers(Overwrite(lv, index, value), Depth),
           NEW h \in 0 .. Depth, \A g \in 0 .. h - 1 : L[g][Beside(Above(index, g))] = zero_hashes_[g]
    PROVE  \A g \in 0 .. h : M[g][Above(index, g)] = ZeroPath(index, value)[g]
<1>1. h \in Nat /\ h <= Depth
  BY DepthAssumption
<1>2. PICK zp : zp = ZeroPath(index, value)
  OBVIOUS
<1>7. M[0][index] = value
  BY RestUnchanged
<1>8. \A k \in 0 .. Depth : \A n \in Places(Depth, k) : n # Above(index, k) => M[k][n] = L[k][n]
  BY RestUnchanged
<1> DEFINE S == {g \in Nat : g <= h => M[g][Above(index, g)] = zp[g]}
<1>3. 0 \in S
  <2>1. Above(index, 0) = index
    <3>1. Depth \in 0 .. Depth /\ index \in 0 .. PowerOf2[Depth] - 1
      BY DepthAssumption DEF Indices
    <3> QED BY <3>1, PlaceAbove
  <2>2. M[0][index] = value /\ zp[0] = value
    BY <1>2, <1>7, ZeroPathFacts
  <2> QED BY <2>1, <2>2
<1>4. ASSUME NEW g \in Nat, g \in S PROVE g + 1 \in S
  <2> SUFFICES ASSUME g + 1 <= h PROVE M[g + 1][Above(index, g + 1)] = zp[g + 1]
    OBVIOUS
  <2>1. g \in 0 .. h - 1 /\ g \in 0 .. Depth - 1 /\ g \in 0 .. Depth
    BY <1>1, DepthAssumption
  <2>2. PICK a, b : a = Above(index, g) /\ b = Beside(a)
    OBVIOUS
  <2>3. b \in Places(Depth, g) /\ b # a /\ M[g + 1][Above(index, g + 1)] = Ordered(index, g, M[g][a], M[g][b])
    BY <2>1, <2>2, SiblingsOnWay
  <2>4. M[g][b] = zero_hashes_[g]
    BY <1>8, <2>1, <2>2, <2>3
  <2>5. M[g][a] = zp[g]
    BY <1>4, <2>1, <2>2
  <2>6. zp[g + 1] = Ordered(index, g, zp[g], zero_hashes_[g])
    BY <1>2, <2>1, ZeroPathFacts
  <2> QED BY <2>3, <2>4, <2>5, <2>6
<1> HIDE DEF S
<1>5. Nat \subseteq S
  BY <1>3, <1>4, InductionOverSet
<1>6. ASSUME NEW g \in 0 .. h PROVE g \in Nat /\ g <= h /\ g \in S
  BY <1>1, <1>5
<1> QED BY <1>2, <1>6 DEF S

-----------------------------------------------------------------------------
(***************************************************************************)
(* A tree that can be found in a store from its root down: a set of places *)
(* that is closed under asking for the children of a node.                 *)
(***************************************************************************)

\* The store holds what is asked below place n of layer h + 1: an absent node is
\* an empty tree, and the children of a node are among the places X.
Holds(X, s, L, h, n) ==
    LET t == L[h + 1][n]
    IN  /\ ~ Has(s, NodeKey(t)) => t = zero_hashes_[h + 1]
        /\ IsNode(s, t) => <<h, 2 * n>> \in X /\ <<h, 2 * n + 1>> \in X

Closed(X, s, L) ==
    \A h \in 0 .. Depth - 1 : \A n \in Places(Depth, h + 1) : <<h + 1, n>> \in X => Holds(X, s, L, h, n)

\* The places of empty trees are among X.
HasEmpty(X, L) == \A h \in 0 .. Depth : \A n \in Places(Depth, h) : L[h][n] = zero_hashes_[h] => <<h, n>> \in X

\* The tree with the layers L can be found in the store from its root down.
Stored(s, L) == \E X : <<Depth, 0>> \in X /\ Closed(X, s, L)

\* What a call for height h has made, beside the places X: its part of the way.
Built(r, h, X, M, index) ==
    /\ ResultOK(r, h)
    /\ r.hash = M[h][Above(index, h)]
    /\ \E Y : X \subseteq Y /\ <<h, Above(index, h)>> \in Y /\ Closed(Y, r.s, M)

LEMMA BuiltWithLess ==
    ASSUME NEW r, NEW h, NEW X, NEW M, NEW index, Built(r, h, X, M, index), NEW W \in SUBSET X
    PROVE  Built(r, h, W, M, index)
<1>1. PICK Y : X \subseteq Y /\ <<h, Above(index, h)>> \in Y /\ Closed(Y, r.s, M)
  BY DEF Built
<1>2. W \subseteq Y
  BY <1>1
<1> QED BY <1>1, <1>2 DEF Built

\* A stump asks for nothing below it.
LEMMA StumpCloses ==
    ASSUME NEW s, StoreOK(s), NEW X, NEW M, Closed(X, s, M),
           NEW h \in 0 .. Depth - 1, NEW n, NEW t, t = M[h + 1][n], NEW d, IsStump(d)
    PROVE  Closed(X \cup {<<h + 1, n>>}, AfterPut(s, NodeKey(t), d), M)
<1>1. PICK p, Y : p = AfterPut(s, NodeKey(t), d) /\ Y = X \cup {<<h + 1, n>>}
  OBVIOUS
<1>2. /\ Has(p, NodeKey(t)) /\ Get(p, NodeKey(t)) = d
      /\ \A x : x # NodeKey(t) => (Has(p, x) <=> Has(s, x)) /\ Get(p, x) = Get(s, x)
  BY <1>1, PutEffect DEF StoreOK
<1>3. ASSUME NEW g \in 0 .. Depth - 1, NEW m \in Places(Depth, g + 1), <<g + 1, m>> \in Y
      PROVE  Holds(Y, p, M, g, m)
  <2>1. PICK u : u = M[g + 1][m]
    OBVIOUS
  <2>2. CASE u = t
    <3>1. Has(p, NodeKey(u)) /\ ~ IsNode(p, u)
      BY <1>2, <2>2 DEF IsNode
    <3> QED BY <2>1, <3>1 DEF Holds
  <2>3. CASE u # t
    <3>1. NodeKey(u) # NodeKey(t)
      BY <2>3, KeyFacts
    <3>2. (Has(p, NodeKey(u)) <=> Has(s, NodeKey(u))) /\ (IsNode(p, u) <=> IsNode(s, u))
      BY <1>2, <3>1 DEF IsNode
    <3>3. <<g + 1, m>> \in X
      <4>1. <<g + 1, m>> = <<h + 1, n>> => g + 1 = h + 1 /\ m = n
        OBVIOUS
      <4>2. <<g + 1, m>> # <<h + 1, n>>
        BY <2>1, <2>3, <4>1
      <4> QED BY <1>1, <1>3, <4>2
    <3>4. Holds(X, s, M, g, m)
      BY <3>3 DEF Closed
    <3>5. X \subseteq Y
      BY <1>1
    <3> QED BY <2>1, <3>2, <3>4, <3>5 DEF Holds
  <2> QED BY <2>2, <2>3
<1> QED BY <1>1, <1>3 DEF Closed

\* The two children of the place above are the one on the way and the one beside.
LEMMA ChildrenOnWay ==
    ASSUME NEW index \in Indices, NEW h \in 0 .. Depth - 1, NEW a, a = Above(index, h),
           NEW b, b = Above(index, h + 1)
    PROVE  {2 * b, 2 * b + 1} = {a, Beside(a)}
<1>1. a \in Nat /\ b = a \div 2
  BY SiblingsOnWay
<1>2. CASE a % 2 = 0
  <2>1. a = 2 * b /\ Beside(a) = 2 * b + 1
    BY <1>1, <1>2 DEF Beside
  <2> QED BY <2>1
<1>3. CASE a % 2 # 0
  <2>1. a = 2 * b + 1 /\ Beside(a) = 2 * b
    BY <1>1, <1>3 DEF Beside
  <2> QED BY <2>1
<1> QED BY <1>2, <1>3

\* A node over what is built, with the hash beside it among the places X.
LEMMA PairBuilds ==
    ASSUME NEW nv \in [Indices -> LeafHashes], LeavesDiffer(nv), NEW M, M = Layers(nv, Depth),
           NEW X, HasEmpty(X, M), NEW index \in Indices, NEW h \in 0 .. Depth - 1,
           NEW r, Built(r, h, X, M, index), <<h, Beside(Above(index, h))>> \in X,
           NEW t, t = M[h + 1][Above(index, h + 1)]
    PROVE  Built(WithPair(r.s, t), h + 1, X, M, index)
<1>1. PICK Y : X \subseteq Y /\ <<h, Above(index, h)>> \in Y /\ Closed(Y, r.s, M)
  BY DEF Built
<1>2. PICK a, b : a = Above(index, h) /\ b = Above(index, h + 1)
  OBVIOUS
<1>3. b \in Places(Depth, h + 1) /\ h + 1 \in 0 .. Depth /\ h \in 0 .. Depth
  BY <1>2, SiblingsOnWay, DepthAssumption
<1>4. t \in Trees[h + 1]
  BY <1>2, <1>3, LayersAreTrees
<1>5. StoreOK(r.s)
  BY DEF Built, ResultOK
<1>6. PICK p, Z : p = AfterPut(r.s, NodeKey(t), t) /\ Z = Y \cup {<<h + 1, b>>}
  OBVIOUS
<1>7. /\ Has(p, NodeKey(t)) /\ Get(p, NodeKey(t)) = t
      /\ \A x : x # NodeKey(t) => (Has(p, x) <=> Has(r.s, x)) /\ Get(p, x) = Get(r.s, x)
  BY <1>5, <1>6, PutEffect DEF StoreOK
<1>8. <<h, 2 * b>> \in Z /\ <<h, 2 * b + 1>> \in Z
  <2>1. {2 * b, 2 * b + 1} = {a, Beside(a)}
    BY <1>2, ChildrenOnWay
  <2>2. <<h, a>> \in Z /\ <<h, Beside(a)>> \in Z
    BY <1>1, <1>2, <1>6
  <2> QED BY <2>1, <2>2
<1>9. ASSUME NEW g \in 0 .. Depth - 1, NEW m \in Places(Depth, g + 1), <<g + 1, m>> \in Z
      PROVE  Holds(Z, p, M, g, m)
  <2>1. PICK u : u = M[g + 1][m]
    OBVIOUS
  <2>2. CASE u = t
    <3>1. g = h
      <4>1. g + 1 \in 0 .. Depth
        BY DepthAssumption
      <4>2. u \in Trees[g + 1]
        BY <2>1, <4>1, LayersAreTrees
      <4>3. g + 1 = h + 1
        BY <1>3, <1>4, <2>2, <4>1, <4>2, HeightIsUnique
      <4> QED BY <4>3, DepthAssumption
    <3>2. Has(p, NodeKey(u))
      BY <1>7, <2>2
    <3>3. <<h, 2 * m>> \in Z /\ <<h, 2 * m + 1>> \in Z
      <4>1. CASE m = b
        BY <1>8, <4>1
      <4>2. CASE m # b
        <5>1. m \in Places(Depth, h + 1) /\ M[h + 1][m] = M[h + 1][b]
          BY <1>2, <2>1, <2>2, <3>1
        <5>2. M[h + 1][m] = zero_hashes_[h + 1]
          BY <1>3, <4>2, <5>1, EqualTreesAreEmpty
        <5>3. M[h][2 * m] = zero_hashes_[h] /\ M[h][2 * m + 1] = zero_hashes_[h]
          BY <5>1, <5>2, EmptyBelow
        <5>4. 2 * m \in Places(Depth, h) /\ 2 * m + 1 \in Places(Depth, h)
          BY <5>1, LayerIsPairs
        <5>5. <<h, 2 * m>> \in X /\ <<h, 2 * m + 1>> \in X
          BY <1>3, <5>3, <5>4 DEF HasEmpty
        <5> QED BY <1>1, <1>6, <5>5
      <4> QED BY <4>1, <4>2
    <3> QED BY <2>1, <3>1, <3>2, <3>3 DEF Holds
  <2>3. CASE u # t
    <3>1. NodeKey(u) # NodeKey(t)
      BY <2>3, KeyFacts
    <3>2. (Has(p, NodeKey(u)) <=> Has(r.s, NodeKey(u))) /\ (IsNode(p, u) <=> IsNode(r.s, u))
      BY <1>7, <3>1 DEF IsNode
    <3>3. <<g + 1, m>> \in Y
      <4>1. <<g + 1, m>> = <<h + 1, b>> => g + 1 = h + 1 /\ m = b
        OBVIOUS
      <4>2. <<g + 1, m>> # <<h + 1, b>>
        BY <1>2, <2>1, <2>3, <4>1
      <4> QED BY <1>6, <1>9, <4>2
    <3>4. Holds(Y, r.s, M, g, m)
      BY <1>1, <3>3 DEF Closed
    <3>5. Y \subseteq Z
      BY <1>6
    <3> QED BY <2>1, <3>2, <3>4, <3>5 DEF Holds
  <2> QED BY <2>2, <2>3
<1>10. Closed(Z, p, M)
  BY <1>9 DEF Closed
<1>11. ResultOK(WithPair(r.s, t), h + 1)
  BY <1>4, <1>5, WithPairOK
<1>12. X \subseteq Z /\ <<h + 1, b>> \in Z
  BY <1>1, <1>6
<1>13. WithPair(r.s, t).s = p /\ WithPair(r.s, t).hash = t
  BY <1>6 DEF WithPair
<1> QED BY <1>2, <1>10, <1>11, <1>12, <1>13 DEF Built

\* The old node below may go: no other place of the tree has its hash, unless it
\* is that of an empty tree.
LEMMA RemovalIsSafe ==
    ASSUME NEW lv \in [Indices -> LeafHashes], LeavesDiffer(lv), NEW L, L = Layers(lv, Depth),
           NEW index \in Indices, NEW value \in LeafHashes, NEW M, M = Layers(Overwrite(lv, index, value), Depth),
           NEW h \in 0 .. Depth - 1, NEW X, NEW r, Built(r, h + 1, X, M, index), r = [s |-> r.s, hash |-> r.hash],
           NEW old, old = L[h][Above(index, h)], old # M[h][Above(index, h)]
    PROVE  Built([r EXCEPT !.s = AfterDel(@, NodeKey(old))], h + 1, X, M, index)
<1>1. PICK Y : X \subseteq Y /\ <<h + 1, Above(index, h + 1)>> \in Y /\ Closed(Y, r.s, M)
  BY DEF Built
<1>2. PICK p : p = AfterDel(r.s, NodeKey(old))
  OBVIOUS
<1>3. [r EXCEPT !.s = AfterDel(@, NodeKey(old))] = [s |-> p, hash |-> r.hash]
  BY <1>2
<1>4. StoreOK(r.s) /\ r.hash \in Trees[h + 1] /\ r.hash = M[h + 1][Above(index, h + 1)]
  BY DEF Built, ResultOK
<1>5. /\ ~ Has(p, NodeKey(old))
      /\ \A x : x # NodeKey(old) => (Has(p, x) <=> Has(r.s, x)) /\ Get(p, x) = Get(r.s, x)
  BY <1>2, <1>4, DelEffect DEF StoreOK
<1>6. Overwrite(lv, index, value) \in [Indices -> LeafHashes]
  BY DEF Overwrite
<1>7. h \in 0 .. Depth /\ Above(index, h) \in Places(Depth, h) /\ old \in Trees[h]
  <2>1. h \in 0 .. Depth /\ Above(index, h) \in Places(Depth, h)
    BY SiblingsOnWay, DepthAssumption
  <2> QED BY <2>1, LayersAreTrees
<1>8. ASSUME NEW g \in 0 .. Depth - 1, NEW m \in Places(Depth, g + 1), <<g + 1, m>> \in Y
      PROVE  Holds(Y, p, M, g, m)
  <2>1. PICK u : u = M[g + 1][m]
    OBVIOUS
  <2>2. CASE u = old
    <3>1. g + 1 = h /\ g + 1 \in 0 .. Depth
      <4>1. g + 1 \in 0 .. Depth
        BY DepthAssumption
      <4>2. u \in Trees[g + 1]
        BY <1>6, <2>1, <4>1, LayersAreTrees
      <4> QED BY <1>7, <2>2, <4>1, <4>2, HeightIsUnique
    <3>2. m # Above(index, h)
      BY <2>1, <2>2, <3>1
    <3>3. m \in Places(Depth, h)
      BY <3>1
    <3>4. M[h][m] = L[h][m]
      <4>1. \A k \in 0 .. Depth : \A n \in Places(Depth, k) : n # Above(index, k) => M[k][n] = L[k][n]
        BY RestUnchanged
      <4> QED BY <1>7, <3>2, <3>3, <4>1
    <3>5. L[h][m] = L[h][Above(index, h)]
      BY <2>1, <2>2, <3>1, <3>4
    <3>6. L[h][m] = zero_hashes_[h]
      BY <1>7, <3>2, <3>3, <3>5, EqualTreesAreEmpty
    <3>7. u = zero_hashes_[g + 1]
      BY <2>1, <3>1, <3>4, <3>6
    <3>8. ~ IsNode(p, u)
      BY <1>5, <2>2 DEF IsNode
    <3> QED BY <2>1, <3>7, <3>8 DEF Holds
  <2>3. CASE u # old
    <3>1. NodeKey(u) # NodeKey(old)
      BY <2>3, KeyFacts
    <3>2. (Has(p, NodeKey(u)) <=> Has(r.s, NodeKey(u))) /\ (IsNode(p, u) <=> IsNode(r.s, u))
      BY <1>5, <3>1 DEF IsNode
    <3>3. Holds(Y, r.s, M, g, m)
      BY <1>1, <1>8 DEF Closed
    <3> QED BY <2>1, <3>2, <3>3 DEF Holds
  <2> QED BY <2>2, <2>3
<1>9. Closed(Y, p, M)
  BY <1>8 DEF Closed
<1>10. StoreOK(p)
  BY <1>2, <1>4, DelIsOK
<1> QED BY <1>1, <1>3, <1>4, <1>9, <1>10 DEF Built, ResultOK

\* The places beside the way, and those of empty trees.
Rest(X, M, index) ==
    {x \in (0 .. Depth) \X Nat : \/ x \in X /\ x[2] # Above(index, x[1])
                                 \/ x[2] \in Places(Depth, x[1]) /\ M[x[1]][x[2]] = zero_hashes_[x[1]]}

LEMMA PlacesAreNumbers == \A h \in 0 .. Depth : Places(Depth, h) \subseteq Nat
<1> SUFFICES ASSUME NEW h \in 0 .. Depth PROVE Places(Depth, h) \subseteq Nat
  OBVIOUS
<1>1. Depth - h \in 0 .. Depth + 1
  BY DepthAssumption
<1>2. PowerOf2[Depth - h] \in Nat
  BY <1>1, PowerFacts
<1> QED BY <1>2 DEF Places

LEMMA RestIsClosed ==
    ASSUME NEW lv \in [Indices -> LeafHashes], NEW L, L = Layers(lv, Depth),
           NEW index \in Indices, NEW value \in LeafHashes, NEW M, M = Layers(Overwrite(lv, index, value), Depth),
           NEW s, StoreOK(s), NEW R, Closed(R, s, L), NEW X, X = Rest(R, M, index)
    PROVE  /\ HasEmpty(X, M) /\ Closed(X, s, M)
           /\ \A h \in 0 .. Depth : \A n \in Places(Depth, h) : <<h, n>> \in R /\ n # Above(index, h) => <<h, n>> \in X
<1>1. \A h \in 0 .. Depth : \A n \in Places(Depth, h) : n # Above(index, h) => M[h][n] = L[h][n]
  BY RestUnchanged
<1>2. ASSUME NEW h \in 0 .. Depth, NEW n \in Places(Depth, h)
      PROVE  <<h, n>> \in X <=> (<<h, n>> \in R /\ n # Above(index, h)) \/ M[h][n] = zero_hashes_[h]
  <2>1. <<h, n>> \in (0 .. Depth) \X Nat
    BY PlacesAreNumbers
  <2> QED BY <2>1 DEF Rest
<1>3. HasEmpty(X, M)
  BY <1>2 DEF HasEmpty
<1>4. Overwrite(lv, index, value) \in [Indices -> LeafHashes]
  BY DEF Overwrite
<1>5. ASSUME NEW g \in 0 .. Depth - 1, NEW m \in Places(Depth, g + 1), <<g + 1, m>> \in X
      PROVE  Holds(X, s, M, g, m)
  <2>1. g + 1 \in 0 .. Depth /\ g \in 0 .. Depth
    BY DepthAssumption
  <2>2. m \in Nat /\ 2 * m \in Places(Depth, g) /\ 2 * m + 1 \in Places(Depth, g)
    BY LayerIsPairs
  <2>3. CASE M[g + 1][m] = zero_hashes_[g + 1]
    <3>1. M[g][2 * m] = zero_hashes_[g] /\ M[g][2 * m + 1] = zero_hashes_[g]
      BY <2>3, EmptyBelow
    <3>2. <<g, 2 * m>> \in X /\ <<g, 2 * m + 1>> \in X
      BY <1>2, <2>1, <2>2, <3>1
    <3> QED BY <2>3, <3>2 DEF Holds
  <2>4. CASE <<g + 1, m>> \in R /\ m # Above(index, g + 1)
    <3>1. M[g + 1][m] = L[g + 1][m]
      BY <1>1, <2>1, <2>4
    <3>2. Holds(R, s, L, g, m)
      BY <2>4 DEF Closed
    <3>3. 2 * m # Above(index, g) /\ 2 * m + 1 # Above(index, g)
      BY <2>4, OffTheWay
    <3>4. <<g, 2 * m>> \in R => <<g, 2 * m>> \in X
      BY <1>2, <2>1, <2>2, <3>3
    <3>5. <<g, 2 * m + 1>> \in R => <<g, 2 * m + 1>> \in X
      BY <1>2, <2>1, <2>2, <3>3
    <3> QED BY <3>1, <3>2, <3>4, <3>5 DEF Holds
  <2> QED BY <1>2, <1>5, <2>1, <2>3, <2>4
<1>6. Closed(X, s, M)
  BY <1>5 DEF Closed
<1> QED BY <1>2, <1>3, <1>6

-----------------------------------------------------------------------------
(***************************************************************************)
(* update_element makes the new tree out of the old one.                   *)
(***************************************************************************)

\* The hashes on the way from index after a write, and beside it.
LEMMA WayAfterWrite ==
    ASSUME NEW lv \in [Indices -> LeafHashes], NEW index \in Indices, NEW value \in LeafHashes,
           NEW L, L = Layers(lv, Depth), NEW M, M = Layers(Overwrite(lv, index, value), Depth),
           NEW h \in 0 .. Depth - 1
    PROVE  /\ M[h][Beside(Above(index, h))] = L[h][Beside(Above(index, h))]
           /\ M[h + 1][Above(index, h + 1)] = Ordered(index, h, M[h][Above(index, h)], L[h][Beside(Above(index, h))])
           /\ L[h + 1][Above(index, h + 1)] = Ordered(index, h, L[h][Above(index, h)], L[h][Beside(Above(index, h))])
<1>1. PICK a : a = Above(index, h)
  OBVIOUS
<1>2. h \in 0 .. Depth
  BY DepthAssumption
<1>3. /\ Beside(a) \in Places(Depth, h) /\ Beside(a) # a
      /\ L[h + 1][Above(index, h + 1)] = Ordered(index, h, L[h][a], L[h][Beside(a)])
      /\ M[h + 1][Above(index, h + 1)] = Ordered(index, h, M[h][a], M[h][Beside(a)])
  BY <1>1, SiblingsOnWay
<1>4. \A g \in 0 .. Depth : \A n \in Places(Depth, g) : n # Above(index, g) => M[g][n] = L[g][n]
  BY RestUnchanged
<1>5. M[h][Beside(a)] = L[h][Beside(a)]
  BY <1>1, <1>2, <1>3, <1>4
<1> QED BY <1>1, <1>3, <1>5

\* A call that puts a stump: nothing was there but, perhaps, the old leaf.
LEMMA StumpBuilds ==
    ASSUME NEW lv \in [Indices -> LeafHashes], NEW index \in Indices, NEW value \in LeafHashes,
           NEW L, L = Layers(lv, Depth), NEW M, M = Layers(Overwrite(lv, index, value), Depth),
           NEW s, StoreOK(s), NEW X, Closed(X, s, M),
           NEW h \in 0 .. Depth - 1, NEW i, i = keep_n_lsb(index, h + 1),
           NEW v, L[h + 1][Above(index, h + 1)] = ZeroPath(i, v)[h + 1],
           NEW t, t = ZeroPath(i, value)[h + 1]
    PROVE  Built([s |-> put_stump(s, t, i, value), hash |-> t], h + 1, X, M, index)
<1>1. h + 1 \in 0 .. Depth /\ h + 1 \in 1 .. Depth /\ index \in Nat
  <2>1. Depth \in 0 .. Depth /\ index \in 0 .. PowerOf2[Depth] - 1
    BY DepthAssumption DEF Indices
  <2>2. index \in Nat
    BY <2>1, SmallIndex
  <2> QED BY <2>2, DepthAssumption
<1>2. i \in 0 .. PowerOf2[h + 1] - 1
  BY <1>1, BitFacts
<1>3. PICK c : c = DifferingBits(i, keep_n_lsb(index, h + 1))
  OBVIOUS
<1>4. c = 0
  BY <1>1, <1>2, <1>3, Differing
<1>5. \A g \in 0 .. (h + 1) - 1 : L[g][Beside(Above(index, g))] = IF g + 1 = c THEN ZeroPath(i, v)[g] ELSE zero_hashes_[g]
  BY <1>1, <1>2, <1>3, StumpOnWay
<1>6. \A g \in 0 .. (h + 1) - 1 : L[g][Beside(Above(index, g))] = zero_hashes_[g]
  BY <1>4, <1>5
<1>7. \A g \in 0 .. h + 1 : M[g][Above(index, g)] = ZeroPath(index, value)[g]
  BY <1>1, <1>6, WriteOnWay
<1>8. \A g \in 0 .. h + 1 : ZeroPath(i, value)[g] = ZeroPath(index, value)[g]
  BY <1>1, ZeroPathLow
<1>9. M[h + 1][Above(index, h + 1)] = t
  <2>1. h + 1 \in 0 .. h + 1
    OBVIOUS
  <2> QED BY <1>7, <1>8, <2>1
<1>10. PICK d, p : d = <<value, i, TRUE>> /\ p = AfterPut(s, NodeKey(t), d)
  OBVIOUS
<1>11. t \in Trees[h + 1] /\ put_stump(s, t, i, value) = p /\ StoreOK(p)
  BY <1>1, <1>2, <1>10, PutStumpOK
<1>12. IsStump(d)
  BY <1>10 DEF IsStump
<1>13. Closed(X \cup {<<h + 1, Above(index, h + 1)>>}, p, M)
  BY <1>9, <1>10, <1>12, StumpCloses
<1>14. ResultOK([s |-> p, hash |-> t], h + 1)
  BY <1>11 DEF ResultOK
<1> QED BY <1>9, <1>11, <1>13, <1>14 DEF Built

\* The two stumps below a fork, the old one beside the way.
LEMMA StumpsBuild ==
    ASSUME NEW M, NEW index \in Indices, NEW s, StoreOK(s), NEW X, Closed(X, s, M), NEW k \in 0 .. Depth - 1,
           NEW i \in Nat, NEW v \in LeafHashes, NEW j \in Nat, NEW value \in LeafHashes,
           M[k][Beside(Above(index, k))] = ZeroPath(keep_n_lsb(i, k), v)[k],
           M[k][Above(index, k)] = ZeroPath(keep_n_lsb(j, k), value)[k],
           NEW r, r = [s |-> WithStumps(s, v, i, value, j, k), hash |-> ZeroPath(keep_n_lsb(j, k), value)[k]]
    PROVE  Built(r, k, X \cup {<<k, Beside(Above(index, k))>>}, M, index)
<1>1. PICK a, b, Y, Z : a = Above(index, k) /\ b = Beside(a) /\ Y = X \cup {<<k, b>>} /\ Z = Y \cup {<<k, a>>}
  OBVIOUS
<1>2. k \in 0 .. Depth
  BY DepthAssumption
<1>3. ResultOK(r, k)
  <2>1. StoreOK(WithStumps(s, v, i, value, j, k))
    BY WithStumpsOK
  <2>2. ZeroPath(keep_n_lsb(j, k), value)[k] \in Trees[k]
    BY <1>2, ZeroPathsAreTrees
  <2> QED BY <2>1, <2>2 DEF ResultOK
<1>4. Closed(Z, WithStumps(s, v, i, value, j, k), M)
  <2>1. CASE k = 0
    <3>1. WithStumps(s, v, i, value, j, k) = s
      BY <2>1 DEF WithStumps
    <3>2. ASSUME NEW g \in 0 .. Depth - 1, NEW m \in Places(Depth, g + 1), <<g + 1, m>> \in Z
          PROVE  Holds(Z, s, M, g, m)
      <4>1. g + 1 # k
        BY <2>1, DepthAssumption
      <4>2. <<g + 1, m>> # <<k, a>> /\ <<g + 1, m>> # <<k, b>>
        BY <4>1
      <4>3. <<g + 1, m>> \in X
        BY <1>1, <3>2, <4>2
      <4>4. Holds(X, s, M, g, m)
        BY <4>3 DEF Closed
      <4>5. X \subseteq Z
        BY <1>1
      <4> QED BY <4>4, <4>5 DEF Holds
    <3> QED BY <3>1, <3>2 DEF Closed
  <2>2. CASE k # 0
    <3>1. PICK e, f, t, u : /\ e = keep_n_lsb(i, k) /\ t = ZeroPath(e, v)[k]
                            /\ f = keep_n_lsb(j, k) /\ u = ZeroPath(f, value)[k]
      OBVIOUS
    <3>2. PICK p, q : p = AfterPut(s, NodeKey(t), <<v, e, TRUE>>) /\ q = AfterPut(p, NodeKey(u), <<value, f, TRUE>>)
      OBVIOUS
    <3>3. e \in 0 .. PowerOf2[k] - 1 /\ f \in 0 .. PowerOf2[k] - 1
      BY <1>2, <3>1, BitFacts
    <3>4. k \in 1 .. Depth /\ k - 1 \in 0 .. Depth - 1 /\ (k - 1) + 1 = k
      BY <2>2, DepthAssumption
    <3>a. k \in 1 .. Depth /\ e \in 0 .. PowerOf2[k] - 1 /\ t = ZeroPath(e, v)[k]
      BY <3>1, <3>3, <3>4
    <3>b. k \in 1 .. Depth /\ f \in 0 .. PowerOf2[k] - 1 /\ u = ZeroPath(f, value)[k]
      BY <3>1, <3>3, <3>4
    <3>5. put_stump(s, t, e, v) = p /\ StoreOK(p)
      <4>1. put_stump(s, t, e, v) = AfterPut(s, NodeKey(t), <<v, e, TRUE>>) /\ StoreOK(put_stump(s, t, e, v))
        BY <3>a, PutStumpOK
      <4> QED BY <3>2, <4>1
    <3>6. put_stump(p, u, f, value) = q
      <4>1. put_stump(p, u, f, value) = AfterPut(p, NodeKey(u), <<value, f, TRUE>>)
        BY <3>5, <3>b, PutStumpOK
      <4> QED BY <3>2, <4>1
    <3>7. WithStumps(s, v, i, value, j, k) = q
      BY <2>2, <3>1, <3>5, <3>6 DEF WithStumps
    <3>8. M[(k - 1) + 1][b] = t /\ M[(k - 1) + 1][a] = u
      BY <1>1, <3>1, <3>4
    <3>9. IsStump(<<v, e, TRUE>>) /\ IsStump(<<value, f, TRUE>>)
      BY DEF IsStump
    <3>10. Closed(X \cup {<<(k - 1) + 1, b>>}, p, M)
      BY <3>2, <3>4, <3>8, <3>9, StumpCloses
    <3>11. Closed(Y, p, M)
      BY <1>1, <3>4, <3>10
    <3>12. Closed(Y \cup {<<(k - 1) + 1, a>>}, q, M)
      BY <3>2, <3>4, <3>5, <3>8, <3>9, <3>11, StumpCloses
    <3> QED BY <1>1, <3>4, <3>7, <3>12
  <2> QED BY <2>1, <2>2
<1> QED BY <1>1, <1>3, <1>4 DEF Built

\* A call that comes to the stump of another index.
LEMMA ForkBuilds ==
    ASSUME NEW lv \in [Indices -> LeafHashes], NEW index \in Indices, NEW value \in LeafHashes,
           NEW L, L = Layers(lv, Depth), NEW M, M = Layers(Overwrite(lv, index, value), Depth),
           LeavesDiffer(Overwrite(lv, index, value)),
           NEW s, StoreOK(s), NEW X, Closed(X, s, M), HasEmpty(X, M),
           NEW h \in 0 .. Depth - 1, NEW j, j = keep_n_lsb(index, h + 1),
           NEW i \in 0 .. PowerOf2[h + 1] - 1, i # j, NEW v \in LeafHashes,
           L[h + 1][Above(index, h + 1)] = ZeroPath(i, v)[h + 1],
           NEW c, c = DifferingBits(i, j)
    PROVE  Built(fork_stump(s, v, i, value, j, h + 1, c), h + 1, X, M, index)
<1>1. /\ h + 1 \in 0 .. Depth /\ index \in Nat /\ i \in Nat /\ j \in Nat
      /\ j \in 0 .. PowerOf2[h + 1] - 1
  <2>1. Depth \in 0 .. Depth /\ index \in 0 .. PowerOf2[Depth] - 1 /\ h + 1 \in 0 .. Depth
    BY DepthAssumption DEF Indices
  <2>2. index \in Nat /\ i \in Nat
    BY <2>1, SmallIndex
  <2>3. j \in 0 .. PowerOf2[h + 1] - 1
    BY <2>1, <2>2, BitFacts
  <2> QED BY <2>1, <2>2, <2>3, SmallIndex
<1>2. /\ c \in 1 .. h + 1
      /\ \A g \in c .. Depth : BitSet(i, g) <=> BitSet(j, g)
      /\ BitSet(i, c - 1) <=> ~ BitSet(j, c - 1)
  BY <1>1, Differing
<1>3. PICK zp, wp : zp = ZeroPath(i, v) /\ wp = ZeroPath(index, value)
  OBVIOUS
<1>4. \A g \in 0 .. (h + 1) - 1 : L[g][Beside(Above(index, g))] = IF g + 1 = c THEN zp[g] ELSE zero_hashes_[g]
  <2>1. c = DifferingBits(i, keep_n_lsb(index, h + 1)) /\ L[h + 1][Above(index, h + 1)] = zp[h + 1]
    BY <1>3
  <2> QED BY <1>1, <1>3, <2>1, StumpOnWay
<1>5. PICK k : k = c - 1
  OBVIOUS
<1>6. k \in 0 .. Depth - 1 /\ k \in 0 .. Depth /\ k \in 0 .. h /\ k + 1 = c
  BY <1>2, <1>5, DepthAssumption
<1>7. M[k][Above(index, k)] = wp[k]
  <2>1. \A g \in 0 .. k - 1 : L[g][Beside(Above(index, g))] = zero_hashes_[g]
    BY <1>2, <1>4, <1>5
  <2>2. \A g \in 0 .. k : M[g][Above(index, g)] = ZeroPath(index, value)[g]
    BY <1>6, <2>1, WriteOnWay
  <2> QED BY <1>3, <1>6, <2>2
<1>8. M[k][Beside(Above(index, k))] = zp[k]
  <2>1. L[k][Beside(Above(index, k))] = zp[k]
    BY <1>4, <1>6
  <2>2. M[k][Beside(Above(index, k))] = L[k][Beside(Above(index, k))]
    BY <1>6, WayAfterWrite
  <2> QED BY <2>1, <2>2
<1>9. ZeroPath(keep_n_lsb(i, k), v)[k] = zp[k] /\ ZeroPath(keep_n_lsb(j, k), value)[k] = wp[k]
  <2>1. k \in 0 .. k /\ k \in 0 .. h + 1
    BY <1>6
  <2>2. \A g \in 0 .. k : ZeroPath(keep_n_lsb(i, k), v)[g] = ZeroPath(i, v)[g]
    BY <1>1, <1>6, ZeroPathLow
  <2>3. \A g \in 0 .. k : ZeroPath(keep_n_lsb(index, k), value)[g] = ZeroPath(index, value)[g]
    BY <1>1, <1>6, ZeroPathLow
  <2>4. keep_n_lsb(j, k) = keep_n_lsb(index, k)
    BY <1>1, <2>1, KeptLow
  <2> QED BY <1>3, <2>1, <2>2, <2>3, <2>4
<1>10. \A g \in 0 .. h : BitSet(j, g) <=> BitSet(index, g)
  <2>1. \A g \in 0 .. (h + 1) - 1 : BitSet(keep_n_lsb(index, h + 1), g) <=> BitSet(index, g)
    BY <1>1, KeptBit
  <2> QED BY <2>1
<1>11. Built(fork(s, v, i, value, j, c), c, X, M, index)
  <2>1. PICK r : r = [s |-> WithStumps(s, v, i, value, j, k), hash |-> ZeroPath(keep_n_lsb(j, k), value)[k]]
    OBVIOUS
  <2>2. PICK W : W = X \cup {<<k, Beside(Above(index, k))>>}
    OBVIOUS
  <2>3. M[k][Beside(Above(index, k))] = ZeroPath(keep_n_lsb(i, k), v)[k]
    BY <1>8, <1>9
  <2>4. M[k][Above(index, k)] = ZeroPath(keep_n_lsb(j, k), value)[k]
    BY <1>7, <1>9
  <2>5. Built(r, k, X \cup {<<k, Beside(Above(index, k))>>}, M, index)
    BY <1>1, <1>6, <2>1, <2>3, <2>4, StumpsBuild
  <2>6. HasEmpty(W, M) /\ <<k, Beside(Above(index, k))>> \in W /\ X \in SUBSET W
    BY <2>2 DEF HasEmpty
  <2>7. PICK t : t = M[k + 1][Above(index, k + 1)]
    OBVIOUS
  <2>8. Overwrite(lv, index, value) \in [Indices -> LeafHashes]
    BY DEF Overwrite
  <2>9. Built(WithPair(r.s, t), k + 1, W, M, index)
    <3>1. Built(r, k, W, M, index)
      BY <2>2, <2>5
    <3> QED BY <1>6, <2>6, <2>7, <2>8, <3>1, PairBuilds
  <2>10. fork(s, v, i, value, j, k + 1) = WithPair(r.s, t)
    <3>1. fork(s, v, i, value, j, k + 1) =
              WithPair(WithStumps(s, v, i, value, j, k),
                       Ordered(i, k, ZeroPath(keep_n_lsb(i, k), v)[k], ZeroPath(keep_n_lsb(j, k), value)[k]))
      BY <1>1, <1>6, ForkIs
    <3>2. r.s = WithStumps(s, v, i, value, j, k)
      BY <2>1
    <3>3. M[k + 1][Above(index, k + 1)] = Ordered(index, k, M[k][Above(index, k)], L[k][Beside(Above(index, k))])
      BY <1>6, WayAfterWrite
    <3>4. L[k][Beside(Above(index, k))] = zp[k]
      BY <1>4, <1>6
    <3>5. t = Ordered(index, k, wp[k], zp[k])
      BY <1>7, <2>7, <3>3, <3>4
    <3>6. BitSet(i, k) <=> ~ BitSet(index, k)
      BY <1>2, <1>5, <1>6, <1>10
    <3>7. Ordered(i, k, zp[k], wp[k]) = Ordered(index, k, wp[k], zp[k])
      BY <3>6 DEF Ordered
    <3> QED BY <1>9, <3>1, <3>2, <3>5, <3>7
  <2> QED BY <1>6, <2>6, <2>9, <2>10, BuiltWithLess
<1>12. PICK f : /\ fork_stump(s, v, i, value, j, h + 1, c) = f[h + 1]
                /\ f[c] = fork(s, v, i, value, j, c)
                /\ \A g \in c .. (h + 1) - 1 :
                       f[g + 1] = binary_put(f[g].s, i, f[g].hash, zero_hashes_[g], g + 1)
  <2>1. h + 1 \in Nat /\ c \in 0 .. h + 1
    BY <1>2
  <2> QED BY <2>1, ForkStumpIs
<1>13. ASSUME NEW g \in c .. h, Built(f[g], g, X, M, index)
       PROVE  Built(f[g + 1], g + 1, X, M, index)
  <2>1. g \in 0 .. Depth - 1 /\ g \in 0 .. Depth /\ g \in 0 .. (h + 1) - 1 /\ g + 1 # c /\ g \in c .. (h + 1) - 1
        /\ g \in c .. Depth /\ g \in 0 .. h /\ g \in Nat
    BY <1>2, DepthAssumption
  <2>2. PICK a, b, t : a = Above(index, g) /\ b = Beside(a) /\ t = M[g + 1][Above(index, g + 1)]
    OBVIOUS
  <2>3. L[g][b] = zero_hashes_[g]
    BY <1>4, <2>1, <2>2
  <2>4. M[g][b] = zero_hashes_[g] /\ t = Ordered(index, g, M[g][a], zero_hashes_[g])
    <3>1. /\ M[g][Beside(Above(index, g))] = L[g][Beside(Above(index, g))]
          /\ M[g + 1][Above(index, g + 1)] = Ordered(index, g, M[g][Above(index, g)], L[g][Beside(Above(index, g))])
      BY <2>1, WayAfterWrite
    <3> QED BY <2>2, <2>3, <3>1
  <2>5. <<g, Beside(Above(index, g))>> \in X
    <3>1. b \in Places(Depth, g)
      BY <2>1, <2>2, SiblingsOnWay
    <3> QED BY <2>1, <2>2, <2>4, <3>1 DEF HasEmpty
  <2>6. f[g].hash = M[g][a]
    BY <1>13, <2>2 DEF Built
  <2>7. Ordered(i, g, f[g].hash, zero_hashes_[g]) = t
    <3>1. BitSet(i, g) <=> BitSet(index, g)
      BY <1>2, <1>10, <2>1
    <3> QED BY <2>4, <2>6, <3>1 DEF Ordered
  <2>8. f[g + 1] = WithPair(f[g].s, t)
    <3>1. binary_put(f[g].s, i, f[g].hash, zero_hashes_[g], g + 1) = WithPair(f[g].s, Ordered(i, g, f[g].hash, zero_hashes_[g]))
      BY <2>1, BinaryPutIs
    <3> QED BY <1>12, <2>1, <2>7, <3>1
  <2>9. Overwrite(lv, index, value) \in [Indices -> LeafHashes]
    BY DEF Overwrite
  <2>10. Built(WithPair(f[g].s, t), g + 1, X, M, index)
    BY <1>13, <2>1, <2>2, <2>5, <2>9, PairBuilds
  <2> QED BY <2>8, <2>10
<1>14. Built(f[h + 1], h + 1, X, M, index)
  <2> DEFINE S == {n \in Nat : c + n <= h + 1 => Built(f[c + n], c + n, X, M, index)}
  <2>1. 0 \in S
    <3>1. c + 0 = c
      BY <1>2
    <3> QED BY <1>11, <1>12, <3>1
  <2>2. ASSUME NEW n \in Nat, n \in S PROVE n + 1 \in S
    <3> SUFFICES ASSUME c + (n + 1) <= h + 1 PROVE Built(f[c + (n + 1)], c + (n + 1), X, M, index)
      OBVIOUS
    <3>1. PICK g : g = c + n
      OBVIOUS
    <3>2. g \in c .. h /\ c + (n + 1) = g + 1
      BY <1>2, <3>1
    <3>3. Built(f[g], g, X, M, index)
      BY <1>2, <2>2, <3>1, <3>2
    <3> QED BY <1>13, <3>2, <3>3
  <2>3. Nat \subseteq S
    <3> HIDE DEF S
    <3> QED BY <2>1, <2>2, InductionOverSet
  <2>4. (h + 1) - c \in Nat /\ c + ((h + 1) - c) = h + 1
    BY <1>2
  <2>5. (h + 1) - c \in S
    BY <2>3, <2>4
  <2> QED BY <2>4, <2>5
<1> QED BY <1>12, <1>14

\* A call that comes to a node, above what the call below it has made.
LEMMA NodeBuilds ==
    ASSUME NEW lv \in [Indices -> LeafHashes], NEW index \in Indices, NEW value \in LeafHashes,
           NEW L, L = Layers(lv, Depth), NEW M, M = Layers(Overwrite(lv, index, value), Depth),
           LeavesDiffer(lv), LeavesDiffer(Overwrite(lv, index, value)),
           NEW s, NEW X, HasEmpty(X, M), NEW h \in 0 .. Depth - 1, <<h, Beside(Above(index, h))>> \in X,
           NEW a, NEW b, <<a, b>> = L[h + 1][Above(index, h + 1)],
           NEW sub, Built(sub, h, X, M, index)
    PROVE  Built(update_node(s, <<a, b>>, BitSet(index, h), sub), h + 1, X, M, index)
<1>1. PICK p, old, t, other : /\ p = Above(index, h) /\ old = L[h][p] /\ t = M[h + 1][Above(index, h + 1)]
                              /\ other = L[h][Beside(p)]
  OBVIOUS
<1>2. sub.hash = M[h][p]
  BY <1>1 DEF Built
<1>3. <<a, b>> = Ordered(index, h, old, other) /\ t = Ordered(index, h, sub.hash, other)
  <2>1. /\ M[h + 1][Above(index, h + 1)] = Ordered(index, h, M[h][Above(index, h)], L[h][Beside(Above(index, h))])
        /\ L[h + 1][Above(index, h + 1)] = Ordered(index, h, L[h][Above(index, h)], L[h][Beside(Above(index, h))])
    BY WayAfterWrite
  <2> QED BY <1>1, <1>2, <2>1
<1>4. PICK right \in BOOLEAN : right <=> BitSet(index, h)
  OBVIOUS
<1>5. BitSet(index, h) = right
  BY <1>4 DEF BitSet
<1>6. t = (IF right THEN <<a, sub.hash>> ELSE <<sub.hash, b>>) /\ old = IF right THEN b ELSE a
  <2>1. CASE right
    BY <1>3, <1>4, <2>1 DEF Ordered
  <2>2. CASE ~ right
    BY <1>3, <1>4, <2>2 DEF Ordered
  <2> QED BY <2>1, <2>2
<1>7. update_node(s, <<a, b>>, right, sub) =
          IF old # sub.hash THEN [WithPair(sub.s, t) EXCEPT !.s = AfterDel(@, NodeKey(old))] ELSE WithPair(sub.s, t)
  BY <1>6, UpdateNodeIs
<1>8. Overwrite(lv, index, value) \in [Indices -> LeafHashes]
  BY DEF Overwrite
<1>9. Built(WithPair(sub.s, t), h + 1, X, M, index)
  BY <1>1, <1>8, PairBuilds
<1>10. CASE old = sub.hash
  BY <1>5, <1>7, <1>9, <1>10
<1>11. CASE old # sub.hash
  <2>1. PICK r : r = WithPair(sub.s, t)
    OBVIOUS
  <2>2. r = [s |-> r.s, hash |-> r.hash]
    BY <2>1 DEF WithPair
  <2>3. Built(r, h + 1, X, M, index)
    BY <1>9, <2>1
  <2>4. old = L[h][Above(index, h)] /\ old # M[h][Above(index, h)]
    BY <1>1, <1>2, <1>11
  <2>5. Built([r EXCEPT !.s = AfterDel(@, NodeKey(old))], h + 1, X, M, index)
    BY <2>2, <2>3, <2>4, RemovalIsSafe
  <2> QED BY <1>5, <1>7, <1>11, <2>1, <2>5
<1> QED BY <1>10, <1>11

\* Each call of update_element makes its part of the new tree from the old one.
LEMMA CallBuilds ==
    ASSUME NEW lv \in [Indices -> LeafHashes], NEW index \in Indices, NEW value \in LeafHashes,
           NEW L, L = Layers(lv, Depth), NEW M, M = Layers(Overwrite(lv, index, value), Depth),
           LeavesDiffer(lv), LeavesDiffer(Overwrite(lv, index, value)),
           NEW s, StoreOK(s), NEW R, Closed(R, s, L), NEW X, X = Rest(R, M, index),
           NEW h \in 0 .. Depth - 1, <<h + 1, Above(index, h + 1)>> \in R,
           NEW t, t = L[h + 1][Above(index, h + 1)],
           NEW sub, IsNode(s, t) => Built(sub, h, X, M, index)
    PROVE  Built(update_subtree(s, t, value, keep_n_lsb(index, h + 1), h + 1, sub), h + 1, X, M, index)
<1>1. h + 1 \in 0 .. Depth /\ h \in 0 .. Depth /\ Above(index, h + 1) \in Places(Depth, h + 1)
  BY SiblingsOnWay, DepthAssumption
<1>2. t \in Trees[h + 1]
  BY <1>1, LayersAreTrees
<1>3. HasEmpty(X, M) /\ Closed(X, s, M)
  BY RestIsClosed
<1>4. PICK j, r : j = keep_n_lsb(index, h + 1) /\ r = update_subtree(s, t, value, j, h + 1, sub)
  OBVIOUS
<1>5. CallCases(s, t, value, j, h, sub, r)
  BY <1>2, <1>4, CallIs
<1>6. Holds(R, s, L, h, Above(index, h + 1))
  BY <1>1 DEF Closed
<1>q. PICK q : q = [s |-> put_stump(s, ZeroPath(j, value)[h + 1], j, value), hash |-> ZeroPath(j, value)[h + 1]]
  OBVIOUS
<1>7. ASSUME NEW v, t = ZeroPath(j, v)[h + 1]
      PROVE  Built(q, h + 1, X, M, index)
  <2>1. PICK u : u = ZeroPath(j, value)[h + 1]
    OBVIOUS
  <2>2. L[h + 1][Above(index, h + 1)] = ZeroPath(j, v)[h + 1]
    BY <1>7
  <2>3. Built([s |-> put_stump(s, u, j, value), hash |-> u], h + 1, X, M, index)
    BY <1>3, <1>4, <2>1, <2>2, StumpBuilds
  <2> QED BY <1>q, <2>1, <2>3
<1>8. CASE ~ Has(s, NodeKey(t)) /\ r = q
  <2>1. t = zero_hashes_[h + 1]
    BY <1>6, <1>8 DEF Holds
  <2>2. PICK v : v = ZeroLeaf
    OBVIOUS
  <2>3. t = ZeroPath(j, v)[h + 1]
    BY <1>1, <2>1, <2>2, ZeroPathOfZero
  <2>4. Built(q, h + 1, X, M, index)
    BY <1>7, <2>3
  <2> QED BY <1>4, <1>8, <2>4
<1>9. ASSUME NEW i \in 0 .. PowerOf2[h + 1] - 1, NEW v \in LeafHashes, t = ZeroPath(i, v)[h + 1], i # j,
             r = fork_stump(s, v, i, value, j, h + 1, DifferingBits(i, j))
      PROVE  Built(r, h + 1, X, M, index)
  <2>1. PICK c : c = DifferingBits(i, j)
    OBVIOUS
  <2>2. L[h + 1][Above(index, h + 1)] = ZeroPath(i, v)[h + 1]
    BY <1>9
  <2>3. Built(fork_stump(s, v, i, value, j, h + 1, c), h + 1, X, M, index)
    BY <1>3, <1>4, <1>9, <2>1, <2>2, ForkBuilds
  <2> QED BY <1>9, <2>1, <2>3
<1>10. ASSUME IsNode(s, t), NEW a \in Trees[h], NEW b \in Trees[h], t = <<a, b>>,
              r = update_node(s, <<a, b>>, BitSet(j, h), sub)
       PROVE  Built(r, h + 1, X, M, index)
  <2>1. BitSet(j, h) = BitSet(index, h)
    <3>1. index \in Nat
      <4>1. Depth \in 0 .. Depth /\ index \in 0 .. PowerOf2[Depth] - 1
        BY DepthAssumption DEF Indices
      <4> QED BY <4>1, SmallIndex
    <3>2. BitSet(keep_n_lsb(index, h + 1), h) <=> BitSet(index, h)
      <4>1. h \in 0 .. (h + 1) - 1
        OBVIOUS
      <4> QED BY <1>1, <3>1, <4>1, KeptBit
    <3> QED BY <1>4, <3>2 DEF BitSet
  <2>2. <<h, Beside(Above(index, h))>> \in X
    <3>1. /\ Beside(Above(index, h)) \in Places(Depth, h) /\ Beside(Above(index, h)) # Above(index, h)
      BY SiblingsOnWay
    <3>2. <<h, Beside(Above(index, h))>> \in R
      <4>1. PICK p, c : p = Above(index, h) /\ c = Above(index, h + 1)
        OBVIOUS
      <4>2. <<h, 2 * c>> \in R /\ <<h, 2 * c + 1>> \in R
        BY <1>6, <1>10, <4>1 DEF Holds
      <4>3. {2 * c, 2 * c + 1} = {p, Beside(p)}
        BY <4>1, ChildrenOnWay
      <4>4. Beside(p) = 2 * c \/ Beside(p) = 2 * c + 1
        BY <4>3
      <4> QED BY <4>1, <4>2, <4>4
    <3>3. \A g \in 0 .. Depth : \A n \in Places(Depth, g) : <<g, n>> \in R /\ n # Above(index, g) => <<g, n>> \in X
      BY RestIsClosed
    <3> QED BY <1>1, <3>1, <3>2, <3>3
  <2>3. <<a, b>> = L[h + 1][Above(index, h + 1)] /\ Built(sub, h, X, M, index)
    BY <1>10
  <2>4. Built(update_node(s, <<a, b>>, BitSet(index, h), sub), h + 1, X, M, index)
    BY <1>3, <2>2, <2>3, NodeBuilds
  <2> QED BY <1>10, <2>1, <2>4
<1> QED BY <1>4, <1>q, <1>5, <1>7, <1>8, <1>9, <1>10 DEF CallCases

\* The operations go down the way of the index: at height h they ask for the
\* hash of the tree, at a place among R.
OnWay(s, way, R, L, index, h) == way[Depth - h] = L[h][Above(index, h)] /\ <<h, Above(index, h)>> \in R

LEMMA StaysOnWay ==
    ASSUME NEW lv \in [Indices -> LeafHashes], NEW index \in Indices, NEW L, L = Layers(lv, Depth),
           NEW s, StoreOK(s), NEW R, Closed(R, s, L), NEW way, way = Way(s, index),
           NEW h \in 0 .. Depth - 1, OnWay(s, way, R, L, index, h + 1), IsNode(s, L[h + 1][Above(index, h + 1)])
    PROVE  OnWay(s, way, R, L, index, h)
<1>1. PICK t, b : t = L[h + 1][Above(index, h + 1)] /\ b = Above(index, h + 1)
  OBVIOUS
<1>2. b \in Places(Depth, h + 1) /\ h + 1 \in 0 .. Depth
  <2>1. Above(index, h + 1) \in Places(Depth, h + 1)
    BY SiblingsOnWay
  <2> QED BY <1>1, <2>1, DepthAssumption
<1>3. t \in Trees[h + 1] /\ way[Depth - (h + 1)] = t
  BY <1>1, <1>2, LayersAreTrees DEF OnWay
<1>4. PICK x, y : /\ t = <<x, y>> /\ way[Depth - h] = IF BitSet(index, h) THEN y ELSE x
  <2>1. way[Depth - (h + 1)] \in Trees[h + 1] /\ IsNode(s, way[Depth - (h + 1)])
    BY <1>1, <1>3
  <2>2. \E x, y \in Trees[h] :
          /\ way[Depth - (h + 1)] = <<x, y>> /\ Get(s, NodeKey(way[Depth - (h + 1)])) = <<x, y>>
          /\ way[Depth - h] = IF BitSet(index, h) THEN y ELSE x
    BY <2>1, WayDown
  <2> QED BY <1>3, <2>2
<1>5. PICK p, u, o : p = Above(index, h) /\ u = L[h][p] /\ o = L[h][Beside(p)]
  OBVIOUS
<1>6. t = Ordered(index, h, u, o)
  <2>1. L[h + 1][Above(index, h + 1)] = Ordered(index, h, L[h][Above(index, h)], L[h][Beside(Above(index, h))])
    BY SiblingsOnWay
  <2> QED BY <1>1, <1>5, <2>1
<1>7. way[Depth - h] = u
  <2>1. CASE BitSet(index, h)
    BY <1>4, <1>6, <2>1 DEF Ordered
  <2>2. CASE ~ BitSet(index, h)
    BY <1>4, <1>6, <2>2 DEF Ordered
  <2> QED BY <2>1, <2>2
<1>8. <<h, p>> \in R
  <2>1. Holds(R, s, L, h, b)
    BY <1>1, <1>2 DEF Closed, OnWay
  <2>2. <<h, 2 * b>> \in R /\ <<h, 2 * b + 1>> \in R
    BY <1>1, <2>1 DEF Holds
  <2>3. {2 * b, 2 * b + 1} = {p, Beside(p)}
    BY <1>1, <1>5, ChildrenOnWay
  <2>4. p = 2 * b \/ p = 2 * b + 1
    BY <2>3
  <2> QED BY <2>2, <2>4
<1> QED BY <1>5, <1>7, <1>8 DEF OnWay

\* update_element makes the new tree out of the old one.
LEMMA UpdateRootBuilds ==
    ASSUME NEW lv \in [Indices -> LeafHashes], NEW index \in Indices, NEW value \in LeafHashes,
           NEW L, L = Layers(lv, Depth), NEW M, M = Layers(Overwrite(lv, index, value), Depth),
           LeavesDiffer(lv), LeavesDiffer(Overwrite(lv, index, value)),
           NEW s, StoreOK(s), root(s) = L[Depth][0], Stored(s, L)
    PROVE  /\ update_root(s, value, index).hash = M[Depth][0]
           /\ Stored(update_root(s, value, index).s, M)
<1>1. PICK R : <<Depth, 0>> \in R /\ Closed(R, s, L)
  BY DEF Stored
<1>2. PICK X, way : X = Rest(R, M, index) /\ way = Way(s, index)
  OBVIOUS
<1>3. PICK g : /\ update_root(s, value, index) = g[Depth]
               /\ g[0] = [s |-> s, hash |-> value]
               /\ \A h \in 0 .. Depth - 1 :
                      g[h + 1] = update_subtree(s, way[Depth - (h + 1)], value, keep_n_lsb(index, h + 1), h + 1, g[h])
  BY <1>2, UpdateRootIs
<1>4. PICK w : /\ way = w /\ w[0] = root(s)
               /\ \A d \in 0 .. Depth - 1 : w[d + 1] = Get(s, NodeKey(w[d]))[IF BitSet(index, Depth - (d + 1)) THEN 2 ELSE 1]
  BY <1>2, WayIs
<1>5. index \in 0 .. PowerOf2[Depth] - 1 /\ Depth \in 0 .. Depth /\ index \in Nat
  <2>1. Depth \in 0 .. Depth /\ index \in 0 .. PowerOf2[Depth] - 1
    BY DepthAssumption DEF Indices
  <2> QED BY <2>1, SmallIndex
<1>6. Above(index, Depth) = 0 /\ Above(index, 0) = index
  BY <1>5, PlaceAbove
<1>7. HasEmpty(X, M) /\ Closed(X, s, M)
  BY <1>1, <1>2, RestIsClosed
<1> DEFINE S == {n \in Nat : n <= Depth => (OnWay(s, way, R, L, index, n) => Built(g[n], n, X, M, index))}
<1>8. Built(g[0], 0, X, M, index)
  <2>1. PICK Y : Y = X \cup {<<0, index>>}
    OBVIOUS
  <2>2. ASSUME NEW h \in 0 .. Depth - 1, NEW m \in Places(Depth, h + 1), <<h + 1, m>> \in Y
        PROVE  Holds(Y, s, M, h, m)
    <3>1. h + 1 # 0
      BY DepthAssumption
    <3>2. <<h + 1, m>> \in X
      BY <2>1, <2>2, <3>1
    <3>3. Holds(X, s, M, h, m)
      BY <1>7, <3>2 DEF Closed
    <3>4. X \subseteq Y
      BY <2>1
    <3> QED BY <3>3, <3>4 DEF Holds
  <2>3. Closed(Y, s, M)
    BY <2>2 DEF Closed
  <2>4. M[0][index] = value
    BY RestUnchanged
  <2>5. ResultOK(g[0], 0)
    BY <1>3, TreeFacts DEF ResultOK
  <2>6. X \subseteq Y /\ <<0, Above(index, 0)>> \in Y
    BY <1>6, <2>1
  <2>7. g[0].s = s /\ g[0].hash = M[0][Above(index, 0)]
    BY <1>3, <1>6, <2>4
  <2> QED BY <2>3, <2>5, <2>6, <2>7 DEF Built
<1>9. 0 \in S
  BY <1>8
<1>10. ASSUME NEW h \in 0 .. Depth - 1, h \in S, OnWay(s, way, R, L, index, h + 1)
       PROVE  Built(g[h + 1], h + 1, X, M, index)
  <2>1. PICK t, b : t = L[h + 1][Above(index, h + 1)] /\ b = Above(index, h + 1)
    OBVIOUS
  <2>2. b \in Places(Depth, h + 1) /\ h + 1 \in 0 .. Depth /\ h \in Nat /\ h <= Depth
    <3>1. Above(index, h + 1) \in Places(Depth, h + 1)
      BY SiblingsOnWay
    <3> QED BY <2>1, <3>1, DepthAssumption
  <2>3. t \in Trees[h + 1] /\ way[Depth - (h + 1)] = t
    BY <1>10, <2>1, <2>2, LayersAreTrees DEF OnWay
  <2>4. IsNode(s, t) => Built(g[h], h, X, M, index)
    <3>1. IsNode(s, t) => OnWay(s, way, R, L, index, h)
      BY <1>1, <1>2, <1>10, <2>1, StaysOnWay
    <3> QED BY <1>10, <2>2, <3>1
  <2>5. <<h + 1, Above(index, h + 1)>> \in R
    BY <1>10 DEF OnWay
  <2>6. Built(update_subtree(s, t, value, keep_n_lsb(index, h + 1), h + 1, g[h]), h + 1, X, M, index)
    <3>1. PICK sub : sub = g[h]
      OBVIOUS
    <3>2. IsNode(s, t) => Built(sub, h, X, M, index)
      BY <2>4, <3>1
    <3>3. Built(update_subtree(s, t, value, keep_n_lsb(index, h + 1), h + 1, sub), h + 1, X, M, index)
      BY <1>1, <1>2, <2>1, <2>5, <3>2, CallBuilds
    <3> QED BY <3>1, <3>3
  <2>7. g[h + 1] = update_subtree(s, t, value, keep_n_lsb(index, h + 1), h + 1, g[h])
    BY <1>3, <2>3
  <2> QED BY <2>6, <2>7
<1>11. ASSUME NEW n \in Nat, n \in S PROVE n + 1 \in S
  <2> SUFFICES ASSUME n + 1 <= Depth, OnWay(s, way, R, L, index, n + 1) PROVE Built(g[n + 1], n + 1, X, M, index)
    OBVIOUS
  <2>1. n \in 0 .. Depth - 1
    BY DepthAssumption
  <2> HIDE DEF S
  <2> QED BY <1>10, <1>11, <2>1
<1>12. Nat \subseteq S
  <2> HIDE DEF S
  <2> QED BY <1>9, <1>11, InductionOverSet
<1>13. OnWay(s, way, R, L, index, Depth)
  <2>1. Depth - Depth = 0
    BY DepthAssumption
  <2> QED BY <1>1, <1>4, <1>6, <2>1 DEF OnWay
<1>14. Built(g[Depth], Depth, X, M, index)
  <2>1. Depth \in Nat /\ Depth <= Depth
    BY DepthAssumption
  <2>2. Depth \in S
    BY <1>12, <2>1
  <2> QED BY <1>13, <2>1, <2>2
<1>15. PICK Y : X \subseteq Y /\ <<Depth, Above(index, Depth)>> \in Y /\ Closed(Y, g[Depth].s, M)
  BY <1>14 DEF Built
<1>16. g[Depth].hash = M[Depth][0]
  BY <1>6, <1>14 DEF Built
<1>17. Stored(g[Depth].s, M)
  BY <1>6, <1>15 DEF Stored
<1> QED BY <1>3, <1>16, <1>17

-----------------------------------------------------------------------------
(***************************************************************************)
(* Commit and rollback.                                                    *)
(***************************************************************************)

\* What was committed is as it was.
SameStore(s, p) == IsStore(p) /\ p.store = s.store

LEMMA PutKeeps ==
    ASSUME NEW s, NEW p, SameStore(s, p), NEW k, NEW v
    PROVE  SameStore(s, AfterPut(p, k, v)) /\ SameStore(s, AfterDel(p, k))
<1>1. PICK q, d : q = AfterPut(p, k, v) /\ d = AfterDel(p, k)
  OBVIOUS
<1>2. IsStore(q) /\ q.store = p.store
  BY <1>1, PutEffect DEF SameStore
<1>3. IsStore(d) /\ d.store = p.store
  BY <1>1, DelEffect DEF SameStore
<1> QED BY <1>1, <1>2, <1>3 DEF SameStore

LEMMA StumpsKeep ==
    ASSUME NEW s, NEW p, SameStore(s, p), NEW v, NEW i, NEW w, NEW j, NEW h
    PROVE  SameStore(s, WithStumps(p, v, i, w, j, h))
BY PutKeeps DEF WithStumps, put_stump

LEMMA ForkStumpKeeps ==
    ASSUME NEW s, IsStore(s), NEW value1, NEW index1 \in Nat, NEW value2, NEW index2,
           NEW height \in 0 .. Depth, NEW c \in 1 .. height
    PROVE  SameStore(s, fork_stump(s, value1, index1, value2, index2, height, c).s)
<1>1. height \in Nat /\ c \in 0 .. height /\ height <= Depth
  BY DepthAssumption
<1>2. PICK g : /\ fork_stump(s, value1, index1, value2, index2, height, c) = g[height]
               /\ g[c] = fork(s, value1, index1, value2, index2, c)
               /\ \A h \in c .. height - 1 :
                      g[h + 1] = binary_put(g[h].s, index1, g[h].hash, zero_hashes_[h], h + 1)
  BY <1>1, ForkStumpIs
<1> DEFINE S == {j \in Nat : c + j <= height => SameStore(s, g[c + j].s)}
<1>3. 0 \in S
  <2>1. PICK h : h = c - 1
    OBVIOUS
  <2>2. h \in 0 .. Depth - 1 /\ c = h + 1 /\ c + 0 = c
    BY <1>1, <2>1, DepthAssumption
  <2>3. PICK q, t : q = WithStumps(s, value1, index1, value2, index2, h) /\ g[c] = WithPair(q, t)
    BY <1>2, <2>2, ForkIs
  <2>4. SameStore(s, q)
    BY <2>3, StumpsKeep DEF SameStore
  <2>5. g[c].s = AfterPut(q, NodeKey(t), t)
    BY <2>3 DEF WithPair
  <2>6. SameStore(s, g[c].s)
    BY <2>4, <2>5, PutKeeps
  <2> QED BY <2>2, <2>6
<1>4. ASSUME NEW j \in Nat, j \in S PROVE j + 1 \in S
  <2> SUFFICES ASSUME c + (j + 1) <= height PROVE SameStore(s, g[c + (j + 1)].s)
    OBVIOUS
  <2>1. PICK h : h = c + j
    OBVIOUS
  <2>2. h + 1 = c + (j + 1) /\ h \in c .. height - 1 /\ h \in Nat /\ c + j <= height
    BY <1>1, <2>1
  <2>3. PICK t : g[h + 1] = WithPair(g[h].s, t)
    <3>1. binary_put(g[h].s, index1, g[h].hash, zero_hashes_[h], h + 1) = WithPair(g[h].s, Ordered(index1, h, g[h].hash, zero_hashes_[h]))
      BY <2>2, BinaryPutIs
    <3> QED BY <1>2, <2>2, <3>1
  <2>4. SameStore(s, g[h].s)
    BY <1>4, <2>1, <2>2
  <2>5. g[h + 1].s = AfterPut(g[h].s, NodeKey(t), t)
    BY <2>3 DEF WithPair
  <2> QED BY <2>2, <2>4, <2>5, PutKeeps
<1>5. Nat \subseteq S
  <2> HIDE DEF S
  <2> QED BY <1>3, <1>4, InductionOverSet
<1>6. height - c \in Nat /\ c + (height - c) = height
  BY <1>1
<1> QED BY <1>2, <1>5, <1>6

LEMMA CallKeeps ==
    ASSUME NEW s, StoreOK(s), NEW h \in 0 .. Depth - 1, NEW t \in Trees[h + 1],
           NEW value, NEW index \in Nat, NEW i, i = keep_n_lsb(index, h + 1),
           NEW sub, IsNode(s, t) => SameStore(s, sub.s)
    PROVE  SameStore(s, update_subtree(s, t, value, i, h + 1, sub).s)
<1>1. h + 1 \in 0 .. Depth /\ i \in 0 .. PowerOf2[h + 1] - 1
  <2>1. h + 1 \in 0 .. Depth
    BY DepthAssumption
  <2> QED BY <2>1, BitFacts
<1>2. IsStore(s) /\ SameStore(s, s)
  BY DEF StoreOK, SameStore
<1>3. PICK r : r = update_subtree(s, t, value, i, h + 1, sub)
  OBVIOUS
<1>4. CASE r = [s |-> put_stump(s, ZeroPath(i, value)[h + 1], i, value), hash |-> ZeroPath(i, value)[h + 1]]
  <2>1. r.s = put_stump(s, ZeroPath(i, value)[h + 1], i, value)
    BY <1>4
  <2> QED BY <1>2, <1>3, <2>1, PutKeeps DEF put_stump
<1>5. ASSUME NEW j \in 0 .. PowerOf2[h + 1] - 1, NEW v \in LeafHashes, j # i,
             r = fork_stump(s, v, j, value, i, h + 1, DifferingBits(j, i))
      PROVE  SameStore(s, r.s)
  <2>1. PICK c : c = DifferingBits(j, i)
    OBVIOUS
  <2>2. c \in 0 .. h + 1 /\ c # 0
    BY <1>1, <1>5, <2>1, Differing
  <2>3. c \in 1 .. h + 1 /\ j \in Nat
    BY <1>1, <2>2, SmallIndex
  <2>4. SameStore(s, fork_stump(s, v, j, value, i, h + 1, c).s)
    BY <1>1, <1>2, <2>3, ForkStumpKeeps
  <2> QED BY <1>5, <2>1, <2>4
<1>6. ASSUME IsNode(s, t), NEW a, NEW b, r = update_node(s, <<a, b>>, BitSet(i, h), sub)
      PROVE  SameStore(s, r.s)
  <2>1. PICK new, old : /\ new = IF BitSet(i, h) THEN <<a, sub.hash>> ELSE <<sub.hash, b>>
                        /\ old = IF BitSet(i, h) THEN b ELSE a
    OBVIOUS
  <2>2. BitSet(i, h) \in BOOLEAN
    BY DEF BitSet
  <2>3. PICK w : w = WithPair(sub.s, new)
    OBVIOUS
  <2>4. r = IF old # sub.hash THEN [w EXCEPT !.s = AfterDel(@, NodeKey(old))] ELSE w
    BY <1>6, <2>1, <2>2, <2>3, UpdateNodeIs
  <2>5. w = [s |-> AfterPut(sub.s, NodeKey(new), new), hash |-> new]
    BY <2>3 DEF WithPair
  <2>6. SameStore(s, w.s) /\ SameStore(s, AfterDel(w.s, NodeKey(old)))
    <3>1. SameStore(s, sub.s) /\ w.s = AfterPut(sub.s, NodeKey(new), new)
      BY <1>6, <2>5
    <3>2. SameStore(s, w.s)
      BY <3>1, PutKeeps
    <3> QED BY <3>2, PutKeeps
  <2>7. r.s = IF old # sub.hash THEN AfterDel(w.s, NodeKey(old)) ELSE w.s
    BY <2>4, <2>5
  <2> QED BY <2>6, <2>7
<1>7. CallCases(s, t, value, i, h, sub, r)
  BY <1>3, CallIs
<1> QED BY <1>3, <1>4, <1>5, <1>6, <1>7 DEF CallCases

LEMMA UpdateRootKeeps ==
    ASSUME NEW s, StoreOK(s), NEW value, NEW index \in Nat
    PROVE  SameStore(s, update_root(s, value, index).s)
<1>1. PICK way : way = Way(s, index)
  OBVIOUS
<1>2. PICK g : /\ update_root(s, value, index) = g[Depth]
               /\ g[0] = [s |-> s, hash |-> value]
               /\ \A h \in 0 .. Depth - 1 :
                     g[h + 1] = update_subtree(s, way[Depth - (h + 1)], value, keep_n_lsb(index, h + 1), h + 1, g[h])
  BY <1>1, UpdateRootIs
<1> DEFINE S == {h \in Nat : h <= Depth => (way[Depth - h] \in Trees[h] => SameStore(s, g[h].s))}
<1>3. 0 \in S
  BY <1>2 DEF SameStore, StoreOK
<1>4. ASSUME NEW h \in Nat, h \in S PROVE h + 1 \in S
  <2> SUFFICES ASSUME h + 1 <= Depth, way[Depth - (h + 1)] \in Trees[h + 1]
               PROVE  SameStore(s, g[h + 1].s)
    OBVIOUS
  <2>1. h \in 0 .. Depth - 1
    BY DepthAssumption
  <2>2. ASSUME IsNode(s, way[Depth - (h + 1)]) PROVE SameStore(s, g[h].s)
    <3>1. way[Depth - h] \in Trees[h]
      BY <1>1, <2>1, <2>2, WayDown
    <3> QED BY <1>4, <2>1, <3>1, DepthAssumption
  <2> QED BY <1>2, <2>1, <2>2, CallKeeps
<1> HIDE DEF S
<1>5. Depth \in S
  BY <1>3, <1>4, InductionOverSet, DepthAssumption
<1>6. way[Depth - Depth] \in Trees[Depth]
  <2>1. way[0] = root(s) /\ Depth - Depth = 0
    BY <1>1, WayIs, DepthAssumption
  <2> QED BY <2>1, RootOK
<1> QED BY <1>2, <1>5, <1>6, DepthAssumption DEF S

\* An update leaves what a rollback returns to.
LEMMA UpdateIsUndone ==
    ASSUME NEW s, StoreOK(s), NEW value, NEW index \in Nat, Leaf(value) \in LeafHashes
    PROVE  AfterRollback(AfterUpdate(s, index, Leaf(value))) = AfterRollback(s)
           /\ SameStore(s, AfterUpdate(s, index, Leaf(value)))
<1>1. PICK v, p, r, q : /\ v = Leaf(value) /\ p = AfterPut(s, LeafKey(index), v) /\ r = update_root(p, v, index)
                        /\ q = AfterPut(r.s, MetaKey, <<r.hash, index + 1>>)
  OBVIOUS
<1>2. StoreOK(p) /\ SameStore(s, p)
  <2>1. SameStore(s, s)
    BY DEF StoreOK, SameStore
  <2> QED BY <1>1, <2>1, PutIsOK, KeyFacts, PutKeeps
<1>3. SameStore(s, r.s)
  BY <1>1, <1>2, UpdateRootKeeps DEF SameStore
<1>4. SameStore(s, q)
  BY <1>1, <1>3, PutKeeps
<1>5. AfterUpdate(s, index, Leaf(value)) = q
  BY <1>1 DEF AfterUpdate
<1>6. PICK e : e = EmptyMap
  OBVIOUS
<1>7. ASSUME NEW x, IsStore(x) PROVE AfterRollback(x) = [store |-> x.store, puts |-> e, deletes |-> {}]
  <2>1. AfterRollback(x) = [x EXCEPT !.puts = e, !.deletes = {}]
    BY <1>6 DEF AfterRollback
  <2> QED BY <1>7, <2>1 DEF IsStore
<1> QED BY <1>4, <1>5, <1>7 DEF SameStore, StoreOK

\* The store holds the tree with these leaves, whole.
View(s, lv) ==
    LET L == Layers(lv, Depth) IN StoreOK(s) /\ root(s) = L[Depth][0] /\ Stored(s, L)

\* A store that answers the same for the nodes and the metadata holds the same.
LEMMA SameAnswers ==
    ASSUME NEW s, NEW p, NEW L, Stored(s, L),
           \A t : (Has(p, NodeKey(t)) <=> Has(s, NodeKey(t))) /\ Get(p, NodeKey(t)) = Get(s, NodeKey(t))
    PROVE  Stored(p, L)
<1>1. PICK X : <<Depth, 0>> \in X /\ Closed(X, s, L)
  BY DEF Stored
<1>2. ASSUME NEW h \in 0 .. Depth - 1, NEW n \in Places(Depth, h + 1), <<h + 1, n>> \in X
      PROVE  Holds(X, p, L, h, n)
  <2>1. PICK t : t = L[h + 1][n]
    OBVIOUS
  <2>2. Holds(X, s, L, h, n)
    BY <1>1, <1>2 DEF Closed
  <2>3. (Has(p, NodeKey(t)) <=> Has(s, NodeKey(t))) /\ (IsNode(p, t) <=> IsNode(s, t))
    BY DEF IsNode
  <2> QED BY <2>1, <2>2, <2>3 DEF Holds
<1> QED BY <1>1, <1>2 DEF Stored, Closed

\* A put under a key that is no node's changes no node.
LEMMA OtherPut ==
    ASSUME NEW s, IsStore(s), NEW L, Stored(s, L), NEW k, NEW v, \A t : NodeKey(t) # k
    PROVE  Stored(AfterPut(s, k, v), L)
<1>1. PICK p : p = AfterPut(s, k, v)
  OBVIOUS
<1>2. \A x : x # k => (Has(p, x) <=> Has(s, x)) /\ Get(p, x) = Get(s, x)
  BY <1>1, PutEffect
<1>3. \A t : (Has(p, NodeKey(t)) <=> Has(s, NodeKey(t))) /\ Get(p, NodeKey(t)) = Get(s, NodeKey(t))
  BY <1>2
<1> QED BY <1>1, <1>3, SameAnswers

LEMMA UpdateView ==
    ASSUME NEW lv \in [Indices -> LeafHashes], NEW index \in Indices, NEW value \in LeafHashes,
           LeavesDiffer(lv), LeavesDiffer(Overwrite(lv, index, value)), NEW s, View(s, lv)
    PROVE  View(AfterUpdate(s, index, value), Overwrite(lv, index, value))
<1>1. PICK p, r, q, d : /\ p = AfterPut(s, LeafKey(index), value) /\ r = update_root(p, value, index)
                        /\ d = <<r.hash, index + 1>> /\ q = AfterPut(r.s, MetaKey, d)
  OBVIOUS
<1>2. PICK L, M : L = Layers(lv, Depth) /\ M = Layers(Overwrite(lv, index, value), Depth)
  OBVIOUS
<1>3. StoreOK(s) /\ root(s) = L[Depth][0] /\ Stored(s, L)
  BY <1>2 DEF View
<1>4. StoreOK(p)
  BY <1>1, <1>3, PutIsOK, KeyFacts
<1>5. root(p) = root(s)
  <2>1. MetaKey # LeafKey(index)
    BY KeyFacts
  <2>2. (Has(p, MetaKey) <=> Has(s, MetaKey)) /\ Get(p, MetaKey) = Get(s, MetaKey)
    BY <1>1, <1>3, <2>1, PutEffect DEF StoreOK
  <2> QED BY <2>2 DEF root
<1>6. Stored(p, L)
  <2>1. \A t : NodeKey(t) # LeafKey(index)
    BY KeyFacts
  <2> QED BY <1>1, <1>3, <2>1, OtherPut DEF StoreOK
<1>7. r.hash = M[Depth][0] /\ Stored(r.s, M)
  <2>1. root(p) = L[Depth][0]
    BY <1>3, <1>5
  <2>2. /\ update_root(p, value, index).hash = M[Depth][0]
        /\ Stored(update_root(p, value, index).s, M)
    BY <1>2, <1>4, <1>6, <2>1, UpdateRootBuilds
  <2> QED BY <1>1, <2>2
<1>8. index \in Nat
  <2>1. Depth \in 0 .. Depth /\ index \in 0 .. PowerOf2[Depth] - 1
    BY DepthAssumption DEF Indices
  <2> QED BY <2>1, SmallIndex
<1>9. StoreOK(r.s)
  BY <1>1, <1>4, <1>8, UpdateRootOK DEF ResultOK
<1>10. Stored(q, M)
  <2>1. \A t : NodeKey(t) # MetaKey
    BY KeyFacts
  <2> QED BY <1>1, <1>7, <1>9, <2>1, OtherPut DEF StoreOK
<1>11. AfterUpdate(s, index, value) = q
  BY <1>1 DEF AfterUpdate
<1>12. StoreOK(q)
  BY <1>3, <1>8, <1>11, AfterUpdateOK
<1>13. root(q) = M[Depth][0]
  <2>1. Has(q, MetaKey) /\ Get(q, MetaKey) = d
    BY <1>1, <1>9, PutEffect DEF StoreOK
  <2>2. d[1] = r.hash
    BY <1>1
  <2> QED BY <1>7, <2>1, <2>2 DEF root
<1> QED BY <1>2, <1>10, <1>11, <1>12, <1>13 DEF View

\* The first commit keeps the view, and makes it the one a rollback returns to.
LEMMA CommitView ==
    ASSUME NEW lv, NEW s, View(s, lv), DOMAIN s.store = {}
    PROVE  View(AfterCommit(s), lv) /\ AfterRollback(AfterCommit(s)) = AfterCommit(s)
<1>1. PICK f, e : /\ f = [k \in (DOMAIN s.store \cup DOMAIN s.puts) \ s.deletes |->
                            IF k \in DOMAIN s.store THEN s.store[k] ELSE s.puts[k]]
                  /\ e = EmptyMap
  OBVIOUS
<1>2. PICK p : p = [store |-> f, puts |-> e, deletes |-> {}]
  OBVIOUS
<1>3. AfterCommit(s) = p
  BY <1>1, <1>2 DEF AfterCommit
<1>4. AfterRollback(p) = p
  <2>1. AfterRollback(p) = [p EXCEPT !.puts = e, !.deletes = {}]
    BY <1>1 DEF AfterRollback
  <2> QED BY <1>2, <2>1
<1>5. DOMAIN e = {}
  BY <1>1 DEF EmptyMap
<1>6. \A k : (Has(p, k) <=> Has(s, k)) /\ Get(p, k) = Get(s, k)
  <2> SUFFICES ASSUME NEW k PROVE (Has(p, k) <=> Has(s, k)) /\ Get(p, k) = Get(s, k)
    OBVIOUS
  <2>1. p.store = f /\ p.puts = e /\ p.deletes = {}
    BY <1>2
  <2>2. Has(p, k) <=> k \in DOMAIN f
    BY <1>5, <2>1 DEF Has
  <2>3. DOMAIN f = DOMAIN s.puts \ s.deletes /\ \A x \in DOMAIN f : f[x] = s.puts[x]
    BY <1>1
  <2>4. Has(s, k) <=> k \in DOMAIN f
    BY <2>3 DEF Has
  <2>5. Has(s, k) => Get(s, k) = s.puts[k] /\ Get(p, k) = f[k]
    BY <1>5, <2>1, <2>2, <2>3, <2>4 DEF Get, Has
  <2> QED BY <2>2, <2>3, <2>4, <2>5 DEF Get
<1>7. PICK L : L = Layers(lv, Depth)
  OBVIOUS
<1>8. Stored(p, L)
  BY <1>6, <1>7, SameAnswers DEF View
<1>9. root(p) = L[Depth][0]
  BY <1>6, <1>7 DEF View, root
<1>10. StoreOK(p)
  BY <1>3, CommitOK DEF View
<1> QED BY <1>3, <1>4, <1>7, <1>8, <1>9, <1>10 DEF View

-----------------------------------------------------------------------------
(***************************************************************************)
(* Hash paths, and the theorems.                                           *)
(***************************************************************************)

\* The hashes above an index, up to height h + 1.
HashesAbove(L, h, index) == [j \in 0 .. h |-> L[j + 1][Above(index, j + 1)]]

\* The path of a tree is made of the hashes above the index, taken apart.
LEMMA TreePathIs ==
    ASSUME NEW lv, NEW L, L = Layers(lv, Depth), NEW index \in Indices
    PROVE  TreePath(lv, Depth, index) = [j \in 0 .. Depth - 1 |-> L[j + 1][Above(index, j + 1)]]
<1>1. ASSUME NEW j \in 0 .. Depth - 1
      PROVE  L[j + 1][Above(index, j + 1)] =
                 <<L[j][2 * (index \div PowerOf2[j + 1])], L[j][2 * (index \div PowerOf2[j + 1]) + 1]>>
  <2>1. PICK n : n = Above(index, j + 1)
    OBVIOUS
  <2>2. n \in Places(Depth, j + 1)
    <3>1. Above(index, j + 1) \in Places(Depth, j + 1)
      BY SiblingsOnWay
    <3> QED BY <2>1, <3>1
  <2>3. L[j + 1][n] = <<L[j][2 * n], L[j][2 * n + 1]>>
    BY <2>2, LayerIsPairs
  <2> QED BY <2>1, <2>3 DEF Above
<1>2. TreePath(lv, Depth, index) =
          [j \in 0 .. Depth - 1 |-> <<L[j][2 * (index \div PowerOf2[j + 1])], L[j][2 * (index \div PowerOf2[j + 1]) + 1]>>]
  BY DEF TreePath
<1> QED BY <1>1, <1>2

\* Below an absent node, and below a stump, the hashes are those the code makes
\* up from the zero hashes.
LEMMA AbsentPath ==
    ASSUME NEW lv, NEW L, L = Layers(lv, Depth), NEW index \in Indices, NEW h \in 0 .. Depth - 1,
           L[h + 1][Above(index, h + 1)] = zero_hashes_[h + 1]
    PROVE  \A j \in 0 .. h : L[j + 1][Above(index, j + 1)] = <<zero_hashes_[j], zero_hashes_[j]>>
<1>1. h + 1 \in 0 .. Depth
  BY DepthAssumption
<1>2. index \in Nat
  <2>1. Depth \in 0 .. Depth /\ index \in 0 .. PowerOf2[Depth] - 1
    BY DepthAssumption DEF Indices
  <2> QED BY <2>1, SmallIndex
<1>3. PICK e, zp, c : /\ e = keep_n_lsb(index, h + 1) /\ zp = ZeroPath(e, ZeroLeaf)
                      /\ c = DifferingBits(e, keep_n_lsb(index, h + 1))
  OBVIOUS
<1>4. e \in 0 .. PowerOf2[h + 1] - 1
  BY <1>1, <1>2, <1>3, BitFacts
<1>5. \A g \in 0 .. Depth : zp[g] = zero_hashes_[g]
  BY <1>3, ZeroPathOfZero
<1>6. L[h + 1][Above(index, h + 1)] = zp[h + 1]
  BY <1>1, <1>5
<1>7. \A g \in 0 .. h + 1 : L[g][Above(index, g)] = IF g < c THEN zero_hashes_[g] ELSE zp[g]
  BY <1>1, <1>3, <1>4, <1>6, StumpOnWay
<1> SUFFICES ASSUME NEW j \in 0 .. h
             PROVE  L[j + 1][Above(index, j + 1)] = <<zero_hashes_[j], zero_hashes_[j]>>
  OBVIOUS
<1>8. j + 1 \in 0 .. h + 1 /\ j + 1 \in 0 .. Depth /\ j \in 0 .. Depth - 1
  BY DepthAssumption
<1>9. zero_hashes_[j + 1] = <<zero_hashes_[j], zero_hashes_[j]>>
  BY <1>8, ZeroHashFacts
<1>10. L[j + 1][Above(index, j + 1)] = zero_hashes_[j + 1]
  BY <1>5, <1>7, <1>8
<1> QED BY <1>9, <1>10

LEMMA StumpPathIs ==
    ASSUME NEW lv, NEW L, L = Layers(lv, Depth), NEW index \in Indices, NEW h \in 0 .. Depth - 1,
           NEW e \in 0 .. PowerOf2[h + 1] - 1, NEW v, L[h + 1][Above(index, h + 1)] = ZeroPath(e, v)[h + 1]
    PROVE  StumpPath(<<v, e, TRUE>>, h, index) = HashesAbove(L, h, index)
<1>1. h + 1 \in 0 .. Depth
  BY DepthAssumption
<1>2. PICK zp, c : zp = ZeroPath(e, v) /\ c = DifferingBits(e, keep_n_lsb(index, h + 1))
  OBVIOUS
<1>3. /\ c \in 0 .. h + 1
      /\ \A g \in 0 .. h + 1 : L[g][Above(index, g)] = IF g < c THEN zero_hashes_[g] ELSE zp[g]
  <2>1. L[h + 1][Above(index, h + 1)] = zp[h + 1]
    BY <1>2
  <2> QED BY <1>1, <1>2, <2>1, StumpOnWay
<1>4. PICK from : from = IF c < 2 THEN 0 ELSE c - 1
  OBVIOUS
<1>5. StumpPath(<<v, e, TRUE>>, h, index) =
          [j \in 0 .. h |-> IF j < from THEN <<zero_hashes_[j], zero_hashes_[j]>> ELSE Ordered(e, j, zp[j], zero_hashes_[j])]
  <2>1. <<v, e, TRUE>>[1] = v /\ <<v, e, TRUE>>[2] = e
    OBVIOUS
  <2> QED BY <1>2, <1>4, <2>1 DEF StumpPath
<1>6. ASSUME NEW j \in 0 .. h
      PROVE  L[j + 1][Above(index, j + 1)] =
                 IF j < from THEN <<zero_hashes_[j], zero_hashes_[j]>> ELSE Ordered(e, j, zp[j], zero_hashes_[j])
  <2>1. j + 1 \in 0 .. h + 1 /\ j \in 0 .. Depth - 1
    BY DepthAssumption
  <2>2. j < from <=> j + 1 < c
    BY <1>3, <1>4, <2>1
  <2>3. zero_hashes_[j + 1] = <<zero_hashes_[j], zero_hashes_[j]>>
    BY <2>1, ZeroHashFacts
  <2>4. zp[j + 1] = Ordered(e, j, zp[j], zero_hashes_[j])
    BY <1>2, <2>1, ZeroPathFacts
  <2>5. L[j + 1][Above(index, j + 1)] = IF j + 1 < c THEN zero_hashes_[j + 1] ELSE zp[j + 1]
    BY <1>3, <2>1
  <2> QED BY <2>2, <2>3, <2>4, <2>5
<1> QED BY <1>5, <1>6 DEF HashesAbove

\* A hash path read from a store is that of the tree it holds.
LEMMA HashPathOK ==
    ASSUME NEW lv \in [Indices -> LeafHashes], NEW s, View(s, lv), NEW index \in Indices
    PROVE  get_hash_path(s, index) = TreePath(lv, Depth, index)
<1>1. PICK L, way : L = Layers(lv, Depth) /\ way = Way(s, index)
  OBVIOUS
<1>2. StoreOK(s) /\ root(s) = L[Depth][0]
  BY <1>1 DEF View
<1>3. PICK R : <<Depth, 0>> \in R /\ Closed(R, s, L)
  BY <1>1 DEF View, Stored
<1>4. PICK path : /\ get_hash_path(s, index) = path[Depth]
                  /\ \A h \in 0 .. Depth - 1 : path[h + 1] = PathBelow(s, way[Depth - (h + 1)], h, index, path[h])
  BY <1>1, HashPathIs
<1> DEFINE HashAt(j) == L[j + 1][Above(index, j + 1)]
           S == {n \in Nat : n <= Depth => (OnWay(s, way, R, L, index, n) /\ n # 0 => path[n] = [j \in 0 .. n - 1 |-> HashAt(j)])}
<1>5. 0 \in S
  OBVIOUS
<1>6. ASSUME NEW h \in 0 .. Depth - 1, h \in S, OnWay(s, way, R, L, index, h + 1)
      PROVE  path[h + 1] = [j \in 0 .. h |-> HashAt(j)]
  <2>1. PICK t, b : t = L[h + 1][b] /\ b = Above(index, h + 1)
    OBVIOUS
  <2>2. b \in Places(Depth, h + 1) /\ h + 1 \in 0 .. Depth /\ h \in Nat /\ h <= Depth
    <3>1. Above(index, h + 1) \in Places(Depth, h + 1)
      BY SiblingsOnWay
    <3> QED BY <2>1, <3>1, DepthAssumption
  <2>3. t \in Trees[h + 1] /\ way[Depth - (h + 1)] = t
    BY <1>1, <1>6, <2>1, <2>2, LayersAreTrees DEF OnWay
  <2>4. path[h + 1] = PathBelow(s, t, h, index, path[h])
    BY <1>4, <2>3
  <2>5. CASE ~ Has(s, NodeKey(t))
    <3>1. Holds(R, s, L, h, b)
      BY <1>3, <1>6, <2>1, <2>2 DEF Closed, OnWay
    <3>2. t = zero_hashes_[h + 1]
      BY <2>1, <2>5, <3>1 DEF Holds
    <3>3. \A j \in 0 .. h : L[j + 1][Above(index, j + 1)] = <<zero_hashes_[j], zero_hashes_[j]>>
      BY <1>1, <2>1, <3>2, AbsentPath
    <3>4. path[h + 1] = [j \in 0 .. h |-> <<zero_hashes_[j], zero_hashes_[j]>>]
      BY <2>4, <2>5 DEF PathBelow
    <3> QED BY <3>3, <3>4
  <2>6. CASE Has(s, NodeKey(t)) /\ IsStump(Get(s, NodeKey(t)))
    <3>1. PICK d : d = Get(s, NodeKey(t))
      OBVIOUS
    <3>2. StumpOf(t, h + 1, d)
      BY <1>2, <2>2, <2>3, <2>6, <3>1, NodeIs
    <3>3. PICK e \in 0 .. PowerOf2[h + 1] - 1, v \in LeafHashes : d = <<v, e, TRUE>> /\ t = ZeroPath(e, v)[h + 1]
      BY <3>2 DEF StumpOf
    <3>4. L[h + 1][Above(index, h + 1)] = ZeroPath(e, v)[h + 1]
      BY <2>1, <3>3
    <3>5. StumpPath(<<v, e, TRUE>>, h, index) = HashesAbove(L, h, index)
      BY <1>1, <3>4, StumpPathIs
    <3>6. path[h + 1] = StumpPath(d, h, index)
      BY <2>4, <2>6, <3>1 DEF PathBelow
    <3> QED BY <3>3, <3>5, <3>6 DEF HashesAbove
  <2>7. CASE IsNode(s, t)
    <3>1. OnWay(s, way, R, L, index, h)
      BY <1>1, <1>2, <1>3, <1>6, <2>1, <2>7, StaysOnWay
    <3>2. h # 0 => path[h] = [j \in 0 .. h - 1 |-> HashAt(j)]
      BY <1>6, <2>2, <3>1
    <3>3. Get(s, NodeKey(t)) = t
      BY <1>2, <2>2, <2>3, <2>7, NodeIs DEF IsNode
    <3>4. path[h + 1] = [j \in 0 .. h |-> IF j = h THEN t ELSE path[h][j]]
      BY <2>4, <2>7, <3>3 DEF PathBelow, IsNode
    <3>5. \A j \in 0 .. h : (IF j = h THEN t ELSE path[h][j]) = HashAt(j)
      <4> SUFFICES ASSUME NEW j \in 0 .. h PROVE (IF j = h THEN t ELSE path[h][j]) = HashAt(j)
        OBVIOUS
      <4>1. CASE j = h
        BY <2>1, <4>1
      <4>2. CASE j # h
        <5>1. h # 0 /\ j \in 0 .. h - 1
          BY <4>2
        <5> QED BY <3>2, <4>2, <5>1
      <4> QED BY <4>1, <4>2
    <3> HIDE DEF HashAt
    <3> QED BY <3>4, <3>5
  <2> QED BY <2>5, <2>6, <2>7 DEF IsNode
<1>7. ASSUME NEW n \in Nat, n \in S PROVE n + 1 \in S
  <2> SUFFICES ASSUME n + 1 <= Depth, OnWay(s, way, R, L, index, n + 1)
               PROVE  path[n + 1] = [j \in 0 .. (n + 1) - 1 |-> HashAt(j)]
    OBVIOUS
  <2>1. n \in 0 .. Depth - 1 /\ (n + 1) - 1 = n
    BY DepthAssumption
  <2> HIDE DEF S, HashAt
  <2> QED BY <1>6, <1>7, <2>1
<1>8. Nat \subseteq S
  <2> HIDE DEF S
  <2> QED BY <1>5, <1>7, InductionOverSet
<1>9. OnWay(s, way, R, L, index, Depth)
  <2>1. Depth - Depth = 0 /\ way[0] = root(s)
    BY <1>1, WayIs, DepthAssumption
  <2>2. Above(index, Depth) = 0
    <3>1. Depth \in 0 .. Depth /\ index \in 0 .. PowerOf2[Depth] - 1
      BY DepthAssumption DEF Indices
    <3> QED BY <3>1, PlaceAbove
  <2> QED BY <1>2, <1>3, <2>1, <2>2 DEF OnWay
<1>10. path[Depth] = [j \in 0 .. Depth - 1 |-> HashAt(j)]
  <2>1. Depth \in Nat /\ Depth <= Depth /\ Depth # 0
    BY DepthAssumption
  <2>2. Depth \in S
    BY <1>8, <2>1
  <2> QED BY <1>9, <2>1, <2>2
<1>11. TreePath(lv, Depth, index) = [j \in 0 .. Depth - 1 |-> L[j + 1][Above(index, j + 1)]]
  BY <1>1, TreePathIs
<1> QED BY <1>4, <1>10, <1>11

-----------------------------------------------------------------------------
\* No value but that of an empty leaf is written at two indices.
LeavesApart == \A u, w \in Updates : u[1] # w[1] /\ Leaf(u[2]) = Leaf(w[2]) => Leaf(u[2]) = ZeroLeaf

\* Each leaf is empty, or one that is written at its index.
Written(lv) ==
    /\ lv \in [Indices -> LeafHashes]
    /\ \A i \in Indices : lv[i] = ZeroLeaf \/ \E u \in Updates : u[1] = i /\ lv[i] = Leaf(u[2])

LEMMA WrittenDiffer ==
    ASSUME LeavesApart, NEW lv, Written(lv)
    PROVE  LeavesDiffer(lv)
<1> SUFFICES ASSUME NEW i \in Indices, NEW j \in Indices, i # j, lv[i] = lv[j], lv[i] # ZeroLeaf
             PROVE  FALSE
  BY DEF LeavesDiffer
<1>1. PICK u \in Updates : u[1] = i /\ lv[i] = Leaf(u[2])
  BY DEF Written
<1>2. PICK w \in Updates : w[1] = j /\ lv[j] = Leaf(w[2])
  BY DEF Written
<1> QED BY <1>1, <1>2 DEF LeavesApart

LEMMA OverwriteWritten ==
    ASSUME NEW lv, Written(lv), NEW u \in Updates
    PROVE  u[1] \in Indices /\ Leaf(u[2]) \in LeafHashes /\ Written(Overwrite(lv, u[1], Leaf(u[2])))
<1>1. PICK i, v, M : i = u[1] /\ v = Leaf(u[2]) /\ M = Overwrite(lv, i, v)
  OBVIOUS
<1>2. i \in Indices /\ v \in LeafHashes
  BY <1>1, MerkleAssumption DEF LeafHashes
<1>3. lv \in [Indices -> LeafHashes]
  BY DEF Written
<1>4. M = [lv EXCEPT ![i] = v]
  BY <1>1 DEF Overwrite
<1>5. M \in [Indices -> LeafHashes] /\ \A j \in Indices : M[j] = IF j = i THEN v ELSE lv[j]
  BY <1>2, <1>3, <1>4
<1>6. ASSUME NEW j \in Indices PROVE M[j] = ZeroLeaf \/ \E w \in Updates : w[1] = j /\ M[j] = Leaf(w[2])
  <2>1. CASE j = i
    BY <1>1, <1>5, <2>1
  <2>2. CASE j # i
    BY <1>5, <2>2 DEF Written
  <2> QED BY <2>1, <2>2
<1> QED BY <1>1, <1>2, <1>5, <1>6 DEF Written

LEMMA RollbackTwice ==
    ASSUME NEW s, IsStore(s)
    PROVE  AfterRollback(AfterRollback(s)) = AfterRollback(s) /\ AfterRollback(s).store = s.store
<1>1. PICK e, p : e = EmptyMap /\ p = [store |-> s.store, puts |-> e, deletes |-> {}]
  OBVIOUS
<1>2. AfterRollback(s) = p
  <2>1. AfterRollback(s) = [s EXCEPT !.puts = e, !.deletes = {}]
    BY <1>1 DEF AfterRollback
  <2> QED BY <1>1, <2>1 DEF IsStore
<1>3. AfterRollback(p) = p
  <2>1. AfterRollback(p) = [p EXCEPT !.puts = e, !.deletes = {}]
    BY <1>1 DEF AfterRollback
  <2> QED BY <1>1, <2>1
<1> QED BY <1>1, <1>2, <1>3

\* The empty store holds the empty tree.
LEMMA EmptyView == View(EmptyStore, EmptyLeaves)
<1>1. PICK L, s : L = Layers(EmptyLeaves, Depth) /\ s = EmptyStore
  OBVIOUS
<1>2. s.store = EmptyMap /\ s.puts = EmptyMap /\ s.deletes = {} /\ DOMAIN EmptyMap = {}
  BY <1>1 DEF EmptyStore, EmptyMap
<1>3. \A k : ~ Has(s, k)
  BY <1>2 DEF Has
<1>4. L[Depth][0] = zero_hashes_[Depth]
  <2>1. Depth \in 0 .. Depth /\ 0 \in 0 .. PowerOf2[Depth] - 1
    <3>1. PowerOf2[Depth] \in Nat \ {0}
      BY PowerFacts, DepthAssumption
    <3> QED BY <3>1, DepthAssumption
  <2>2. EmptyLeaves = [n \in 0 .. PowerOf2[Depth] - 1 |-> IF n = 0 THEN ZeroLeaf ELSE ZeroLeaf]
    BY DEF EmptyLeaves, Indices
  <2>3. TreeHash(EmptyLeaves, Depth) = ZeroPath(0, ZeroLeaf)[Depth]
    BY <2>1, <2>2, StumpHashIs
  <2>4. TreeHash(EmptyLeaves, Depth) = L[Depth][0]
    BY <1>1 DEF TreeHash
  <2> QED BY <2>1, <2>3, <2>4, ZeroPathOfZero
<1>5. root(s) = L[Depth][0]
  BY <1>3, <1>4 DEF root
<1>6. PICK X : X = {<<Depth, 0>>}
  OBVIOUS
<1>7. ASSUME NEW h \in 0 .. Depth - 1, NEW n \in Places(Depth, h + 1), <<h + 1, n>> \in X
      PROVE  Holds(X, s, L, h, n)
  <2>1. h + 1 = Depth /\ n = 0
    BY <1>6, <1>7
  <2> QED BY <1>3, <1>4, <2>1 DEF Holds, IsNode
<1>8. Stored(s, L)
  BY <1>6, <1>7 DEF Stored, Closed
<1> QED BY <1>1, <1>5, <1>8, EmptyStoreOK DEF View

\* Until the second commit the store holds the tree of the leaves, and under its
\* puts and deletes that of the committed leaves.
Views ==
    /\ Written(leaves) /\ View(db, leaves)
    /\ Written(committed) /\ View(AfterRollback(db), committed)

TreesAreStored ==
    /\ commits \in Nat
    /\ commits = 0 => DOMAIN db.store = {}
    /\ commits <= 1 => Views

LEMMA TreesStayStored == ASSUME LeavesApart PROVE MerkleSpec => []TreesAreStored
<1>1. MerkleInit => TreesAreStored
  <2> SUFFICES ASSUME MerkleInit PROVE TreesAreStored
    OBVIOUS
  <2>1. db = EmptyStore /\ leaves = EmptyLeaves /\ committed = EmptyLeaves /\ commits = 0
    BY DEF MerkleInit
  <2>2. IsStore(EmptyStore) /\ DOMAIN EmptyStore.store = {}
    BY EmptyStoreOK DEF StoreOK, EmptyStore, EmptyMap
  <2>3. AfterRollback(EmptyStore) = EmptyStore
    <3>1. PICK e, s : e = EmptyMap /\ s = [store |-> e, puts |-> e, deletes |-> {}]
      OBVIOUS
    <3>2. AfterRollback(s) = [s EXCEPT !.puts = e, !.deletes = {}]
      BY <3>1 DEF AfterRollback
    <3>3. AfterRollback(s) = s
      BY <3>1, <3>2
    <3> QED BY <3>1, <3>3 DEF EmptyStore
  <2>4. Written(EmptyLeaves)
    BY DEF Written, EmptyLeaves, LeafHashes
  <2> QED BY <2>1, <2>2, <2>3, <2>4, EmptyView DEF TreesAreStored, Views
<1>2. TreesAreStored /\ [MerkleNext]_treeVars => TreesAreStored'
  <2> SUFFICES ASSUME TreesAreStored, [MerkleNext]_treeVars PROVE TreesAreStored'
    OBVIOUS
  <2>1. ASSUME NEW u \in Updates, update_element(u[1], u[2]) PROVE TreesAreStored'
    <3>1. /\ db' = AfterUpdate(db, u[1], Leaf(u[2])) /\ leaves' = Overwrite(leaves, u[1], Leaf(u[2]))
          /\ committed' = committed /\ commits' = commits
      BY <2>1 DEF update_element, Overwrite
    <3>2. CASE commits <= 1
      <4>1. Views
        BY <3>2 DEF TreesAreStored
      <4>2. PICK M : M = Overwrite(leaves, u[1], Leaf(u[2]))
        OBVIOUS
      <4>3. u[1] \in Indices /\ Leaf(u[2]) \in LeafHashes /\ Written(M)
        BY <4>1, <4>2, OverwriteWritten DEF Views
      <4>4. LeavesDiffer(leaves) /\ LeavesDiffer(M) /\ leaves \in [Indices -> LeafHashes]
        BY <4>1, <4>3, WrittenDiffer DEF Views, Written
      <4>5. View(AfterUpdate(db, u[1], Leaf(u[2])), M)
        BY <4>1, <4>2, <4>3, <4>4, UpdateView DEF Views
      <4>6. StoreOK(db) /\ u[1] \in Nat
        <5>1. Depth \in 0 .. Depth /\ u[1] \in 0 .. PowerOf2[Depth] - 1
          BY <4>3, DepthAssumption DEF Indices
        <5>2. u[1] \in Nat
          BY <5>1, SmallIndex
        <5> QED BY <4>1, <5>2 DEF Views, View
      <4>7. AfterRollback(AfterUpdate(db, u[1], Leaf(u[2]))) = AfterRollback(db)
            /\ SameStore(db, AfterUpdate(db, u[1], Leaf(u[2])))
        BY <4>3, <4>6, UpdateIsUndone
      <4>8. Views'
        BY <3>1, <4>1, <4>2, <4>3, <4>5, <4>7 DEF Views
      <4> QED BY <3>1, <4>7, <4>8 DEF TreesAreStored, SameStore
    <3>3. CASE ~ commits <= 1
      <4>1. commits # 0
        BY <3>3
      <4> QED BY <3>1, <3>3, <4>1 DEF TreesAreStored
    <3> QED BY <3>2, <3>3
  <2>2. CASE Commit
    <3>1. db' = AfterCommit(db) /\ committed' = leaves /\ leaves' = leaves /\ commits' = commits + 1 /\ commits \in Nat
      BY <2>2 DEF Commit, TreesAreStored
    <3>2. commits' \in Nat /\ commits' # 0
      BY <3>1
    <3>3. CASE commits = 0
      <4>1. Views /\ DOMAIN db.store = {}
        BY <3>3 DEF TreesAreStored
      <4>2. View(AfterCommit(db), leaves) /\ AfterRollback(AfterCommit(db)) = AfterCommit(db)
        BY <4>1, CommitView DEF Views
      <4>3. Views'
        BY <3>1, <4>1, <4>2 DEF Views
      <4> QED BY <3>2, <4>3 DEF TreesAreStored
    <3>4. CASE commits # 0
      <4>1. ~ commits' <= 1
        BY <3>1, <3>4
      <4> QED BY <3>2, <4>1 DEF TreesAreStored
    <3> QED BY <3>3, <3>4
  <2>3. CASE Rollback
    <3>1. db' = AfterRollback(db) /\ leaves' = committed /\ committed' = committed /\ commits' = commits
      BY <2>3 DEF Rollback
    <3>2. CASE commits <= 1
      <4>1. Views /\ IsStore(db)
        BY <3>2 DEF TreesAreStored, Views, View, StoreOK
      <4>2. AfterRollback(AfterRollback(db)) = AfterRollback(db) /\ AfterRollback(db).store = db.store
        BY <4>1, RollbackTwice
      <4>3. Views'
        BY <3>1, <4>1, <4>2 DEF Views
      <4> QED BY <3>1, <4>2, <4>3 DEF TreesAreStored
    <3>3. CASE ~ commits <= 1
      <4>1. commits # 0
        BY <3>3
      <4> QED BY <3>1, <3>3, <4>1 DEF TreesAreStored
    <3> QED BY <3>2, <3>3
  <2>4. CASE UNCHANGED treeVars
    BY <2>4 DEF treeVars, TreesAreStored, Views
  <2> QED BY <2>1, <2>2, <2>3, <2>4 DEF MerkleNext
<1> QED BY <1>1, <1>2, PTL DEF MerkleSpec

RootKept == commits <= 1 => RootMatches
PathsKept == commits <= 1 => PathsMatch

\* Where no value but that of an empty leaf is written at two indices, the root in
\* the store is that of the tree of the leaves, until the second commit.
THEOREM RootIsTheTrees == ASSUME LeavesApart PROVE MerkleSpec => [](commits <= 1 => RootMatches)
<1>1. TreesAreStored => RootKept
  BY DEF TreesAreStored, Views, View, RootKept, RootMatches, TreeHash
<1>2. MerkleSpec => []TreesAreStored
  BY TreesStayStored
<1> QED BY <1>1, <1>2, PTL DEF RootKept

\* So is each hash path.
THEOREM PathsAreTheTrees == ASSUME LeavesApart PROVE MerkleSpec => [](commits <= 1 => PathsMatch)
<1>1. TreesAreStored => PathsKept
  <2> SUFFICES ASSUME TreesAreStored, commits <= 1, NEW i \in Indices
               PROVE  get_hash_path(db, i) = TreePath(leaves, Depth, i)
    BY DEF PathsKept, PathsMatch
  <2>1. leaves \in [Indices -> LeafHashes] /\ View(db, leaves)
    BY DEF TreesAreStored, Views, Written
  <2> QED BY <2>1, HashPathOK
<1>2. MerkleSpec => []TreesAreStored
  BY TreesStayStored
<1> QED BY <1>1, <1>2, PTL DEF PathsKept

-----------------------------------------------------------------------------
(***************************************************************************)
(* The dense tree: the same layers, one after the other in an array.       *)
(***************************************************************************)
Dense == INSTANCE MemoryTreeOps

\* The helpers are those of the sparse tree.
LEMMA DenseHelpers ==
    /\ Dense!PowerOf2 = PowerOf2
    /\ Dense!zero_hashes_ = zero_hashes_
    /\ \A index, i : Dense!BitSet(index, i) = BitSet(index, i)
    /\ \A index, i, a, b : Dense!Ordered(index, i, a, b) = Ordered(index, i, a, b)
    /\ \A a, b : Dense!hash_pair_native(a, b) = <<a, b>>
<1>1. Dense!PowerOf2 = PowerOf2
  BY DEF Dense!PowerOf2, PowerOf2
<1>2. Dense!zero_hashes_ = zero_hashes_
  BY DEF Dense!zero_hashes_, zero_hashes_, Dense!hash_pair_native, hash_pair_native
<1>3. \A index, i : Dense!BitSet(index, i) = BitSet(index, i)
  BY <1>1 DEF Dense!BitSet, BitSet
<1>4. \A index, i, a, b : Dense!Ordered(index, i, a, b) = Ordered(index, i, a, b)
  BY <1>3 DEF Dense!Ordered, Ordered
<1>5. \A a, b : Dense!hash_pair_native(a, b) = <<a, b>>
  BY DEF Dense!hash_pair_native
<1> QED BY <1>1, <1>2, <1>3, <1>4, <1>5

\* Each layer starts where the one below it ends; the last ends the array.
LEMMA OffsetStep ==
    /\ Dense!Offset(0) = 0
    /\ \A h \in 0 .. Depth - 1 : Dense!Offset(h + 1) = Dense!Offset(h) + PowerOf2[Depth - h]
    /\ Dense!Offset(Depth) = Dense!HashesSize
<1>1. \A i : Dense!Offset(i) = PowerOf2[Depth + 1] - PowerOf2[Depth + 1 - i]
  BY DenseHelpers DEF Dense!Offset
<1>2. PICK p \in Nat : p = PowerOf2[Depth + 1] /\ p = 2 * PowerOf2[Depth] /\ PowerOf2[Depth] \in Nat
  <2>1. Depth \in 0 .. Depth /\ Depth + 1 \in 0 .. Depth + 1 /\ Depth \in 0 .. Depth + 1
    BY DepthAssumption
  <2> QED BY <2>1, PowerFacts
<1>3. Dense!Offset(0) = 0
  <2>1. Depth + 1 - 0 = Depth + 1
    BY DepthAssumption
  <2>2. Dense!Offset(0) = p - p
    BY <1>1, <1>2, <2>1
  <2> QED BY <2>2
<1>4. ASSUME NEW h \in 0 .. Depth - 1 PROVE Dense!Offset(h + 1) = Dense!Offset(h) + PowerOf2[Depth - h]
  <2>1. PICK d \in 0 .. Depth : d = Depth - h
    BY DepthAssumption
  <2>2. Depth + 1 - (h + 1) = d /\ Depth + 1 - h = d + 1
    BY <2>1, DepthAssumption
  <2>3. PICK q \in Nat : q = PowerOf2[d] /\ PowerOf2[d + 1] = 2 * q
    <3>1. d \in 0 .. Depth + 1
      BY DepthAssumption
    <3> QED BY <3>1, PowerFacts
  <2>4. Dense!Offset(h + 1) = p - q /\ Dense!Offset(h) = p - 2 * q
    BY <1>1, <1>2, <2>2, <2>3
  <2> QED BY <1>2, <2>1, <2>3, <2>4
<1>5. Dense!Offset(Depth) = Dense!HashesSize
  <2>1. Depth + 1 - Depth = 0 + 1 /\ 0 \in 0 .. Depth
    BY DepthAssumption
  <2>2. PowerOf2[0 + 1] = 2 * 1
    BY <2>1, PowerFacts
  <2>3. Dense!Offset(Depth) = p - 2
    BY <1>1, <1>2, <2>1, <2>2
  <2>4. Dense!HashesSize = p - 2
    BY <1>2, DenseHelpers DEF Dense!HashesSize
  <2> QED BY <2>3, <2>4
<1> QED BY <1>3, <1>4, <1>5

LEMMA OffsetsGrow ==
    /\ \A h \in 0 .. Depth : Dense!Offset(h) \in Nat
    /\ \A h \in 0 .. Depth : \A g \in 0 .. h : Dense!Offset(g) <= Dense!Offset(h)
<1> DEFINE Grown(h) == /\ Dense!Offset(h) \in Nat
                       /\ \A g \in 0 .. h : Dense!Offset(g) <= Dense!Offset(h)
           V == {h \in Nat : h <= Depth => Grown(h)}
<1>1. 0 \in V
  <2>1. Dense!Offset(0) = 0
    BY OffsetStep
  <2>2. \A g \in 0 .. 0 : g = 0
    OBVIOUS
  <2> QED BY <2>1, <2>2
<1>2. ASSUME NEW h \in Nat, h \in V PROVE h + 1 \in V
  <2> SUFFICES ASSUME h + 1 <= Depth PROVE Grown(h + 1)
    <3> HIDE DEF Grown
    <3> QED OBVIOUS
  <2>1. h \in 0 .. Depth - 1 /\ h <= Depth /\ Depth - h \in 0 .. Depth + 1
    BY DepthAssumption
  <2>2. PICK p \in Nat : p = PowerOf2[Depth - h]
    BY <2>1, PowerFacts
  <2>3. Dense!Offset(h) \in Nat /\ \A g \in 0 .. h : Dense!Offset(g) <= Dense!Offset(h)
    BY <1>2, <2>1
  <2>4. PICK o \in Nat, t \in Nat : o = Dense!Offset(h) /\ t = Dense!Offset(h + 1) /\ t = o + p
    BY <2>1, <2>2, <2>3, OffsetStep
  <2>5. ASSUME NEW g \in 0 .. h + 1 PROVE Dense!Offset(g) <= t
    <3>1. CASE g = h + 1
      BY <2>4, <3>1
    <3>2. CASE g # h + 1
      <4>1. g \in 0 .. h
        BY <3>2
      <4>2. Dense!Offset(g) <= o
        BY <2>3, <2>4, <4>1
      <4>3. Dense!Offset(g) \in Int
        <5>1. Depth + 1 \in 0 .. Depth + 1 /\ Depth + 1 - g \in 0 .. Depth + 1
          BY <2>1, <4>1, DepthAssumption
        <5>2. PowerOf2[Depth + 1] \in Nat /\ PowerOf2[Depth + 1 - g] \in Nat
          BY <5>1, PowerFacts
        <5> QED BY <5>2, DenseHelpers DEF Dense!Offset
      <4> QED BY <2>4, <4>2, <4>3
    <3> QED BY <3>1, <3>2
  <2> QED BY <2>4, <2>5
<1> HIDE DEF V
<1>3. Nat \subseteq V
  BY <1>1, <1>2, InductionOverSet
<1>4. ASSUME NEW h \in 0 .. Depth PROVE h \in Nat /\ h <= Depth /\ h \in V
  BY <1>3, DepthAssumption
<1>5. ASSUME NEW h \in 0 .. Depth PROVE Grown(h)
  BY <1>4 DEF V
<1> QED BY <1>5

\* Each place of a layer but the root has its own in the array, and is told
\* apart from those of the other layers.
LEMMA PlaceInArray ==
    ASSUME NEW h \in 0 .. Depth - 1, NEW n \in Places(Depth, h), NEW k, k = Dense!Offset(h) + n
    PROVE  /\ k \in 0 .. Dense!HashesSize - 1
           /\ Dense!LayerOf(k) = h
<1>1. h \in 0 .. Depth /\ h + 1 \in 0 .. Depth /\ Depth \in 0 .. Depth /\ Depth - h \in 0 .. Depth + 1
  BY DepthAssumption
<1>2. PICK p \in Nat : p = PowerOf2[Depth - h] /\ n \in 0 .. p - 1
  BY <1>1, PowerFacts DEF Places
<1>3. PICK o, t, u \in Nat : o = Dense!Offset(h) /\ t = Dense!Offset(h + 1) /\ u = Dense!Offset(Depth)
  BY <1>1, OffsetsGrow
<1>4. t = o + p
  BY <1>2, <1>3, OffsetStep
<1>5. t <= u /\ u = Dense!HashesSize
  BY <1>1, <1>3, OffsetsGrow, OffsetStep
<1>6. k \in Nat /\ o <= k /\ k < t
  BY <1>2, <1>3, <1>4
<1>7. k \in 0 .. Dense!HashesSize - 1
  BY <1>3, <1>5, <1>6
<1> DEFINE InLayer(i) == Dense!Offset(i) <= k /\ k < Dense!Offset(i + 1)
<1>8. InLayer(h)
  BY <1>3, <1>6
<1>9. ASSUME NEW i \in 0 .. Depth - 1, InLayer(i) PROVE i = h
  <2>1. i \in 0 .. Depth /\ i + 1 \in 0 .. Depth
    BY DepthAssumption
  <2>2. PICK a, b \in Nat : a = Dense!Offset(i) /\ b = Dense!Offset(i + 1)
    BY <2>1, OffsetsGrow
  <2>3. a <= k /\ k < b
    BY <1>9, <2>2
  <2>4. CASE i < h
    <3>1. i + 1 \in 0 .. h
      BY <2>4
    <3>2. b <= o
      BY <1>1, <1>3, <2>2, <3>1, OffsetsGrow
    <3> QED BY <1>3, <1>6, <2>2, <2>3, <3>2
  <2>5. CASE h < i
    <3>1. h + 1 \in 0 .. i
      BY <2>5
    <3>2. t <= a
      BY <1>3, <2>1, <2>2, <3>1, OffsetsGrow
    <3> QED BY <1>3, <1>6, <2>2, <2>3, <3>2
  <2> QED BY <2>4, <2>5
<1> HIDE DEF InLayer
<1>10. h = CHOOSE i \in 0 .. Depth - 1 : InLayer(i)
  BY <1>8, <1>9
<1>11. Dense!LayerOf(k) = h
  BY <1>10 DEF Dense!LayerOf, InLayer
<1> QED BY <1>7, <1>11

\* The pair that the loop of update_element hashes at height i.
DensePair(hashes, index, i, current) ==
    Dense!Ordered(index \div Dense!PowerOf2[i], 0, current,
                  hashes[Dense!Offset(i) + Dense!Sibling(index \div Dense!PowerOf2[i])])

LEMMA ClimbIs ==
    ASSUME NEW hashes, NEW index, NEW value
    PROVE  \E g : /\ Dense!Climb(hashes, index, value) = g
                  /\ g[0] = value
                  /\ \A i \in 0 .. Depth - 1 :
                        g[i + 1] = <<DensePair(hashes, index, i, g[i])[1], DensePair(hashes, index, i, g[i])[2]>>
<1> DEFINE Up(i, c) == Dense!hash_pair_native(DensePair(hashes, index, i, c)[1], DensePair(hashes, index, i, c)[2])
           Loop(g, m) == g = [i \in 0 .. m |-> IF i = 0 THEN value ELSE Up(i - 1, g[i - 1])]
           V == {m \in Nat : \E g : Loop(g, m)}
<1>1. Dense!Climb(hashes, index, value) = CHOOSE g : Loop(g, Depth)
  BY DEF Dense!Climb, DensePair
<1>2. \A i, c : Up(i, c) = <<DensePair(hashes, index, i, c)[1], DensePair(hashes, index, i, c)[2]>>
  BY DenseHelpers
<1> HIDE DEF Up
<1>3. 0 \in V
  <2>1. PICK g : g = [i \in 0 .. 0 |-> value]
    OBVIOUS
  <2>2. Loop(g, 0)
    BY <2>1
  <2> QED BY <2>2
<1>4. ASSUME NEW m \in Nat, m \in V PROVE m + 1 \in V
  <2>1. PICK g : Loop(g, m)
    BY <1>4
  <2>2. PICK f : f = [i \in 0 .. m + 1 |-> IF i = m + 1 THEN Up(m, g[m]) ELSE g[i]]
    OBVIOUS
  <2>3. ASSUME NEW i \in 0 .. m + 1 PROVE f[i] = IF i = 0 THEN value ELSE Up(i - 1, f[i - 1])
    <3>1. CASE i = m + 1
      <4>1. i - 1 = m /\ i # 0 /\ f[i] = Up(m, g[m]) /\ f[m] = g[m]
        BY <2>2, <3>1
      <4> QED BY <4>1
    <3>2. CASE i # m + 1
      <4>1. i \in 0 .. m /\ f[i] = g[i]
        BY <2>2, <3>2
      <4>2. i # 0 => i - 1 \in 0 .. m + 1 /\ i - 1 # m + 1 /\ f[i - 1] = g[i - 1]
        BY <2>2, <4>1
      <4> QED BY <2>1, <4>1, <4>2
    <3> QED BY <3>1, <3>2
  <2>4. f = [i \in 0 .. m + 1 |-> f[i]]
    BY <2>2
  <2>5. Loop(f, m + 1)
    BY <2>3, <2>4
  <2> HIDE DEF Loop
  <2>6. m + 1 \in Nat /\ \E e : Loop(e, m + 1)
    BY <2>5
  <2> QED BY <2>6
<1> HIDE DEF V
<1>5. Depth \in V
  BY <1>3, <1>4, InductionOverSet, DepthAssumption
<1>6. PICK g : Loop(g, Depth) /\ Dense!Climb(hashes, index, value) = g
  <2> HIDE DEF Loop
  <2>1. \E g : Loop(g, Depth)
    BY <1>5 DEF V
  <2> QED BY <1>1, <2>1
<1>7. g[0] = value
  BY <1>6, DepthAssumption
<1>8. ASSUME NEW i \in 0 .. Depth - 1 PROVE g[i + 1] = Up(i, g[i])
  <2>1. i + 1 \in 0 .. Depth /\ i + 1 # 0 /\ (i + 1) - 1 = i
    BY DepthAssumption
  <2> QED BY <1>6, <2>1
<1> HIDE DEF Loop
<1> QED BY <1>2, <1>6, <1>7, <1>8

\* The pair at height i of a path whose leaf is replaced.
NewPair(path, index, i, current) ==
    IF Dense!BitSet(index, i) THEN <<path[i][1], current>> ELSE <<current, path[i][2]>>

LEMMA NewPathIs ==
    ASSUME NEW path, NEW index, NEW value
    PROVE  \E g : /\ Dense!get_new_hash_path(path, index, value) = g
                  /\ g = [i \in 0 .. Depth - 1 |-> g[i]]
                  /\ g[0] = NewPair(path, index, 0, value)
                  /\ \A i \in 0 .. Depth - 2 : g[i + 1] = NewPair(path, index, i + 1, <<g[i][1], g[i][2]>>)
<1> DEFINE Value(i, g) == IF i = 0 THEN value ELSE Dense!hash_pair_native(g[i - 1][1], g[i - 1][2])
           Loop(g, m) == g = [i \in 0 .. m |-> NewPair(path, index, i, Value(i, g))]
           V == {m \in Nat : \E g : Loop(g, m)}
<1>1. Dense!get_new_hash_path(path, index, value) = CHOOSE g : Loop(g, Depth - 1)
  BY DEF Dense!get_new_hash_path, NewPair
<1>2. \A i \in Nat : \A g : Value(i + 1, g) = <<g[i][1], g[i][2]>>
  <2>1. \A i \in Nat : i + 1 # 0 /\ (i + 1) - 1 = i
    OBVIOUS
  <2> QED BY <2>1, DenseHelpers
<1>3. \A g : Value(0, g) = value
  OBVIOUS
<1>4. 0 \in V
  <2>1. PICK g : g = [i \in 0 .. 0 |-> NewPair(path, index, 0, value)]
    OBVIOUS
  <2>2. Loop(g, 0)
    BY <2>1
  <2> QED BY <2>2
<1>5. ASSUME NEW m \in Nat, m \in V PROVE m + 1 \in V
  <2>1. PICK g : Loop(g, m)
    BY <1>5
  <2>2. PICK v : v = NewPair(path, index, m + 1, Value(m + 1, g))
    OBVIOUS
  <2>3. PICK f : f = [i \in 0 .. m + 1 |-> IF i = m + 1 THEN v ELSE g[i]]
    OBVIOUS
  <2>4. ASSUME NEW i \in 0 .. m + 1 PROVE f[i] = NewPair(path, index, i, Value(i, f))
    <3>1. i # 0 => i - 1 \in 0 .. m + 1 /\ i - 1 # m + 1 /\ f[i - 1] = g[i - 1]
      BY <2>3
    <3>2. Value(i, f) = Value(i, g)
      BY <3>1
    <3>3. CASE i = m + 1
      BY <2>2, <2>3, <3>2, <3>3
    <3>4. CASE i # m + 1
      <4>1. i \in 0 .. m /\ f[i] = g[i]
        BY <2>3, <3>4
      <4> HIDE DEF Value
      <4> QED BY <2>1, <3>2, <4>1
    <3> QED BY <3>3, <3>4
  <2>5. f = [i \in 0 .. m + 1 |-> f[i]]
    BY <2>3
  <2>6. Loop(f, m + 1)
    <3> HIDE DEF Value
    <3> QED BY <2>4, <2>5
  <2> HIDE DEF Loop
  <2>7. m + 1 \in Nat /\ \E e : Loop(e, m + 1)
    BY <2>6
  <2> QED BY <2>7
<1> HIDE DEF V
<1>6. Depth - 1 \in V
  <2>1. Depth - 1 \in Nat
    BY DepthAssumption
  <2> QED BY <1>4, <1>5, <2>1, InductionOverSet
<1>7. PICK g : Loop(g, Depth - 1) /\ Dense!get_new_hash_path(path, index, value) = g
  <2> HIDE DEF Loop
  <2>1. \E g : Loop(g, Depth - 1)
    BY <1>6 DEF V
  <2> QED BY <1>1, <2>1
<1> HIDE DEF Value
<1>8. \A i \in 0 .. Depth - 1 : g[i] = NewPair(path, index, i, Value(i, g))
  BY <1>7
<1>9. g = [i \in 0 .. Depth - 1 |-> g[i]]
  BY <1>7
<1>10. g[0] = NewPair(path, index, 0, value)
  BY <1>3, <1>8, DepthAssumption
<1>11. ASSUME NEW i \in 0 .. Depth - 2 PROVE g[i + 1] = NewPair(path, index, i + 1, <<g[i][1], g[i][2]>>)
  <2>1. i \in Nat /\ i + 1 \in 0 .. Depth - 1
    BY DepthAssumption
  <2> QED BY <1>2, <1>8, <2>1
<1> HIDE DEF Loop
<1> QED BY <1>7, <1>9, <1>10, <1>11

\* The array holds the layers of the tree of the leaves, but for the root.
HoldsTree(hashes, lv) ==
    /\ DOMAIN hashes = 0 .. Dense!HashesSize - 1
    /\ \A h \in 0 .. Depth - 1 : \A n \in Places(Depth, h) :
           hashes[Dense!Offset(h) + n] = Layers(lv, Depth)[h][n]

LEMMA EmptyLayers ==
    \A h \in 0 .. Depth : \A n \in Places(Depth, h) : Layers(EmptyLeaves, Depth)[h][n] = zero_hashes_[h]
<1>1. PICK L : L = Layers(EmptyLeaves, Depth)
  OBVIOUS
<1> DEFINE V == {h \in Nat : h <= Depth => \A n \in Places(Depth, h) : L[h][n] = zero_hashes_[h]}
<1>2. 0 \in V
  <2>1. L[0] = EmptyLeaves /\ Places(Depth, 0) = Indices
    BY <1>1, LeavesAreLayer
  <2>2. \A n \in Indices : EmptyLeaves[n] = ZeroLeaf
    BY DEF EmptyLeaves
  <2> QED BY <2>1, <2>2, ZeroHashFacts
<1>3. ASSUME NEW h \in Nat, h \in V PROVE h + 1 \in V
  <2> SUFFICES ASSUME h + 1 <= Depth, NEW n \in Places(Depth, h + 1) PROVE L[h + 1][n] = zero_hashes_[h + 1]
    OBVIOUS
  <2>1. h \in 0 .. Depth - 1 /\ h <= Depth
    BY DepthAssumption
  <2>2. /\ 2 * n \in Places(Depth, h) /\ 2 * n + 1 \in Places(Depth, h)
        /\ L[h + 1][n] = <<L[h][2 * n], L[h][2 * n + 1]>>
    BY <1>1, <2>1, LayerIsPairs
  <2>3. L[h][2 * n] = zero_hashes_[h] /\ L[h][2 * n + 1] = zero_hashes_[h]
    BY <1>3, <2>1, <2>2
  <2>4. zero_hashes_[h + 1] = <<zero_hashes_[h], zero_hashes_[h]>>
    BY <2>1, ZeroHashFacts
  <2> QED BY <2>2, <2>3, <2>4
<1> HIDE DEF V
<1>4. Nat \subseteq V
  BY <1>2, <1>3, InductionOverSet
<1>5. ASSUME NEW h \in 0 .. Depth PROVE h \in Nat /\ h <= Depth /\ h \in V
  BY <1>4, DepthAssumption
<1> QED BY <1>1, <1>5 DEF V

\* The loop of update_element computes the hashes above the leaf as they are
\* after the update.
LEMMA ClimbOnWay ==
    ASSUME NEW lv, DOMAIN lv = Indices, NEW hashes, HoldsTree(hashes, lv), NEW index \in Indices, NEW value,
           NEW M, M = Layers(Overwrite(lv, index, value), Depth),
           NEW c, c = Dense!Climb(hashes, index, value)
    PROVE  \A h \in 0 .. Depth : c[h] = M[h][Above(index, h)]
<1>1. PICK L : L = Layers(lv, Depth)
  OBVIOUS
<1>2. PICK g : /\ c = g /\ g[0] = value
               /\ \A i \in 0 .. Depth - 1 :
                     g[i + 1] = <<DensePair(hashes, index, i, g[i])[1], DensePair(hashes, index, i, g[i])[2]>>
  BY ClimbIs
<1>3. Depth \in 0 .. Depth /\ index \in 0 .. PowerOf2[Depth] - 1
  BY DepthAssumption DEF Indices
<1> DEFINE V == {h \in Nat : h <= Depth => g[h] = M[h][Above(index, h)]}
<1>4. 0 \in V
  <2>1. Above(index, 0) = index
    BY <1>3, PlaceAbove
  <2>2. M[0][index] = value
    BY RestUnchanged
  <2> QED BY <1>2, <2>1, <2>2
<1>5. ASSUME NEW h \in Nat, h \in V PROVE h + 1 \in V
  <2> SUFFICES ASSUME h + 1 <= Depth PROVE g[h + 1] = M[h + 1][Above(index, h + 1)]
    OBVIOUS
  <2>1. h \in 0 .. Depth - 1 /\ h <= Depth /\ h \in 0 .. Depth
    BY DepthAssumption
  <2>2. PICK a, b : a = Above(index, h) /\ b = Beside(a)
    OBVIOUS
  <2>3. /\ a \in Nat /\ b \in Places(Depth, h) /\ b # a
        /\ M[h + 1][Above(index, h + 1)] = Ordered(index, h, M[h][a], M[h][b])
    BY <2>1, <2>2, SiblingsOnWay
  <2>4. hashes[Dense!Offset(h) + b] = L[h][b]
    BY <1>1, <2>1, <2>3 DEF HoldsTree
  <2>5. M[h][b] = L[h][b]
    BY <1>1, <2>1, <2>2, <2>3, RestUnchanged
  <2>6. a = index \div Dense!PowerOf2[h] /\ b = Dense!Sibling(a)
    BY <2>2, DenseHelpers DEF Above, Beside, Dense!Sibling
  <2>7. DensePair(hashes, index, h, g[h]) = Ordered(a, 0, g[h], M[h][b])
    BY <2>4, <2>5, <2>6, DenseHelpers DEF DensePair
  <2>8. BitSet(a, 0) <=> BitSet(index, h)
    <3>1. BitSet(index, h) <=> a % 2 = 1
      BY <1>3, <2>1, <2>2, PlaceAbove
    <3>2. a \div PowerOf2[0] = a
      BY <2>3, PowerFacts
    <3> QED BY <3>1, <3>2 DEF BitSet
  <2>9. Ordered(a, 0, g[h], M[h][b]) = Ordered(index, h, M[h][a], M[h][b])
    <3>1. g[h] = M[h][a]
      BY <1>5, <2>1, <2>2
    <3> QED BY <2>8, <3>1 DEF Ordered
  <2>10. PICK p : p = DensePair(hashes, index, h, g[h])
    OBVIOUS
  <2>11. p = M[h + 1][Above(index, h + 1)]
    BY <2>3, <2>7, <2>9, <2>10
  <2>12. <<p[1], p[2]>> = p
    BY <2>7, <2>10 DEF Ordered
  <2>13. g[h + 1] = <<p[1], p[2]>>
    BY <1>2, <2>1, <2>10
  <2> QED BY <2>11, <2>12, <2>13
<1> HIDE DEF V
<1>6. Nat \subseteq V
  BY <1>4, <1>5, InductionOverSet
<1>7. ASSUME NEW h \in 0 .. Depth PROVE h \in Nat /\ h <= Depth /\ h \in V
  BY <1>6, DepthAssumption
<1> QED BY <1>2, <1>7 DEF V

\* The place an update writes in a layer is that above the leaf, and no other.
LEMMA UpdateHolds ==
    ASSUME NEW lv, DOMAIN lv = Indices, NEW hashes, HoldsTree(hashes, lv), NEW index \in Indices, NEW value
    PROVE  /\ HoldsTree(Dense!HashesAfter(hashes, index, value), Overwrite(lv, index, value))
           /\ Dense!RootAfter(hashes, index, value) = TreeHash(Overwrite(lv, index, value), Depth)
<1>1. PICK L, M, c, after :
          /\ L = Layers(lv, Depth) /\ M = Layers(Overwrite(lv, index, value), Depth)
          /\ c = Dense!Climb(hashes, index, value) /\ after = Dense!HashesAfter(hashes, index, value)
  OBVIOUS
<1>2. \A h \in 0 .. Depth : c[h] = M[h][Above(index, h)]
  BY <1>1, ClimbOnWay
<1>3. after = [k \in DOMAIN hashes |->
                  IF k = Dense!Written(Dense!LayerOf(k), index) THEN c[Dense!LayerOf(k)] ELSE hashes[k]]
  BY <1>1 DEF Dense!HashesAfter
<1>4. DOMAIN after = 0 .. Dense!HashesSize - 1
  BY <1>3 DEF HoldsTree
<1>5. ASSUME NEW h \in 0 .. Depth - 1, NEW n \in Places(Depth, h) PROVE after[Dense!Offset(h) + n] = M[h][n]
  <2>1. PICK k : k = Dense!Offset(h) + n
    OBVIOUS
  <2>2. k \in DOMAIN hashes /\ Dense!LayerOf(k) = h
    BY <2>1, PlaceInArray DEF HoldsTree
  <2>3. PICK a : a = Above(index, h)
    OBVIOUS
  <2>4. Dense!Written(h, index) = Dense!Offset(h) + a
    BY <2>3, DenseHelpers DEF Dense!Written, Above
  <2>5. h \in 0 .. Depth
    BY DepthAssumption
  <2>6. CASE n = a
    <3>1. after[k] = c[h]
      BY <1>3, <2>1, <2>2, <2>4, <2>6
    <3> QED BY <1>2, <2>1, <2>3, <2>5, <2>6, <3>1
  <2>7. CASE n # a
    <3>1. k # Dense!Offset(h) + a
      <4>1. Dense!Offset(h) \in Nat
        BY <2>5, OffsetsGrow
      <4>2. a \in Nat
        BY <1>1, <2>3, SiblingsOnWay
      <4>3. n \in Nat
        BY PlacesAreNumbers, <2>5
      <4> QED BY <2>1, <2>7, <4>1, <4>2, <4>3
    <3>2. after[k] = hashes[k]
      BY <1>3, <2>2, <2>4, <3>1
    <3>3. hashes[k] = L[h][n]
      BY <1>1, <2>1 DEF HoldsTree
    <3>4. M[h][n] = L[h][n]
      BY <1>1, <2>3, <2>5, <2>7, RestUnchanged
    <3> QED BY <2>1, <3>2, <3>3, <3>4
  <2> QED BY <2>6, <2>7
<1>6. HoldsTree(after, Overwrite(lv, index, value))
  BY <1>1, <1>4, <1>5 DEF HoldsTree
<1>7. Dense!RootAfter(hashes, index, value) = M[Depth][0]
  <2>1. Depth \in 0 .. Depth /\ index \in 0 .. PowerOf2[Depth] - 1
    BY DepthAssumption DEF Indices
  <2>2. Above(index, Depth) = 0
    BY <2>1, PlaceAbove
  <2>3. Dense!RootAfter(hashes, index, value) = c[Depth]
    BY <1>1 DEF Dense!RootAfter
  <2> QED BY <1>2, <2>1, <2>2, <2>3
<1> QED BY <1>1, <1>6, <1>7 DEF TreeHash

LEMMA EmptyArrayHolds == HoldsTree(Dense!EmptyHashes, EmptyLeaves)
<1>1. Dense!EmptyHashes = [k \in 0 .. Dense!HashesSize - 1 |-> zero_hashes_[Dense!LayerOf(k)]]
  BY DenseHelpers DEF Dense!EmptyHashes
<1>2. ASSUME NEW h \in 0 .. Depth - 1, NEW n \in Places(Depth, h)
      PROVE  Dense!EmptyHashes[Dense!Offset(h) + n] = Layers(EmptyLeaves, Depth)[h][n]
  <2>1. PICK k : k = Dense!Offset(h) + n
    OBVIOUS
  <2>2. k \in 0 .. Dense!HashesSize - 1 /\ Dense!LayerOf(k) = h
    BY <2>1, PlaceInArray
  <2>3. h \in 0 .. Depth
    BY DepthAssumption
  <2> QED BY <1>1, <2>1, <2>2, <2>3, EmptyLayers
<1> QED BY <1>1, <1>2 DEF HoldsTree

\* The array of the code's constructor holds the empty tree, and an update leaves
\* the tree with the one leaf replaced and returns its root, of whatever leaves.
THEOREM DenseTreeIsTheTree ==
    /\ HoldsTree(Dense!EmptyHashes, EmptyLeaves)
    /\ Dense!zero_hashes_[Depth] = TreeHash(EmptyLeaves, Depth)
    /\ \A lv, hashes, value : \A index \in Indices :
          DOMAIN lv = Indices /\ HoldsTree(hashes, lv) =>
              /\ HoldsTree(Dense!HashesAfter(hashes, index, value), Overwrite(lv, index, value))
              /\ Dense!RootAfter(hashes, index, value) = TreeHash(Overwrite(lv, index, value), Depth)
<1>1. Depth \in 0 .. Depth /\ 0 \in Places(Depth, Depth)
  BY LeavesAreLayer, DepthAssumption
<1>2. Dense!zero_hashes_[Depth] = TreeHash(EmptyLeaves, Depth)
  BY <1>1, EmptyLayers, DenseHelpers DEF TreeHash
<1> QED BY <1>2, EmptyArrayHolds, UpdateHolds

\* What the array says of an index.
LEMMA PathIsTheTrees ==
    ASSUME NEW lv, NEW hashes, HoldsTree(hashes, lv), NEW index \in Indices, NEW L, L = Layers(lv, Depth)
    PROVE  /\ Dense!get_hash_path(hashes, index) = TreePath(lv, Depth, index)
           /\ \A h \in 0 .. Depth - 1 :
                 TreePath(lv, Depth, index)[h] = Ordered(index, h, L[h][Above(index, h)], L[h][Beside(Above(index, h))])
<1>1. ASSUME NEW h \in 0 .. Depth - 1
      PROVE  /\ L[h + 1][Above(index, h + 1)] =
                    Ordered(index, h, L[h][Above(index, h)], L[h][Beside(Above(index, h))])
             /\ <<hashes[Dense!Offset(h) + 2 * (index \div PowerOf2[h + 1])],
                  hashes[Dense!Offset(h) + 2 * (index \div PowerOf2[h + 1]) + 1]>> = L[h + 1][Above(index, h + 1)]
  <2>1. PICK n : n = Above(index, h + 1)
    OBVIOUS
  <2>2. n \in Places(Depth, h + 1)
    <3>1. Above(index, h + 1) \in Places(Depth, h + 1)
      BY SiblingsOnWay
    <3> QED BY <2>1, <3>1
  <2>3. /\ n \in Nat /\ 2 * n \in Places(Depth, h) /\ 2 * n + 1 \in Places(Depth, h)
        /\ L[h + 1][n] = <<L[h][2 * n], L[h][2 * n + 1]>>
    BY <2>2, LayerIsPairs
  <2>4. hashes[Dense!Offset(h) + 2 * n] = L[h][2 * n] /\ hashes[Dense!Offset(h) + (2 * n + 1)] = L[h][2 * n + 1]
    BY <2>3 DEF HoldsTree
  <2>5. Dense!Offset(h) + (2 * n + 1) = Dense!Offset(h) + 2 * n + 1
    <3>1. Dense!Offset(h) \in Nat
      BY OffsetsGrow, DepthAssumption
    <3> QED BY <2>3, <3>1
  <2>6. n = index \div PowerOf2[h + 1]
    BY <2>1 DEF Above
  <2>7. <<hashes[Dense!Offset(h) + 2 * n], hashes[Dense!Offset(h) + 2 * n + 1]>> = L[h + 1][n]
    BY <2>3, <2>4, <2>5
  <2>8. L[h + 1][Above(index, h + 1)] = Ordered(index, h, L[h][Above(index, h)], L[h][Beside(Above(index, h))])
    BY SiblingsOnWay
  <2>9. <<hashes[Dense!Offset(h) + 2 * (index \div PowerOf2[h + 1])],
          hashes[Dense!Offset(h) + 2 * (index \div PowerOf2[h + 1]) + 1]>> = L[h + 1][n]
    BY <2>6, <2>7
  <2> QED BY <2>1, <2>8, <2>9
<1>2. TreePath(lv, Depth, index) = [h \in 0 .. Depth - 1 |-> L[h + 1][Above(index, h + 1)]]
  BY TreePathIs
<1>3. Dense!get_hash_path(hashes, index) =
          [h \in 0 .. Depth - 1 |-> <<hashes[Dense!Offset(h) + 2 * (index \div PowerOf2[h + 1])],
                                      hashes[Dense!Offset(h) + 2 * (index \div PowerOf2[h + 1]) + 1]>>]
  BY DenseHelpers DEF Dense!get_hash_path
<1> QED BY <1>1, <1>2, <1>3

LEMMA SiblingPathIs ==
    ASSUME NEW lv, NEW hashes, HoldsTree(hashes, lv), NEW index \in Indices, NEW L, L = Layers(lv, Depth),
           NEW h \in 0 .. Depth - 1
    PROVE  Dense!get_sibling_path(hashes, index)[h] = L[h][Beside(Above(index, h))]
<1>1. PICK a, b : a = Above(index, h) /\ b = Beside(a)
  OBVIOUS
<1>2. b \in Places(Depth, h)
  BY <1>1, SiblingsOnWay
<1>3. Dense!get_sibling_path(hashes, index)[h] = hashes[Dense!Offset(h) + b]
  BY <1>1, DenseHelpers DEF Dense!get_sibling_path, Dense!Sibling, Above, Beside
<1>4. hashes[Dense!Offset(h) + b] = L[h][b]
  BY <1>2 DEF HoldsTree
<1> QED BY <1>1, <1>3, <1>4

\* The path get_new_hash_path makes of the path of a leaf is that of the leaf
\* after the update.
LEMMA NewPathIsTheTrees ==
    ASSUME NEW lv, DOMAIN lv = Indices, NEW index \in Indices, NEW value
    PROVE  Dense!get_new_hash_path(TreePath(lv, Depth, index), index, value)
               = TreePath(Overwrite(lv, index, value), Depth, index)
<1>1. PICK L, M, path : /\ L = Layers(lv, Depth) /\ M = Layers(Overwrite(lv, index, value), Depth)
                        /\ path = TreePath(lv, Depth, index)
  OBVIOUS
<1>2. PICK g : /\ Dense!get_new_hash_path(path, index, value) = g
               /\ g = [i \in 0 .. Depth - 1 |-> g[i]]
               /\ g[0] = NewPair(path, index, 0, value)
               /\ \A i \in 0 .. Depth - 2 : g[i + 1] = NewPair(path, index, i + 1, <<g[i][1], g[i][2]>>)
  BY NewPathIs
<1>3. ASSUME NEW h \in 0 .. Depth - 1
      PROVE  NewPair(path, index, h, M[h][Above(index, h)]) = M[h + 1][Above(index, h + 1)]
  <2>1. PICK a, b : a = Above(index, h) /\ b = Beside(a)
    OBVIOUS
  <2>2. M[h + 1][Above(index, h + 1)] = Ordered(index, h, M[h][a], M[h][b])
    BY <1>1, <2>1, SiblingsOnWay
  <2>3. M[h][b] = L[h][b]
    <3>1. b \in Places(Depth, h) /\ b # a /\ h \in 0 .. Depth
      BY <1>1, <2>1, SiblingsOnWay, DepthAssumption
    <3> QED BY <1>1, <2>1, <3>1, RestUnchanged
  <2>4. path[h] = Ordered(index, h, L[h][a], L[h][b])
    <3>1. L[h + 1][Above(index, h + 1)] = Ordered(index, h, L[h][a], L[h][b])
      BY <1>1, <2>1, SiblingsOnWay
    <3>2. path = [j \in 0 .. Depth - 1 |-> L[j + 1][Above(index, j + 1)]]
      BY <1>1, TreePathIs
    <3> QED BY <3>1, <3>2
  <2>5. NewPair(path, index, h, M[h][a]) = Ordered(index, h, M[h][a], L[h][b])
    BY <2>4, DenseHelpers DEF NewPair, Ordered
  <2> QED BY <2>1, <2>2, <2>3, <2>5
<1> DEFINE V == {h \in Nat : h <= Depth - 1 => g[h] = M[h + 1][Above(index, h + 1)]}
<1>4. 0 \in V
  <2>1. Above(index, 0) = index /\ M[0][index] = value
    <3>1. Depth \in 0 .. Depth /\ index \in 0 .. PowerOf2[Depth] - 1
      BY DepthAssumption DEF Indices
    <3> QED BY <1>1, <3>1, PlaceAbove, RestUnchanged
  <2>2. 0 \in 0 .. Depth - 1
    BY DepthAssumption
  <2> QED BY <1>2, <1>3, <2>1, <2>2
<1>5. ASSUME NEW h \in Nat, h \in V PROVE h + 1 \in V
  <2> SUFFICES ASSUME h + 1 <= Depth - 1 PROVE g[h + 1] = M[(h + 1) + 1][Above(index, (h + 1) + 1)]
    OBVIOUS
  <2>1. h \in 0 .. Depth - 2 /\ h \in 0 .. Depth - 1 /\ h <= Depth - 1 /\ h + 1 \in 0 .. Depth - 1
    BY DepthAssumption
  <2>2. PICK m : m = M[h + 1][Above(index, h + 1)]
    OBVIOUS
  <2>3. g[h] = m
    BY <1>5, <2>1, <2>2
  <2>4. m = <<m[1], m[2]>>
    <3>1. m = Ordered(index, h, M[h][Above(index, h)], M[h][Beside(Above(index, h))])
      BY <1>1, <2>1, <2>2, SiblingsOnWay
    <3> QED BY <3>1 DEF Ordered
  <2>5. g[h + 1] = NewPair(path, index, h + 1, <<g[h][1], g[h][2]>>)
    BY <1>2, <2>1
  <2>6. g[h + 1] = NewPair(path, index, h + 1, m)
    BY <2>3, <2>4, <2>5
  <2> QED BY <1>3, <2>1, <2>2, <2>6
<1> HIDE DEF V
<1>6. Nat \subseteq V
  BY <1>4, <1>5, InductionOverSet
<1>7. ASSUME NEW h \in 0 .. Depth - 1 PROVE g[h] = M[h + 1][Above(index, h + 1)]
  <2>1. h \in Nat /\ h <= Depth - 1 /\ h \in V
    BY <1>6, DepthAssumption
  <2> QED BY <2>1 DEF V
<1>8. TreePath(Overwrite(lv, index, value), Depth, index) = [h \in 0 .. Depth - 1 |-> M[h + 1][Above(index, h + 1)]]
  BY <1>1, TreePathIs
<1> QED BY <1>1, <1>2, <1>7, <1>8

\* Of an array that holds the tree of some leaves: the hash path of an index is
\* that of the tree, the sibling path has the siblings in it, and the path that
\* get_new_hash_path predicts of an update is the path after the update.
THEOREM DensePathsAreTheTrees ==
    ASSUME NEW lv, DOMAIN lv = Indices, NEW hashes, HoldsTree(hashes, lv), NEW index \in Indices
    PROVE  LET path == TreePath(lv, Depth, index)
           IN  /\ Dense!get_hash_path(hashes, index) = path
               /\ \A h \in 0 .. Depth - 1 : Dense!get_sibling_path(hashes, index)[h] =
                                                IF BitSet(index, h) THEN path[h][1] ELSE path[h][2]
               /\ \A value : Dense!get_new_hash_path(path, index, value) =
                                 Dense!get_hash_path(Dense!HashesAfter(hashes, index, value), index)
<1>1. PICK L, path : L = Layers(lv, Depth) /\ path = TreePath(lv, Depth, index)
  OBVIOUS
<1>2. Dense!get_hash_path(hashes, index) = path
  BY <1>1, PathIsTheTrees
<1>3. ASSUME NEW h \in 0 .. Depth - 1
      PROVE  Dense!get_sibling_path(hashes, index)[h] = IF BitSet(index, h) THEN path[h][1] ELSE path[h][2]
  <2>1. PICK a, b : a = L[h][Above(index, h)] /\ b = L[h][Beside(Above(index, h))]
    OBVIOUS
  <2>2. path[h] = Ordered(index, h, a, b)
    BY <1>1, <2>1, PathIsTheTrees
  <2>3. Dense!get_sibling_path(hashes, index)[h] = b
    BY <1>1, <2>1, SiblingPathIs
  <2> QED BY <2>2, <2>3 DEF Ordered
<1>4. ASSUME NEW value
      PROVE  Dense!get_new_hash_path(path, index, value) =
                 Dense!get_hash_path(Dense!HashesAfter(hashes, index, value), index)
  <2>1. PICK after, w : after = Dense!HashesAfter(hashes, index, value) /\ w = Overwrite(lv, index, value)
    OBVIOUS
  <2>2. HoldsTree(after, w)
    BY <2>1, UpdateHolds
  <2>3. Dense!get_hash_path(after, index) = TreePath(w, Depth, index)
    BY <2>2, PathIsTheTrees
  <2>4. Dense!get_new_hash_path(path, index, value) = TreePath(w, Depth, index)
    BY <1>1, <2>1, NewPathIsTheTrees
  <2> QED BY <2>1, <2>3, <2>4
<1> QED BY <1>1, <1>2, <1>3, <1>4
================================================================================
