------------------------------- MODULE Multisig -------------------------------
(***************************************************************************)
(* The two rounds of a Schnorr multisignature: crypto/schnorr/multisig.hpp *)
(* with proof_of_possession.hpp and schnorr.tcc.                           *)
(*                                                                         *)
(* Nothing in the code carries the outputs from signer to signer.  Here    *)
(* the transport may lose, repeat, mix and reorder them and damage some:   *)
(* what a call is given is any list of what was published.                 *)
(*                                                                         *)
(* A point of the group is the scalar it is the multiple of, so a public   *)
(* key looks like the private key it belongs to.  A hash is an element of  *)
(* the field at once.                                                      *)
(***************************************************************************)
EXTENDS PrimeField, Sequences, FiniteSets, TLC, Functions

CONSTANTS
    PrivateKeys,    \* of the signers, in their order
    Messages,       \* numbers
    Randomness,     \* what random_element returns, in turn
    HashSeed,       \* a member of a family of functions that stand for the hashes
    KeyLists,       \* lists of keys a call may be given, as places in Keys
    MaxDraws,       \* bound: first rounds
    MaxShares       \* bound: second rounds that succeed

N       == Len(PrivateKeys)
Signers == 1 .. N

ASSUME MultisigAssumption ==
    /\ N \in Nat \ {0} /\ Cardinality({PrivateKeys[i] : i \in Signers}) = N
    /\ \A i \in Signers : PrivateKeys[i] \in Field \ {0}
    /\ Len(Randomness) >= N + 2 * MaxDraws /\ \A k \in DOMAIN Randomness : Randomness[k] \in Field
    /\ Messages \subseteq Field /\ HashSeed \in Field

VARIABLES
    private_outputs,    \* of the first rounds: the signer, and its RoundOnePrivateOutput
    shares,             \* of the second rounds: the call and its result
    signatures          \* what combine_signatures has returned, with the message

multisigVars == <<private_outputs, shares, signatures>>

None     == -2      \* nullopt
OffCurve == -1      \* a point that is not on the curve
Infinity == 0

ValidPoint(P) == P # OffCurve /\ P # Infinity

\* A point and its negative have the same x.
xCoordinate(P) == IF 2 * P > Modulus THEN Modulus - P ELSE P

\* The three hashes are told apart by a separator (and H_sig by another function).
H_reg == 1
H_non == 2
H_sig == 3

Hash(separator, words) ==
    LET h[k \in 0 .. Len(words)] == IF k = 0 THEN HashSeed ** separator ++ 1
                                    ELSE (h[k - 1] ** HashSeed) ++ words[k] ++ k
    IN  h[Len(words)] ** h[Len(words)]

Sum(s) == FieldSum(Len(s), LAMBDA k : s[k + 1])

-----------------------------------------------------------------------------
(***************************************************************************)
(* ProofOfPossession                                                       *)
(***************************************************************************)
generate_challenge(public_key, R) == Hash(H_reg, <<public_key, public_key, R>>)

ProofOfPossession(secret_key, k) ==
    LET e == generate_challenge(secret_key, k)
    IN  [challenge |-> e, response |-> k -- (e ** secret_key)]

VerifyPossession(proof, public_key) ==
    /\ proof.response # 0
    /\ ValidPoint(public_key)
    /\ LET R == (public_key ** proof.challenge) ++ proof.response
       IN  R # Infinity /\ proof.challenge = generate_challenge(public_key, R)

MultiSigPublicKey(i) ==
    [public_key |-> PrivateKeys[i], proof |-> ProofOfPossession(PrivateKeys[i], Randomness[i])]

\* The keys of the signers, and others a list may hold: a key whose proof was damaged, a key with the
\* proof of another, a key that was only constructed, and one that is not on the curve.
Keys ==
    LET key(i) == MultiSigPublicKey(i)
    IN  [i \in Signers |-> key(i)] \o
        << [key(1) EXCEPT !.proof.response = @ ++ 1],
           [key(N) EXCEPT !.proof = key(1).proof],
           [public_key |-> Infinity, proof |-> [challenge |-> 0, response |-> 0]],
           [key(N) EXCEPT !.public_key = OffCurve] >>

-----------------------------------------------------------------------------
(***************************************************************************)
(* schnorr.tcc                                                             *)
(***************************************************************************)
generate_schnorr_challenge(message, pubkey, R) == Hash(H_sig, <<xCoordinate(R), pubkey, message>>)

verify_signature(message, public_key, sig) ==
    /\ ValidPoint(public_key)
    /\ sig.s # 0 /\ sig.e # 0
    /\ LET R == (public_key ** sig.e) ++ sig.s
       IN  R # Infinity /\ sig.e = generate_schnorr_challenge(message, public_key, R)

-----------------------------------------------------------------------------
(***************************************************************************)
(* multisig                                                                *)
(***************************************************************************)
\* duplicated_indices: neighbours in the sorted list.  The elements are points, or pairs of points.
HasDuplicates(input) ==
    LET Less(p, q) == p[1] < q[1] \/ (p[1] = q[1] /\ p[2] < q[2])
        sorted == SortSeq(input, Less)
    IN  \E k \in 2 .. Len(sorted) : sorted[k - 1] = sorted[k]

valid_round1_nonces(nonces) ==
    /\ \A k \in DOMAIN nonces : ValidPoint(nonces[k].R) /\ ValidPoint(nonces[k].S)
    /\ ~ HasDuplicates([k \in DOMAIN nonces |-> <<nonces[k].R, nonces[k].S>>])

\* Mutant: the outputs of the first round are not hashed.
generate_nonce_challenge_NoNonces(message, aggregate_pubkey, nonces) ==
    Hash(H_non, <<aggregate_pubkey, message>>)

generate_nonce_challenge(message, aggregate_pubkey, nonces) ==
    Hash(H_non, <<aggregate_pubkey, message>> \o
                [k \in 1 .. 2 * Len(nonces) |-> IF k % 2 = 1 THEN nonces[(k + 1) \div 2].R ELSE nonces[k \div 2].S])

construct_multisig_nonce(a, nonces) ==
    Sum([k \in DOMAIN nonces |-> nonces[k].R]) ++ (Sum([k \in DOMAIN nonces |-> nonces[k].S]) ** a)

validate_and_combine_signer_pubkeys(keys) ==
    LET aggregate == Sum([k \in DOMAIN keys |-> keys[k].public_key])
    IN  IF /\ ~ HasDuplicates([k \in DOMAIN keys |-> <<keys[k].public_key, 0>>])
           /\ \A k \in DOMAIN keys :
                ValidPoint(keys[k].public_key) /\ VerifyPossession(keys[k].proof, keys[k].public_key)
           /\ aggregate # Infinity
        THEN aggregate
        ELSE None

\* What both the second round and the combination check.
Accepted(keys, nonces) ==
    /\ Len(nonces) = Len(keys)
    /\ valid_round1_nonces(nonces)
    /\ validate_and_combine_signer_pubkeys(keys) # None

\* The challenge a and the nonce R of the signature; its challenge e.
SchnorrNonce(message, X, nonces) ==
    construct_multisig_nonce(generate_nonce_challenge(message, X, nonces), nonces)

construct_signature_round_2(message, private_key, private_output, keys, nonces) ==
    LET X == validate_and_combine_signer_pubkeys(keys)
        a == generate_nonce_challenge(message, X, nonces)
        e == generate_schnorr_challenge(message, X, SchnorrNonce(message, X, nonces))
    IN  IF Accepted(keys, nonces)
        THEN (private_output.r ++ (private_output.s ** a)) -- (private_key ** e)
        ELSE None

NoSignature == [s |-> None, e |-> None]

\* Mutant: the signature is not verified before it is returned.
combine_signatures_Unverified(message, keys, nonces, signature_shares) ==
    LET X == validate_and_combine_signer_pubkeys(keys)
    IN  IF Len(signature_shares) = Len(keys) /\ Accepted(keys, nonces)
        THEN [s |-> Sum(signature_shares),
              e |-> generate_schnorr_challenge(message, X, SchnorrNonce(message, X, nonces))]
        ELSE NoSignature

combine_signatures(message, keys, nonces, signature_shares) ==
    LET X   == validate_and_combine_signer_pubkeys(keys)
        sig == [s |-> Sum(signature_shares),
                e |-> generate_schnorr_challenge(message, X, SchnorrNonce(message, X, nonces))]
    IN  IF Len(signature_shares) = Len(keys) /\ Accepted(keys, nonces) /\ verify_signature(message, X, sig)
        THEN sig
        ELSE NoSignature

-----------------------------------------------------------------------------
(***************************************************************************)
(* The signers, and a third party that combines what they publish.         *)
(***************************************************************************)
KeyList(names) == [k \in DOMAIN names |-> Keys[names[k]]]

\* RoundOnePublicOutput
Public(o) == [R |-> o.r, S |-> o.s]

Published == {Public(private_outputs[n]) : n \in DOMAIN private_outputs}

\* Outputs that were damaged on their way.
Damaged == {[o EXCEPT !.R = Infinity] : o \in Published} \cup {[o EXCEPT !.S = OffCurve] : o \in Published}

NonceLists == UNION {[1 .. k -> Published \cup Damaged] : k \in 1 .. N}

Init ==
    /\ private_outputs = << >>
    /\ shares = {}
    /\ signatures = {}

\* construct_signature_round_1
RoundOne(i) ==
    LET n == Len(private_outputs)
    IN  /\ n < MaxDraws
        /\ private_outputs' = Append(private_outputs,
                [signer |-> i, r |-> Randomness[N + 2 * n + 1], s |-> Randomness[N + 2 * n + 2]])
        /\ UNCHANGED <<shares, signatures>>

\* A signer may start any number of signatures at a time; the caller says which private output is meant.
RoundTwo(i) ==
    \E n \in DOMAIN private_outputs, message \in Messages, keys \in KeyLists, nonces \in NonceLists :
        LET o == private_outputs[n]
            z == construct_signature_round_2(message, PrivateKeys[i], o, KeyList(keys), nonces)
        IN  /\ o.signer = i
            /\ Cardinality(shares) < MaxShares
            /\ z # None
            /\ shares' = shares \cup {[signer |-> i, draw |-> n, message |-> message, group |-> Range(keys),
                                      nonces |-> nonces, z |-> z]}
            /\ UNCHANGED <<private_outputs, signatures>>

\* Lists of shares.
ShareLists == UNION {[1 .. k -> shares] : k \in 1 .. N}

zs(list) == [k \in DOMAIN list |-> list[k].z]

\* The lists of nonces that somebody has signed with.
SignedNonces == {share.nonces : share \in shares}

Combine ==
    \E message \in Messages, keys \in KeyLists, nonces \in SignedNonces, list \in ShareLists :
        LET sig == combine_signatures(message, KeyList(keys), nonces, zs(list))
        IN  /\ sig # NoSignature
            /\ signatures' = signatures \cup {[group |-> Range(keys), message |-> message, sig |-> sig]}
            /\ UNCHANGED <<private_outputs, shares>>

Next == (\E i \in Signers : RoundOne(i) \/ RoundTwo(i)) \/ Combine

MultisigSpec == Init /\ [][Next]_multisigVars

-----------------------------------------------------------------------------
\* The keys are those of a group of signers, and the shares were made by all of its members, for this
\* group, message and list of nonces, each with the private output of one of the nonces.
Agreed(message, keys, nonces, list) ==
    LET group == Range(keys)
        n     == Cardinality(group)
    IN  /\ group \subseteq Signers
        /\ Len(keys) = n /\ Len(list) = n /\ Len(nonces) = n
        /\ {list[k].signer : k \in DOMAIN list} = group
        /\ {Public(private_outputs[list[k].draw]) : k \in DOMAIN list} = Range(nonces)
        /\ \A k \in DOMAIN list :
              list[k].group = group /\ list[k].message = message /\ list[k].nonces = nonces

(***************************************************************************)
(* Shares combine to a signature exactly when every signer of the group    *)
(* made one for the same message and the same list of nonces, in the same  *)
(* order, with the outputs they had published, whatever else was signed    *)
(* with them and in whatever order keys and shares are listed              *)
(* (combine_signatures).                                                   *)
(***************************************************************************)
CombinesAgreedShares ==
    \A message \in Messages, keys \in KeyLists, nonces \in SignedNonces, list \in ShareLists :
        combine_signatures(message, KeyList(keys), nonces, zs(list)) # NoSignature
            <=> Agreed(message, keys, nonces, list)

Group == INSTANCE Approvals WITH
    approvals <- [<<group, message>> \in ((SUBSET Signers) \ {{}}) \X Messages |->
                    {t.signer : t \in {t \in shares : t.group = group /\ t.message = message}}],
    signed    <- {<<t.group, t.message>> : t \in signatures}

\* A message is signed for a group only when every member went through the second round for it: the
\* protocol implements Approvals (construct_signature_round_2, combine_signatures).
ImplementsApprovals == Group!ApprovalsSpec
=============================================================================
