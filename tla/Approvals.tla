------------------------------- MODULE Approvals -------------------------------
(***************************************************************************)
(* What a multisignature promises (crypto/schnorr/multisig.hpp): a message *)
(* is signed for a group only when every member of it has approved that.   *)
(***************************************************************************)
EXTENDS FiniteSets

CONSTANTS Signers, Messages

VARIABLES
    approvals,  \* for each group and message, the members that approved it
    signed      \* the groups and messages that are signed

Requests == ((SUBSET Signers) \ {{}}) \X Messages

ApprovalsInit == approvals = [q \in Requests |-> {}] /\ signed = {}

Approve ==
    \E i \in Signers, q \in Requests :
        /\ approvals' = [approvals EXCEPT ![q] = @ \cup {i}]
        /\ UNCHANGED signed

Sign ==
    \E q \in Requests :
        /\ q[1] \subseteq approvals[q]
        /\ signed' = signed \cup {q}
        /\ UNCHANGED approvals

ApprovalsSpec == ApprovalsInit /\ [][Approve \/ Sign]_<<approvals, signed>>
=============================================================================
