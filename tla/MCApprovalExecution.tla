----------------------- MODULE MCApprovalExecution -----------------------
(* Small instances of ApprovalExecution: either every request names the    *)
(* approval a1, or each of two names one of its own and only a1 has a      *)
(* quantity.                                                               *)
EXTENDS ApprovalExecution, TLC

CONSTANTS a1, a2

OneApproval == {a1}
AllClickOne == [r \in Requests |-> a1]

TwoApprovals == {a1, a2}
OneEach == CHOOSE f \in [Requests -> TwoApprovals] : \E r, s \in Requests : f[r] = a1 /\ f[s] = a2

Clicks == Permutations(Requests)
=============================================================================
