--------------------------- MODULE DecisionQueue ---------------------------
(***************************************************************************)
(* What a scan promises of the tables it fills, with no symbols, ticks,    *)
(* rounds or crashes: a signal is recorded, then decided, and an approved  *)
(* one may then wait for a human; nothing is ever taken back; and whoever  *)
(* is told what a scan found is told of nothing the tables do not hold.    *)
(***************************************************************************)
EXTENDS Naturals

CONSTANTS Signals, Verdicts

VARIABLES
    policy,      \* whether approvals wait, and whether a signal has one only
    recorded,    \* the signals on record
    decided,     \* and the verdicts on them
    waiting,     \* for each signal, its approvals that wait for a human
    reported     \* the signals and verdicts that finished scans tell of

tables == <<recorded, decided, waiting>>
vars == <<policy, tables, reported>>

Init ==
    /\ policy \in [waits : BOOLEAN, single : BOOLEAN]
    /\ recorded = {} /\ decided = {} /\ reported = {}
    /\ waiting = [g \in Signals |-> 0]

Record(g) ==
    /\ recorded' = recorded \union {g}
    /\ UNCHANGED <<policy, decided, waiting, reported>>

Decide(g, v) ==
    /\ g \in recorded
    /\ decided' = decided \union {<<g, v>>}
    /\ UNCHANGED <<policy, recorded, waiting, reported>>

Await(g) ==
    /\ policy.waits /\ <<g, "approved">> \in decided
    /\ waiting' = [waiting EXCEPT ![g] = IF policy.single THEN 1 ELSE @ + 1]
    /\ UNCHANGED <<policy, recorded, decided, reported>>

(* All that is to be kept of a signal with a verdict.                      *)
Kept(g, v) ==
    /\ g \in recorded /\ <<g, v>> \in decided
    /\ policy.waits /\ v = "approved" => waiting[g] > 0

(* Scans tell what is kept; what they told may be forgotten.               *)
Tell ==
    /\ reported' \in SUBSET (Signals \X Verdicts)
    /\ \A r \in reported' \ reported : Kept(r[1], r[2])
    /\ UNCHANGED <<policy, tables>>

Next ==
    \/ \E g \in Signals : Record(g) \/ Await(g) \/ \E v \in Verdicts : Decide(g, v)
    \/ Tell
Spec == Init /\ [][Next]_vars
=============================================================================
