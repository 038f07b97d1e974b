-------------------------- MODULE AccountRegistry --------------------------
(***************************************************************************)
(* What the account tables promise their callers, with no requests that    *)
(* interleave and no store: a user's mode changes behind the live gate, an *)
(* external id gets one token for ever, and whoever provisions it is       *)
(* answered with that token, all in single steps.                          *)
(***************************************************************************)
CONSTANTS Requests, Accounts, Externals, Statuses

VARIABLES
    mode,        \* of each user
    unlocked,    \* whether the live gate is open for a user
    tokens,      \* the token of each external id, if it has one
    statuses,    \* and its status
    answers      \* the token each provisioning request was answered with

vars == <<mode, unlocked, tokens, statuses, answers>>

Init ==
    /\ mode = [u \in Accounts |-> "paper"] /\ unlocked = [u \in Accounts |-> FALSE]
    /\ tokens = [e \in Externals |-> {}] /\ statuses = [e \in Externals |-> {}]
    /\ answers = [r \in Requests |-> {}]

SetMode(u, m) ==
    /\ m = "semi_auto" => unlocked[u]
    /\ mode' = [mode EXCEPT ![u] = m]
    /\ UNCHANGED <<unlocked, tokens, statuses, answers>>

Unlock(u) ==
    /\ unlocked' = [unlocked EXCEPT ![u] = TRUE]
    /\ UNCHANGED <<mode, tokens, statuses, answers>>

(* The first request for an id makes its token, a later one is told of it. *)
Provision(r, e) ==
    /\ answers[r] = {}
    /\ IF tokens[e] = {}
       THEN /\ tokens' = [tokens EXCEPT ![e] = {r}]
            /\ statuses' = [statuses EXCEPT ![e] = {"active"}]
       ELSE UNCHANGED <<tokens, statuses>>
    /\ answers' = [answers EXCEPT ![r] = tokens'[e]]
    /\ UNCHANGED <<mode, unlocked>>

SetStatus(e, s) ==
    /\ tokens[e] # {}
    /\ statuses' = [statuses EXCEPT ![e] = {s}]
    /\ UNCHANGED <<mode, unlocked, tokens, answers>>

Next ==
    \/ \E u \in Accounts : Unlock(u) \/ \E m \in {"paper", "semi_auto"} : SetMode(u, m)
    \/ \E e \in Externals :
        \/ \E r \in Requests : Provision(r, e)
        \/ \E s \in Statuses : SetStatus(e, s)
Spec == Init /\ [][Next]_vars
=============================================================================
