--------------------------- MODULE ApprovalLedger ---------------------------
(***************************************************************************)
(* What the approval pipeline promises, with no handlers, no keys and no   *)
(* clock: which approvals are settled and by whom, which positions exist   *)
(* at the venue, and what the books say of them.  Positions may appear at  *)
(* any time; the books follow them, and an approval counts as executed     *)
(* only when an order row of its key is on the books.                      *)
(***************************************************************************)
CONSTANTS Requests, Approvals, ApprovalOf, NoTrade

VARIABLES
    outcome,     \* for each approval: "nobody", or what settled it
    positions,   \* requests whose order the venue accepted
    trades,      \* requests with a trade row
    orders       \* for each approval's key, the trade of its order row

vars == <<outcome, positions, trades, orders>>

Init ==
    /\ outcome = [a \in Approvals |-> "nobody"]
    /\ positions = {}
    /\ trades = {}
    /\ orders = [a \in Approvals |-> NoTrade]

(* An operator's other decision, or an approval that is only noted because *)
(* the account is not live.                                                *)
Settle(a, who) ==
    /\ outcome[a] = "nobody"
    /\ outcome' = [outcome EXCEPT ![a] = who]
    /\ UNCHANGED <<positions, trades, orders>>

Fill(r) ==
    /\ positions' = positions \union {r}
    /\ UNCHANGED <<outcome, trades, orders>>

Book(r) ==
    /\ r \in positions
    /\ trades' = trades \union {r}
    /\ UNCHANGED <<outcome, positions, orders>>

Record(r) ==
    /\ r \in trades
    /\ orders[ApprovalOf[r]] = NoTrade
    /\ orders' = [orders EXCEPT ![ApprovalOf[r]] = r]
    /\ UNCHANGED <<outcome, positions, trades>>

Execute(a) ==
    /\ outcome[a] = "nobody"
    /\ orders[a] # NoTrade
    /\ outcome' = [outcome EXCEPT ![a] = "live"]
    /\ UNCHANGED <<positions, trades, orders>>

Next ==
    \/ \E a \in Approvals : Settle(a, "human") \/ Settle(a, "inert") \/ Execute(a)
    \/ \E r \in Requests : Fill(r) \/ Book(r) \/ Record(r)

Spec == Init /\ [][Next]_vars
=============================================================================
