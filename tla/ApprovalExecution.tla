------------------------- MODULE ApprovalExecution -------------------------
(***************************************************************************)
(* From a human "approve" click to a live venue order.                     *)
(*                                                                         *)
(* The scanner leaves pending rows in the table approvals; the API's       *)
(* decision endpoint either flips a row (every action but "approve") or    *)
(* runs the execution coordinator, which may send a market order to the    *)
(* venue and then books it.  The store is PgStore: each call opens its own *)
(* connection with autocommit, so a handler suspends at every store call   *)
(* and each call is a transaction of its own.  One action of this module   *)
(* is one such call, or one stretch of code between two suspensions.       *)
(*                                                                         *)
(* A request is one POST to the endpoint with action "approve"; it places  *)
(* at most one order, so requests also name orders and trade rows.  The    *)
(* idempotency key of an approval is unique, so approvals name keys.       *)
(***************************************************************************)
EXTENDS Naturals, FiniteSets

CONSTANTS
    Requests,    \* approve clicks
    Approvals,   \* approval rows; also their idempotency keys
    ApprovalOf,  \* the approval each request names
    HasQty,      \* approvals whose quantity is present and positive
    Actions,     \* the decisions other than "approve" an operator may send
    TTL,         \* EXECUTION_IDEMPOTENCY_TTL_SECONDS, in ticks
    Latency,     \* longest life of a request when nothing is "slow"
    MaxTime,     \* bound of the clock
    MaxEpoch,    \* bound of the number of process restarts
    Faults       \* the faults that may happen, a subset of FaultKinds

(* crash: the API process dies and restarts.  store: a store call raises.  *)
(* factory: building the connector raises.  reply: the venue call times    *)
(* out or its answer is unusable, and an order may be lost on the way.     *)
(* slow: a request may live longer than Latency.                           *)
FaultKinds == {"crash", "store", "factory", "reply", "slow"}

(* PgStore._APPROVAL_ACTION_STATUS: the status each action leaves.         *)
ActionStatus ==
    [approve |-> "approved", reject |-> "rejected", continue |-> "continued",
     close |-> "closed", breakeven |-> "breakeven", protect |-> "protected"]

(* The order row of a key that has none.                                   *)
NoTrade == "no trade"

ASSUME ConstantsAssumption ==
    /\ ApprovalOf \in [Requests -> Approvals]
    /\ HasQty \subseteq Approvals
    /\ Actions \subseteq DOMAIN ActionStatus \ {"approve"}
    /\ TTL \in Nat \ {0} /\ Latency \in Nat /\ MaxTime \in Nat /\ MaxEpoch \in Nat
    /\ Faults \subseteq FaultKinds
    /\ NoTrade \notin Requests

VARIABLES
    (* the database *)
    approval,    \* status of each approval row
    account,     \* the row of mode_state
    connected,   \* exchange_connections holds a bitunix row
    trades,      \* requests that inserted a trade row
    orders,      \* for each key, the trade its order row points at
    audit,       \* the audit row each request wrote
    (* the API process *)
    pc,          \* where each request's handler is suspended
    idem,        \* _IDEMPOTENCY: expiry of each claimed key, 0 if absent
    epoch,       \* incarnations of the process so far
    now,         \* time.monotonic()
    (* the venue *)
    wire,        \* what became of each request's place_order call
    (* history, never read by the code *)
    started,     \* when each request began
    sawOpen,     \* the live gate was open at some moment of the request's life
    sentAt,      \* when each request sent its order
    sentIn,      \* the epoch it sent it in
    settledBy    \* what decided each approval

approvalVars == <<approval, settledBy>>
accountVars == <<account, connected, sawOpen>>
bookVars == <<trades, orders, audit>>
sendVars == <<idem, wire, sentAt, sentIn>>
clockVars == <<epoch, now, started>>
vars == <<approval, settledBy, account, connected, sawOpen, trades, orders,
          audit, pc, idem, wire, sentAt, sentIn, epoch, now, started>>

Statuses == {"absent", "pending"} \union {ActionStatus[a] : a \in DOMAIN ActionStatus}
Ended == {"done", "refused", "error", "dead"}
AuditPoints == {"audit_inert", "audit_blocked", "audit_failed", "audit_placed"}
StoreCalls == {"get_approval", "get_mode", "resolve_inert", "get_connection",
               "add_trade", "add_order", "resolve_live"} \union AuditPoints
Points == {"idle", "open_position", "await_venue"} \union StoreCalls \union Ended
AuditKinds == {"none"} \union AuditPoints
Settlers == {"nobody", "human", "inert", "live"}

(* handle_approval_approve: should_execute.                                *)
Mutant_LockIgnored == account.mode = "semi_auto" /\ account.unlocked
ShouldExecute ==
    account.mode = "semi_auto" /\ account.unlocked /\ ~account.locked

InFlight(r) == pc[r] \notin {"idle"} \union Ended
Sent == {r \in Requests : wire[r] # "none"}
Accepted == {r \in Requests : wire[r] = "accepted"}
Key(r) == ApprovalOf[r]
GoTo(r, p) == pc' = [pc EXCEPT ![r] = p]

TypeOK ==
    /\ approval \in [Approvals -> Statuses]
    /\ account \in [mode : {"paper", "semi_auto"}, unlocked : BOOLEAN, locked : BOOLEAN]
    /\ connected \in BOOLEAN
    /\ trades \subseteq Requests
    /\ orders \in [Approvals -> Requests \union {NoTrade}]
    /\ audit \in [Requests -> AuditKinds]
    /\ pc \in [Requests -> Points]
    /\ idem \in [Approvals -> Nat]
    /\ epoch \in Nat /\ now \in Nat
    /\ wire \in [Requests -> {"none", "sent", "accepted", "rejected", "lost"}]
    /\ started \in [Requests -> Nat]
    /\ sawOpen \in [Requests -> BOOLEAN]
    /\ sentAt \in [Requests -> Nat]
    /\ sentIn \in [Requests -> Nat]
    /\ settledBy \in [Approvals -> Settlers]

Init ==
    /\ approval = [a \in Approvals |-> "absent"]
    /\ account = [mode |-> "paper", unlocked |-> FALSE, locked |-> FALSE]
    /\ connected = FALSE
    /\ trades = {}
    /\ orders = [a \in Approvals |-> NoTrade]
    /\ audit = [r \in Requests |-> "none"]
    /\ pc = [r \in Requests |-> "idle"]
    /\ idem = [a \in Approvals |-> 0]
    /\ epoch = 0 /\ now = 0
    /\ wire = [r \in Requests |-> "none"]
    /\ started = [r \in Requests |-> 0]
    /\ sawOpen = [r \in Requests |-> FALSE]
    /\ sentAt = [r \in Requests |-> 0]
    /\ sentIn = [r \in Requests |-> 0]
    /\ settledBy = [a \in Approvals |-> "nobody"]

-----------------------------------------------------------------------------
(* The scanner, the operator's other endpoints, the clock.                 *)

(* add_approval: inserts a pending row; a key already there is left alone. *)
InsertApproval(a) ==
    approval' = IF approval[a] = "absent" THEN [approval EXCEPT ![a] = "pending"]
                                          ELSE approval

AddApproval(a) ==
    /\ InsertApproval(a)
    /\ UNCHANGED <<settledBy, accountVars, bookVars, sendVars, clockVars, pc>>

(* resolve_approval: update ... where status = 'pending'.                  *)
Mutant_OverwriteStatus(a, action, who) ==
    /\ approval' = [approval EXCEPT ![a] = ActionStatus[action]]
    /\ settledBy' = [settledBy EXCEPT ![a] = who]
ResolveApproval(a, action, who) ==
    \/ /\ approval[a] = "pending"
       /\ approval' = [approval EXCEPT ![a] = ActionStatus[action]]
       /\ settledBy' = [settledBy EXCEPT ![a] = who]
    \/ /\ approval[a] # "pending"
       /\ UNCHANGED approvalVars

(* post_approval_decision with any other action.                           *)
Decide(a, action) ==
    /\ ResolveApproval(a, action, "human")
    /\ UNCHANGED <<accountVars, bookVars, sendVars, clockVars, pc>>

(* A write of mode_state, and the moments of openness requests live through. *)
GateOpenIn(row) == row.mode = "semi_auto" /\ row.unlocked /\ ~row.locked
SetAccount(row) ==
    /\ account' = row
    /\ sawOpen' = [r \in Requests |-> sawOpen[r] \/ (InFlight(r) /\ GateOpenIn(row))]
    /\ UNCHANGED <<approvalVars, connected, bookVars, sendVars, clockVars, pc>>

(* set_mode.  Its read and its write are two calls; live_unlocked is only  *)
(* ever set, so what the read saw still holds at the write.                *)
SetMode(m) ==
    /\ m = "semi_auto" => account.unlocked
    /\ SetAccount([account EXCEPT !.mode = m])

UnlockLive == SetAccount([account EXCEPT !.unlocked = TRUE])

(* No code of the repository writes account_protection_lock: an operator   *)
(* sets and clears the column by hand.                                     *)
SetLock(b) == SetAccount([account EXCEPT !.locked = b])

AddConnection ==
    /\ connected' = TRUE
    /\ UNCHANGED <<approvalVars, account, sawOpen, bookVars, sendVars, clockVars, pc>>

Tick ==
    /\ now < MaxTime
    /\ "slow" \in Faults \/ \A r \in Requests : InFlight(r) => now < started[r] + Latency
    /\ now' = now + 1
    /\ UNCHANGED <<approvalVars, accountVars, bookVars, sendVars, epoch, started, pc>>

-----------------------------------------------------------------------------
(* The approve handler, one action per suspension.                         *)

Receive(r) ==
    /\ pc[r] = "idle"
    /\ GoTo(r, "get_approval")
    /\ started' = [started EXCEPT ![r] = now]
    /\ sawOpen' = [sawOpen EXCEPT ![r] = GateOpenIn(account)]
    /\ UNCHANGED <<approvalVars, account, connected, bookVars, sendVars, epoch, now>>

(* 404 when there is no row, 409 when it is resolved.                      *)
Mutant_StatusUnchecked(r) ==
    /\ pc[r] = "get_approval"
    /\ GoTo(r, IF approval[Key(r)] # "absent" THEN "get_mode" ELSE "refused")
    /\ UNCHANGED <<approvalVars, accountVars, bookVars, sendVars, clockVars>>
GetApproval(r) ==
    /\ pc[r] = "get_approval"
    /\ GoTo(r, IF approval[Key(r)] = "pending" THEN "get_mode" ELSE "refused")
    /\ UNCHANGED <<approvalVars, accountVars, bookVars, sendVars, clockVars>>

GetMode(r) ==
    /\ pc[r] = "get_mode"
    /\ GoTo(r, IF ShouldExecute THEN "get_connection" ELSE "resolve_inert")
    /\ UNCHANGED <<approvalVars, accountVars, bookVars, sendVars, clockVars>>

(* The non-live path ignores what resolve_approval returned.               *)
ResolveInert(r) ==
    /\ pc[r] = "resolve_inert"
    /\ ResolveApproval(Key(r), "approve", "inert")
    /\ GoTo(r, "audit_inert")
    /\ UNCHANGED <<accountVars, bookVars, sendVars, clockVars>>

GetConnection(r) ==
    /\ pc[r] = "get_connection"
    /\ GoTo(r, IF connected THEN "open_position" ELSE "audit_blocked")
    /\ UNCHANGED <<approvalVars, accountVars, bookVars, sendVars, clockVars>>

(* approval_missing_qty.                                                   *)
OpenBlocked(r) ==
    /\ pc[r] = "open_position"
    /\ Key(r) \notin HasQty
    /\ GoTo(r, "audit_blocked")
    /\ UNCHANGED <<approvalVars, accountVars, bookVars, sendVars, clockVars>>

(* connector_factory raises (no vault key, undecryptable blob): a 500.     *)
FactoryFails(r) ==
    /\ "factory" \in Faults
    /\ pc[r] = "open_position"
    /\ Key(r) \in HasQty
    /\ GoTo(r, "error")
    /\ UNCHANGED <<approvalVars, accountVars, bookVars, sendVars, clockVars>>

(* try_acquire: a key is claimed while its expiry lies ahead.              *)
Claimed(k) == idem[k] > now

OpenDuplicate(r) ==
    /\ pc[r] = "open_position"
    /\ Key(r) \in HasQty
    /\ Claimed(Key(r))
    /\ GoTo(r, "audit_failed")
    /\ UNCHANGED <<approvalVars, accountVars, bookVars, sendVars, clockVars>>

(* The claim and the first byte of place_order: no suspension in between.  *)
Mutant_SendWithoutClaim(r) ==
    /\ pc[r] = "open_position"
    /\ Key(r) \in HasQty
    /\ ~Claimed(Key(r))
    /\ wire' = [wire EXCEPT ![r] = "sent"]
    /\ sentAt' = [sentAt EXCEPT ![r] = now]
    /\ sentIn' = [sentIn EXCEPT ![r] = epoch]
    /\ GoTo(r, "await_venue")
    /\ UNCHANGED <<approvalVars, accountVars, bookVars, clockVars, idem>>
OpenSend(r) ==
    /\ pc[r] = "open_position"
    /\ Key(r) \in HasQty
    /\ ~Claimed(Key(r))
    /\ idem' = [idem EXCEPT ![Key(r)] = now + TTL]
    /\ wire' = [wire EXCEPT ![r] = "sent"]
    /\ sentAt' = [sentAt EXCEPT ![r] = now]
    /\ sentIn' = [sentIn EXCEPT ![r] = epoch]
    /\ GoTo(r, "await_venue")
    /\ UNCHANGED <<approvalVars, accountVars, bookVars, clockVars>>

(* place_order returned an orderId, or raised because the venue refused.   *)
Mutant_ResolveBeforeBooking(r) ==
    /\ pc[r] = "await_venue"
    /\ \/ wire[r] = "accepted" /\ GoTo(r, "resolve_live")
       \/ wire[r] = "rejected" /\ GoTo(r, "audit_failed")
    /\ UNCHANGED <<approvalVars, accountVars, bookVars, sendVars, clockVars>>
Reply(r) ==
    /\ pc[r] = "await_venue"
    /\ \/ wire[r] = "accepted" /\ GoTo(r, "add_trade")
       \/ wire[r] = "rejected" /\ GoTo(r, "audit_failed")
    /\ UNCHANGED <<approvalVars, accountVars, bookVars, sendVars, clockVars>>

(* A timeout or an answer without an orderId: reported FAILED, whatever    *)
(* became or will become of the order.                                     *)
Mutant_FailOpen(r) ==
    /\ "reply" \in Faults
    /\ pc[r] = "await_venue"
    /\ GoTo(r, "add_trade")
    /\ UNCHANGED <<approvalVars, accountVars, bookVars, sendVars, clockVars>>
Mutant_NoTimeout(r) ==
    /\ pc[r] = "await_venue"
    /\ wire[r] = "rejected"
    /\ GoTo(r, "audit_failed")
    /\ UNCHANGED <<approvalVars, accountVars, bookVars, sendVars, clockVars>>
Mutant_ReleaseOnFailure(r) ==
    /\ "reply" \in Faults
    /\ pc[r] = "await_venue"
    /\ GoTo(r, "audit_failed")
    /\ idem' = [idem EXCEPT ![Key(r)] = 0]
    /\ UNCHANGED <<approvalVars, accountVars, bookVars, wire, sentAt, sentIn, clockVars>>
NoReply(r) ==
    /\ "reply" \in Faults
    /\ pc[r] = "await_venue"
    /\ GoTo(r, "audit_failed")
    /\ UNCHANGED <<approvalVars, accountVars, bookVars, sendVars, clockVars>>

AddTrade(r) ==
    /\ pc[r] = "add_trade"
    /\ trades' = trades \union {r}
    /\ GoTo(r, "add_order")
    /\ UNCHANGED <<approvalVars, accountVars, orders, audit, sendVars, clockVars>>

(* add_order: the unique key turns a second insert into a read.            *)
Mutant_OverwriteOrder(r) ==
    /\ pc[r] = "add_order"
    /\ orders' = [orders EXCEPT ![Key(r)] = r]
    /\ GoTo(r, "resolve_live")
    /\ UNCHANGED <<approvalVars, accountVars, trades, audit, sendVars, clockVars>>
AddOrder(r) ==
    /\ pc[r] = "add_order"
    /\ orders' = IF orders[Key(r)] = NoTrade THEN [orders EXCEPT ![Key(r)] = r] ELSE orders
    /\ GoTo(r, "resolve_live")
    /\ UNCHANGED <<approvalVars, accountVars, trades, audit, sendVars, clockVars>>

ResolveLive(r) ==
    /\ pc[r] = "resolve_live"
    /\ ResolveApproval(Key(r), "approve", "live")
    /\ GoTo(r, "audit_placed")
    /\ UNCHANGED <<accountVars, bookVars, sendVars, clockVars>>

Mutant_BlockedUnaudited(r) ==
    /\ pc[r] \in AuditPoints
    /\ audit' = [audit EXCEPT ![r] = IF pc[r] = "audit_blocked" THEN "none" ELSE pc[r]]
    /\ GoTo(r, "done")
    /\ UNCHANGED <<approvalVars, accountVars, trades, orders, sendVars, clockVars>>
AddAuditLog(r) ==
    /\ pc[r] \in AuditPoints
    /\ audit' = [audit EXCEPT ![r] = pc[r]]
    /\ GoTo(r, "done")
    /\ UNCHANGED <<approvalVars, accountVars, trades, orders, sendVars, clockVars>>

-----------------------------------------------------------------------------
(* Faults of the store and of the process.                                 *)

(* A store call raises and the handler ends in a 500.  A write whose       *)
(* acknowledgement is lost is the write followed by this at the next call. *)
StoreFails(r) ==
    /\ "store" \in Faults
    /\ pc[r] \in StoreCalls
    /\ GoTo(r, "error")
    /\ UNCHANGED <<approvalVars, accountVars, bookVars, sendVars, clockVars>>

(* The process dies: handlers vanish, and the keys they claimed.           *)
Crash ==
    /\ "crash" \in Faults
    /\ epoch < MaxEpoch
    /\ epoch' = epoch + 1
    /\ pc' = [r \in Requests |-> IF InFlight(r) THEN "dead" ELSE pc[r]]
    /\ idem' = [a \in Approvals |-> 0]
    /\ UNCHANGED <<approvalVars, accountVars, bookVars, wire, sentAt, sentIn, now, started>>

-----------------------------------------------------------------------------
(* The venue, and the way to it.  An order already sent can be accepted    *)
(* after the handler that sent it is gone.                                 *)

VenueAnswers(r, outcome) ==
    /\ wire[r] = "sent"
    /\ wire' = [wire EXCEPT ![r] = outcome]
    /\ UNCHANGED <<approvalVars, accountVars, bookVars, idem, sentAt, sentIn, clockVars, pc>>

VenueAccepts(r) == VenueAnswers(r, "accepted")
VenueRejects(r) == VenueAnswers(r, "rejected")
OrderLost(r) == "reply" \in Faults /\ VenueAnswers(r, "lost")

-----------------------------------------------------------------------------
(* Steps the running handler takes by itself.                              *)
HandlerStep(r) ==
    \/ GetApproval(r) \/ GetMode(r) \/ ResolveInert(r) \/ GetConnection(r)
    \/ OpenBlocked(r) \/ FactoryFails(r) \/ OpenDuplicate(r) \/ OpenSend(r)
    \/ Reply(r) \/ NoReply(r)
    \/ AddTrade(r) \/ AddOrder(r) \/ ResolveLive(r) \/ AddAuditLog(r)
    \/ StoreFails(r)

VenueStep(r) == VenueAccepts(r) \/ VenueRejects(r) \/ OrderLost(r)

Operator ==
    \/ \E a \in Approvals : AddApproval(a)
    \/ \E a \in Approvals, action \in Actions : Decide(a, action)
    \/ \E m \in {"paper", "semi_auto"} : SetMode(m)
    \/ UnlockLive
    \/ \E b \in BOOLEAN : SetLock(b)
    \/ AddConnection
    \/ \E r \in Requests : Receive(r)

Next ==
    \/ Operator
    \/ \E r \in Requests : HandlerStep(r) \/ VenueStep(r)
    \/ Crash
    \/ Tick

Spec == Init /\ [][Next]_vars

(* The event loop resumes every handler whose awaited call has ended; each *)
(* store call and the HTTP call to the venue ends, by an answer or by its  *)
(* timeout; the venue answers an order it received.                        *)
Fairness == \A r \in Requests : WF_vars(HandlerStep(r)) /\ WF_vars(VenueStep(r))
FairSpec == Spec /\ Fairness

-----------------------------------------------------------------------------
(* Safety that holds whatever fails.                                       *)

(* Claiming the key before the write keeps two sends of one key, by one    *)
(* process, at least TTL apart: a double click is dropped, a retry is not. *)
SendsSpaced ==
    \A r, s \in Requests :
        (r # s /\ Key(r) = Key(s) /\ {r, s} \subseteq Sent /\ sentIn[r] = sentIn[s])
            => sentAt[r] + TTL <= sentAt[s] \/ sentAt[s] + TTL <= sentAt[r]

(* The books never claim more than the venue did: a trade row stands for an *)
(* order the venue accepted, an order row for such a trade of its own key. *)
BooksBacked ==
    /\ trades \subseteq Accepted
    /\ \A a \in Approvals : orders[a] # NoTrade =>
            orders[a] \in trades /\ Key(orders[a]) = a

(* An approval that the live path marked approved has its order row: a     *)
(* failure before that leaves the row pending, for the operator to retry.  *)
ExecutedIsBooked ==
    \A a \in Approvals : settledBy[a] = "live" =>
        approval[a] = "approved" /\ orders[a] # NoTrade

(* A request sends only if the live gate was open at some moment between   *)
(* its arrival and its order: a lock set before the click stops it.        *)
SendsSawOpenGate == \A r \in Sent : sawOpen[r]

(* A decision is final: no later click, no late handler and no scanner     *)
(* re-insert changes a resolved row.                                       *)
DecisionFinal ==
    [][\A a \in Approvals : approval[a] \notin {"absent", "pending"} =>
            approval'[a] = approval[a]]_vars

(* Without crashes, failing store calls, lost replies and requests that    *)
(* outlive Latency, and with TTL above twice Latency, an approval buys at  *)
(* most one position however often it is clicked.                          *)
AtMostOnePosition ==
    \A r, s \in Accepted : Key(r) = Key(s) => r = s

(* Every request that reached the coordinator and ended left an audit row. *)
EveryOutcomeAudited == \A r \in Requests : pc[r] \in {"done", "error"} => audit[r] # "none"

(* The pipeline implements the ledger it promises.                         *)
Ledger == INSTANCE ApprovalLedger WITH outcome <- settledBy, positions <- Accepted
ImplementsLedger == Ledger!Spec

-----------------------------------------------------------------------------
(* The inductive strengthening: what each point of the handler knows.      *)

(* Nothing is sent before open_position; a send of this epoch holds its    *)
(* key until TTL after it.                                                 *)
SendInv ==
    /\ \A r \in Requests : pc[r] \in {"idle", "get_approval", "get_mode", "resolve_inert",
                                     "get_connection", "open_position"} => wire[r] = "none"
    /\ \A r \in Sent :
            /\ sentAt[r] <= now /\ sentIn[r] <= epoch
            /\ sentIn[r] = epoch => sentAt[r] + TTL <= idem[Key(r)]
    /\ SendsSpaced

(* Each booking step is taken only after the one before it.                *)
BookInv ==
    /\ \A r \in Requests :
            /\ pc[r] = "add_trade" => wire[r] = "accepted"
            /\ pc[r] = "add_order" => r \in trades
            /\ pc[r] = "resolve_live" => orders[Key(r)] # NoTrade
    /\ \A a \in Approvals : settledBy[a] = "nobody" <=> approval[a] \in {"absent", "pending"}
    /\ BooksBacked
    /\ ExecutedIsBooked

(* A handler past the gate check saw the gate open, and one that runs      *)
(* while the gate is open has seen it.                                     *)
GateInv ==
    /\ \A r \in Requests :
            /\ pc[r] \in {"get_connection", "open_position"} => sawOpen[r]
            /\ (InFlight(r) /\ GateOpenIn(account)) => sawOpen[r]
    /\ SendsSawOpenGate

IInv == TypeOK /\ SendInv /\ BookInv /\ GateInv

(* No crash, no failing store call, an answer to every order in time, and  *)
(* a claim that outlives two requests back to back.                        *)
Timely == Faults \subseteq {"factory"} /\ 2 * Latency < TTL

(* Orders that are, or may still become, positions.                        *)
Live == {r \in Requests : wire[r] \in {"sent", "accepted"}}

(* When Timely: requests are young; a handler past the status check has an *)
(* approval row; a live order's handler is still at work or its approval   *)
(* is resolved; whoever passed the check began before the live order's     *)
(* handler can have ended; and a key has one live order.                   *)
PastCheck == {"get_mode", "get_connection", "open_position"}
Working == {"await_venue", "add_trade", "add_order", "resolve_live"}

TimelyInv ==
    /\ \A r \in Requests :
            /\ InFlight(r) => started[r] <= now /\ now <= started[r] + Latency
            /\ pc[r] \in PastCheck \union Working => approval[Key(r)] # "absent"
    /\ \A r \in Live :
            /\ started[r] <= sentAt[r] /\ sentIn[r] = epoch
            /\ pc[r] \in Working \/ approval[Key(r)] \notin {"absent", "pending"}
    /\ \A r \in Live, s \in Requests :
            (Key(s) = Key(r) /\ pc[s] \in PastCheck) => started[s] <= started[r] + Latency
    /\ \A r, s \in Live : Key(r) = Key(s) => r = s

-----------------------------------------------------------------------------
(* Liveness.                                                               *)

(* Every click is answered (or dies with the process).                     *)
ClicksAnswered == \A r \in Requests : InFlight(r) ~> pc[r] \in Ended

(* Without faults, a position the venue opened reaches the books, and its  *)
(* approval leaves the queue.                                              *)
PositionsBooked ==
    \A r \in Requests : r \in Accepted ~>
        /\ orders[Key(r)] = r
        /\ approval[Key(r)] # "pending"
        /\ audit[r] = "audit_placed"

-----------------------------------------------------------------------------
(* What the repository says and the code does not do.                      *)

(* executor.py:133-134: "A second attempt with the same key (double-click, *)
(* retry, replayed approval) is dropped, not re-sent"; so a key whose      *)
(* order the venue accepted is never sent twice.                           *)
AcceptedNotResent ==
    \A r, s \in Sent : (Key(r) = Key(s) /\ r \in Accepted) => r = s

(* execution_coordinator.py:5-7: "Execution only fires in semi_auto with   *)
(* the paper gate satisfied and no account-protection lock".               *)
LockStopsEntries ==
    [][\A r \in Requests : (wire[r] = "none" /\ wire'[r] = "sent") => ~account.locked]_vars

(* 0003_approvals.sql:4-6: the human flips the status "before any exchange *)
(* write happens"; so no order is sent for a row already rejected.         *)
RejectedNotExecuted ==
    [][\A r \in Requests : (wire[r] = "none" /\ wire'[r] = "sent") =>
            approval[Key(r)] # "rejected"]_vars
=============================================================================
