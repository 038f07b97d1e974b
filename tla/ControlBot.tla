----------------------------- MODULE ControlBot -----------------------------
(***************************************************************************)
(* The Bot API side (telegram_control/bot.py): keyboards under messages,   *)
(* clicks that come back as callback_data, and the dispatch to a handler.  *)
(* The handlers are the caller's: here they resolve the approval in either *)
(* store.  Telegram may deliver a click again until it is answered.        *)
(***************************************************************************)
EXTENDS Naturals, FiniteSets

CONSTANTS
    Approvals, Positions,   \* the ids that keyboards carry
    MaxClicks               \* bound of the clicks

ASSUME BotAssumption == MaxClicks \in Nat /\ Approvals \intersect Positions = {}

VARIABLES
    backend,    \* the store: pg or memory
    handlers,   \* the actions that have a handler
    posted,     \* the ids with a keyboard in the chat
    updates,    \* the clicks on their way to the bot
    resolving,  \* the clicks whose handler is running
    clicked,    \* the clicks ever made
    status      \* of each approval

botVars == <<backend, handlers, posted, updates, resolving, clicked, status>>

Actions == {"approve", "reject", "continue", "close", "breakeven", "protect", "pause"}

(* build_approval_keyboard and build_position_keyboard.                    *)
Keyboard(id) == IF id \in Approvals THEN {"approve", "reject"} ELSE Actions \ {"approve", "reject"}

(* callback_data: a button's, or what is no action or no id.               *)
Garbage == [action |-> "none", id |-> "none"]
Parsed(data) == data # Garbage

(* _APPROVAL_ACTION_STATUS; pause has no status.                           *)
ActionStatus ==
    [approve |-> "approved", reject |-> "rejected", continue |-> "continued",
     close |-> "closed", breakeven |-> "breakeven", protect |-> "protected"]

BotInit ==
    /\ backend \in {"pg", "memory"} /\ handlers \in SUBSET {"approve", "reject", "pause"}
    /\ posted = {} /\ updates = {} /\ resolving = {} /\ clicked = {}
    /\ status = [a \in Approvals |-> "pending"]

(* send_message: it may have been posted though the call raises.           *)
SendMessage(id) ==
    /\ id \notin posted /\ (id \in Approvals => status[id] = "pending")
    /\ posted' = posted \union {id}
    /\ UNCHANGED <<backend, handlers, updates, resolving, clicked, status>>

Click(id) ==
    /\ id \in posted /\ Cardinality(clicked) < MaxClicks
    /\ \E action \in Keyboard(id) :
        /\ updates' = updates \union {[action |-> action, id |-> id]}
        /\ clicked' = clicked \union {[action |-> action, id |-> id]}
    /\ UNCHANGED <<backend, handlers, posted, resolving, status>>

Forge ==
    /\ Garbage \notin updates /\ updates' = updates \union {Garbage}
    /\ UNCHANGED <<backend, handlers, posted, resolving, clicked, status>>

(* dispatch_callback returns None.                                         *)
DispatchUnknown(u) ==
    /\ u \in updates /\ ~(Parsed(u) /\ u.action \in handlers)
    /\ updates' = updates \ {u}
    /\ UNCHANGED <<backend, handlers, posted, resolving, clicked, status>>

(* The handler is awaited; the update may come again meanwhile.            *)
DispatchCallback(u) ==
    /\ u \in updates \ resolving /\ Parsed(u) /\ u.action \in handlers
    /\ resolving' = resolving \union {u}
    /\ UNCHANGED <<backend, handlers, posted, updates, clicked, status>>

(* Defect: Postgres updates a row that is decided, too.                    *)
Mutant_ResolvePg(u) == status' = [status EXCEPT ![u.id] = ActionStatus[u.action]]

(* resolve_approval of PgStore: a pending row only.                        *)
ResolvePg(u) ==
    IF u.action \in DOMAIN ActionStatus /\ status[u.id] = "pending"
    THEN status' = [status EXCEPT ![u.id] = ActionStatus[u.action]] ELSE UNCHANGED status

(* resolve_approval of InMemoryStore: any row, and the action as it is.    *)
ResolveMemory(u) == status' = [status EXCEPT ![u.id] = u.action]

ResolveApproval(u) ==
    /\ u \in resolving /\ resolving' = resolving \ {u}
    /\ IF u.id \notin Approvals THEN UNCHANGED status
       ELSE IF backend = "pg" THEN ResolvePg(u) ELSE ResolveMemory(u)
    /\ UNCHANGED <<backend, handlers, posted, updates, clicked>>

(* answer_callback_query, or Telegram gives up; until then a click may be  *)
(* delivered again.                                                        *)
AnswerCallbackQuery(u) ==
    /\ u \in updates /\ u \notin resolving /\ Parsed(u)
    /\ updates' = updates \ {u}
    /\ UNCHANGED <<backend, handlers, posted, resolving, clicked, status>>

BotNext ==
    \/ \E id \in Approvals \union Positions : SendMessage(id) \/ Click(id)
    \/ Forge
    \/ \E u \in updates \union resolving :
        DispatchUnknown(u) \/ DispatchCallback(u) \/ ResolveApproval(u) \/ AnswerCallbackQuery(u)

BotSpec == BotInit /\ [][BotNext]_botVars

-----------------------------------------------------------------------------
Decisions == {"pending"} \union Actions \union {ActionStatus[x] : x \in DOMAIN ActionStatus}
CallbackData == [action : Actions, id : Approvals \union Positions]

(* Every variable keeps its type.                                          *)
BotTypeOK ==
    /\ backend \in {"pg", "memory"} /\ handlers \subseteq Actions
    /\ posted \subseteq Approvals \union Positions
    /\ updates \subseteq CallbackData \union {Garbage}
    /\ resolving \subseteq CallbackData /\ clicked \subseteq CallbackData
    /\ status \in [Approvals -> Decisions]

(* An approval is decided by a click on its own keyboard and in the words  *)
(* of that click, whatever is redelivered or clicked elsewhere; in         *)
(* Postgres the first decision stands, in memory (store.py:168) the last.  *)
DecidedAsClicked ==
    /\ [](\A a \in Approvals : status[a] # "pending" =>
            \E c \in clicked :
                /\ c.id = a /\ c.action \in handlers \intersect Keyboard(a)
                /\ status[a] = IF backend = "pg" THEN ActionStatus[c.action] ELSE c.action)
    /\ [][\A a \in Approvals :
            backend = "pg" /\ status[a] # "pending" => status'[a] = status[a]]_botVars
=============================================================================
