---------------------- MODULE ApprovalExecution_proofs ----------------------
(***************************************************************************)
(* What ApprovalExecution guarantees for every set of requests and         *)
(* approvals, every TTL and every combination of faults.                   *)
(***************************************************************************)
EXTENDS ApprovalExecution, TLAPS

(* The control points of a handler before its order leaves.                *)
USE DEF Ended, AuditPoints, StoreCalls, Points, AuditKinds, Settlers,
        approvalVars, accountVars, bookVars, sendVars, clockVars, Key, GoTo

(* Every status an action leaves is a status.                              *)
LEMMA StatusFacts ==
    /\ {"absent", "pending", "approved"} \subseteq Statuses
    /\ ActionStatus["approve"] = "approved"
    /\ \A action \in Actions : ActionStatus[action] \in Statuses \ {"absent", "pending"}
  BY ConstantsAssumption DEF ActionStatus, Statuses

(* The state every component of the program is in stays within its type.   *)
LEMMA InitTypeOK == Init => TypeOK
  <1> SUFFICES ASSUME Init PROVE TypeOK
    OBVIOUS
  <1> USE StatusFacts DEF Init
  <1>1. approval \in [Approvals -> Statuses] /\ settledBy \in [Approvals -> Settlers]
    OBVIOUS
  <1>2. account \in [mode : {"paper", "semi_auto"}, unlocked : BOOLEAN, locked : BOOLEAN]
    OBVIOUS
  <1>3. connected \in BOOLEAN /\ trades \subseteq Requests /\ epoch \in Nat /\ now \in Nat
    OBVIOUS
  <1>4. orders \in [Approvals -> Requests \union {NoTrade}] /\ idem \in [Approvals -> Nat]
    OBVIOUS
  <1>5. /\ audit \in [Requests -> AuditKinds]
        /\ pc \in [Requests -> Points]
        /\ wire \in [Requests -> {"none", "sent", "accepted", "rejected", "lost"}]
    OBVIOUS
  <1>6. /\ started \in [Requests -> Nat]
        /\ sawOpen \in [Requests -> BOOLEAN]
        /\ sentAt \in [Requests -> Nat]
        /\ sentIn \in [Requests -> Nat]
    OBVIOUS
  <1>7. QED
    BY <1>1, <1>2, <1>3, <1>4, <1>5, <1>6 DEF TypeOK

LEMMA OperatorTypeOK == TypeOK /\ Operator => TypeOK'
  <1> SUFFICES ASSUME TypeOK, Operator PROVE TypeOK'
    OBVIOUS
  <1> USE ConstantsAssumption, StatusFacts DEF TypeOK
  <1>1. ASSUME NEW a \in Approvals, AddApproval(a) PROVE TypeOK'
    BY <1>1 DEF AddApproval, InsertApproval
  <1>2. ASSUME NEW a \in Approvals, NEW action \in Actions, Decide(a, action) PROVE TypeOK'
    BY <1>2 DEF Decide, ResolveApproval
  <1>3. ASSUME NEW m \in {"paper", "semi_auto"}, SetMode(m) PROVE TypeOK'
    BY <1>3 DEF SetMode, SetAccount
  <1>4. CASE UnlockLive
    BY <1>4 DEF UnlockLive, SetAccount
  <1>5. ASSUME NEW b \in BOOLEAN, SetLock(b) PROVE TypeOK'
    BY <1>5 DEF SetLock, SetAccount
  <1>6. CASE AddConnection
    BY <1>6 DEF AddConnection
  <1>7. ASSUME NEW r \in Requests, Receive(r) PROVE TypeOK'
    BY <1>7 DEF Receive, GateOpenIn
  <1>8. QED
    BY <1>1, <1>2, <1>3, <1>4, <1>5, <1>6, <1>7 DEF Operator

LEMMA HandlerTypeOK ==
    ASSUME NEW r \in Requests, TypeOK, HandlerStep(r)
    PROVE  TypeOK'
  <1> USE ConstantsAssumption, StatusFacts DEF TypeOK
  <1>1. CASE GetApproval(r) \/ GetMode(r) \/ GetConnection(r)
    BY <1>1 DEF GetApproval, GetMode, GetConnection
  <1>2. CASE OpenBlocked(r) \/ FactoryFails(r) \/ OpenDuplicate(r)
    BY <1>2 DEF OpenBlocked, FactoryFails, OpenDuplicate
  <1>3. CASE OpenSend(r)
    BY <1>3 DEF OpenSend
  <1>4. CASE Reply(r) \/ NoReply(r) \/ StoreFails(r)
    BY <1>4 DEF Reply, NoReply, StoreFails
  <1>5. CASE AddTrade(r)
    BY <1>5 DEF AddTrade
  <1>6. CASE AddOrder(r)
    BY <1>6 DEF AddOrder
  <1>7. CASE ResolveInert(r) \/ ResolveLive(r)
    BY <1>7 DEF ResolveInert, ResolveLive, ResolveApproval
  <1>8. CASE AddAuditLog(r)
    BY <1>8 DEF AddAuditLog
  <1>9. QED
    BY <1>1, <1>2, <1>3, <1>4, <1>5, <1>6, <1>7, <1>8 DEF HandlerStep

LEMMA NextTypeOK == TypeOK /\ [Next]_vars => TypeOK'
  <1> SUFFICES ASSUME TypeOK, [Next]_vars PROVE TypeOK'
    OBVIOUS
  <1>1. CASE Operator
    BY <1>1, OperatorTypeOK
  <1>2. ASSUME NEW r \in Requests, HandlerStep(r) PROVE TypeOK'
    BY <1>2, HandlerTypeOK
  <1>3. ASSUME NEW r \in Requests, VenueStep(r) PROVE TypeOK'
    BY <1>3 DEF VenueStep, VenueAccepts, VenueRejects, OrderLost, VenueAnswers, TypeOK
  <1>4. CASE Crash
    BY <1>4 DEF Crash, TypeOK
  <1>5. CASE Tick
    BY <1>5 DEF Tick, TypeOK
  <1>6. CASE UNCHANGED vars
    BY <1>6 DEF vars, TypeOK
  <1>7. QED
    BY <1>1, <1>2, <1>3, <1>4, <1>5, <1>6 DEF Next

(* Type correctness of the pipeline.                                       *)
THEOREM TypeCorrect == Spec => []TypeOK
  BY InitTypeOK, NextTypeOK, PTL DEF Spec

-----------------------------------------------------------------------------
(* Sends: the key of every send of this epoch is held until TTL after it.  *)

LEMMA InitSendInv == Init => SendInv
  BY DEF Init, SendInv, SendsSpaced, Sent

LEMMA OperatorSendInv == TypeOK /\ SendInv /\ Operator => SendInv'
  <1> SUFFICES ASSUME TypeOK, SendInv, Operator PROVE SendInv'
    OBVIOUS
  <1> USE DEF TypeOK, SendInv, SendsSpaced, Sent
  <1>1. /\ UNCHANGED <<idem, wire, sentAt, sentIn, epoch, now>>
        /\ \A r \in Requests : pc'[r] # pc[r] => pc[r] = "idle"
    BY DEF Operator, AddApproval, Decide, SetMode, UnlockLive, SetLock, SetAccount,
           AddConnection, Receive
  <1>2. QED
    BY <1>1

LEMMA HandlerSendInv ==
    ASSUME NEW r \in Requests, TypeOK, SendInv, HandlerStep(r)
    PROVE  SendInv'
  <1> USE ConstantsAssumption DEF TypeOK, SendInv, SendsSpaced, Sent
  <1>1. CASE OpenSend(r)
    <2> USE <1>1 DEF OpenSend, Claimed
    <2>1. wire[r] = "none" /\ idem[ApprovalOf[r]] <= now
      OBVIOUS
    <2>2. \A s \in Requests : s # r => wire'[s] = wire[s] /\ sentAt'[s] = sentAt[s]
                                       /\ sentIn'[s] = sentIn[s] /\ pc'[s] = pc[s]
      OBVIOUS
    <2>3. wire'[r] = "sent" /\ sentAt'[r] = now /\ sentIn'[r] = epoch /\ pc'[r] = "await_venue"
      OBVIOUS
    <2>4. \A s \in Requests \ {r} : (wire[s] # "none" /\ sentIn[s] = epoch
                                     /\ ApprovalOf[s] = ApprovalOf[r]) => sentAt[s] + TTL <= now
      BY <2>1
    <2>5. ASSUME NEW s \in Requests, wire'[s] # "none"
          PROVE  /\ sentAt'[s] <= now' /\ sentIn'[s] <= epoch'
                 /\ sentIn'[s] = epoch' => sentAt'[s] + TTL <= idem'[ApprovalOf[s]]
      <3>1. CASE s = r
        BY <2>3, <3>1
      <3>2. CASE s # r /\ ApprovalOf[s] = ApprovalOf[r]
        BY <2>2, <2>5, <3>2
      <3>3. CASE ApprovalOf[s] # ApprovalOf[r]
        BY <2>2, <2>5, <3>3
      <3>4. QED
        BY <3>1, <3>2, <3>3
    <2>6. ASSUME NEW s \in Requests, NEW t \in Requests, s # t, ApprovalOf[s] = ApprovalOf[t],
                 wire'[s] # "none", wire'[t] # "none", sentIn'[s] = sentIn'[t]
          PROVE  sentAt'[s] + TTL <= sentAt'[t] \/ sentAt'[t] + TTL <= sentAt'[s]
      <3>1. CASE s = r
        BY <2>2, <2>3, <2>4, <2>6, <3>1
      <3>2. CASE t = r
        BY <2>2, <2>3, <2>4, <2>6, <3>2
      <3>3. CASE s # r /\ t # r
        BY <2>2, <2>6, <3>3
      <3>4. QED
        BY <3>1, <3>2, <3>3
    <2>7. \A s \in Requests : pc'[s] \in {"idle", "get_approval", "get_mode", "resolve_inert",
                                "get_connection", "open_position"} => wire'[s] = "none"
      BY <2>2, <2>3
    <2>8. QED
      BY <2>5, <2>6, <2>7
  <1>2. CASE ~OpenSend(r)
    <2>1. /\ UNCHANGED <<idem, wire, sentAt, sentIn, epoch, now>>
          /\ \A s \in Requests : s # r => pc'[s] = pc[s]
          /\ pc'[r] \in {"get_mode", "resolve_inert", "get_connection", "open_position"} =>
                pc[r] \in {"get_approval", "get_mode", "get_connection"}
      BY <1>2 DEF HandlerStep, GetApproval, GetMode, ResolveInert, GetConnection, OpenBlocked,
         FactoryFails, OpenDuplicate, Reply, NoReply, AddTrade, AddOrder, ResolveLive,
         AddAuditLog, StoreFails
    <2>2. pc'[r] \notin {"idle", "get_approval"}
      BY <1>2 DEF HandlerStep, GetApproval, GetMode, ResolveInert, GetConnection, OpenBlocked,
         FactoryFails, OpenDuplicate, Reply, NoReply, AddTrade, AddOrder, ResolveLive,
         AddAuditLog, StoreFails
    <2>3. QED
      BY <2>1, <2>2
  <1>3. QED
    BY <1>1, <1>2

LEMMA NextSendInv == TypeOK /\ SendInv /\ [Next]_vars => SendInv'
  <1> SUFFICES ASSUME TypeOK, SendInv, [Next]_vars PROVE SendInv'
    OBVIOUS
  <1> USE DEF TypeOK, SendInv, SendsSpaced, Sent
  <1>1. CASE Operator
    BY <1>1, OperatorSendInv
  <1>2. ASSUME NEW r \in Requests, HandlerStep(r) PROVE SendInv'
    BY <1>2, HandlerSendInv
  <1>3. ASSUME NEW r \in Requests, VenueStep(r) PROVE SendInv'
    BY <1>3 DEF VenueStep, VenueAccepts, VenueRejects, OrderLost, VenueAnswers
  <1>4. CASE Crash
    BY <1>4 DEF Crash, InFlight
  <1>5. CASE Tick
    BY <1>5 DEF Tick
  <1>6. CASE UNCHANGED vars
    BY <1>6 DEF vars
  <1>7. QED
    BY <1>1, <1>2, <1>3, <1>4, <1>5, <1>6 DEF Next

-----------------------------------------------------------------------------
(* Books: each booking step is taken only after the one before it.         *)

LEMMA InitBookInv == Init => BookInv
  BY DEF Init, BookInv, BooksBacked, ExecutedIsBooked

(* A step that only resolves approvals through resolve_approval, with no   *)
(* claim of execution, keeps the books in order.                           *)
LEMMA OperatorBookInv == TypeOK /\ BookInv /\ Operator => BookInv'
  <1> SUFFICES ASSUME TypeOK, BookInv, Operator PROVE BookInv'
    OBVIOUS
  <1>1. ASSUME NEW a \in Approvals, AddApproval(a) PROVE BookInv'
    <2>1. UNCHANGED <<settledBy, orders, trades, wire, pc>>
      BY <1>1 DEF AddApproval
    <2>2. \A b \in Approvals : \/ approval'[b] = approval[b]
                               \/ approval[b] = "absent" /\ approval'[b] = "pending"
      BY <1>1 DEF AddApproval, InsertApproval, TypeOK
    <2>3. QED
      BY <2>1, <2>2 DEF BookInv, BooksBacked, ExecutedIsBooked, Accepted
  <1>2. ASSUME NEW a \in Approvals, NEW action \in Actions, Decide(a, action) PROVE BookInv'
    <2>1. ActionStatus[action] \notin {"absent", "pending"}
      BY StatusFacts
    <2>2. UNCHANGED <<orders, trades, wire, pc>>
      BY <1>2 DEF Decide
    <2>3. \A b \in Approvals :
             \/ approval'[b] = approval[b] /\ settledBy'[b] = settledBy[b]
             \/ /\ approval[b] = "pending"
                /\ approval'[b] \notin {"absent", "pending"}
                /\ settledBy'[b] = "human"
      BY <1>2, <2>1 DEF Decide, ResolveApproval, TypeOK
    <2>4. QED
      BY <2>2, <2>3 DEF BookInv, BooksBacked, ExecutedIsBooked, Accepted
  <1>3. CASE UNCHANGED <<approval, settledBy, orders, trades, wire>>
             /\ \A r \in Requests : pc'[r] # pc[r] => pc'[r] = "get_approval"
    BY <1>3 DEF BookInv, BooksBacked, ExecutedIsBooked, Accepted
  <1>4. CASE \/ \E m \in {"paper", "semi_auto"} : SetMode(m)
             \/ UnlockLive
             \/ \E b \in BOOLEAN : SetLock(b)
             \/ AddConnection
             \/ \E r \in Requests : Receive(r)
    BY <1>3, <1>4 DEF SetMode, UnlockLive, SetLock, SetAccount, AddConnection, Receive, TypeOK
  <1>5. QED
    BY <1>1, <1>2, <1>4 DEF Operator

LEMMA HandlerBookInv ==
    ASSUME NEW r \in Requests, TypeOK, SendInv, BookInv, HandlerStep(r)
    PROVE  BookInv'
  <1> USE ConstantsAssumption, StatusFacts DEF TypeOK, BookInv, BooksBacked, ExecutedIsBooked, Accepted
  <1>1. CASE GetApproval(r) \/ GetMode(r) \/ GetConnection(r)
    BY <1>1 DEF GetApproval, GetMode, GetConnection
  <1>2. CASE OpenBlocked(r) \/ FactoryFails(r) \/ OpenDuplicate(r)
    BY <1>2 DEF OpenBlocked, FactoryFails, OpenDuplicate
  <1>3. CASE OpenSend(r)
    <2>1. wire[r] = "none" /\ r \notin trades
      BY <1>3 DEF OpenSend, SendInv
    <2>2. QED
      BY <1>3, <2>1 DEF OpenSend
  <1>4. CASE Reply(r) \/ NoReply(r) \/ StoreFails(r)
    BY <1>4 DEF Reply, NoReply, StoreFails
  <1>5. CASE AddTrade(r)
    BY <1>5 DEF AddTrade
  <1>6. CASE AddOrder(r)
    BY <1>6 DEF AddOrder
  <1>7. CASE ResolveInert(r)
    BY <1>7 DEF ResolveInert, ResolveApproval
  <1>8. CASE ResolveLive(r)
    BY <1>8 DEF ResolveLive, ResolveApproval
  <1>9. CASE AddAuditLog(r)
    BY <1>9 DEF AddAuditLog
  <1>10. QED
    BY <1>1, <1>2, <1>3, <1>4, <1>5, <1>6, <1>7, <1>8, <1>9 DEF HandlerStep

LEMMA NextBookInv == TypeOK /\ SendInv /\ BookInv /\ [Next]_vars => BookInv'
  <1> SUFFICES ASSUME TypeOK, SendInv, BookInv, [Next]_vars PROVE BookInv'
    OBVIOUS
  <1> USE DEF TypeOK, BookInv, BooksBacked, ExecutedIsBooked, Accepted
  <1>1. CASE Operator
    BY <1>1, OperatorBookInv
  <1>2. ASSUME NEW r \in Requests, HandlerStep(r) PROVE BookInv'
    BY <1>2, HandlerBookInv
  <1>3. ASSUME NEW r \in Requests, VenueStep(r) PROVE BookInv'
    BY <1>3 DEF VenueStep, VenueAccepts, VenueRejects, OrderLost, VenueAnswers
  <1>4. CASE Crash
    BY <1>4 DEF Crash, InFlight
  <1>5. CASE Tick
    BY <1>5 DEF Tick
  <1>6. CASE UNCHANGED vars
    BY <1>6 DEF vars
  <1>7. QED
    BY <1>1, <1>2, <1>3, <1>4, <1>5, <1>6 DEF Next

-----------------------------------------------------------------------------
(* The gate: a handler past its check has seen the gate open.              *)

LEMMA InitGateInv == Init => GateInv
  BY DEF Init, GateInv, SendsSawOpenGate, Sent, InFlight

LEMMA OperatorGateInv == TypeOK /\ SendInv /\ GateInv /\ Operator => GateInv'
  <1> SUFFICES ASSUME TypeOK, SendInv, GateInv, Operator PROVE GateInv'
    OBVIOUS
  <1> USE DEF TypeOK, GateInv, SendsSawOpenGate, Sent, InFlight
  <1>1. CASE \/ \E a \in Approvals : AddApproval(a)
             \/ \E a \in Approvals, action \in Actions : Decide(a, action)
             \/ AddConnection
    <2>1. UNCHANGED <<account, sawOpen, pc, wire>>
      BY <1>1 DEF AddApproval, Decide, AddConnection
    <2>2. QED
      BY <2>1 DEF GateOpenIn
  <1>2. ASSUME NEW row, SetAccount(row) PROVE GateInv'
    BY <1>2 DEF SetAccount
  <1>3. ASSUME NEW r \in Requests, Receive(r) PROVE GateInv'
    <2>1. /\ UNCHANGED <<account, wire>>
          /\ \A s \in Requests : s # r => pc'[s] = pc[s] /\ sawOpen'[s] = sawOpen[s]
          /\ pc'[r] = "get_approval" /\ sawOpen'[r] = GateOpenIn(account)
          /\ wire[r] = "none"
      BY <1>3 DEF Receive, SendInv
    <2>2. QED
      BY <2>1 DEF GateOpenIn
  <1>4. QED
    BY <1>1, <1>2, <1>3 DEF Operator, SetMode, UnlockLive, SetLock

LEMMA HandlerGateInv ==
    ASSUME NEW r \in Requests, TypeOK, GateInv, HandlerStep(r)
    PROVE  GateInv'
  <1>1. /\ UNCHANGED <<account, sawOpen>>
        /\ \A s \in Requests : s # r => pc'[s] = pc[s] /\ wire'[s] = wire[s]
    BY DEF TypeOK, HandlerStep, GetApproval, GetMode, ResolveInert, GetConnection, OpenBlocked,
       FactoryFails, OpenDuplicate, OpenSend, Reply, NoReply, AddTrade, AddOrder, ResolveLive,
       AddAuditLog, StoreFails
  <1>2. /\ InFlight(r)
        /\ pc'[r] = "get_connection" => GateOpenIn(account)
        /\ pc'[r] = "open_position" => pc[r] = "get_connection"
        /\ wire'[r] # wire[r] => pc[r] = "open_position"
    BY DEF TypeOK, HandlerStep, GetApproval, GetMode, ResolveInert, GetConnection, OpenBlocked,
       FactoryFails, OpenDuplicate, OpenSend, Reply, NoReply, AddTrade, AddOrder, ResolveLive,
       AddAuditLog, StoreFails, InFlight, ShouldExecute, GateOpenIn
  <1>3. QED
    BY <1>1, <1>2 DEF GateInv, SendsSawOpenGate, Sent, InFlight, GateOpenIn

LEMMA NextGateInv == TypeOK /\ SendInv /\ GateInv /\ [Next]_vars => GateInv'
  <1> SUFFICES ASSUME TypeOK, SendInv, GateInv, [Next]_vars PROVE GateInv'
    OBVIOUS
  <1> USE DEF TypeOK, GateInv, SendsSawOpenGate, Sent, InFlight, GateOpenIn
  <1>1. CASE Operator
    BY <1>1, OperatorGateInv
  <1>2. ASSUME NEW r \in Requests, HandlerStep(r) PROVE GateInv'
    BY <1>2, HandlerGateInv
  <1>3. ASSUME NEW r \in Requests, VenueStep(r) PROVE GateInv'
    BY <1>3 DEF VenueStep, VenueAccepts, VenueRejects, OrderLost, VenueAnswers
  <1>4. CASE Crash
    BY <1>4 DEF Crash
  <1>5. CASE Tick
    BY <1>5 DEF Tick
  <1>6. CASE UNCHANGED vars
    BY <1>6 DEF vars
  <1>7. QED
    BY <1>1, <1>2, <1>3, <1>4, <1>5, <1>6 DEF Next

-----------------------------------------------------------------------------
(* The theorems.                                                           *)

(* IInv holds at the start, every step preserves it.                       *)
THEOREM Inductive == Spec => []IInv
  <1>1. Init => IInv
    BY InitTypeOK, InitSendInv, InitBookInv, InitGateInv DEF IInv
  <1>2. IInv /\ [Next]_vars => IInv'
    BY NextTypeOK, NextSendInv, NextBookInv, NextGateInv DEF IInv
  <1>3. QED
    BY <1>1, <1>2, PTL DEF Spec

(* One process never sends the same key twice within TTL.                  *)
THEOREM SendsAreSpaced == Spec => []SendsSpaced
  <1>1. IInv => SendsSpaced
    BY DEF IInv, SendInv
  <1>2. QED
    BY <1>1, Inductive, PTL

(* Trade rows stand for accepted orders, order rows for trades.            *)
THEOREM BooksAreBacked == Spec => []BooksBacked
  <1>1. IInv => BooksBacked
    BY DEF IInv, BookInv
  <1>2. QED
    BY <1>1, Inductive, PTL

(* An approval is marked executed only after its order row is on the books. *)
THEOREM ExecutionsAreBooked == Spec => []ExecutedIsBooked
  <1>1. IInv => ExecutedIsBooked
    BY DEF IInv, BookInv
  <1>2. QED
    BY <1>1, Inductive, PTL

(* No order leaves unless the gate was open while its request ran.         *)
THEOREM SendsPassTheGate == Spec => []SendsSawOpenGate
  <1>1. IInv => SendsSawOpenGate
    BY DEF IInv, GateInv
  <1>2. QED
    BY <1>1, Inductive, PTL

(* A resolved approval never changes again.                                *)
THEOREM DecisionsAreFinal == Spec => DecisionFinal
  <1> DEFINE Kept == \A a \in Approvals : approval[a] \notin {"absent", "pending"} =>
                        approval'[a] = approval[a]
  <1>1. TypeOK /\ [Next]_vars => [Kept]_vars
    <2> SUFFICES ASSUME TypeOK, Next PROVE Kept
      OBVIOUS
    <2>1. ASSUME NEW a \in Approvals, AddApproval(a) PROVE Kept
      BY <2>1 DEF AddApproval, InsertApproval, TypeOK
    <2>2. ASSUME NEW a \in Approvals, NEW action, NEW who, ResolveApproval(a, action, who)
          PROVE  Kept
      BY <2>2 DEF ResolveApproval, TypeOK
    <2>3. ASSUME NEW r \in Requests, HandlerStep(r) PROVE Kept
      <3>1. CASE ResolveInert(r) \/ ResolveLive(r)
        BY <2>2, <3>1, ConstantsAssumption DEF ResolveInert, ResolveLive
      <3>2. CASE ~(ResolveInert(r) \/ ResolveLive(r))
        <4>1. UNCHANGED approval
          BY <2>3, <3>2 DEF HandlerStep, GetApproval, GetMode, GetConnection, OpenBlocked,
             FactoryFails, OpenDuplicate, OpenSend, Reply, NoReply, AddTrade, AddOrder,
             AddAuditLog, StoreFails
        <4>2. QED
          BY <4>1
      <3>3. QED
        BY <3>1, <3>2
    <2>4. CASE UNCHANGED approval
      BY <2>4
    <2>5. QED
      BY <2>1, <2>2, <2>3, <2>4 DEF Next, Operator, Decide, SetMode, UnlockLive, SetLock,
         SetAccount, AddConnection, Receive, VenueStep, VenueAccepts, VenueRejects, OrderLost,
         VenueAnswers, Crash, Tick
  <1>2. QED
    BY <1>1, TypeCorrect, PTL DEF Spec, DecisionFinal

-----------------------------------------------------------------------------
(* The pipeline implements the ledger.                                     *)

LEMMA InitLedger == Init => Ledger!Init
  BY DEF Init, Ledger!Init, Accepted

LEMMA HandlerLedger ==
    ASSUME NEW r \in Requests, TypeOK, SendInv, BookInv, HandlerStep(r)
    PROVE  Ledger!Next \/ UNCHANGED Ledger!vars
  <1> USE DEF TypeOK, Accepted, Ledger!vars
  <1>1. CASE AddTrade(r)
    <2>1. Ledger!Book(r)
      BY <1>1 DEF AddTrade, BookInv, Ledger!Book
    <2>2. QED
      BY <2>1 DEF Ledger!Next
  <1>2. CASE AddOrder(r)
    <2>1. Ledger!Record(r) \/ UNCHANGED Ledger!vars
      BY <1>2 DEF AddOrder, BookInv, Ledger!Record
    <2>2. QED
      BY <2>1 DEF Ledger!Next
  <1>3. CASE ResolveLive(r)
    <2>1. Ledger!Execute(ApprovalOf[r]) \/ UNCHANGED Ledger!vars
      BY <1>3, ConstantsAssumption DEF ResolveLive, ResolveApproval, BookInv, Ledger!Execute
    <2>2. QED
      BY <2>1, ConstantsAssumption DEF Ledger!Next
  <1>4. CASE ResolveInert(r)
    <2>1. Ledger!Settle(ApprovalOf[r], "inert") \/ UNCHANGED Ledger!vars
      BY <1>4, ConstantsAssumption DEF ResolveInert, ResolveApproval, BookInv, Ledger!Settle
    <2>2. QED
      BY <2>1, ConstantsAssumption DEF Ledger!Next
  <1>5. CASE OpenSend(r)
    <2>1. Accepted' = Accepted
      BY <1>5 DEF OpenSend, SendInv
    <2>2. QED
      BY <1>5, <2>1 DEF OpenSend
  <1>6. CASE ~(AddTrade(r) \/ AddOrder(r) \/ ResolveLive(r) \/ ResolveInert(r) \/ OpenSend(r))
    <2>1. UNCHANGED <<settledBy, wire, trades, orders>>
      BY <1>6 DEF HandlerStep, GetApproval, GetMode, GetConnection, OpenBlocked, FactoryFails,
         OpenDuplicate, Reply, NoReply, AddAuditLog, StoreFails
    <2>2. QED
      BY <2>1
  <1>7. QED
    BY <1>1, <1>2, <1>3, <1>4, <1>5, <1>6

LEMMA NextLedger == IInv /\ [Next]_vars => [Ledger!Next]_(Ledger!vars)
  <1> SUFFICES ASSUME IInv, [Next]_vars PROVE Ledger!Next \/ UNCHANGED Ledger!vars
    OBVIOUS
  <1> USE DEF Accepted, Ledger!vars
  <1>1. ASSUME NEW a \in Approvals, NEW action \in Actions, Decide(a, action)
        PROVE  Ledger!Next \/ UNCHANGED Ledger!vars
    <2>1. Ledger!Settle(a, "human") \/ UNCHANGED Ledger!vars
      BY <1>1 DEF Decide, ResolveApproval, IInv, BookInv, Ledger!Settle
    <2>2. QED
      BY <2>1 DEF Ledger!Next
  <1>2. ASSUME NEW r \in Requests, HandlerStep(r) PROVE Ledger!Next \/ UNCHANGED Ledger!vars
    BY <1>2, HandlerLedger DEF IInv
  <1>3. ASSUME NEW r \in Requests, VenueStep(r) PROVE Ledger!Next \/ UNCHANGED Ledger!vars
    <2>1. UNCHANGED <<settledBy, trades, orders>>
      BY <1>3 DEF VenueStep, VenueAccepts, VenueRejects, OrderLost, VenueAnswers
    <2>2. CASE VenueAccepts(r)
      <3>1. Accepted' = Accepted \union {r}
        BY <2>2 DEF VenueAccepts, VenueAnswers, IInv, TypeOK
      <3>2. Ledger!Fill(r)
        BY <2>1, <3>1 DEF Ledger!Fill
      <3>3. QED
        BY <3>2 DEF Ledger!Next
    <2>3. CASE VenueRejects(r) \/ OrderLost(r)
      <3>1. Accepted' = Accepted
        BY <2>3 DEF VenueRejects, OrderLost, VenueAnswers, IInv, TypeOK
      <3>2. QED
        BY <2>1, <3>1
    <2>4. QED
      BY <1>3, <2>2, <2>3 DEF VenueStep
  <1>4. CASE UNCHANGED <<settledBy, wire, trades, orders>>
    BY <1>4
  <1>5. QED
    BY <1>1, <1>2, <1>3, <1>4 DEF Next, vars, Operator, AddApproval, SetMode, UnlockLive,
       SetLock, SetAccount, AddConnection, Receive, Crash, Tick

(* Every behaviour of the pipeline is a behaviour of the ledger.           *)
THEOREM PipelineImplementsLedger == Spec => ImplementsLedger
  BY InitLedger, NextLedger, Inductive, PTL DEF Spec, ImplementsLedger, Ledger!Spec

-----------------------------------------------------------------------------
(* An approval buys at most one position when nothing crashes or fails to  *)
(* answer and the idempotency claim outlives two requests back to back.    *)

LEMMA InitTimelyInv == Init => TimelyInv
  BY DEF Init, TimelyInv, Live, InFlight, PastCheck, Working

(* Steps that leave every handler's orders, start and row in place.        *)
LEMMA OperatorTimelyInv == IInv /\ TimelyInv /\ Operator => TimelyInv'
  <1> SUFFICES ASSUME IInv, TimelyInv, Operator PROVE TimelyInv'
    OBVIOUS
  <1> TypeOK
    BY DEF IInv
  <1>1. CASE \E r \in Requests : Receive(r)
    <2> PICK r \in Requests : Receive(r)
      BY <1>1
    <2>1. /\ UNCHANGED <<approval, wire, sentAt, sentIn, epoch, now>>
          /\ \A s \in Requests : s # r => pc'[s] = pc[s] /\ started'[s] = started[s]
          /\ pc[r] = "idle" /\ pc'[r] = "get_approval" /\ started'[r] = now
          /\ wire[r] = "none"
      BY DEF Receive, TypeOK, IInv, SendInv
    <2>2. now \in Nat /\ now <= now + Latency
      BY ConstantsAssumption DEF TypeOK
    <2>3. QED
      BY <2>1, <2>2 DEF TimelyInv, Live, InFlight, PastCheck, Working
  <1>2. CASE ~\E r \in Requests : Receive(r)
    <2>1. UNCHANGED <<pc, wire, sentAt, sentIn, epoch, now, started>>
      BY <1>2 DEF Operator, AddApproval, Decide, SetMode, UnlockLive, SetLock, SetAccount,
         AddConnection
    <2> DEFINE StatusesKept ==
             \A a \in Approvals :
               /\ approval[a] # "absent" => approval'[a] # "absent"
               /\ approval[a] \notin {"absent", "pending"} => approval'[a] = approval[a]
    <2>2. StatusesKept
      <3>1. ASSUME NEW b \in Approvals, InsertApproval(b) PROVE StatusesKept
        BY <3>1 DEF InsertApproval, TypeOK
      <3>2. ASSUME NEW b \in Approvals, NEW action \in Actions, ResolveApproval(b, action, "human")
            PROVE  StatusesKept
        BY <3>2, StatusFacts DEF ResolveApproval, TypeOK
      <3>3. CASE UNCHANGED approval
        BY <3>3
      <3>4. QED
        BY <1>2, <3>1, <3>2, <3>3 DEF Operator, AddApproval, Decide, SetMode, UnlockLive, SetLock,
           SetAccount, AddConnection
    <2>3. QED
      BY <2>1, <2>2, ConstantsAssumption DEF TimelyInv, Live, InFlight
  <1>3. QED
    BY <1>1, <1>2

(* The claim of a live order of the same key is still held.                *)
LEMMA NoSecondSend ==
    ASSUME Timely, IInv, TimelyInv, NEW r \in Requests, OpenSend(r),
           NEW s \in Live, Key(s) = Key(r)
    PROVE  FALSE
  <1> USE ConstantsAssumption DEF IInv, TypeOK, Live
  <1>1. sentAt[s] + TTL <= idem[Key(r)]
    BY DEF SendInv, TimelyInv, Sent
  <1>2. idem[Key(r)] <= now
    BY DEF OpenSend, Claimed
  <1>3. now <= started[r] + Latency /\ started[r] <= started[s] + Latency
    BY DEF OpenSend, TimelyInv, InFlight, PastCheck
  <1>4. started[s] <= sentAt[s]
    BY DEF TimelyInv
  <1>5. QED
    BY <1>1, <1>2, <1>3, <1>4 DEF Timely

LEMMA HandlerTimelyInv ==
    ASSUME Timely, IInv, TimelyInv, NEW r \in Requests, HandlerStep(r)
    PROVE  TimelyInv'
  <1> TypeOK /\ SendInv /\ BookInv
    BY DEF IInv
  <1> USE ConstantsAssumption DEF TypeOK
  <1>1. CASE GetApproval(r)
    <2>1. /\ UNCHANGED <<approval, wire, sentAt, sentIn, epoch, now, started>>
          /\ \A s \in Requests : s # r => pc'[s] = pc[s]
          /\ wire[r] = "none" /\ InFlight(r)
          /\ pc'[r] \in {"get_mode", "refused"}
          /\ pc'[r] = "get_mode" => approval[Key(r)] = "pending"
      BY <1>1 DEF GetApproval, SendInv, InFlight
    <2>2. \A s \in Live : (Key(s) = Key(r) /\ pc'[r] = "get_mode") =>
                          started[r] <= started[s] + Latency
      BY <2>1 DEF TimelyInv, Live, InFlight, Working
    <2>3. QED
      BY <2>1, <2>2 DEF TimelyInv, Live, InFlight, PastCheck, Working
  <1>2. CASE OpenSend(r)
    <2>1. /\ UNCHANGED <<approval, epoch, now, started>>
          /\ \A s \in Requests : s # r => /\ pc'[s] = pc[s] /\ wire'[s] = wire[s]
                                          /\ sentAt'[s] = sentAt[s] /\ sentIn'[s] = sentIn[s]
          /\ pc[r] = "open_position" /\ pc'[r] = "await_venue" /\ wire'[r] = "sent"
          /\ sentAt'[r] = now /\ sentIn'[r] = epoch
      BY <1>2 DEF OpenSend
    <2>2. \A s \in Live : Key(s) # Key(r)
      BY <1>2, NoSecondSend
    <2>3. started[r] <= now /\ now <= started[r] + Latency
      BY <2>1 DEF TimelyInv, InFlight
    <2>4. \A s \in Requests : (Key(s) = Key(r) /\ pc'[s] \in PastCheck) =>
                              started[s] <= started[r] + Latency
      BY <2>1, <2>3 DEF TimelyInv, InFlight, PastCheck
    <2>5. Live' = Live \union {r}
      BY <2>1 DEF Live
    <2>6. approval[Key(r)] # "absent"
      BY <2>1 DEF TimelyInv, PastCheck
    <2>7. ASSUME NEW s \in Requests
          PROVE  /\ InFlight(s)' => started'[s] <= now' /\ now' <= started'[s] + Latency
                 /\ pc'[s] \in PastCheck \union Working => approval'[Key(s)] # "absent"
      BY <2>1, <2>3, <2>6 DEF TimelyInv, InFlight
    <2>8. ASSUME NEW s \in Live'
          PROVE  /\ started'[s] <= sentAt'[s] /\ sentIn'[s] = epoch'
                 /\ pc'[s] \in Working \/ approval'[Key(s)] \notin {"absent", "pending"}
      BY <2>1, <2>3, <2>5 DEF TimelyInv, Live, Working
    <2>9. ASSUME NEW s \in Live', NEW t \in Requests, Key(t) = Key(s), pc'[t] \in PastCheck
          PROVE  started'[t] <= started'[s] + Latency
      BY <2>1, <2>4, <2>5, <2>9 DEF TimelyInv, PastCheck
    <2>10. ASSUME NEW s \in Live', NEW t \in Live', Key(s) = Key(t)
           PROVE  s = t
      BY <2>2, <2>5, <2>10 DEF TimelyInv
    <2>11. QED
      BY <2>7, <2>8, <2>9, <2>10 DEF TimelyInv
  <1>3. CASE GetMode(r) \/ GetConnection(r) \/ OpenBlocked(r) \/ FactoryFails(r)
             \/ OpenDuplicate(r)
    <2>1. /\ UNCHANGED <<approval, wire, sentAt, sentIn, epoch, now, started>>
          /\ \A s \in Requests : s # r => pc'[s] = pc[s]
          /\ wire[r] = "none" /\ pc[r] \in PastCheck /\ pc'[r] \notin Working
      BY <1>3 DEF GetMode, GetConnection, OpenBlocked, FactoryFails, OpenDuplicate, SendInv,
         PastCheck, Working
    <2>2. QED
      BY <2>1 DEF TimelyInv, Live, InFlight, PastCheck, Working
  <1>4. CASE Reply(r) \/ AddTrade(r) \/ AddOrder(r) \/ AddAuditLog(r)
    <2>1. /\ UNCHANGED <<approval, wire, sentAt, sentIn, epoch, now, started>>
          /\ \A s \in Requests : s # r => pc'[s] = pc[s]
          /\ InFlight(r) /\ pc'[r] \notin PastCheck
          /\ (pc[r] \in Working /\ r \in Live) => pc'[r] \in Working
          /\ pc'[r] \in Working => pc[r] \in Working
      BY <1>4 DEF Reply, AddTrade, AddOrder, AddAuditLog, InFlight, PastCheck, Working, Live
    <2>2. QED
      BY <2>1 DEF TimelyInv, Live, InFlight
  <1>5. CASE ResolveInert(r) \/ ResolveLive(r)
    <2>1. /\ UNCHANGED <<wire, sentAt, sentIn, epoch, now, started>>
          /\ \A s \in Requests : s # r => pc'[s] = pc[s]
          /\ InFlight(r) /\ pc'[r] \notin PastCheck \union Working
          /\ pc[r] \notin Working => wire[r] = "none"
          /\ \A a \in Approvals : approval[a] = "absent" \/ approval'[a] # "absent"
          /\ \A a \in Approvals : approval[a] \notin {"absent", "pending"} =>
                                  approval'[a] = approval[a]
          /\ approval'[Key(r)] # "pending"
      BY <1>5, StatusFacts DEF ResolveInert, ResolveLive, ResolveApproval, InFlight, PastCheck,
         Working, SendInv
    <2>2. QED
      BY <2>1 DEF TimelyInv, Live, InFlight, PastCheck, Working
  <1>6. QED
    BY <1>1, <1>2, <1>3, <1>4, <1>5 DEF HandlerStep, NoReply, StoreFails, Timely

LEMMA NextTimelyInv == Timely /\ IInv /\ TimelyInv /\ [Next]_vars => TimelyInv'
  <1> SUFFICES ASSUME Timely, IInv, TimelyInv, [Next]_vars PROVE TimelyInv'
    OBVIOUS
  <1> TypeOK
    BY DEF IInv
  <1>1. CASE Operator
    BY <1>1, OperatorTimelyInv
  <1>2. ASSUME NEW r \in Requests, HandlerStep(r) PROVE TimelyInv'
    BY <1>2, HandlerTimelyInv
  <1>3. ASSUME NEW r \in Requests, VenueStep(r) PROVE TimelyInv'
    <2>1. /\ UNCHANGED <<approval, pc, sentAt, sentIn, epoch, now, started>>
          /\ Live' \subseteq Live
      BY <1>3 DEF VenueStep, VenueAccepts, VenueRejects, OrderLost, VenueAnswers, Live, TypeOK
    <2>2. QED
      BY <2>1 DEF TimelyInv, InFlight, PastCheck, Working
  <1>4. CASE Crash
    BY <1>4 DEF Crash, Timely
  <1>5. CASE Tick
    BY <1>5, ConstantsAssumption DEF Tick, Timely, TimelyInv, TypeOK, Live, InFlight
  <1>6. CASE UNCHANGED vars
    BY <1>6 DEF vars, TimelyInv, Live, InFlight
  <1>7. QED
    BY <1>1, <1>2, <1>3, <1>4, <1>5, <1>6 DEF Next

(* Under Timely, what each request knows of the others: whoever passed the *)
(* status check began before a live order's handler can have ended.        *)
THEOREM TimelyIsInductive ==
    ASSUME Timely
    PROVE  Spec => []TimelyInv
  <1>1. Init => TimelyInv
    BY InitTimelyInv
  <1>2. IInv /\ TimelyInv /\ [Next]_vars => TimelyInv'
    BY NextTimelyInv
  <1>3. QED
    BY <1>1, <1>2, Inductive, PTL DEF Spec

(* Under Timely, an approval buys at most one position however often and   *)
(* in whatever order it is clicked.                                        *)
THEOREM TimelyApprovalBuysOnce ==
    ASSUME Timely
    PROVE  Spec => []AtMostOnePosition
  <1>1. TimelyInv => AtMostOnePosition
    BY DEF TimelyInv, AtMostOnePosition, Accepted, Live
  <1>2. QED
    BY <1>1, TimelyIsInductive, PTL

-----------------------------------------------------------------------------
(* A handler's step ends it with its audit row, or does not end it.        *)
LEMMA HandlerAudits ==
    ASSUME Faults \intersect {"store", "factory"} = {}, TypeOK, EveryOutcomeAudited,
           NEW r \in Requests, HandlerStep(r)
    PROVE  EveryOutcomeAudited'
  <1>1. CASE AddAuditLog(r)
    BY <1>1 DEF AddAuditLog, GoTo, EveryOutcomeAudited, TypeOK, AuditPoints
  <1>2. CASE ~AddAuditLog(r)
    <2>1. audit' = audit
      BY <1>2 DEF HandlerStep, GetApproval, GetMode, ResolveInert, GetConnection,
         OpenBlocked, FactoryFails, OpenDuplicate, OpenSend, Reply, NoReply,
         AddTrade, AddOrder, ResolveLive, StoreFails, bookVars
    <2>2. PICK p \in Points \ {"done", "error"} : pc' = [pc EXCEPT ![r] = p]
      BY <1>2 DEF HandlerStep, GetApproval, GetMode, ResolveInert, GetConnection,
         OpenBlocked, FactoryFails, OpenDuplicate, OpenSend, Reply, NoReply,
         AddTrade, AddOrder, ResolveLive, StoreFails, GoTo, Points, StoreCalls,
         AuditPoints, Ended
    <2>3. QED
      BY <2>1, <2>2 DEF EveryOutcomeAudited, TypeOK
  <1>3. QED
    BY <1>1, <1>2

(* Unless a store call or the building of a connector raises, whoever got  *)
(* an answer left an audit row, under crashes, lost replies and slow       *)
(* requests too.                                                           *)
THEOREM OutcomesAreAudited ==
    ASSUME Faults \intersect {"store", "factory"} = {}
    PROVE  Spec => []EveryOutcomeAudited
  <1>1. Init => EveryOutcomeAudited
    BY DEF Init, EveryOutcomeAudited
  <1>2. TypeOK /\ EveryOutcomeAudited /\ [Next]_vars => EveryOutcomeAudited'
    <2> SUFFICES ASSUME TypeOK, EveryOutcomeAudited, [Next]_vars
                 PROVE  EveryOutcomeAudited'
      OBVIOUS
    <2>1. CASE Operator
      <3>1. CASE \E r \in Requests : Receive(r)
        BY <3>1 DEF Receive, GoTo, bookVars, EveryOutcomeAudited, TypeOK
      <3>2. CASE ~\E r \in Requests : Receive(r)
        <4>1. pc' = pc /\ audit' = audit
          BY <2>1, <3>2 DEF Operator, AddApproval, Decide, SetMode, UnlockLive, SetLock,
             SetAccount, AddConnection, bookVars
        <4>2. QED
          BY <4>1 DEF EveryOutcomeAudited
      <3>3. QED
        BY <3>1, <3>2
    <2>2. ASSUME NEW r \in Requests, HandlerStep(r) PROVE EveryOutcomeAudited'
      BY <2>2, HandlerAudits
    <2>3. ASSUME NEW r \in Requests, VenueStep(r) PROVE EveryOutcomeAudited'
      BY <2>3 DEF VenueStep, VenueAccepts, VenueRejects, OrderLost, VenueAnswers,
         bookVars, EveryOutcomeAudited
    <2>4. CASE Crash
      BY <2>4 DEF Crash, bookVars, EveryOutcomeAudited, TypeOK
    <2>5. CASE Tick
      BY <2>5 DEF Tick, bookVars, EveryOutcomeAudited
    <2>6. CASE UNCHANGED vars
      BY <2>6 DEF vars, EveryOutcomeAudited
    <2>7. QED
      BY <2>1, <2>2, <2>3, <2>4, <2>5, <2>6 DEF Next
  <1>3. QED
    BY <1>1, <1>2, TypeCorrect, PTL DEF Spec
=============================================================================
