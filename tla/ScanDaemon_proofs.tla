------------------------- MODULE ScanDaemon_proofs -------------------------
(***************************************************************************)
(* Proofs about the scanner daemon: what its three tables hold agrees with *)
(* what its ticks report, and a stopped daemon has no tick under way.      *)
(*                                                                         *)
(* A tick writes the signal, the decision and the approval of a strategy   *)
(* before it asks the next: the invariant says, for each outcome of a tick *)
(* that has not failed, which of the three are written where it is.        *)
(***************************************************************************)
EXTENDS ScanDaemon, TLAPS

Answers == Verdicts \union {"none"}
Written == {"parsed", "validated", "approval"}

(* The types of the variables the properties are about.                    *)
TypesInv ==
    /\ setup.plan.strategies \in Nat /\ setup.plan.strategies <= MaxStrategies
    /\ ticks \in [Symbols -> TickType]
    /\ \A s \in Symbols :
            ticks[s].now \in Times \/ (ticks[s].at = "idle" /\ ticks[s].outcomes = <<>>)
    /\ \A s \in Symbols : Len(ticks[s].outcomes) <= setup.plan.strategies
    /\ approvals \in [Signals -> Nat]
    /\ round \in Nat

(* The signal g with verdict o is in the tables as far as it should be.    *)
Stored(g, o) ==
    /\ g \in parsed /\ <<g, o>> \in validated
    /\ setup.mode = "semi_auto" /\ o = "approved" => approvals[g] > 0

(* A tick that writes is at its last outcome, a signal, and has a store.   *)
Writing(s) ==
    ticks[s].at \in Written =>
        /\ ticks[s].outcomes # <<>> /\ Says(s) \in Verdicts /\ setup.store # "none"
        /\ ticks[s].at # "parsed" => Fired(s) \in parsed
        /\ ticks[s].at = "approval" =>
                /\ <<Fired(s), "approved">> \in validated /\ Says(s) = "approved"
                /\ setup.mode = "semi_auto"

(* The outcomes before are stored.                                         *)
StoredBefore(s) ==
    ticks[s].at \in {"evaluate", "done"} \union Written /\ setup.store # "none" =>
        \A k \in DOMAIN ticks[s].outcomes :
            (k < Len(ticks[s].outcomes) \/ ticks[s].at \notin Written)
                /\ ticks[s].outcomes[k] # "none"
            => Stored(SignalOf(s, k), ticks[s].outcomes[k])

(* Ticks run in a round only.                                              *)
RoundsInv ==
    /\ phase # "round" => \A s \in Symbols : ticks[s].at \in Ended
    /\ phase = "stopped" => venue = "closed"

(* A tick that has begun has no outcome yet.                               *)
Fetching(s) == ticks[s].at = "fetch" => ticks[s].outcomes = <<>>

ScanInv ==
    /\ TypesInv /\ RoundsInv /\ ApprovalsBacked
    /\ \A s \in Symbols : Writing(s) /\ StoredBefore(s) /\ Fetching(s)

-----------------------------------------------------------------------------
(* The tables only grow, so what was stored stays.                         *)
Grows ==
    /\ setup' = setup /\ parsed \subseteq parsed' /\ validated \subseteq validated'
    /\ approvals' \in [Signals -> Nat]
    /\ \A g \in Signals : approvals[g] > 0 => approvals'[g] > 0

LEMMA StoredStays ==
    ASSUME Grows, NEW g \in Signals, NEW o, Stored(g, o)
    PROVE  Stored(g, o)'
BY DEF Grows, Stored

(* The signals of a tick.                                                  *)
LEMMA SignalsOfTicks ==
    ASSUME TypesInv, NEW s \in Symbols, NEW k \in DOMAIN ticks[s].outcomes
    PROVE  SignalOf(s, k) \in Signals
<1>1. ticks[s] \in TickType /\ Len(ticks[s].outcomes) <= setup.plan.strategies
      /\ setup.plan.strategies \in Nat /\ setup.plan.strategies <= MaxStrategies
    BY DEF TypesInv
<1>2. k \in 1..MaxStrategies
    BY <1>1, ScanAssumption DEF TickType
<1>3. ticks[s].now \in Times
    BY <1>1 DEF TypesInv, TickType
<1> QED
    BY <1>2, <1>3 DEF SignalOf, Signals

(* A tick that stands still keeps its part of the invariant.               *)
LEMMA OthersKeep ==
    ASSUME ScanInv, Grows, NEW s \in Symbols, ticks'[s] = ticks[s]
    PROVE  Writing(s)' /\ StoredBefore(s)' /\ Fetching(s)'
<1>1. Writing(s) /\ StoredBefore(s) /\ Fetching(s) /\ TypesInv
    BY DEF ScanInv
<1>2. Writing(s)' /\ Fetching(s)'
    BY <1>1 DEF Writing, Fetching, Grows, Says, Fired, SignalOf
<1>3. \A k \in DOMAIN ticks[s].outcomes : SignalOf(s, k) \in Signals
    BY <1>1, SignalsOfTicks
<1>4. \A g \in Signals : \A o : Stored(g, o) => Stored(g, o)'
    BY StoredStays
<1>5. StoredBefore(s)'
    BY <1>1, <1>3, <1>4 DEF StoredBefore, Grows, SignalOf
<1> QED
    BY <1>2, <1>5
-----------------------------------------------------------------------------
(* A tick that goes on has its new place, and no other moves.              *)
LEMMA GoesMoves ==
    ASSUME TypesInv, NEW s \in Symbols, NEW to \in Running \union Ended, Goes(s, to)
    PROVE  /\ ticks' \in [Symbols -> TickType]
           /\ \A u \in Symbols \ {s} : ticks'[u] = ticks[u]
           /\ ticks'[s].at = to /\ ticks'[s].now = ticks[s].now
           /\ ticks'[s].outcomes = ticks[s].outcomes
<1>1. ticks[s] \in TickType /\ ticks \in [Symbols -> TickType]
    BY DEF TypesInv
<1> DEFINE w == [ticks[s] EXCEPT !.at = to]
<1>2. ticks' = [ticks EXCEPT ![s] = w]
    BY DEF Goes
<1>3. w \in TickType /\ w.at = to /\ w.now = ticks[s].now /\ w.outcomes = ticks[s].outcomes
    BY <1>1 DEF TickType
<1> HIDE DEF w
<1> QED
    BY <1>1, <1>2, <1>3

(* The step of one tick keeps the invariant if it keeps its own part.      *)
LEMMA TickKeeps ==
    ASSUME ScanInv, NEW s \in Symbols, Grows, ApprovalsBacked',
           UNCHANGED loopVars, ticks[s].at \in Running,
           ticks' \in [Symbols -> TickType],
           \A u \in Symbols \ {s} : ticks'[u] = ticks[u],
           ticks'[s].now = ticks[s].now,
           Len(ticks'[s].outcomes) <= setup.plan.strategies,
           Writing(s)', StoredBefore(s)', Fetching(s)'
    PROVE  ScanInv'
<1>1. TypesInv /\ RoundsInv
    BY DEF ScanInv
<1>2. TypesInv'
    <2>1. ticks[s].at # "idle"
        BY DEF Running
    <2>2. \A u \in Symbols : \/ ticks'[u].now \in Times
                             \/ ticks'[u].at = "idle" /\ ticks'[u].outcomes = <<>>
        BY <1>1, <2>1 DEF TypesInv
    <2>3. \A u \in Symbols : Len(ticks'[u].outcomes) <= setup.plan.strategies
        BY <1>1 DEF TypesInv
    <2> QED
        BY <1>1, <2>2, <2>3 DEF TypesInv, Grows, loopVars
<1>3. RoundsInv'
    <2>1. phase = "round"
        BY <1>1 DEF RoundsInv, Running, Ended
    <2> QED
        BY <2>1 DEF RoundsInv, loopVars
<1>4. \A u \in Symbols : Writing(u)' /\ StoredBefore(u)' /\ Fetching(u)'
    BY OthersKeep
<1> QED
    BY <1>2, <1>3, <1>4 DEF ScanInv

(* Steps that write nothing and add no outcome.                            *)
LEMMA MovesKeep ==
    ASSUME ScanInv, NEW s \in Symbols, Fetch(s) \/ Report(s) \/ Fail(s)
    PROVE  ScanInv'
<1>1. TypesInv /\ Writing(s) /\ StoredBefore(s) /\ Fetching(s) /\ ApprovalsBacked
    BY DEF ScanInv
<1>2. UNCHANGED <<loopVars, tables>> /\ ticks[s].at \in Running
    BY DEF Fetch, Report, Fail, Running
<1>3. Grows
    BY <1>1, <1>2 DEF Grows, TypesInv, loopVars, tables
<1>4. PICK to \in {"evaluate", "done", "failed"} :
            /\ Goes(s, to)
            /\ to = "evaluate" => ticks[s].at = "fetch"
            /\ to = "done" => ticks[s].at = "evaluate"
    BY DEF Fetch, Report, Fail
<1>5. /\ ticks' \in [Symbols -> TickType]
      /\ \A u \in Symbols \ {s} : ticks'[u] = ticks[u]
      /\ ticks'[s].at = to /\ ticks'[s].now = ticks[s].now
      /\ ticks'[s].outcomes = ticks[s].outcomes
    BY <1>1, <1>4, GoesMoves DEF Running, Ended
<1>6. Writing(s)' /\ Fetching(s)'
    BY <1>5 DEF Writing, Written, Fetching
<1>7. StoredBefore(s)'
    <2>1. CASE to = "evaluate"
        <3>1. ticks'[s].outcomes = <<>>
            BY <1>1, <1>4, <1>5, <2>1 DEF Fetching
        <3> QED
            BY <3>1 DEF StoredBefore
    <2>2. CASE to = "done"
        BY <1>1, <1>2, <1>4, <1>5, <2>2
           DEF StoredBefore, Stored, SignalOf, Written, loopVars, tables
    <2>3. CASE to = "failed"
        BY <1>5, <2>3 DEF StoredBefore, Written
    <2> QED
        BY <2>1, <2>2, <2>3
<1>8. ApprovalsBacked'
    BY <1>1, <1>2 DEF ApprovalsBacked, loopVars, tables
<1>9. Len(ticks'[s].outcomes) <= setup.plan.strategies
    BY <1>1, <1>5 DEF TypesInv
<1> QED
    BY <1>2, <1>3, <1>5, <1>6, <1>7, <1>8, <1>9, TickKeeps

(* The next outcome: a signal is written if there is a store.              *)
LEMMA EvaluateKeeps ==
    ASSUME ScanInv, NEW s \in Symbols, Evaluate(s)
    PROVE  ScanInv'
<1>1. TypesInv /\ StoredBefore(s) /\ ApprovalsBacked
    BY DEF ScanInv
<1>2. /\ UNCHANGED <<loopVars, tables>> /\ ticks[s].at = "evaluate"
      /\ Len(ticks[s].outcomes) < setup.plan.strategies
    BY DEF Evaluate
<1>3. Grows
    BY <1>1, <1>2 DEF Grows, TypesInv, loopVars, tables
<1>4. PICK o \in Answers :
        ticks' = [ticks EXCEPT ![s] =
            [at |-> IF o = "none" \/ setup.store = "none" THEN "evaluate" ELSE "parsed",
             now |-> ticks[s].now, outcomes |-> Append(ticks[s].outcomes, o)]]
    BY DEF Evaluate, Answers
<1> DEFINE at == IF o = "none" \/ setup.store = "none" THEN "evaluate" ELSE "parsed"
           more == Append(ticks[s].outcomes, o)
           w == [at |-> at, now |-> ticks[s].now, outcomes |-> more]
<1>5. ticks[s] \in TickType /\ ticks \in [Symbols -> TickType]
    BY <1>1 DEF TypesInv
<1>6. /\ more \in Seq(Answers) /\ Len(more) = Len(ticks[s].outcomes) + 1
      /\ Len(ticks[s].outcomes) \in Nat /\ more[Len(more)] = o
      /\ \A k \in DOMAIN more : k < Len(more) =>
            k \in DOMAIN ticks[s].outcomes /\ more[k] = ticks[s].outcomes[k]
    BY <1>5 DEF TickType, Answers
<1>7. at \in {"evaluate", "parsed"}
      /\ (at = "parsed" <=> o # "none" /\ setup.store # "none")
    OBVIOUS
<1>8. w \in TickType /\ w.at = at /\ w.now = ticks[s].now /\ w.outcomes = more
    <2> HIDE DEF at, more
    <2> QED
        BY <1>5, <1>6, <1>7 DEF TickType, Answers, Running
<1>9. ticks' = [ticks EXCEPT ![s] = w]
    BY <1>4
<1> HIDE DEF w, at, more
<1>10. /\ ticks' \in [Symbols -> TickType] /\ ticks'[s] = w
       /\ \A u \in Symbols \ {s} : ticks'[u] = ticks[u]
    BY <1>5, <1>8, <1>9
<1>11. Fetching(s)'
    BY <1>7, <1>8, <1>10 DEF Fetching
<1>12. Writing(s)'
    <2>1. more # <<>>
        BY <1>6
    <2>2. Says(s)' = o
        BY <1>6, <1>8, <1>10 DEF Says
    <2>3. setup' = setup
        BY <1>2 DEF loopVars
    <2> QED
        BY <1>7, <1>8, <1>10, <2>1, <2>2, <2>3 DEF Writing, Written, Answers
<1>13. StoredBefore(s)'
    <2>1. UNCHANGED <<setup, parsed, validated, approvals>>
        BY <1>2 DEF loopVars, tables
    <2> SUFFICES ASSUME setup.store # "none", NEW k \in DOMAIN more,
                        k < Len(more) \/ at \notin Written, more[k] # "none"
                 PROVE  Stored(<<s, k, ticks[s].now>>, more[k])
        BY <1>8, <1>10, <2>1 DEF StoredBefore, Stored, SignalOf
    <2>2. k < Len(more)
        BY <1>6, <1>7 DEF Written
    <2> QED
        BY <1>1, <1>2, <1>6, <2>2 DEF StoredBefore, SignalOf, Written
<1>14. ApprovalsBacked'
    BY <1>1, <1>2 DEF ApprovalsBacked, loopVars, tables
<1>15. Len(ticks'[s].outcomes) <= setup.plan.strategies
    BY <1>1, <1>2, <1>6, <1>8, <1>10 DEF TypesInv
<1> QED
    BY <1>2, <1>3, <1>8, <1>10, <1>11, <1>12, <1>13, <1>14, <1>15, TickKeeps DEF Running

(* The last outcome of a tick that writes is a signal of its own.          *)
LEMMA FiredIs ==
    ASSUME TypesInv, NEW s \in Symbols, Writing(s), ticks[s].at \in Written
    PROVE  /\ Fired(s) \in Signals /\ Len(ticks[s].outcomes) \in DOMAIN ticks[s].outcomes
           /\ Fired(s) = SignalOf(s, Len(ticks[s].outcomes))
           /\ Says(s) = ticks[s].outcomes[Len(ticks[s].outcomes)]
           /\ \A k \in DOMAIN ticks[s].outcomes :
                    k < Len(ticks[s].outcomes) \/ k = Len(ticks[s].outcomes)
<1>1. ticks[s] \in TickType /\ ticks[s].outcomes # <<>>
    BY DEF TypesInv, Writing
<1>2. Len(ticks[s].outcomes) \in DOMAIN ticks[s].outcomes
      /\ \A k \in DOMAIN ticks[s].outcomes :
            k < Len(ticks[s].outcomes) \/ k = Len(ticks[s].outcomes)
    BY <1>1 DEF TickType
<1> QED
    BY <1>2, SignalsOfTicks DEF Fired, Says

(* Stored after the step, of a signal and a verdict of before.             *)
StoredThen(g, o) ==
    /\ g \in parsed' /\ <<g, o>> \in validated'
    /\ setup'.mode = "semi_auto" /\ o = "approved" => approvals'[g] > 0

(* What the writes of a tick have stored before stays stored.              *)
LEMMA EarlierStay ==
    ASSUME ScanInv, NEW s \in Symbols, ticks[s].at \in Written, Grows
    PROVE  \A k \in DOMAIN ticks[s].outcomes :
                k < Len(ticks[s].outcomes) /\ ticks[s].outcomes[k] # "none"
                => StoredThen(SignalOf(s, k), ticks[s].outcomes[k])
<1>1. TypesInv /\ StoredBefore(s) /\ Writing(s)
    BY DEF ScanInv
<1>2. setup.store # "none"
    BY <1>1 DEF Writing
<1>3. \A k \in DOMAIN ticks[s].outcomes : SignalOf(s, k) \in Signals
    BY <1>1, SignalsOfTicks
<1>4. \A g \in Signals : \A o : Stored(g, o) => StoredThen(g, o)
    BY DEF Stored, StoredThen, Grows
<1> QED
    BY <1>1, <1>2, <1>3, <1>4 DEF StoredBefore

(* A write that failed for the tick, though it was committed, ends it.     *)
LEMMA FailedWriteKeeps ==
    ASSUME ScanInv, NEW s \in Symbols, ticks[s].at \in Written, Grows, ApprovalsBacked',
           UNCHANGED loopVars, Goes(s, "failed")
    PROVE  ScanInv'
<1>1. TypesInv
    BY DEF ScanInv
<1>2. /\ ticks' \in [Symbols -> TickType]
      /\ \A u \in Symbols \ {s} : ticks'[u] = ticks[u]
      /\ ticks'[s].at = "failed" /\ ticks'[s].now = ticks[s].now
      /\ ticks'[s].outcomes = ticks[s].outcomes
    BY <1>1, GoesMoves DEF Ended
<1>3. Writing(s)' /\ StoredBefore(s)' /\ Fetching(s)'
    BY <1>2 DEF Writing, StoredBefore, Fetching, Written
<1>4. Len(ticks'[s].outcomes) <= setup.plan.strategies
    BY <1>1, <1>2 DEF TypesInv
<1> QED
    BY <1>2, <1>3, <1>4, TickKeeps DEF Written, Running

(* A write after which the tick goes on, to the next write of the same     *)
(* signal or to the next strategy.                                         *)
LEMMA GoodWriteKeeps ==
    ASSUME ScanInv, NEW s \in Symbols, ticks[s].at \in Written, Grows, ApprovalsBacked',
           UNCHANGED loopVars, NEW to \in {"evaluate", "validated", "approval"}, Goes(s, to),
           Fired(s) \in parsed',
           to = "evaluate" =>
                /\ <<Fired(s), Says(s)>> \in validated'
                /\ setup.mode = "semi_auto" /\ Says(s) = "approved" => approvals'[Fired(s)] > 0,
           to = "approval" => /\ <<Fired(s), "approved">> \in validated'
                              /\ Says(s) = "approved" /\ setup.mode = "semi_auto"
    PROVE  ScanInv'
<1>1. TypesInv /\ Writing(s) /\ setup' = setup
    BY DEF ScanInv, loopVars
<1>2. /\ ticks' \in [Symbols -> TickType]
      /\ \A u \in Symbols \ {s} : ticks'[u] = ticks[u]
      /\ ticks'[s].at = to /\ ticks'[s].now = ticks[s].now
      /\ ticks'[s].outcomes = ticks[s].outcomes
    BY <1>1, GoesMoves DEF Running
<1>3. Fetching(s)'
    BY <1>2 DEF Fetching
<1>4. Writing(s)'
    BY <1>1, <1>2 DEF Writing, Written, Says, Fired, SignalOf
<1>5. StoredBefore(s)'
    <2>1. CASE to = "evaluate"
        <3> SUFFICES ASSUME NEW k \in DOMAIN ticks[s].outcomes, ticks[s].outcomes[k] # "none"
                     PROVE  StoredThen(SignalOf(s, k), ticks[s].outcomes[k])
            BY <1>1, <1>2 DEF StoredBefore, Stored, StoredThen, SignalOf
        <3>1. CASE k < Len(ticks[s].outcomes)
            BY <3>1, EarlierStay
        <3>2. CASE k = Len(ticks[s].outcomes)
            <4>1. SignalOf(s, k) = Fired(s) /\ ticks[s].outcomes[k] = Says(s)
                BY <3>2 DEF Fired, Says
            <4> QED
                BY <1>1, <2>1, <4>1 DEF StoredThen
        <3> QED
            BY <1>1, <3>1, <3>2, FiredIs
    <2>2. CASE to # "evaluate"
        <3>1. to \in Written
            BY <2>2 DEF Written
        <3> QED
            BY <1>1, <1>2, <3>1, EarlierStay DEF StoredBefore, Stored, StoredThen, SignalOf
    <2> QED
        BY <2>1, <2>2
<1>6. Len(ticks'[s].outcomes) <= setup.plan.strategies
    BY <1>1, <1>2 DEF TypesInv
<1> QED
    BY <1>2, <1>3, <1>4, <1>5, <1>6, TickKeeps DEF Written, Running

(* The three writes.                                                       *)
LEMMA WritesKeep ==
    ASSUME ScanInv, NEW s \in Symbols,
           AddParsedSignal(s) \/ AddValidatedSignal(s) \/ AddApproval(s)
    PROVE  ScanInv'
<1>1. TypesInv /\ Writing(s) /\ ApprovalsBacked /\ UNCHANGED loopVars /\ setup' = setup
    BY DEF ScanInv, AddParsedSignal, AddValidatedSignal, AddApproval, loopVars
<1>2. ticks[s].at \in Written
    BY DEF AddParsedSignal, AddValidatedSignal, AddApproval, Written
<1>3. Fired(s) \in Signals /\ Says(s) \in Verdicts /\ approvals \in [Signals -> Nat]
    BY <1>1, <1>2, FiredIs DEF Writing, TypesInv
<1>4. CASE AddParsedSignal(s)
    <2>1. Grows /\ ApprovalsBacked' /\ Fired(s) \in parsed'
        BY <1>1, <1>3, <1>4 DEF AddParsedSignal, Grows, ApprovalsBacked
    <2>2. Goes(s, "validated") \/ Goes(s, "failed")
        BY <1>4 DEF AddParsedSignal
    <2> QED
        BY <1>1, <1>2, <2>1, <2>2, FailedWriteKeeps, GoodWriteKeeps
<1>5. CASE AddValidatedSignal(s)
    <2>1. Grows /\ ApprovalsBacked' /\ <<Fired(s), Says(s)>> \in validated'
        BY <1>1, <1>3, <1>5 DEF AddValidatedSignal, Grows, ApprovalsBacked
    <2>2. Fired(s) \in parsed'
        BY <1>1, <1>2, <1>5 DEF AddValidatedSignal, Writing
    <2>3. PICK to \in {"failed", "approval", "evaluate"} :
            /\ Goes(s, to)
            /\ to = "approval" => setup.mode = "semi_auto" /\ Says(s) = "approved"
            /\ to = "evaluate" => ~(setup.mode = "semi_auto" /\ Says(s) = "approved")
        BY <1>5 DEF AddValidatedSignal
    <2>4. CASE to = "failed"
        BY <1>1, <1>2, <2>1, <2>3, <2>4, FailedWriteKeeps
    <2>5. CASE to = "approval"
        BY <1>1, <1>2, <2>1, <2>2, <2>3, <2>5, GoodWriteKeeps
    <2>6. CASE to = "evaluate"
        BY <1>1, <1>2, <2>1, <2>2, <2>3, <2>6, GoodWriteKeeps
    <2> QED
        BY <2>4, <2>5, <2>6
<1>6. CASE AddApproval(s)
    <2>1. /\ Fired(s) \in parsed /\ <<Fired(s), "approved">> \in validated
          /\ Says(s) = "approved" /\ setup.mode = "semi_auto"
        BY <1>1, <1>2, <1>6 DEF AddApproval, Writing
    <2> DEFINE count == IF setup.store = "pg" THEN 1 ELSE approvals[Fired(s)] + 1
    <2>2. /\ approvals' = [approvals EXCEPT ![Fired(s)] = count]
          /\ UNCHANGED <<parsed, validated>>
        BY <1>6 DEF AddApproval
    <2>3. count \in Nat /\ count > 0 /\ (setup.store = "pg" => count = 1)
        BY <1>3
    <2> HIDE DEF count
    <2>4. /\ approvals' \in [Signals -> Nat] /\ approvals'[Fired(s)] = count
          /\ \A g \in Signals : g # Fired(s) => approvals'[g] = approvals[g]
        BY <1>3, <2>2, <2>3
    <2>5. Grows
        BY <1>1, <2>2, <2>3, <2>4 DEF Grows
    <2>6. ApprovalsBacked'
        BY <1>1, <2>1, <2>2, <2>3, <2>4 DEF ApprovalsBacked
    <2>7. Goes(s, "evaluate") \/ Goes(s, "failed")
        BY <1>6 DEF AddApproval
    <2> QED
        BY <1>1, <1>2, <2>1, <2>2, <2>3, <2>4, <2>5, <2>6, <2>7, FailedWriteKeeps, GoodWriteKeeps
<1> QED
    BY <1>4, <1>5, <1>6

-----------------------------------------------------------------------------
(* The loop.                                                               *)

(* An idle tick has nothing to store.                                      *)
LEMMA IdleIs ==
    /\ Idle \in TickType /\ Idle.at = "idle" /\ Idle.outcomes = <<>>
BY DEF Idle, TickType, Ended

(* A step of the loop that starts or ends all ticks.                       *)
LEMMA LoopKeeps ==
    ASSUME ScanInv, UNCHANGED tables, setup' = setup, round' \in Nat,
           ticks' \in [Symbols -> TickType],
           \A s \in Symbols : /\ ticks'[s].at \in {"fetch", "idle"} /\ ticks'[s].outcomes = <<>>
                              /\ ticks'[s].now \in Times \/ ticks'[s].at = "idle",
           RoundsInv'
    PROVE  ScanInv'
<1>1. TypesInv /\ ApprovalsBacked
    BY DEF ScanInv
<1>2. TypesInv'
    BY <1>1 DEF TypesInv, tables
<1>3. ApprovalsBacked'
    BY <1>1 DEF ApprovalsBacked, tables
<1>4. \A s \in Symbols : Writing(s)' /\ StoredBefore(s)' /\ Fetching(s)'
    BY DEF Writing, StoredBefore, Fetching, Written
<1> QED
    BY <1>2, <1>3, <1>4 DEF ScanInv

(* A step of the loop that leaves the ticks alone.                         *)
LEMMA LoopLeaves ==
    ASSUME ScanInv, UNCHANGED <<setup, round, ticks, tables>>, RoundsInv'
    PROVE  ScanInv'
<1>1. TypesInv /\ ApprovalsBacked /\ Grows
    BY DEF ScanInv, Grows, TypesInv, tables
<1>2. TypesInv' /\ ApprovalsBacked'
    BY <1>1 DEF TypesInv, ApprovalsBacked, tables
<1>3. \A s \in Symbols : Writing(s)' /\ StoredBefore(s)' /\ Fetching(s)'
    BY <1>1, OthersKeep
<1> QED
    BY <1>2, <1>3 DEF ScanInv

(* Every step keeps the invariant.                                         *)
LEMMA ScanStep == ScanInv /\ [ScanNext]_scanVars => ScanInv'
<1> SUFFICES ASSUME ScanInv, [ScanNext]_scanVars
             PROVE  ScanInv'
    OBVIOUS
<1> USE DEF RoundsInv
<1>1. CASE UNCHANGED scanVars
    BY <1>1, LoopLeaves DEF scanVars, loopVars, ScanInv
<1>2. ASSUME NEW s \in Symbols, Tick(s)
      PROVE  ScanInv'
    BY <1>2, MovesKeep, EvaluateKeeps, WritesKeep DEF Tick
<1>3. CASE StartRound
    <2>1. PICK now \in 1..(round + 1) : ticks' = [s \in Symbols |->
                IF s \in setup.plan.symbols
                THEN [at |-> "fetch", now |-> now, outcomes |-> <<>>] ELSE Idle]
        BY <1>3 DEF StartRound
    <2>2. now \in Times /\ now \in Nat /\ round' \in Nat
        BY <1>3, ScanAssumption DEF StartRound, ScanInv, TypesInv, Times
    <2>3. [at |-> "fetch", now |-> now, outcomes |-> <<>>] \in TickType
        BY <2>2 DEF TickType, Running
    <2>4. /\ ticks' \in [Symbols -> TickType]
          /\ \A s \in Symbols : /\ ticks'[s].at \in {"fetch", "idle"}
                                /\ ticks'[s].outcomes = <<>>
                                /\ ticks'[s].now \in Times \/ ticks'[s].at = "idle"
        BY <2>1, <2>2, <2>3, IdleIs
    <2> QED
        BY <1>3, <2>2, <2>4, LoopKeeps DEF StartRound
<1>4. CASE EndRound
    BY <1>4, LoopLeaves DEF EndRound
<1>5. CASE Wake \/ Stop \/ Exit \/ Restart
    BY <1>5, LoopLeaves DEF Wake, Stop, Exit, Restart, ScanInv
<1>6. CASE Interrupt \/ Crash
    <2>1. ticks' = [s \in Symbols |-> Idle] /\ UNCHANGED <<setup, round, tables>>
        BY <1>6 DEF Interrupt, Crash
    <2>2. /\ ticks' \in [Symbols -> TickType]
          /\ \A s \in Symbols : ticks'[s].at = "idle" /\ ticks'[s].outcomes = <<>>
        BY <2>1, IdleIs
    <2>3. RoundsInv'
        BY <1>6, <2>2 DEF Interrupt, Crash, Ended
    <2> QED
        BY <2>1, <2>2, <2>3, LoopKeeps DEF ScanInv, TypesInv
<1> QED
    BY <1>1, <1>2, <1>3, <1>4, <1>5, <1>6 DEF ScanNext

(* The daemon starts with empty tables and idle ticks.                     *)
LEMMA ScanStart == ScanInit => ScanInv
<1> SUFFICES ASSUME ScanInit
             PROVE  ScanInv
    OBVIOUS
<1>1. setup.plan \in Plans
    BY DEF ScanInit
<1>2. setup.plan.strategies \in Nat /\ setup.plan.strategies <= MaxStrategies
      /\ 0 <= setup.plan.strategies
    BY <1>1, ScanAssumption
<1>3. \A s \in Symbols : ticks[s] = Idle
    BY DEF ScanInit
<1>4. TypesInv
    BY <1>2, <1>3, IdleIs DEF ScanInit, TypesInv
<1>5. ApprovalsBacked /\ RoundsInv
    BY <1>3, IdleIs DEF ScanInit, ApprovalsBacked, RoundsInv, Ended
<1>6. \A s \in Symbols : Writing(s) /\ StoredBefore(s) /\ Fetching(s)
    BY <1>3, IdleIs DEF Writing, StoredBefore, Fetching, Written
<1> QED
    BY <1>4, <1>5, <1>6 DEF ScanInv

(* The three writes of a signal agree, with each other and with the report *)
(* of its tick, for any symbols, strategies, failures and crashes.         *)
THEOREM TablesAgreeWithReports == ScanSpec => []StoredAsReported
<1>1. ScanInv => StoredAsReported
    <2> SUFFICES ASSUME ScanInv
                 PROVE  ApprovalsBacked /\ ReportedIsStored
        BY DEF StoredAsReported
    <2>1. \A s \in Symbols : StoredBefore(s)
        BY DEF ScanInv
    <2> QED
        BY <2>1 DEF ScanInv, StoredBefore, Stored, ReportedIsStored, Written
<1> QED
    BY <1>1, ScanStart, ScanStep, PTL DEF ScanSpec

StoppedQuietly ==
    phase = "stopped" => venue = "closed" /\ \A s \in Symbols : ticks[s].at \in Ended

(* A stopped daemon has closed the venue, and under no tick: the part of   *)
(* EndsWhenTold that is an invariant.                                      *)
THEOREM StopsQuietly == ScanSpec => []StoppedQuietly
<1>1. ScanInv => StoppedQuietly
    BY DEF ScanInv, RoundsInv, StoppedQuietly
<1> QED
    BY <1>1, ScanStart, ScanStep, PTL DEF ScanSpec

-----------------------------------------------------------------------------
(* The queue.  A step either writes one table and finishes no tick, or it  *)
(* writes none, and then whatever it lets be told is stored.               *)

(* A tick that writes is not reported, before or after.                    *)
LEMMA WritersAreQuiet ==
    ASSUME TypesInv, NEW s \in Symbols, ticks[s].at # "done", UNCHANGED loopVars,
           NEW to \in (Running \union Ended) \ {"done"}, Goes(s, to)
    PROVE  Reported' = Reported
<1>1. /\ \A u \in Symbols \ {s} : ticks'[u] = ticks[u]
      /\ ticks'[s].at = to /\ setup' = setup
    BY GoesMoves DEF loopVars
<1>2. \A u \in Symbols : (ticks'[u].at = "done" <=> ticks[u].at = "done")
                         /\ (ticks[u].at = "done" => ticks'[u] = ticks[u])
    BY <1>1
<1>3. ASSUME NEW u \in Symbols, ticks[u].at = "done"
      PROVE  /\ ticks'[u].outcomes = ticks[u].outcomes
             /\ \A k : SignalOf(u, k)' = SignalOf(u, k)
    BY <1>2, <1>3 DEF SignalOf
<1>4. ASSUME NEW r
      PROVE  (\E u \in Symbols : /\ ticks'[u].at = "done"
                                 /\ \E k \in DOMAIN ticks'[u].outcomes :
                                        r = <<SignalOf(u, k)', ticks'[u].outcomes[k]>>)
             <=> (\E u \in Symbols : /\ ticks[u].at = "done"
                                     /\ \E k \in DOMAIN ticks[u].outcomes :
                                            r = <<SignalOf(u, k), ticks[u].outcomes[k]>>)
    BY <1>2, <1>3
<1> QED
    BY <1>1, <1>4 DEF Reported

(* The steps of the queue, one for each write and one for all the others.  *)
LEMMA QueueStep ==
    ASSUME ScanInv, ScanInv', [ScanNext]_scanVars
    PROVE  [Queue!Next]_(Queue!vars)
<1>1. TypesInv /\ \A s \in Symbols : Writing(s)
    BY DEF ScanInv
<1>2. ASSUME UNCHANGED <<setup, tables>>
      PROVE  Queue!Tell
    <2>1. Reported' \in SUBSET (Signals \X Verdicts)
        BY DEF Reported
    <2>2. ASSUME NEW r \in Reported'
          PROVE  Queue!Kept(r[1], r[2])
        <3>1. PICK s \in Symbols :
                /\ setup'.store # "none" /\ ticks'[s].at = "done"
                /\ \E k \in DOMAIN ticks'[s].outcomes :
                        r = <<SignalOf(s, k)', ticks'[s].outcomes[k]>>
            BY <2>2 DEF Reported
        <3>2. PICK k \in DOMAIN ticks'[s].outcomes :
                r = <<SignalOf(s, k)', ticks'[s].outcomes[k]>>
            BY <3>1
        <3>3. r[2] # "none"
            BY <2>2 DEF Reported, Verdicts
        <3>4. StoredBefore(s)'
            BY DEF ScanInv
        <3>5. Stored(SignalOf(s, k), ticks[s].outcomes[k])'
            BY <3>1, <3>2, <3>3, <3>4 DEF StoredBefore, Written
        <3> QED
            BY <1>2, <3>2, <3>5 DEF Stored, Queue!Kept, tables
    <2> QED
        BY <1>2, <2>1, <2>2 DEF Queue!Tell, Queue!tables, tables
<1>3. ASSUME NEW s \in Symbols, AddParsedSignal(s)
      PROVE  Queue!Next
    <2>1. ticks[s].at \in Written /\ ticks[s].at # "done" /\ UNCHANGED loopVars
        BY <1>3 DEF AddParsedSignal, Written
    <2>2. PICK to \in {"validated", "failed"} : Goes(s, to)
        BY <1>3 DEF AddParsedSignal
    <2>3. Reported' = Reported /\ Fired(s) \in Signals
        BY <1>1, <2>1, <2>2, WritersAreQuiet, FiredIs DEF Running, Ended
    <2>4. Queue!Record(Fired(s))
        BY <1>3, <2>3 DEF AddParsedSignal, Queue!Record, loopVars
    <2> QED
        BY <2>3, <2>4 DEF Queue!Next
<1>4. ASSUME NEW s \in Symbols, AddValidatedSignal(s)
      PROVE  Queue!Next
    <2>1. ticks[s].at \in Written /\ ticks[s].at # "done" /\ UNCHANGED loopVars
        BY <1>4 DEF AddValidatedSignal, Written
    <2>2. PICK to \in {"failed", "approval", "evaluate"} : Goes(s, to)
        BY <1>4 DEF AddValidatedSignal
    <2>3. Reported' = Reported /\ Fired(s) \in Signals
        BY <1>1, <2>1, <2>2, WritersAreQuiet, FiredIs DEF Running, Ended
    <2>4. Fired(s) \in parsed /\ Says(s) \in Verdicts
        BY <1>1, <1>4, <2>1 DEF AddValidatedSignal, Writing
    <2>5. Queue!Decide(Fired(s), Says(s))
        BY <1>4, <2>3, <2>4 DEF AddValidatedSignal, Queue!Decide, loopVars
    <2> QED
        BY <2>3, <2>4, <2>5 DEF Queue!Next
<1>5. ASSUME NEW s \in Symbols, AddApproval(s)
      PROVE  Queue!Next
    <2>1. ticks[s].at \in Written /\ ticks[s].at # "done" /\ UNCHANGED loopVars
        BY <1>5 DEF AddApproval, Written
    <2>2. PICK to \in {"evaluate", "failed"} : Goes(s, to)
        BY <1>5 DEF AddApproval
    <2>3. Reported' = Reported /\ Fired(s) \in Signals
        BY <1>1, <2>1, <2>2, WritersAreQuiet, FiredIs DEF Running, Ended
    <2>4. <<Fired(s), "approved">> \in validated /\ setup.mode = "semi_auto"
        BY <1>1, <1>5, <2>1 DEF AddApproval, Writing
    <2>5. Queue!Await(Fired(s))
        BY <1>5, <2>3, <2>4 DEF AddApproval, Queue!Await, loopVars
    <2> QED
        BY <2>3, <2>5 DEF Queue!Next
<1>6. \/ \E s \in Symbols : AddParsedSignal(s) \/ AddValidatedSignal(s) \/ AddApproval(s)
      \/ UNCHANGED <<setup, tables>>
    BY DEF ScanNext, scanVars, loopVars, Tick, Fetch, Evaluate, Report, Fail,
           StartRound, EndRound, Wake, Stop, Exit, Interrupt, Crash, Restart
<1> QED
    BY <1>2, <1>3, <1>4, <1>5, <1>6 DEF Queue!Next

(* The tables of the scanner are a decision queue: for any symbols, any    *)
(* strategies, any failures, signals and crashes, in both modes and over   *)
(* either store.                                                           *)
THEOREM ScansFillAQueue == ScanSpec => ImplementsQueue
<1>1. ScanInit => Queue!Init
    <2> SUFFICES ASSUME ScanInit
                 PROVE  Queue!Init
        OBVIOUS
    <2>1. Reported = {}
        BY IdleIs DEF ScanInit, Reported
    <2> QED
        BY <2>1 DEF ScanInit, Queue!Init
<1>2. ScanInv /\ ScanInv' /\ [ScanNext]_scanVars => [Queue!Next]_(Queue!vars)
    BY QueueStep
<1> QED
    BY <1>1, <1>2, ScanStart, ScanStep, PTL DEF ScanSpec, ImplementsQueue, Queue!Spec
=============================================================================
