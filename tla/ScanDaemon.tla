----------------------------- MODULE ScanDaemon -----------------------------
(***************************************************************************)
(* The scanner daemon (worker/daemon.py): rounds of concurrent ticks, one  *)
(* per symbol, until it is told to stop.  A tick is scan_once              *)
(* (worker/scanner.py), which writes what its strategies say to the store  *)
(* in up to three calls, each a transaction of its own.                    *)
(*                                                                         *)
(* The daemon scans in paper mode and writes to Postgres or nowhere.       *)
(* scan_once has another use: a caller in semi-auto mode, on either store, *)
(* that may run a tick again under its old time.  It is the same loop with *)
(* another mode.                                                           *)
(***************************************************************************)
EXTENDS Naturals, Sequences, FiniteSets

CONSTANTS
    Symbols,         \* the trading pairs
    MaxStrategies,   \* the most strategies of a scan
    Plans,           \* the arguments of a run: its symbols and strategies
    MaxRounds,       \* bound of the rounds
    MaxCrashes       \* bound of the crashes

ASSUME ScanAssumption ==
    /\ MaxStrategies \in Nat /\ MaxRounds \in Nat /\ MaxCrashes \in Nat
    /\ Plans \subseteq [symbols : SUBSET Symbols, strategies : 1..MaxStrategies]

VARIABLES
    setup,        \* the arguments, the mode, the store, the signal handlers
    phase,        \* where the loop is
    round,        \* rounds started so far, the clock
    stopping,     \* stop_event
    venue,        \* the one BitunixConnector of the process
    ticks,        \* the tick of each symbol
    crashes,
    parsed, validated,    \* the tables: the signals, the decisions they hold,
    approvals             \* and how many rows a signal has there

tables == <<parsed, validated, approvals>>
loopVars == <<setup, phase, round, stopping, venue, crashes>>
scanVars == <<loopVars, ticks, tables>>

Verdicts == {"approved", "rejected"}
Times == 1..MaxRounds

(* What the dedup_hash of a signal is made of.                             *)
Signals == Symbols \X (1..MaxStrategies) \X Times

Running == {"fetch", "evaluate", "parsed", "validated", "approval"}
Ended == {"idle", "done", "failed"}
Idle == [at |-> "idle", now |-> 1, outcomes |-> <<>>]

(* The daemon gets one of the plans; its mode is the default of scan_once. *)
ScanInit ==
    /\ setup \in [plan : Plans, mode : {"paper", "semi_auto"},
                  store : {"none", "pg", "memory"}, handlers : BOOLEAN]
    /\ setup.mode = "paper" => setup.store # "memory"
    /\ setup.mode = "semi_auto" => setup.store # "none" /\ setup.handlers
    /\ phase = "loop" /\ round = 0 /\ stopping = FALSE /\ venue = "open" /\ crashes = 0
    /\ ticks = [s \in Symbols |-> Idle]
    /\ parsed = {} /\ validated = {} /\ approvals = [g \in Signals |-> 0]

-----------------------------------------------------------------------------
(* A tick.                                                                 *)

Goes(s, to) == ticks' = [ticks EXCEPT ![s].at = to]
Says(s) == ticks[s].outcomes[Len(ticks[s].outcomes)]
SignalOf(s, k) == <<s, k, ticks[s].now>>
Fired(s) == SignalOf(s, Len(ticks[s].outcomes))

(* The candles and the funding rate.                                       *)
Fetch(s) == ticks[s].at = "fetch" /\ Goes(s, "evaluate") /\ UNCHANGED <<loopVars, tables>>

(* The next strategy and the risk engine's decision on its signal.         *)
Evaluate(s) ==
    /\ ticks[s].at = "evaluate" /\ Len(ticks[s].outcomes) < setup.plan.strategies
    /\ \E o \in Verdicts \union {"none"} :
        ticks' = [ticks EXCEPT ![s] =
            [at |-> IF o = "none" \/ setup.store = "none" THEN "evaluate" ELSE "parsed",
             now |-> ticks[s].now, outcomes |-> Append(ticks[s].outcomes, o)]]
    /\ UNCHANGED <<loopVars, tables>>

Report(s) ==
    /\ ticks[s].at = "evaluate" /\ Len(ticks[s].outcomes) = setup.plan.strategies
    /\ Goes(s, "done") /\ UNCHANGED <<loopVars, tables>>

(* Defect: the tick that cannot write the signal goes on.                  *)
Mutant_AddParsedSignal(s) ==
    /\ ticks[s].at = "parsed"
    /\ parsed' = parsed \union {Fired(s)} \/ UNCHANGED parsed
    /\ \E to \in {"validated", "failed"} : Goes(s, to)
    /\ UNCHANGED <<loopVars, validated, approvals>>

(* Writes that were committed may still fail for the tick.                 *)
AddParsedSignal(s) ==
    /\ ticks[s].at = "parsed"
    /\ parsed' = parsed \union {Fired(s)}
    /\ \E to \in {"validated", "failed"} : Goes(s, to)
    /\ UNCHANGED <<loopVars, validated, approvals>>

(* Defect: the tick that cannot write the decision goes on.                *)
Mutant_AddValidatedSignal(s) ==
    /\ ticks[s].at = "validated"
    /\ \/ validated' = validated \union {<<Fired(s), Says(s)>>}
       \/ UNCHANGED validated
    /\ Goes(s, IF setup.mode = "semi_auto" /\ Says(s) = "approved"
               THEN "approval" ELSE "evaluate")
    /\ UNCHANGED <<loopVars, parsed, approvals>>

AddValidatedSignal(s) ==
    /\ ticks[s].at = "validated"
    /\ validated' = validated \union {<<Fired(s), Says(s)>>}
    /\ \E to \in {"failed", IF setup.mode = "semi_auto" /\ Says(s) = "approved"
                            THEN "approval" ELSE "evaluate"} : Goes(s, to)
    /\ UNCHANGED <<loopVars, parsed, approvals>>

(* Postgres keeps one row per idempotency key and returns it; the          *)
(* in-memory store appends another.                                        *)
AddApproval(s) ==
    /\ ticks[s].at = "approval"
    /\ approvals' = [approvals EXCEPT
            ![Fired(s)] = IF setup.store = "pg" THEN 1 ELSE @ + 1]
    /\ \E to \in {"evaluate", "failed"} : Goes(s, to)
    /\ UNCHANGED <<loopVars, parsed, validated>>

(* Something raises: _tick prints the error and is over.                   *)
Fail(s) ==
    /\ ticks[s].at \in Running
    /\ Goes(s, "failed") /\ UNCHANGED <<loopVars, tables>>

Tick(s) ==
    \/ Fetch(s) \/ Evaluate(s) \/ Report(s)
    \/ AddParsedSignal(s) \/ AddValidatedSignal(s) \/ AddApproval(s) \/ Fail(s)

-----------------------------------------------------------------------------
(* The loop.                                                               *)

(* gather starts all ticks.  Only a semi-auto caller chooses their time.   *)
StartRound ==
    /\ phase = "loop" /\ ~stopping /\ round < MaxRounds
    /\ \E now \in 1..(round + 1) :
        /\ setup.mode = "paper" => now = round + 1
        /\ ticks' = [s \in Symbols |->
                IF s \in setup.plan.symbols
                THEN [at |-> "fetch", now |-> now, outcomes |-> <<>>] ELSE Idle]
    /\ phase' = "round" /\ round' = round + 1
    /\ UNCHANGED <<setup, stopping, venue, crashes, tables>>

(* Defect: gather waits for the first of them only.                        *)
Mutant_EndRound ==
    /\ phase = "round" /\ \E s \in setup.plan.symbols : ticks[s].at \in Ended
    /\ phase' = "wait"
    /\ UNCHANGED <<setup, round, stopping, venue, crashes, ticks, tables>>

(* gather waits for the last of them, then the loop for the interval.      *)
EndRound ==
    /\ phase = "round" /\ \A s \in Symbols : ticks[s].at \in Ended
    /\ phase' = "wait"
    /\ UNCHANGED <<setup, round, stopping, venue, crashes, ticks, tables>>

(* The interval is over, or stop_event is set.                             *)
Wake ==
    /\ phase = "wait" /\ phase' = "loop"
    /\ UNCHANGED <<setup, round, stopping, venue, crashes, ticks, tables>>

(* SIGINT or SIGTERM where the loop can have handlers.                     *)
Stop ==
    /\ setup.handlers /\ phase \in {"loop", "round", "wait"} /\ ~stopping
    /\ stopping' = TRUE
    /\ UNCHANGED <<setup, phase, round, venue, crashes, ticks, tables>>

Exit ==
    /\ phase = "loop" /\ stopping
    /\ phase' = "stopped" /\ venue' = "closed"
    /\ UNCHANGED <<setup, round, stopping, crashes, ticks, tables>>

(* Where it cannot, KeyboardInterrupt cancels the run: the ticks are cut   *)
(* at their await, the finally clause closes the venue.                    *)
Interrupt ==
    /\ ~setup.handlers /\ phase \in {"loop", "round", "wait"}
    /\ ticks' = [s \in Symbols |-> Idle]
    /\ phase' = "stopped" /\ venue' = "closed"
    /\ UNCHANGED <<setup, round, stopping, crashes, tables>>

(* The process dies and a supervisor starts it again.                      *)
Crash ==
    /\ phase \in {"loop", "round", "wait"} /\ crashes < MaxCrashes
    /\ ticks' = [s \in Symbols |-> Idle]
    /\ phase' = "crashed" /\ crashes' = crashes + 1
    /\ UNCHANGED <<setup, round, stopping, venue, tables>>

Restart ==
    /\ phase = "crashed"
    /\ phase' = "loop" /\ stopping' = FALSE
    /\ UNCHANGED <<setup, round, venue, crashes, ticks, tables>>

ScanNext ==
    \/ \E s \in Symbols : Tick(s)
    \/ StartRound \/ EndRound \/ Wake \/ Stop \/ Exit \/ Interrupt \/ Crash \/ Restart

(* Every request has a timeout and every database call an end; the loop's  *)
(* own steps are the event loop's.                                         *)
ScanFairness ==
    /\ \A s \in Symbols : WF_scanVars(Tick(s))
    /\ WF_scanVars(EndRound) /\ WF_scanVars(Wake) /\ WF_scanVars(Exit)
ScanSpec == ScanInit /\ [][ScanNext]_scanVars /\ ScanFairness

-----------------------------------------------------------------------------
TickType ==
    [at : Running \union Ended, now : Nat, outcomes : Seq(Verdicts \union {"none"})]

(* Every variable keeps its type.                                          *)
ScanTypeOK ==
    /\ phase \in {"loop", "round", "wait", "stopped", "crashed"}
    /\ round \in 0..MaxRounds /\ stopping \in BOOLEAN /\ venue \in {"open", "closed"}
    /\ ticks \in [Symbols -> TickType] /\ crashes \in 0..MaxCrashes
    /\ parsed \subseteq Signals /\ validated \subseteq Signals \X Verdicts
    /\ approvals \in [Signals -> Nat]

(* An approval that waits for a human has its signal and an approved       *)
(* decision in the tables, whatever failed between the three writes        *)
(* (scanner.py:222-228) and however often the tick was run again; Postgres *)
(* has one for a key, and a scan in paper mode has none.                   *)
ApprovalsBacked ==
    \A g \in Signals : approvals[g] > 0 =>
        /\ setup.mode = "semi_auto" /\ g \in parsed /\ <<g, "approved">> \in validated
        /\ setup.store = "pg" => approvals[g] = 1

(* What a finished tick reports is what the tables hold: each signal it    *)
(* lists is stored with its verdict, and waits for a human if it should.   *)
ReportedIsStored ==
    \A s \in Symbols : ticks[s].at = "done" /\ setup.store # "none" =>
        \A k \in DOMAIN ticks[s].outcomes :
            LET o == ticks[s].outcomes[k]
                g == SignalOf(s, k)
            IN  o # "none" =>
                    /\ g \in parsed /\ <<g, o>> \in validated
                    /\ setup.mode = "semi_auto" /\ o = "approved" => approvals[g] > 0

(* The three writes of a signal agree, among themselves and with the       *)
(* report of the tick, though each is a transaction of its own.            *)
StoredAsReported == ApprovalsBacked /\ ReportedIsStored

(* What the finished ticks report that could be written.                   *)
Reported ==
    {r \in Signals \X Verdicts :
        /\ setup.store # "none"
        /\ \E s \in Symbols :
            /\ ticks[s].at = "done"
            /\ \E k \in DOMAIN ticks[s].outcomes :
                r = <<SignalOf(s, k), ticks[s].outcomes[k]>>}

Queue == INSTANCE DecisionQueue WITH
            policy <- [waits |-> setup.mode = "semi_auto", single |-> setup.store = "pg"],
            recorded <- parsed, decided <- validated, waiting <- approvals,
            reported <- Reported

(* The scans fill a decision queue: whatever fails between the three       *)
(* writes of a signal (scanner.py:222-248), they are made in their order,  *)
(* nothing is taken back, and a tick reports what they hold.               *)
ImplementsQueue == Queue!Spec

(* A daemon told to stop (daemon.py:56-84) does, though its ticks may fail *)
(* in any way, and it closes the venue under no tick.                      *)
EndsWhenTold ==
    /\ [](phase = "stopped" =>
            venue = "closed" /\ \A s \in Symbols : ticks[s].at \in Ended)
    /\ stopping ~> phase \in {"stopped", "crashed"}
=============================================================================
