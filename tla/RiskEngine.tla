----------------------------- MODULE RiskEngine -----------------------------
(***************************************************************************)
(* The risk engine: RiskEngine.authorize_new_entry and the account it      *)
(* judges by.                                                              *)
(*                                                                         *)
(* The engine is stateless.  It is given an AccountState, a Signal and the *)
(* store of claimed keys, runs its gates and answers with a decision; only *)
(* an approval changes anything (the key is claimed, the caller queues or  *)
(* fills the entry), so a refusal is no step of this module.  An approved  *)
(* entry is filled later, when a human approves it or at the next bar, and *)
(* the engine may judge other signals in between: at most Pending entries  *)
(* are ever approved and undecided.  No code of the repository keeps the   *)
(* AccountState up to date: its keeper below does what the engine's use of *)
(* each field assumes.                                                     *)
(*                                                                         *)
(* Amounts are integers and margins exact: a ratio the code divides out is *)
(* cross-multiplied here.  A position is one of the Entries, free again    *)
(* when it closes.                                                         *)
(***************************************************************************)
EXTENDS Integers, FiniteSetsExt

CONSTANTS
    Signals,     \* the signals strategies emit: see SignalType
    Entries,     \* identifiers of approved entries
    Modes,       \* the modes entries are asked for in
    Profile,     \* the RiskProfile
    Costs,       \* the EVInputs
    MMR,         \* maintenance margin rate, in bps
    TTL,         \* IDEMPOTENCY_TTL_SECONDS, in ticks
    Equity,      \* the account's equity at the start
    Results,     \* profits and losses a position may close with
    Pending,     \* bound of the entries approved and undecided
    MaxEquity,   \* bound of the equity
    MaxTime,     \* bound of the clock
    None         \* an optional value that is absent

BPS == 10000
LiveModes == {"semi_auto", "full_auto"}

StatsType == [sample : Nat, needed : Nat, win : 0..100, avgWin : Nat, avgLoss : Nat]
SignalType ==
    [pair : STRING, side : {"long", "short"}, entry : Int, sl : Int,
     tp : Int \union {None}, lev : Int, key : STRING,
     stats : StatsType \union {None}]
ProfileType ==
    [risk : Nat, daily : Nat, weekly : Nat, drawdown : Nat, open : Nat, lev : Nat,
     asset : Nat, total : Nat, hour : Nat, rr : Nat, profit : Int, liq : Nat,
     stale : Nat, loss : Nat, spike : Nat]

CostsType ==
    [takerBoth : BOOLEAN, taker : Nat, maker : Nat, spread : Nat, slippage : Nat,
     funding : Int, hold : Nat, interval : Nat \ {0}]

(* open and hour are PositiveInt in the code; a rr of 14 is 1.4.           *)
ASSUME RiskAssumption ==
    /\ IsFiniteSet(Entries)
    /\ \A s \in Signals : s \in SignalType
    /\ Profile \in ProfileType /\ Profile.open > 0 /\ Profile.hour > 0
    /\ Profile.daily > 0 /\ Profile.weekly > 0 /\ Profile.drawdown > 0
    /\ Costs \in CostsType
    /\ MMR \in Nat /\ TTL \in Nat \ {0} /\ MaxTime \in Nat /\ None \notin Int
    /\ Equity \in Nat \ {0} /\ MaxEquity \in Nat
    /\ Results \subseteq Int /\ Pending \in Nat \ {0}

VARIABLES
    account,     \* the scalar fields of AccountState
    stage,       \* of each entry: free, queued (approved, undecided), open
    entry,       \* pair, margin (bps of equity) and risk (money) of each entry
    idem,        \* expiry of each claimed key, 0 if none
    approvedAt,  \* history: when each key's last approval was given
    now

vars == <<account, stage, entry, idem, approvedAt, now>>

Keys == {s.key : s \in Signals}
Pairs == {s.pair : s \in Signals}
In(st) == {e \in Entries : stage[e] = st}
Exposure(S) == MapThenSumSet(LAMBDA e : entry[e].margin, S)

AccountType ==
    [equity : Int, peak : Nat, daily : Int, weekly : Int, hour : Nat, lock : BOOLEAN,
     gate : BOOLEAN, tickAt : Nat \union {None}, lossAt : Nat \union {None},
     spikeAt : Nat \union {None}]
EntryType == [pair : Pairs \union {None}, margin : Nat, risk : Nat]
NoEntry == [pair |-> None, margin |-> 0, risk |-> 0]

TypeOK ==
    /\ account \in AccountType
    /\ stage \in [Entries -> {"free", "queued", "open"}]
    /\ entry \in [Entries -> EntryType]
    /\ idem \in [Keys -> Nat]
    /\ approvedAt \in [Keys -> Nat \union {None}]
    /\ now \in Nat

Init ==
    /\ account = [equity |-> Equity, peak |-> Equity, daily |-> 0, weekly |-> 0,
                  hour |-> 0, lock |-> FALSE, gate |-> FALSE, tickAt |-> None,
                  lossAt |-> None, spikeAt |-> None]
    /\ stage = [e \in Entries |-> "free"]
    /\ entry = [e \in Entries |-> NoEntry]
    /\ idem = [k \in Keys |-> 0]
    /\ approvedAt = [k \in Keys |-> None]
    /\ now = 0

-----------------------------------------------------------------------------
(* The gates, in the order the engine runs them.                           *)

GateUnmet(mode) == mode \in LiveModes /\ ~account.gate

Stale == account.tickAt = None \/ now - account.tickAt > Profile.stale

CoolingDown ==
    \/ account.lossAt # None /\ now - account.lossAt < Profile.loss
    \/ account.spikeAt # None /\ now - account.spikeAt < Profile.spike

(* A loss of the day, of the week or from the peak, in bps of the peak.    *)
Reaches(loss, limit) == loss > 0 /\ loss * BPS >= limit * account.peak

Mutant_LimitsSwapped ==
    /\ account.peak > 0
    /\ \/ Reaches(account.peak - account.equity, Profile.drawdown)
       \/ Reaches(-account.daily, Profile.weekly)
       \/ Reaches(-account.weekly, Profile.weekly)

LossLimitReached ==
    /\ account.peak > 0
    /\ \/ Reaches(account.peak - account.equity, Profile.drawdown)
       \/ Reaches(-account.daily, Profile.daily)
       \/ Reaches(-account.weekly, Profile.weekly)

Mutant_AtCapStrict == Cardinality(In("open")) > Profile.open \/ account.hour > Profile.hour

AtCap == Cardinality(In("open")) >= Profile.open \/ account.hour >= Profile.hour

Abs(n) == IF n < 0 THEN -n ELSE n
Leverage(s) == IF s.lev <= Profile.lev THEN s.lev ELSE Profile.lev
StopDistance(s) == Abs(s.entry - s.sl)

(* The estimate is entry * (1 -+ (1/lev - MMR)): its distance does not     *)
(* depend on the side.                                                     *)
LiquidationTooClose(s) ==
    \/ s.entry <= 0 \/ Leverage(s) <= 0
    \/ Abs(BPS - MMR * Leverage(s)) < Profile.liq * Leverage(s)

TargetTooClose(s) ==
    /\ s.tp # None
    /\ LET gain == IF s.side = "long" THEN s.tp - s.entry ELSE s.entry - s.tp
       IN  gain <= 0 \/ gain * 10 < Profile.rr * StopDistance(s)

Mutant_SignedDistance(s) == (Profile.risk * s.entry) \div ((s.entry - s.sl) * Leverage(s))

(* Sized to lose risk bps of equity at the stop: qty * entry / lev, in bps *)
(* of equity; equity cancels.                                              *)
Margin(s) == (Profile.risk * s.entry) \div (StopDistance(s) * Leverage(s))
RiskAmount == (account.equity * Profile.risk) \div BPS

Mutant_TotalIgnored(s) ==
    \/ StopDistance(s) <= 0 \/ account.equity <= 0 \/ Profile.risk <= 0
    \/ TargetTooClose(s)
    \/ Margin(s) > Profile.asset
    \/ Margin(s) > Profile.total

SizeRefused(s) ==
    \/ StopDistance(s) <= 0 \/ account.equity <= 0 \/ Profile.risk <= 0
    \/ TargetTooClose(s)
    \/ Margin(s) > Profile.asset
    \/ Exposure(In("open")) + Margin(s) > Profile.total

(* Expected value in hundredths of bps; a started funding cycle is charged *)
(* whole.                                                                  *)
FundingCycles(hold, interval) == (hold + interval - 1) \div interval
CostsBps ==
    (IF Costs.takerBoth THEN 2 * Costs.taker ELSE Costs.taker + Costs.maker)
        + Costs.spread + Costs.slippage
        + Costs.funding * FundingCycles(Costs.hold, Costs.interval)
Proven(stats) == stats # None /\ stats.sample >= stats.needed
ExpectedValue(stats) ==
    stats.win * stats.avgWin - (100 - stats.win) * stats.avgLoss - 100 * CostsBps
ValueRefused(s, mode) ==
    IF Proven(s.stats) THEN ExpectedValue(s.stats) <= 100 * Profile.profit
                       ELSE mode \in LiveModes

Refused(s, mode) ==
    \/ account.lock \/ GateUnmet(mode) \/ Stale \/ CoolingDown
    \/ LossLimitReached \/ AtCap
    \/ LiquidationTooClose(s) \/ SizeRefused(s) \/ ValueRefused(s, mode)

Claimed(k) == idem[k] > now

Mutant_ClaimFirst(s, mode, e) ==
    /\ ~Claimed(s.key)
    /\ idem' = [idem EXCEPT ![s.key] = now + TTL]
    /\ UNCHANGED <<account, now>>
    /\ IF Refused(s, mode)
       THEN UNCHANGED <<stage, entry, approvedAt>>
       ELSE /\ stage[e] = "free"
            /\ Cardinality(In("queued")) < Pending
            /\ approvedAt' = [approvedAt EXCEPT ![s.key] = now]
            /\ stage' = [stage EXCEPT ![e] = "queued"]
            /\ entry' = [entry EXCEPT ![e] =
                           [pair |-> s.pair, margin |-> Margin(s), risk |-> RiskAmount]]

(* authorize_new_entry approves: the claim is the last gate.               *)
Authorize(s, mode, e) ==
    /\ ~Refused(s, mode)
    /\ ~Claimed(s.key)
    /\ stage[e] = "free"
    /\ Cardinality(In("queued")) < Pending
    /\ idem' = [idem EXCEPT ![s.key] = now + TTL]
    /\ approvedAt' = [approvedAt EXCEPT ![s.key] = now]
    /\ stage' = [stage EXCEPT ![e] = "queued"]
    /\ entry' = [entry EXCEPT ![e] = [pair |-> s.pair, margin |-> Margin(s), risk |-> RiskAmount]]
    /\ UNCHANGED <<account, now>>

-----------------------------------------------------------------------------
(* The keeper of the account: what the engine takes each field to mean.    *)

(* A queued entry is approved by a human, or filled at the next bar.       *)
Execute(e) ==
    /\ stage[e] = "queued"
    /\ stage' = [stage EXCEPT ![e] = "open"]
    /\ account' = [account EXCEPT !.hour = @ + 1]
    /\ UNCHANGED <<entry, idem, approvedAt, now>>

Forget(e) ==
    /\ stage' = [stage EXCEPT ![e] = "free"]
    /\ entry' = [entry EXCEPT ![e] = NoEntry]
    /\ UNCHANGED <<idem, approvedAt, now>>

Drop(e) ==
    /\ stage[e] = "queued"
    /\ Forget(e)
    /\ UNCHANGED account

(* A position closes and loses at most what it was sized to lose.          *)
Settle(e, pnl) ==
    /\ stage[e] = "open"
    /\ pnl >= -entry[e].risk
    /\ account.equity + pnl <= MaxEquity
    /\ account' = [account EXCEPT
          !.equity = @ + pnl, !.daily = @ + pnl, !.weekly = @ + pnl,
          !.peak = IF account.equity + pnl > @ THEN account.equity + pnl ELSE @,
          !.lossAt = IF pnl < 0 THEN now ELSE @]
    /\ Forget(e)

TradeAges == account.hour > 0 /\ account' = [account EXCEPT !.hour = @ - 1]
NewDay == account.daily # 0 /\ account' = [account EXCEPT !.daily = 0]
NewWeek == account.weekly # 0 /\ account' = [account EXCEPT !.weekly = 0]
PriceTick == account' = [account EXCEPT !.tickAt = now]
Spike == account' = [account EXCEPT !.spikeAt = now]
SetLock == \E b \in BOOLEAN : account' = [account EXCEPT !.lock = b]
SetGate == \E b \in BOOLEAN : account' = [account EXCEPT !.gate = b]

Keep ==
    /\ TradeAges \/ NewDay \/ NewWeek \/ PriceTick \/ Spike \/ SetLock \/ SetGate
    /\ UNCHANGED <<stage, entry, idem, approvedAt, now>>

Tick ==
    /\ now < MaxTime
    /\ now' = now + 1
    /\ UNCHANGED <<account, stage, entry, idem, approvedAt>>

Next ==
    \/ \E e \in Entries :
         \/ \E s \in Signals, mode \in Modes : Authorize(s, mode, e)
         \/ Execute(e)
         \/ Drop(e)
         \/ \E pnl \in Results : Settle(e, pnl)
    \/ Keep
    \/ Tick

Spec == Init /\ [][Next]_vars

-----------------------------------------------------------------------------
(* Properties                                                              *)

Live == In("queued") \union In("open")

(* The engine judges each signal by the positions that are open, not by    *)
(* the approvals still undecided (check_exposure_caps): the caps on open   *)
(* positions and on trades per hour are exceeded by at most the entries    *)
(* that may be undecided beside the last one.                              *)
EntriesBounded ==
    /\ Cardinality(Live) <= Profile.open + Pending - 1
    /\ account.hour + Cardinality(In("queued")) <= Profile.hour + Pending - 1

(* A loss stays below its limit plus one risk amount for every position    *)
(* that may have been admitted beside it and is gone (check_loss_guards    *)
(* with size_position): with Profile.open + Pending - 1 positions at once, *)
(* the limits on the day's, the week's and the peak's loss are overshot by *)
(* at most that many risk amounts, in whatever order the positions close.  *)
Within(loss, limit) ==
    loss * BPS < (limit + (Profile.open + Pending - 1 - Cardinality(Live)) * Profile.risk)
                     * account.peak
LossesBounded ==
    /\ Within(-account.daily, Profile.daily)
    /\ Within(-account.weekly, Profile.weekly)
    /\ Within(account.peak - account.equity, Profile.drawdown)

(* The margin of all positions, the undecided ones included, exceeds the   *)
(* total cap by at most one asset cap for every other undecided entry      *)
(* (size_position).                                                        *)
ExposureBounded ==
    Exposure(Live) <= Profile.total + (Pending - 1) * Profile.asset

(* A key is held because of an approval given less than TTL ago, never     *)
(* because of a refusal, which must not burn the signal's slot             *)
(* (authorize_new_entry claims last).                                      *)
KeyHeldByApproval ==
    \A k \in Keys : Claimed(k) => approvedAt[k] # None /\ idem[k] = approvedAt[k] + TTL

(* "No single asset uses more than 30% of equity as margin" (size_position)*)
AssetCapHolds ==
    \A p \in Pairs :
        Exposure({e \in Live : entry[e].pair = p}) <= Profile.asset
=============================================================================
