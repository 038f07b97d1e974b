------------------------------- MODULE Replay -------------------------------
(***************************************************************************)
(* One market, three readers: the paper engine ticks on every new bar      *)
(* (paper/engine.py), a position it opened is marked at every close and    *)
(* protected (risk/protected.py), and the backtester walks the bars seen   *)
(* so far (backtest/runner.py).  All of them ask the same strategy.        *)
(*                                                                         *)
(* The paper engine keeps nothing between ticks.  Its caller, which would  *)
(* hold the open position, is not in the repository: Mark does what the    *)
(* fields of PositionState ask of it, one position at a time.              *)
(***************************************************************************)
EXTENDS ProtectedProfit

CONSTANTS
    Shapes,       \* what a bar may be, relative to the close before it
    FirstClose,   \* the close before the first bar
    Equity,       \* starting_equity
    RiskBps,      \* risk_per_trade_bps
    PaperQty,     \* the quantity the risk engine approves
    MaxBars,      \* bound of the bars
    FirstRun      \* bound: no backtest over fewer bars

ASSUME ReplayAssumption ==
    /\ Shapes \subseteq Bar /\ FirstClose \in Int /\ PaperQty \in Nat
    /\ Equity \in Nat /\ RiskBps \in Nat /\ MaxBars \in Nat /\ FirstRun \in Nat \ {0}

VARIABLES
    key,         \* the strategy
    bars,        \* the bars seen so far
    phase,       \* who reads the last bar next
    ticks,       \* the PaperTickResult at each bar, the first has none
    position,    \* the protected position, or None
    exited,      \* the last position closed by the floor, and its net gain
    i,           \* the backtester's bar
    trades,      \* the trades of the backtest that runs
    report       \* the trades of the last finished backtest and its bars

paperVars == <<ticks, position, exited>>
testVars == <<i, trades, report>>
vars == <<key, bars, phase, paperVars, testVars>>

Tick(signal, decision, fill) == [signal |-> signal, decision |-> decision, fill |-> fill]

Init ==
    /\ key \in StrategyKeys
    /\ bars = <<>> /\ phase = "market"
    /\ ticks = <<>> /\ position = None /\ exited = None
    /\ i = 1 /\ trades = <<>>
    /\ report = [bars |-> 0, trades |-> <<>>, metrics |-> Summarize(<<>>, Equity)]

Seen(n) == SubSeq(bars, 1, n)

(* The next bar of the market, traded from where the last one closed.      *)
Arrive ==
    /\ phase = "market" /\ Len(bars) < MaxBars
    /\ \E s \in Shapes :
        LET from == IF bars = <<>> THEN FirstClose ELSE bars[Len(bars)].close
        IN  bars' = Append(bars, [open |-> from + s.open, high |-> from + s.high,
                                  low |-> from + s.low, close |-> from + s.close,
                                  volume |-> s.volume])
    /\ phase' = "paper"
    /\ UNCHANGED <<key, paperVars, testVars>>

(* PaperEngine.tick: the snapshot ends one bar before the bar it fills     *)
(* into.  RiskEngine.authorize_new_entry answers as it likes.              *)
PaperTick ==
    /\ phase = "paper"
    /\ LET n == Len(bars) - 1
           signal == IF n = 0 THEN None ELSE Evaluate(key, Seen(n))
           fill == [side |-> signal.side, qty |-> PaperQty,
                    entry |-> EntryPrice(signal.side, bars[n + 1].open)]
       IN  \/ /\ signal = None
              /\ ticks' = Append(ticks, Tick(None, "no_signal", None))
           \/ /\ signal # None
              /\ ticks' = Append(ticks, Tick(signal, "rejected", None))
           \/ /\ signal # None /\ PaperQty > 0
              /\ ticks' = Append(ticks, Tick(signal, "approved", fill))
    /\ phase' = "mark"
    /\ UNCHANGED <<key, bars, position, exited, testVars>>

Opened ==
    LET fill == ticks[Len(ticks)].fill
    IN  IF position # None \/ fill = None THEN position
        ELSE [side |-> fill.side, qty |-> fill.qty, entry |-> fill.entry,
              peak |-> 0, floor |-> None]

(* A fill opens the position at the bar's open; the floor advances at its  *)
(* close and closes the position when the gain has fallen back to it.      *)
Mark ==
    /\ phase = "mark"
    /\ \/ Opened = None /\ UNCHANGED <<position, exited>>
       \/ /\ Opened # None
          /\ LET net == NetUnrealized(Opened, bars[Len(bars)].close)
                 p == AdvanceFloor(Opened, net)
             IN  IF ShouldExit(p, net)
                 THEN position' = None /\ exited' = [last |-> p, net |-> net]
                 ELSE position' = p /\ UNCHANGED exited
    /\ phase' = IF Len(bars) >= FirstRun THEN "test" ELSE "market"
    /\ UNCHANGED <<key, bars, ticks, testVars>>

-----------------------------------------------------------------------------
(* Backtester.run over the bars seen so far, one pass of its loop a step.  *)

Quantity(signal) ==
    LET distance == Abs(signal.entry - signal.sl)
    IN  IF distance <= 0 THEN 0
        ELSE (((Equity * RiskBps) \div BPS) * Lot) \div distance

(* Defect: the snapshot holds the bar the trade is opened at.              *)
Mutant_Decision(n) == Evaluate(key, Seen(n + 1))

Decision(n) == Evaluate(key, Seen(n))
Tradable(n) == Decision(n) # None /\ Quantity(Decision(n)) > 0

HitsStop(s, bar) == IF s.side = "long" THEN bar.low <= s.sl ELSE bar.high >= s.sl
HitsTarget(s, bar) == IF s.side = "long" THEN bar.high >= s.tp ELSE bar.low <= s.tp
Touches(s, bar) == HitsStop(s, bar) \/ HitsTarget(s, bar)

(* The first bar from the entry on that touches the stop or the target, or *)
(* the last bar.                                                           *)
ExitBar(s, from) ==
    IF \E j \in from..Len(bars) : Touches(s, bars[j])
    THEN CHOOSE j \in from..Len(bars) :
            /\ Touches(s, bars[j])
            /\ \A k \in from..(j - 1) : ~Touches(s, bars[k])
    ELSE Len(bars)

(* Defect: a bar that touches both is taken to touch the target first.     *)
Mutant_ExitReason(s, bar) ==
    IF HitsTarget(s, bar) THEN "tp" ELSE IF HitsStop(s, bar) THEN "sl" ELSE "forced_close"

(* A bar that touches both is taken to touch the stop first.               *)
ExitReason(s, bar) ==
    IF HitsStop(s, bar) THEN "sl" ELSE IF HitsTarget(s, bar) THEN "tp" ELSE "forced_close"

(* Defect: a stop is filled at the close of its bar.                       *)
Mutant_ExitReference(s, bar) ==
    IF HitsStop(s, bar) THEN bar.close ELSE IF HitsTarget(s, bar) THEN s.tp ELSE bar.close

ExitReference(s, bar) ==
    IF HitsStop(s, bar) THEN s.sl ELSE IF HitsTarget(s, bar) THEN s.tp ELSE bar.close

Trade(s, opened, closed) ==
    LET qty == Quantity(s)
        entry == EntryPrice(s.side, bars[opened].open)
        exit == ExitPrice(s.side, ExitReference(s, bars[closed]))
    IN  [side |-> s.side, qty |-> qty, entry |-> entry, exit |-> exit,
         fees |-> EntryFee(entry, qty) + ExitFee(exit, qty),
         funding |-> FundingPaid(Notional(entry, qty), closed - opened + 1),
         opened |-> opened, closed |-> closed,
         reason |-> ExitReason(s, bars[closed])]

TestSkip ==
    /\ phase = "test" /\ i < Len(bars) /\ ~Tradable(i)
    /\ i' = i + 1
    /\ UNCHANGED <<key, bars, phase, paperVars, trades, report>>

(* Defect: the exit bar itself may open the next trade.                    *)
Mutant_TestTrade ==
    /\ phase = "test" /\ i < Len(bars) /\ Tradable(i)
    /\ LET closed == ExitBar(Decision(i), i + 1)
       IN  /\ trades' = Append(trades, Trade(Decision(i), i + 1, closed))
           /\ i' = closed
    /\ UNCHANGED <<key, bars, phase, paperVars, report>>

TestTrade ==
    /\ phase = "test" /\ i < Len(bars) /\ Tradable(i)
    /\ LET closed == ExitBar(Decision(i), i + 1)
       IN  /\ trades' = Append(trades, Trade(Decision(i), i + 1, closed))
           /\ i' = closed + 1
    /\ UNCHANGED <<key, bars, phase, paperVars, report>>

(* Defect: the next run starts before its first bar.                       *)
Mutant_TestDone ==
    /\ phase = "test" /\ i >= Len(bars)
    /\ report' = [bars |-> Len(bars), trades |-> trades,
                  metrics |-> Summarize(trades, Equity)]
    /\ phase' = "market" /\ i' = 0 /\ trades' = <<>>
    /\ UNCHANGED <<key, bars, paperVars>>

TestDone ==
    /\ phase = "test" /\ i >= Len(bars)
    /\ report' = [bars |-> Len(bars), trades |-> trades,
                  metrics |-> Summarize(trades, Equity)]
    /\ phase' = "market" /\ i' = 1 /\ trades' = <<>>
    /\ UNCHANGED <<key, bars, paperVars>>

Next == Arrive \/ PaperTick \/ Mark \/ TestSkip \/ TestTrade \/ TestDone
Spec == Init /\ [][Next]_vars

-----------------------------------------------------------------------------
TickType ==
    [signal : SignalType \union {None}, decision : {"no_signal", "rejected", "approved"},
     fill : [side : Sides, qty : Nat, entry : Int] \union {None}]

(* Every variable keeps its type.                                          *)
TypeOK ==
    /\ key \in StrategyKeys /\ phase \in {"market", "paper", "mark", "test"}
    /\ bars \in Seq(Bar) /\ ticks \in Seq(TickType)
    /\ position \in PositionType \union {None}
    /\ exited \in [last : PositionType, net : Int] \union {None}
    /\ i \in Nat \ {0} /\ trades \in Seq(TradeType)
    /\ report.bars \in Nat /\ report.trades \in Seq(TradeType)

(* No indicator looks ahead: what it says of a bar does not change when    *)
(* later bars arrive.  The ADX is excepted when two bars or more were left *)
(* out of its DX series, a market flat from the start: its values then sit *)
(* at bars earlier than those they are computed from.                      *)
IndicatorsCausal ==
    LET Says(Of(_), n) == n > 0 => Of(bars)[n - 1] = Of(Seen(n - 1))[n - 1]
        n == Len(bars)
    IN  phase = "paper" /\ n > 1 =>
            /\ Says(LAMBDA ks : Ema(ks, Trend.fast), n)
            /\ Says(LAMBDA ks : Rsi(ks, MeanRev.rsi), n)
            /\ Says(LAMBDA ks : Atr(ks, Trend.atr), n)
            /\ Says(Vwap, n)
            /\ Says(LAMBDA ks : Macd(ks, Trend.fast, Trend.slow, 2).hist, n)
            /\ \/ Len(DxSeries(bars, Trend.adx)) < n - Trend.adx
               \/ Says(LAMBDA ks : Adx(ks, Trend.adx), n)

(* A signal has its stop on the losing side of its entry and its target on *)
(* the winning side, so the backtester never divides by a zero distance.   *)
SignalsHaveSides ==
    \A n \in DOMAIN ticks : ticks[n].signal # None =>
        LET s == ticks[n].signal
        IN  IF s.side = "long" THEN s.sl < s.entry /\ s.entry < s.tp
            ELSE s.tp < s.entry /\ s.entry < s.sl

(* The backtester holds one position at a time, and a new one is decided   *)
(* on a bar after the exit and opened on a later one.                      *)
TradesDisjoint ==
    /\ \A t \in DOMAIN trades : trades[t].opened <= trades[t].closed
    /\ \A t, u \in DOMAIN trades : t < u => trades[t].closed + 1 < trades[u].opened

(* A trade ends at the first bar that touches its stop or its target, the  *)
(* stop when both are touched, and only the end of the data forces it.     *)
ExitsAtFirstTouch ==
    \A t \in DOMAIN trades :
        LET trade == trades[t]
            s == Decision(trade.opened - 1)
            stopped == HitsStop(s, bars[trade.closed])
            hit == HitsTarget(s, bars[trade.closed])
        IN  /\ \A k \in trade.opened..(trade.closed - 1) :
                    ~HitsStop(s, bars[k]) /\ ~HitsTarget(s, bars[k])
            /\ trade.reason = "sl" <=> stopped
            /\ trade.reason = "tp" <=> hit /\ ~stopped
            /\ trade.reason = "forced_close" => trade.closed = Len(bars)

(* A stop loses, however the costs fall, unless the entry bar already      *)
(* opened beyond it: then the simulated exit is at a price the bar may     *)
(* never have traded at and may show a gain.                               *)
StopsLose ==
    \A t \in DOMAIN trades :
        LET trade == trades[t]
            s == Decision(trade.opened - 1)
            open == bars[trade.opened].open
            within == IF s.side = "long" THEN open > s.sl ELSE open < s.sl
        IN  trade.reason = "sl" /\ within => NetPnl(trade) < 0

(* A trade pays the funding of the fewest intervals that last as long as   *)
(* it is held, its entry and its exit bar counted, and of one at least.    *)
FundingIsDue ==
    \A t \in DOMAIN trades :
        LET trade == trades[t]
            notional == Notional(trade.entry, trade.qty)
            hours == (trade.closed - trade.opened + 1) * FillModel.barHours[1]
            Lasts(n) == n * (FillModel.interval * FillModel.barHours[2]) >= hours
        IN  IF notional <= 0 THEN trade.funding = 0
            ELSE \E n \in 1..hours :
                    /\ Lasts(n) /\ \A m \in 1..(n - 1) : ~Lasts(m)
                    /\ trade.funding = (notional * FillModel.funding * n) \div BPS

(* The backtest decides nothing the paper engine did not: a trade opened   *)
(* at a bar has the signal of the tick that was filled into that bar, and  *)
(* its entry price when the tick was approved.                             *)
BacktestIsPaper ==
    \A t \in DOMAIN trades :
        LET tick == ticks[trades[t].opened]
        IN  /\ tick.signal # None /\ tick.signal.side = trades[t].side
            /\ tick.fill # None => tick.fill.entry = trades[t].entry

(* The equity at the start and after each trade.                           *)
EquityCurve(of) ==
    LET eq[k \in 0..Len(of)] == IF k = 0 THEN Equity ELSE eq[k - 1] + NetPnl(of[k])
    IN  eq

(* The summary's drawdown is the deepest fall from an earlier equity.      *)
DrawdownIsDeepest ==
    LET n == Len(report.trades)
        eq == EquityCurve(report.trades)
        Fall(m, k) == ((eq[m] - eq[k]) * BPS) \div eq[m]
    IN  /\ \A m \in 0..n : \A k \in m..n : Fall(m, k) <= report.metrics.drawdown
        /\ \E m \in 0..n : \E k \in m..n : Fall(m, k) = report.metrics.drawdown

(* The floor of a position that is gaining is below its peak, and a        *)
(* position is closed by its floor only after a gain, at or below it.      *)
FloorBelowPeak ==
    /\ position # None /\ position.floor # None =>
            position.floor < position.peak \/ position.peak = 0
    /\ exited # None => /\ 0 < exited.last.floor /\ exited.last.floor < exited.last.peak
                        /\ exited.net <= exited.last.floor

(* While a position is held its floor and its peak never fall.             *)
FloorNeverFalls ==
    [][position # None /\ position' # None =>
            /\ position.peak <= position'.peak
            /\ position.floor # None => /\ position'.floor # None
                                        /\ position.floor <= position'.floor]_vars
=============================================================================
