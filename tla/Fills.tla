-------------------------------- MODULE Fills --------------------------------
(***************************************************************************)
(* What a simulated trade costs and what a list of them adds up to: the    *)
(* conservative fill model, backtest/fills.py, and the summary,            *)
(* backtest/metrics.py.  Quantities are in thousandths (Lot), rates in     *)
(* basis points, and a division rounds down.                               *)
(***************************************************************************)
EXTENDS Strategies

CONSTANT FillModel    \* the ConservativeFillModel and the hours of a bar

FillModelType ==
    [spread : Nat, slippage : Nat, taker : Nat, maker : Nat, takerBoth : BOOLEAN,
     funding : Int, interval : Nat \ {0}, barHours : (Nat \ {0}) \X (Nat \ {0})]
ASSUME FillModelAssumption == FillModel \in FillModelType

Lot == 1000

(* Half the spread and the slippage, against the trader.                   *)
Cost(price) == (price * (FillModel.spread + 2 * FillModel.slippage)) \div (2 * BPS)
EntryPrice(side, price) ==
    IF side = "long" THEN price + Cost(price) ELSE price - Cost(price)
ExitPrice(side, price) ==
    IF side = "long" THEN price - Cost(price) ELSE price + Cost(price)

Notional(price, qty) == (price * qty) \div Lot
Fee(price, qty, bps) == (Notional(price, qty) * bps) \div BPS
EntryFee(price, qty) ==
    Fee(price, qty, IF FillModel.takerBoth THEN FillModel.taker ELSE FillModel.maker)
ExitFee(price, qty) == Fee(price, qty, FillModel.taker)

(* Defect: only the intervals that are over are charged.                   *)
Mutant_FundingCycles(held) ==
    LET hours == held * FillModel.barHours[1]
        interval == FillModel.interval * FillModel.barHours[2]
    IN  Max({1, hours \div interval})

(* Every funding interval begun is charged, and at least one.              *)
FundingCycles(held) ==
    LET hours == held * FillModel.barHours[1]
        interval == FillModel.interval * FillModel.barHours[2]
    IN  Max({1, (hours + interval - 1) \div interval})
FundingPaid(notional, held) ==
    IF FillModel.funding = 0 \/ held <= 0 \/ notional <= 0 THEN 0
    ELSE (notional * FillModel.funding * FundingCycles(held)) \div BPS

TradeType ==
    [side : Sides, qty : Int, entry : Int, exit : Int, fees : Int, funding : Int,
     opened : Nat, closed : Nat, reason : {"sl", "tp", "forced_close"}]

GrossPnl(t) == ((IF t.side = "long" THEN t.exit - t.entry ELSE t.entry - t.exit) * t.qty) \div Lot
NetPnl(t) == GrossPnl(t) - t.fees - t.funding
NetBps(t) ==
    LET notional == Notional(t.entry, t.qty)
    IN  IF notional > 0 THEN (NetPnl(t) * BPS) \div notional ELSE 0

(* Defect: the fall is taken before the trade is added.                    *)
Mutant_Drawdown(trades, equity) ==
    LET Step(acc, t) ==
            LET eq == acc.eq + NetPnl(t)
                fall == IF acc.peak > 0 THEN ((acc.peak - acc.eq) * BPS) \div acc.peak ELSE 0
            IN  [eq |-> eq, peak |-> Max({acc.peak, eq}), worst |-> Max({acc.worst, fall})]
    IN  FoldLeft(Step, [eq |-> equity, peak |-> equity, worst |-> 0], trades).worst

(* The equity after each trade, and how far below its peak it ever was.    *)
Drawdown(trades, equity) ==
    LET Step(acc, t) ==
            LET eq == acc.eq + NetPnl(t)
                peak == Max({acc.peak, eq})
                fall == IF peak > 0 THEN ((peak - eq) * BPS) \div peak ELSE 0
            IN  [eq |-> eq, peak |-> peak, worst |-> Max({acc.worst, fall})]
    IN  FoldLeft(Step, [eq |-> equity, peak |-> equity, worst |-> 0], trades).worst

Summarize(trades, equity) ==
    LET wins == SelectSeq(trades, LAMBDA t : NetPnl(t) > 0)
        losses == SelectSeq(trades, LAMBDA t : NetPnl(t) <= 0)
        Sum(s, Of(_)) == Total([k \in DOMAIN s |-> Of(s[k])])
        Average(s) == IF s = <<>> THEN 0 ELSE Sum(s, NetBps) \div Len(s)
        lost == -Sum(losses, NetPnl)
        notional == Sum(trades, LAMBDA t : Notional(t.entry, t.qty))
        costs == Sum(trades, LAMBDA t : t.fees + t.funding)
    IN  [sample |-> Len(trades), wins |-> Len(wins),
         avgWin |-> Average(wins), avgLoss |-> -Average(losses),
         profitFactor |-> IF lost > 0 THEN <<Sum(wins, NetPnl), lost>> ELSE None,
         drawdown |-> Drawdown(trades, equity),
         feeDrag |-> IF notional > 0 THEN (costs * BPS) \div notional ELSE 0]
=============================================================================
