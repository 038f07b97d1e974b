----------------------------- MODULE Strategies -----------------------------
(***************************************************************************)
(* The three strategies' evaluate(snapshot, params, context): a function   *)
(* of the bars of the snapshot, the last of them the bar just seen.  The   *)
(* answer is None or the part of a Signal that is traded on.  A parameter  *)
(* that is a fraction in the code is a pair <<numerator, denominator>>.    *)
(***************************************************************************)
EXTENDS Indicators

CONSTANTS
    Trend,       \* EmaAdxTrendParams
    MeanRev,     \* VwapRsiMeanRevParams
    Gap          \* FvgObParams

Sides == {"long", "short"}
StrategyKeys == {"ema_adx_trend", "vwap_rsi_meanrev", "fvg_ob"}

TrendParams == [fast : Nat \ {0}, slow : Nat \ {0}, adx : Nat \ {0}, threshold : Nat,
                atr : Nat \ {0}, stopMult : Nat, tpMult : Nat, minBars : Nat]
MeanRevParams == [adx : Nat \ {0}, ceiling : Nat, rsi : Nat \ {0}, oversold : Nat,
                  overbought : Nat, deviation : Nat, atr : Nat \ {0},
                  stopMult : Nat \X (Nat \ {0}), minBars : Nat]
GapParams == [lookback : Nat, minGap : Nat, minImpulse : Nat, minBars : Nat]

(* A strategy looks back at least one bar.                                 *)
ASSUME StrategyAssumption ==
    /\ Trend \in TrendParams /\ Trend.minBars > 1
    /\ MeanRev \in MeanRevParams /\ MeanRev.minBars > 0
    /\ Gap \in GapParams /\ Gap.minBars > 0

BPS == 10000

Signal(side, entry, sl, tp) == [side |-> side, entry |-> entry, sl |-> sl, tp |-> tp]
SignalType == [side : Sides, entry : Int, sl : Int, tp : Int]

(* Defect: the stop is under the entry on both sides.                      *)
Mutant_BuildTrend(side, entry, atr) ==
    LET stop == Trend.stopMult * atr
        target == Trend.tpMult * atr
    IN  IF side = "long" THEN Signal(side, entry, entry - stop, entry + target)
        ELSE Signal(side, entry, entry - stop, entry - target)

BuildTrend(side, entry, atr) ==
    LET stop == Trend.stopMult * atr
        target == Trend.tpMult * atr
    IN  IF side = "long" THEN Signal(side, entry, entry - stop, entry + target)
        ELSE Signal(side, entry, entry + stop, entry - target)

(* The close crosses the fast average in the direction of the averages,    *)
(* in a market that trends.                                                *)
TrendSignal(ks, fast, slow, adx, atr) ==
    LET n == Len(ks)
        close == ks[n].close
        ready == /\ n >= Trend.minBars
                 /\ None \notin {fast[n], fast[n - 1], slow, adx, atr}
                 /\ adx >= Trend.threshold
        up == ks[n - 1].close <= fast[n - 1] /\ close > fast[n]
        down == ks[n - 1].close >= fast[n - 1] /\ close < fast[n]
    IN  IF ~ready THEN None
        ELSE IF fast[n] > slow /\ up THEN BuildTrend("long", close, atr)
        ELSE IF fast[n] < slow /\ down THEN BuildTrend("short", close, atr)
        ELSE None
EmaAdxTrend(ks) ==
    LET n == Len(ks)
    IN  TrendSignal(ks, Ema(ks, Trend.fast), Ema(ks, Trend.slow)[n],
                    Adx(ks, Trend.adx)[n], Atr(ks, Trend.atr)[n])

(* The close is far from the VWAP and the RSI agrees, in a market without  *)
(* a trend; the target is the VWAP.                                        *)
MeanRevSignal(n, close, adx, rsi, vwap, atr) ==
    LET ready == /\ n >= MeanRev.minBars
                 /\ None \notin {adx, rsi, vwap, atr}
                 /\ adx < MeanRev.ceiling
        stop == (MeanRev.stopMult[1] * atr) \div MeanRev.stopMult[2]
    IN  IF ~ready THEN None
        ELSE IF close * BPS < vwap * (BPS - MeanRev.deviation) /\ rsi < MeanRev.oversold
             THEN Signal("long", close, close - stop, vwap)
        ELSE IF close * BPS > vwap * (BPS + MeanRev.deviation) /\ rsi > MeanRev.overbought
             THEN Signal("short", close, close + stop, vwap)
        ELSE None
VwapRsiMeanRev(ks) ==
    LET n == Len(ks)
    IN  MeanRevSignal(n, ks[n].close, Adx(ks, MeanRev.adx)[n], Rsi(ks, MeanRev.rsi)[n],
                      Vwap(ks)[n], Atr(ks, MeanRev.atr)[n])

(* Bars j, j + 1, j + 2 leave a gap that the impulse jumped over.          *)
BullishGap(ks, j) ==
    LET b1 == ks[j]
        b3 == ks[j + 2]
    IN  /\ b1.high < b3.low /\ b3.close > b1.close
        /\ (b3.low - b1.high) * BPS >= Gap.minGap * b1.high
        /\ (b3.close - b1.close) * BPS >= Gap.minImpulse * b1.close
BearishGap(ks, j) ==
    LET b1 == ks[j]
        b3 == ks[j + 2]
    IN  /\ b1.low > b3.high /\ b3.close < b1.close
        /\ (b1.low - b3.high) * BPS >= Gap.minGap * b3.high
        /\ (b1.close - b3.close) * BPS >= Gap.minImpulse * b1.close

(* The close returns into the most recent gap: the stop is just beyond the *)
(* gap, the target the far end of the impulse.                             *)
FvgOb(ks) ==
    LET n == Len(ks)
        first == Max({1, n - Gap.lookback - 2})
        bulls == {j \in first..(n - 2) : BullishGap(ks, j)}
        bears == {j \in first..(n - 2) : BearishGap(ks, j)}
        last == ks[n]
        bull == Max(bulls)
        high == Max({ks[j].high : j \in bull..(bull + 2)})
        under == (ks[bull].high * 999) \div 1000
        bear == Max(bears)
        low == Min({ks[j].low : j \in bear..(bear + 2)})
        over == (ks[bear].low * 1001) \div 1000
        long == /\ bulls # {}
                /\ last.low <= ks[bull + 2].low /\ last.close > ks[bull].high
                /\ high > last.close /\ last.close > under
        short == /\ bears # {}
                 /\ last.high >= ks[bear + 2].high /\ last.close < ks[bear].low
                 /\ over > last.close /\ last.close > low
    IN  IF n < Gap.minBars THEN None
        ELSE IF long THEN Signal("long", last.close, under, high)
        ELSE IF short THEN Signal("short", last.close, over, low)
        ELSE None

Evaluate(key, ks) ==
    CASE key = "ema_adx_trend" -> EmaAdxTrend(ks)
      [] key = "vwap_rsi_meanrev" -> VwapRsiMeanRev(ks)
      [] key = "fvg_ob" -> FvgOb(ks)
=============================================================================
