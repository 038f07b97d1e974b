----------------------------- MODULE Indicators -----------------------------
(***************************************************************************)
(* The indicator library, strategy/indicators.py: functions from a         *)
(* sequence of bars to a sequence of the same length, None where the code  *)
(* is still warming up.  Bar i of the code is bar i + 1 here.              *)
(*                                                                         *)
(* A Decimal is an integer, the price unit chosen small enough for the     *)
(* bars at hand, and a division rounds down.                               *)
(***************************************************************************)
EXTENDS Integers, SequencesExt

CONSTANT None    \* the value of a bar in the warmup window
ASSUME IndicatorAssumption == None \notin Int

Bar == [open : Int, high : Int, low : Int, close : Int, volume : Nat]

Abs(x) == IF x < 0 THEN -x ELSE x
Total(s) == FoldSeq(LAMBDA x, y : x + y, 0, s)
Mean(s) == Total(s) \div Len(s)
Closes(ks) == [i \in DOMAIN ks |-> ks[i].close]

(* A smoothed series: None before the seed at first, then one step from    *)
(* the last value and the new sample.                                      *)
Smooth(vs, first, seed, Step(_, _)) ==
    LET s[i \in DOMAIN vs] == IF i < first THEN None
                              ELSE IF i = first THEN seed
                              ELSE Step(s[i - 1], vs[i])
    IN  s

(* Wilder's mean of period n: the new sample has weight 1/n.               *)
WilderMean(vs, first, seed, n) ==
    Smooth(vs, first, seed, LAMBDA prev, v : (prev * (n - 1) + v) \div n)

(* EMA of a series whose values begin at first.                            *)
EmaFrom(vs, first, period) ==
    LET at == first + period - 1
    IN  IF Len(vs) < at THEN [i \in DOMAIN vs |-> None]
        ELSE Smooth(vs, at, Mean(SubSeq(vs, first, at)),
                    LAMBDA prev, v : (2 * v + (period - 1) * prev) \div (period + 1))

Ema(ks, period) == EmaFrom(Closes(ks), 1, period)

WilderSmooth(vs, period) ==
    IF Len(vs) < period THEN [i \in DOMAIN vs |-> None]
    ELSE Smooth(vs, period, Total(SubSeq(vs, 1, period)),
                LAMBDA prev, v : prev - (prev \div period) + v)

Gains(ks) ==
    [i \in DOMAIN ks |-> IF i = 1 THEN 0 ELSE Max({0, ks[i].close - ks[i - 1].close})]
Losses(ks) ==
    [i \in DOMAIN ks |-> IF i = 1 THEN 0 ELSE Max({0, ks[i - 1].close - ks[i].close})]

(* 100 - 100 / (1 + g / l)                                                 *)
RsiFromGainLoss(g, l) ==
    IF l = 0 THEN (IF g > 0 THEN 100 ELSE 50) ELSE (100 * g) \div (g + l)

Rsi(ks, period) ==
    LET avg(vs) == WilderMean(vs, period + 1, Mean(SubSeq(vs, 2, period + 1)), period)
        g == avg(Gains(ks))
        l == avg(Losses(ks))
    IN  IF Len(ks) <= period THEN [i \in DOMAIN ks |-> None]
        ELSE [i \in DOMAIN ks |->
                IF i <= period THEN None ELSE RsiFromGainLoss(g[i], l[i])]

TrueRange(ks) ==
    [i \in DOMAIN ks |->
        IF i = 1 THEN ks[1].high - ks[1].low
        ELSE Max({ks[i].high - ks[i].low, Abs(ks[i].high - ks[i - 1].close),
                  Abs(ks[i].low - ks[i - 1].close)})]

Atr(ks, period) ==
    LET tr == TrueRange(ks)
    IN  IF Len(ks) < period THEN [i \in DOMAIN ks |-> None]
        ELSE WilderMean(tr, period, Mean(SubSeq(tr, 1, period)), period)

(* The directional movement of bar i, up or down, whichever is larger.     *)
PlusDM(ks) ==
    [i \in DOMAIN ks |->
        LET up == ks[i].high - ks[i - 1].high
            down == ks[i - 1].low - ks[i].low
        IN  IF i > 1 /\ up > 0 /\ up > down THEN up ELSE 0]
MinusDM(ks) ==
    [i \in DOMAIN ks |->
        LET up == ks[i].high - ks[i - 1].high
            down == ks[i - 1].low - ks[i].low
        IN  IF i > 1 /\ down > 0 /\ down > up THEN down ELSE 0]

(* What the two directions of a bar differ by, in percent of their sum.    *)
Dx(plus, minus) ==
    IF plus + minus = 0 THEN 0 ELSE (100 * Abs(plus - minus)) \div (plus + minus)

(* The DX of every bar that has one, from the smoothed true range and      *)
(* movements: a bar whose smoothed true range is still zero has none and   *)
(* is left out, which moves the later ones up.                             *)
DxOf(ts, ps, ms) ==
    LET DI(dm, i) == (100 * dm[i]) \div ts[i]
        dx[i \in 0..Len(ts)] ==
            IF i = 0 THEN <<>>
            ELSE IF ts[i] \in {None, 0} THEN dx[i - 1]
            ELSE Append(dx[i - 1], Dx(DI(ps, i), DI(ms, i)))
    IN  dx[Len(ts)]
DxSeries(ks, period) ==
    DxOf(WilderSmooth(TrueRange(ks), period), WilderSmooth(PlusDM(ks), period),
         WilderSmooth(MinusDM(ks), period))

(* The mean of the DX: its k-th value from the seed on is written at bar   *)
(* 2 period + k, one bar behind the bar it is computed from, when no bar   *)
(* was left out.                                                           *)
AdxOf(dx, n, period) ==
    LET first == 2 * period
        adx == WilderMean(dx, period, Mean(SubSeq(dx, 1, period)), period)
    IN  [i \in 1..n |->
            LET k == period + i - first
            IN  IF i < first \/ k > Len(dx) THEN None ELSE adx[k]]
Adx(ks, period) == AdxOf(DxSeries(ks, period), Len(ks), period)

Minus(a, b) ==
    [i \in DOMAIN a |-> IF a[i] = None \/ b[i] = None THEN None ELSE a[i] - b[i]]

Macd(ks, fast, slow, signal) ==
    LET line == Minus(Ema(ks, fast), Ema(ks, slow))
        signalLine == EmaFrom(line, slow, signal)
    IN  [line |-> line, signal |-> signalLine, hist |-> Minus(line, signalLine)]

(* Defect: the average of the whole session, its end included.             *)
Mutant_Vwap(ks) ==
    LET volume == Total([j \in DOMAIN ks |-> ks[j].volume])
        traded == Total([j \in DOMAIN ks |->
            (ks[j].high + ks[j].low + ks[j].close) * ks[j].volume])
    IN  [i \in DOMAIN ks |-> IF volume = 0 THEN None ELSE traded \div (3 * volume)]

Vwap(ks) ==
    LET volume(i) == Total([j \in 1..i |-> ks[j].volume])
        traded(i) == Total([j \in 1..i |->
            (ks[j].high + ks[j].low + ks[j].close) * ks[j].volume])
    IN  [i \in DOMAIN ks |->
            IF volume(i) = 0 THEN None ELSE traded(i) \div (3 * volume(i))]
=============================================================================
