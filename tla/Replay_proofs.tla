---------------------------- MODULE Replay_proofs ----------------------------
(***************************************************************************)
(* Proofs about the replay of one market.  What a strategy says of the     *)
(* bars it sees is left open by the proofs that its trades are sound; the  *)
(* proof of the types goes through every strategy and indicator.           *)
(***************************************************************************)
EXTENDS Replay, Recursion_proofs, SequenceTheorems, TLAPS

-----------------------------------------------------------------------------
(* Lemmas about the operators.                                             *)

(* The first touch, or the last bar.                                       *)
LEMMA ExitBarIs ==
    ASSUME bars \in Seq(Bar), NEW s, NEW from \in Nat, from <= Len(bars)
    PROVE  /\ ExitBar(s, from) \in from..Len(bars)
           /\ \A k \in from..(ExitBar(s, from) - 1) : ~Touches(s, bars[k])
           /\ Touches(s, bars[ExitBar(s, from)]) \/ ExitBar(s, from) = Len(bars)
<1> DEFINE Hit == {j \in from..Len(bars) : Touches(s, bars[j])}
           First(j) == /\ Touches(s, bars[j])
                       /\ \A k \in from..(j - 1) : ~Touches(s, bars[k])
<1>1. Len(bars) \in Nat
    OBVIOUS
<1>2. CASE \E j \in from..Len(bars) : Touches(s, bars[j])
    <2>1. Hit \in SUBSET Nat /\ Hit # {}
        BY <1>1, <1>2
    <2>2. PICK m \in Hit : \A k \in Hit : m <= k
        <3> HIDE DEF Hit
        <3> QED
            BY <2>1, Least
    <2>3. m \in from..Len(bars) /\ First(m)
        BY <1>1, <2>2
    <2> HIDE DEF First
    <2>4. \E j \in from..Len(bars) : First(j)
        BY <2>3
    <2>5. (CHOOSE j \in from..Len(bars) : First(j)) \in from..Len(bars)
          /\ First(CHOOSE j \in from..Len(bars) : First(j))
        BY <2>4
    <2>6. ExitBar(s, from) = CHOOSE j \in from..Len(bars) : First(j)
        BY <1>2 DEF ExitBar, First
    <2>7. ExitBar(s, from) \in from..Len(bars) /\ First(ExitBar(s, from))
        BY <2>5, <2>6
    <2> QED
        BY <2>7 DEF First
<1>3. CASE ~\E j \in from..Len(bars) : Touches(s, bars[j])
    <2>1. ExitBar(s, from) = Len(bars)
        BY <1>3 DEF ExitBar
    <2>2. \A k \in from..(Len(bars) - 1) : k \in from..Len(bars)
        BY <1>1
    <2> QED
        BY <1>1, <1>3, <2>1, <2>2
<1> QED
    BY <1>2, <1>3

(* The floor of a peak is below it.                                        *)
LEMMA FloorIsBelow ==
    ASSUME NEW peak \in Nat
    PROVE  /\ FloorOf(peak) \in Int
           /\ FloorOf(peak) < peak \/ (peak = 0 /\ FloorOf(peak) = 0)
<1> DEFINE share == 100 - Giveback
           x == peak * share
<1>1. share \in 0..99
    BY GivebackAssumption
<1>2. x \in Int /\ 0 <= x /\ x <= 99 * peak /\ (peak = 0 => x = 0)
    <2> HIDE DEF share
    <2> QED
        BY <1>1
<1>3. FloorOf(peak) = x \div 100
    BY DEF FloorOf
<1> HIDE DEF x
<1> QED
    BY <1>2, <1>3

(* What a trade costs and how large it is are whole numbers too.           *)
LEMMA CostsAreInt ==
    ASSUME NEW price \in Int, NEW qty \in Int
    PROVE  /\ \A side : EntryPrice(side, price) \in Int /\ ExitPrice(side, price) \in Int
           /\ Notional(price, qty) \in Int
           /\ EntryFee(price, qty) \in Int /\ ExitFee(price, qty) \in Int
<1>1. FillModel.spread \in Nat /\ FillModel.slippage \in Nat /\ FillModel.taker \in Nat
      /\ FillModel.maker \in Nat
    BY FillModelAssumption DEF FillModelType
<1>2. Cost(price) \in Int
    BY <1>1 DEF Cost, BPS
<1>3. \A side : EntryPrice(side, price) \in Int /\ ExitPrice(side, price) \in Int
    BY <1>2 DEF EntryPrice, ExitPrice
<1>4. Notional(price, qty) \in Int
    BY DEF Notional, Lot
<1>5. \A bps \in Nat : Fee(price, qty, bps) \in Int
    BY <1>4 DEF Fee, BPS
<1> QED
    BY <1>1, <1>3, <1>4, <1>5 DEF EntryFee, ExitFee

-----------------------------------------------------------------------------
(* The market and the paper engine.  What is no sequence of a known set is *)
(* at least a sequence.                                                    *)

IsSeq(s) == \E S : s \in Seq(S)

(* An element is appended.                                                 *)
LEMMA Appended ==
    ASSUME NEW s, NEW e, IsSeq(s)
    PROVE  /\ IsSeq(Append(s, e)) /\ Len(s) \in Nat /\ Len(Append(s, e)) = Len(s) + 1
           /\ DOMAIN s = 1..Len(s) /\ DOMAIN Append(s, e) = 1..(Len(s) + 1)
           /\ Append(s, e)[Len(s) + 1] = e
           /\ \A n \in 1..Len(s) : Append(s, e)[n] = s[n]
<1>1. PICK S : s \in Seq(S)
    BY DEF IsSeq
<1>2. s \in Seq(S \union {e}) /\ e \in S \union {e}
    BY <1>1
<1>3. Append(s, e) \in Seq(S \union {e})
    BY <1>2
<1> QED
    BY <1>1, <1>2, <1>3 DEF IsSeq

(* Where the tick of a bar came from, and when the readers are where.      *)
TickInv(n) ==
    /\ n = 1 => ticks[n].signal = None
    /\ n > 1 => ticks[n].signal = Decision(n - 1)
    /\ ticks[n].fill # None =>
        ticks[n].fill.qty = PaperQty
        /\ ticks[n].fill.entry = EntryPrice(ticks[n].signal.side, bars[n].open)

MarketInv ==
    /\ bars \in Seq(Bar) /\ IsSeq(ticks) /\ phase \in {"market", "paper", "mark", "test"}
    /\ phase \in {"paper", "mark", "test"} => Len(bars) > 0
    /\ Len(bars) = IF phase = "paper" THEN Len(ticks) + 1 ELSE Len(ticks)
    /\ \A n \in 1..Len(ticks) : TickInv(n)
    /\ phase # "test" => trades = <<>>

(* What is seen of the bars stays when one arrives.                        *)
LEMMA SeenStays ==
    ASSUME bars \in Seq(Bar), NEW b \in Bar, bars' = Append(bars, b), key' = key,
           NEW n \in 0..Len(bars)
    PROVE  Seen(n)' = Seen(n) /\ Decision(n)' = Decision(n)
<1>1. Len(bars) \in Nat /\ bars' \in Seq(Bar) /\ Len(bars') = Len(bars) + 1
    OBVIOUS
<1>2. SubSeq(bars', 1, n) = SubSeq(bars, 1, n)
    BY <1>1, SubSeqProperties
<1> QED
    BY <1>2 DEF Seen, Decision

(* The market and the ticks, step by step.                                 *)
LEMMA MarketStep == MarketInv /\ [Next]_vars => MarketInv'
<1> SUFFICES ASSUME MarketInv, [Next]_vars
             PROVE  MarketInv'
    OBVIOUS
<1>1. bars \in Seq(Bar) /\ Len(bars) \in Nat /\ IsSeq(ticks) /\ Len(ticks) \in Nat
    BY Appended DEF MarketInv
<1>2. CASE Arrive
    <2>1. PICK s \in Shapes :
            LET from == IF bars = <<>> THEN FirstClose ELSE bars[Len(bars)].close
            IN  bars' = Append(bars, [open |-> from + s.open, high |-> from + s.high,
                                      low |-> from + s.low, close |-> from + s.close,
                                      volume |-> s.volume])
        BY <1>2 DEF Arrive
    <2> DEFINE from == IF bars = <<>> THEN FirstClose ELSE bars[Len(bars)].close
               b == [open |-> from + s.open, high |-> from + s.high, low |-> from + s.low,
                     close |-> from + s.close, volume |-> s.volume]
    <2>2. /\ phase = "market" /\ phase' = "paper" /\ bars' = Append(bars, b)
          /\ UNCHANGED <<key, ticks, trades>>
        BY <1>2, <2>1 DEF Arrive, paperVars, testVars
    <2>3. from \in Int
        <3>1. bars # <<>> => bars[Len(bars)] \in Bar
            BY <1>1
        <3> QED
            BY <3>1, ReplayAssumption DEF Bar
    <2>4. s \in Bar
        BY ReplayAssumption
    <2>5. b \in Bar
        <3> HIDE DEF from
        <3> QED
            BY <2>3, <2>4 DEF Bar
    <2> HIDE DEF b
    <2>6. bars' \in Seq(Bar) /\ Len(bars') = Len(bars) + 1
          /\ \A n \in 1..Len(bars) : bars'[n] = bars[n]
        BY <1>1, <2>2, <2>5
    <2>7. Len(bars) = Len(ticks)
        BY <2>2 DEF MarketInv
    <2>8. ASSUME NEW n \in 1..Len(ticks)
          PROVE  TickInv(n)'
        <3>1. Decision(n - 1)' = Decision(n - 1)
            BY <1>1, <2>2, <2>5, <2>7, SeenStays
        <3>2. TickInv(n) /\ ticks' = ticks /\ bars'[n] = bars[n]
            BY <2>2, <2>6, <2>7 DEF MarketInv
        <3> QED
            BY <3>1, <3>2 DEF TickInv
    <2> QED
        BY <1>1, <2>2, <2>6, <2>7, <2>8 DEF MarketInv
<1>3. CASE PaperTick
    <2> DEFINE n == Len(bars) - 1
               signal == IF n = 0 THEN None ELSE Evaluate(key, Seen(n))
               fill == [side |-> signal.side, qty |-> PaperQty,
                        entry |-> EntryPrice(signal.side, bars[n + 1].open)]
    <2>1. \E decision : \E f \in {None, fill} : ticks' = Append(ticks, Tick(signal, decision, f))
        BY <1>3 DEF PaperTick
    <2>2. PICK decision, f : f \in {None, fill} /\ ticks' = Append(ticks, Tick(signal, decision, f))
        BY <2>1
    <2>3. phase = "paper" /\ phase' = "mark" /\ UNCHANGED <<key, bars, trades>>
        BY <1>3 DEF PaperTick, testVars
    <2>4. n = Len(ticks) /\ n \in Nat
        BY <1>1, <2>3 DEF MarketInv
    <2> DEFINE tick == Tick(signal, decision, f)
    <2>5. tick.signal = signal /\ tick.fill = f
        BY DEF Tick
    <2>6. f # None => f.qty = PaperQty /\ f.entry = EntryPrice(signal.side, bars[n + 1].open)
        BY <2>2
    <2>7. signal = IF n + 1 = 1 THEN None ELSE Decision(n)
        BY <2>4 DEF Decision
    <2> HIDE DEF tick, signal, fill
    <2>8. /\ IsSeq(ticks') /\ Len(ticks') = n + 1 /\ ticks'[n + 1] = tick
          /\ \A k \in 1..n : ticks'[k] = ticks[k]
        BY <1>1, <2>2, <2>4, Appended DEF tick
    <2>9. ASSUME NEW k \in 1..(n + 1)
          PROVE  TickInv(k)'
        <3>1. Decision(k - 1)' = Decision(k - 1) /\ bars' = bars
            BY <2>3 DEF Decision, Seen
        <3>2. CASE k = n + 1
            <4>1. ticks'[k].signal = signal /\ ticks'[k].fill = f /\ Decision(k - 1)' = Decision(n)
                BY <2>4, <2>5, <2>8, <3>1, <3>2
            <4> HIDE DEF n
            <4>2. TickInv(k)' <=>
                    /\ k = 1 => ticks'[k].signal = None
                    /\ k > 1 => ticks'[k].signal = Decision(k - 1)'
                    /\ ticks'[k].fill # None =>
                        ticks'[k].fill.qty = PaperQty
                        /\ ticks'[k].fill.entry = EntryPrice(ticks'[k].signal.side, bars'[k].open)
                BY DEF TickInv
            <4> QED
                BY <2>4, <2>6, <2>7, <3>1, <3>2, <4>1, <4>2
        <3>3. CASE k # n + 1
            <4>1. k \in 1..n /\ TickInv(k) /\ ticks'[k] = ticks[k]
                BY <2>4, <2>8, <3>3 DEF MarketInv
            <4> QED
                BY <3>1, <4>1 DEF TickInv
        <3> QED
            BY <3>2, <3>3
    <2> QED
        BY <1>1, <2>3, <2>4, <2>8, <2>9 DEF MarketInv
<1>4. CASE UNCHANGED <<key, bars, ticks>> /\ phase # "paper" /\ phase' # "paper"
           /\ phase' \in {"market", "paper", "mark", "test"}
           /\ (phase' = "market" \/ phase \in {"mark", "test"})
           /\ (phase' # "test" => trades' = <<>>)
    <2>1. \A n : Decision(n)' = Decision(n)
        BY <1>4 DEF Decision, Seen
    <2>2. \A n \in 1..Len(ticks) : TickInv(n)'
        BY <1>4, <2>1 DEF MarketInv, TickInv
    <2> QED
        BY <1>4, <2>2 DEF MarketInv
<1>5. CASE Mark \/ TestSkip \/ TestTrade \/ TestDone
    BY <1>4, <1>5 DEF Mark, TestSkip, TestTrade, TestDone, MarketInv, paperVars, testVars
<1>6. CASE UNCHANGED vars
    <2>1. UNCHANGED <<key, bars, ticks, phase, trades>>
        BY <1>6 DEF vars, paperVars, testVars
    <2>2. \A n : Decision(n)' = Decision(n)
        BY <2>1 DEF Decision, Seen
    <2>3. \A n \in 1..Len(ticks) : TickInv(n)'
        BY <2>1, <2>2 DEF MarketInv, TickInv
    <2> QED
        BY <2>1, <2>3 DEF MarketInv
<1> QED
    BY <1>2, <1>3, <1>5, <1>6 DEF Next

-----------------------------------------------------------------------------
(* The protected position.  Its floor is below its peak, except at the     *)
(* very start, where both are zero.                                        *)

Held(p) ==
    /\ p.qty \in Nat /\ p.entry \in Int /\ p.peak \in Nat
    /\ p.floor # None => /\ p.floor \in Int
                         /\ p.floor < p.peak \/ (p.peak = 0 /\ p.floor = 0)

PositionInv ==
    /\ MarketInv
    /\ position # None => Held(position)
    /\ exited # None => /\ 0 < exited.last.floor /\ exited.last.floor < exited.last.peak
                        /\ exited.net <= exited.last.floor

(* A mark advances the position and lowers neither peak nor floor.         *)
LEMMA Advanced ==
    ASSUME NEW p, Held(p), NEW mark \in Int
    PROVE  /\ NetUnrealized(p, mark) \in Int
           /\ Held(AdvanceFloor(p, NetUnrealized(p, mark)))
           /\ p.peak <= AdvanceFloor(p, NetUnrealized(p, mark)).peak
           /\ AdvanceFloor(p, NetUnrealized(p, mark)).floor # None
           /\ p.floor # None => p.floor <= AdvanceFloor(p, NetUnrealized(p, mark)).floor
<1> DEFINE net == NetUnrealized(p, mark)
           peak == Larger(p.peak, net)
           floor == IF p.floor = None THEN FloorOf(peak) ELSE Larger(p.floor, FloorOf(peak))
           q == AdvanceFloor(p, net)
<1>1. net \in Int
    <2>1. ExitFee(mark, p.qty) \in Int
        <3>1. p.qty \in Int
            BY DEF Held
        <3> QED
            BY <3>1, CostsAreInt
    <2>2. (IF p.side = "long" THEN mark - p.entry ELSE p.entry - mark) \in Int
        BY DEF Held
    <2>3. ((IF p.side = "long" THEN mark - p.entry ELSE p.entry - mark) * p.qty) \in Int
        BY <2>2 DEF Held
    <2> QED
        BY <2>1, <2>3 DEF NetUnrealized, Lot
<1>2. /\ q.qty = p.qty /\ q.entry = p.entry /\ q.peak = peak /\ q.floor = floor
    BY DEF AdvanceFloor
<1> HIDE DEF net, q
<1>3. peak \in Nat /\ p.peak <= peak
    BY <1>1 DEF Larger, Held
<1>4. FloorOf(peak) \in Int /\ (FloorOf(peak) < peak \/ (peak = 0 /\ FloorOf(peak) = 0))
    BY <1>3, FloorIsBelow
<1> HIDE DEF peak
<1>5. /\ floor \in Int /\ (floor < peak \/ (peak = 0 /\ floor = 0))
      /\ p.floor # None => p.floor <= floor
    BY <1>3, <1>4 DEF Held, Larger
<1> HIDE DEF floor
<1>6. floor # None
    BY <1>5, IndicatorAssumption
<1>7. Held(q)
    BY <1>2, <1>3, <1>5 DEF Held
<1> QED
    BY <1>1, <1>2, <1>3, <1>5, <1>6, <1>7 DEF q, net

(* Whoever is marked is a position with an entry price.                    *)
LEMMA OpenedIsHeld ==
    ASSUME PositionInv, phase = "mark", Opened # None
    PROVE  Held(Opened) /\ bars[Len(bars)].close \in Int
<1>1. /\ bars \in Seq(Bar) /\ Len(bars) \in Nat /\ Len(bars) > 0 /\ Len(ticks) = Len(bars)
      /\ TickInv(Len(ticks))
    BY DEF PositionInv, MarketInv
<1>2. bars[Len(bars)] \in Bar
    BY <1>1
<1> DEFINE fill == ticks[Len(ticks)].fill
<1>3. CASE position # None
    BY <1>2, <1>3 DEF Opened, PositionInv, Bar
<1>4. CASE position = None
    <2>1. /\ fill # None
          /\ Opened = [side |-> fill.side, qty |-> fill.qty, entry |-> fill.entry,
                       peak |-> 0, floor |-> None]
        BY <1>4 DEF Opened
    <2>2. /\ fill.qty = PaperQty
          /\ fill.entry = EntryPrice(ticks[Len(ticks)].signal.side, bars[Len(ticks)].open)
        BY <1>1, <2>1 DEF TickInv
    <2>3. PaperQty \in Nat /\ bars[Len(ticks)].open \in Int /\ bars[Len(bars)].close \in Int
        BY <1>1, <1>2, ReplayAssumption DEF Bar
    <2>4. fill.entry \in Int
        BY <2>2, <2>3, CostsAreInt
    <2> HIDE DEF fill
    <2> QED
        BY <2>1, <2>2, <2>3, <2>4 DEF Held
<1> QED
    BY <1>3, <1>4

(* The position, step by step.                                             *)
LEMMA PositionStep == PositionInv /\ [Next]_vars => PositionInv'
<1> SUFFICES ASSUME PositionInv, [Next]_vars
             PROVE  PositionInv'
    OBVIOUS
<1>1. MarketInv'
    BY MarketStep DEF PositionInv
<1>2. CASE UNCHANGED <<position, exited>>
    BY <1>1, <1>2 DEF PositionInv, Held
<1>3. CASE Mark /\ ~UNCHANGED <<position, exited>>
    <2> DEFINE net == NetUnrealized(Opened, bars[Len(bars)].close)
               p == AdvanceFloor(Opened, net)
    <2>1. /\ phase = "mark" /\ Opened # None
          /\ IF ShouldExit(p, net)
             THEN position' = None /\ exited' = [last |-> p, net |-> net]
             ELSE position' = p /\ UNCHANGED exited
        BY <1>3 DEF Mark
    <2>2. Held(Opened) /\ bars[Len(bars)].close \in Int
        BY <2>1, OpenedIsHeld
    <2>3. net \in Int /\ Held(p)
        BY <2>2, Advanced
    <2> HIDE DEF p, net
    <2>4. CASE ShouldExit(p, net)
        <3>1. p.floor # None /\ p.floor > 0 /\ net <= p.floor
            BY <2>4 DEF ShouldExit
        <3>2. exited'.last = p /\ exited'.net = net /\ position' = None
            BY <2>1, <2>4
        <3>3. p.floor \in Int /\ p.floor < p.peak
            BY <2>3, <3>1 DEF Held
        <3> QED
            BY <1>1, <2>3, <3>1, <3>2, <3>3 DEF PositionInv
    <2>5. CASE ~ShouldExit(p, net)
        <3>1. position' = p /\ exited' = exited
            BY <2>1, <2>5
        <3> QED
            BY <1>1, <2>3, <3>1 DEF PositionInv, Held
    <2> QED
        BY <2>4, <2>5
<1>4. Mark \/ UNCHANGED <<position, exited>>
    BY DEF Next, vars, paperVars, Arrive, PaperTick, TestSkip, TestTrade, TestDone
<1> QED
    BY <1>2, <1>3, <1>4

(* Where it starts.                                                        *)
LEMMA PositionStart == Init => PositionInv
<1> SUFFICES ASSUME Init
             PROVE  PositionInv
    OBVIOUS
<1>1. /\ bars = <<>> /\ ticks = <<>> /\ trades = <<>> /\ phase = "market"
      /\ position = None /\ exited = None
    BY DEF Init
<1>2. IsSeq(ticks) /\ Len(ticks) = 0 /\ Len(bars) = 0 /\ bars \in Seq(Bar)
    BY <1>1 DEF IsSeq
<1> QED
    BY <1>1, <1>2 DEF PositionInv, MarketInv

(* A protected floor stays below the peak it protects, for every sequence  *)
(* of bars and every strategy, and closes a position only after a gain.    *)
THEOREM FloorsStayBelow == Spec => []FloorBelowPeak
<1>1. PositionInv => FloorBelowPeak
    BY DEF PositionInv, Held, FloorBelowPeak
<1> QED
    BY <1>1, PositionStart, PositionStep, PTL DEF Spec

(* A floor and a peak of a held position never fall.                       *)
THEOREM FloorsOnlyRise == Spec => FloorNeverFalls
<1>1. PositionInv /\ [Next]_vars =>
        [position # None /\ position' # None =>
            /\ position.peak <= position'.peak
            /\ position.floor # None => /\ position'.floor # None
                                        /\ position.floor <= position'.floor]_vars
    <2> SUFFICES ASSUME PositionInv, [Next]_vars, position # None, position' # None
                 PROVE  /\ position.peak <= position'.peak
                        /\ position.floor # None => /\ position'.floor # None
                                                    /\ position.floor <= position'.floor
        OBVIOUS
    <2>1. CASE UNCHANGED position
        BY <2>1 DEF PositionInv, Held
    <2>2. CASE Mark /\ ~UNCHANGED position
        <3> DEFINE net == NetUnrealized(position, bars[Len(bars)].close)
        <3>1. Opened = position /\ phase = "mark"
            BY <2>2 DEF Opened, Mark
        <3>2. position' = AdvanceFloor(position, net)
            BY <2>2, <3>1 DEF Mark
        <3>3. Held(position) /\ bars[Len(bars)].close \in Int
            BY <3>1, OpenedIsHeld
        <3> QED
            BY <3>2, <3>3, Advanced
    <2>3. Mark \/ UNCHANGED position
        BY DEF Next, vars, paperVars, Arrive, PaperTick, TestSkip, TestTrade, TestDone
    <2> QED
        BY <2>1, <2>2, <2>3
<1> QED
    BY <1>1, PositionStart, PositionStep, PTL DEF Spec, FloorNeverFalls

-----------------------------------------------------------------------------
(* The backtest.  Every trade of it was decided at the bar before it was   *)
(* opened, and the loop is past its exit.                                  *)

Sound(trade) ==
    LET s == Decision(trade.opened - 1)
        closing == bars[trade.closed]
    IN  /\ trade.opened \in 2..Len(bars) /\ trade.closed \in trade.opened..Len(bars)
        /\ s # None /\ trade.side = s.side
        /\ trade.entry = EntryPrice(s.side, bars[trade.opened].open)
        /\ \A k \in trade.opened..(trade.closed - 1) : ~Touches(s, bars[k])
        /\ trade.reason = ExitReason(s, closing)
        /\ Touches(s, closing) \/ trade.closed = Len(bars)

TradesInv ==
    /\ i \in Nat \ {0} /\ IsSeq(trades)
    /\ \A t \in 1..Len(trades) : Sound(trades[t]) /\ trades[t].closed < i
    /\ \A t, u \in 1..Len(trades) : t < u => trades[t].closed + 1 < trades[u].opened

TestInv == MarketInv /\ TradesInv

(* What the trade at bar i is.                                             *)
LEMMA TradeIsSound ==
    ASSUME MarketInv, i \in Nat \ {0}, i < Len(bars), Decision(i) # None
    PROVE  LET trade == Trade(Decision(i), i + 1, ExitBar(Decision(i), i + 1))
           IN  Sound(trade) /\ trade.opened = i + 1
               /\ trade.closed = ExitBar(Decision(i), i + 1)
<1> DEFINE s == Decision(i)
           closed == ExitBar(s, i + 1)
           trade == Trade(s, i + 1, closed)
<1>1. bars \in Seq(Bar) /\ Len(bars) \in Nat
    BY DEF MarketInv
<1>2. /\ closed \in (i + 1)..Len(bars)
      /\ \A k \in (i + 1)..(closed - 1) : ~Touches(s, bars[k])
      /\ Touches(s, bars[closed]) \/ closed = Len(bars)
    <2> HIDE DEF s
    <2> QED
        BY <1>1, ExitBarIs
<1> HIDE DEF closed
<1>3. /\ trade.side = s.side /\ trade.opened = i + 1 /\ trade.closed = closed
      /\ trade.entry = EntryPrice(s.side, bars[i + 1].open)
      /\ trade.reason = ExitReason(s, bars[closed])
    BY DEF Trade
<1>4. trade.opened - 1 = i
    BY <1>3
<1> HIDE DEF trade
<1>5. Sound(trade)
    BY <1>1, <1>2, <1>3, <1>4 DEF Sound
<1> QED
    BY <1>3, <1>5 DEF trade, closed

(* The backtest, step by step.                                             *)
LEMMA TestStep == TestInv /\ [Next]_vars => TestInv'
<1> SUFFICES ASSUME TestInv, [Next]_vars
             PROVE  TestInv'
    OBVIOUS
<1>1. MarketInv'
    BY MarketStep DEF TestInv
<1>2. bars \in Seq(Bar) /\ Len(bars) \in Nat /\ IsSeq(trades) /\ Len(trades) \in Nat
    BY Appended DEF TestInv, MarketInv, TradesInv
<1>3. IsSeq(<<>>) /\ Len(<<>>) = 0
    BY DEF IsSeq
<1>4. CASE trades' = <<>> /\ i' \in Nat \ {0}
    BY <1>1, <1>3, <1>4 DEF TestInv, TradesInv
<1>5. CASE UNCHANGED <<key, bars, trades>> /\ i' \in Nat /\ i <= i'
    <2>1. \A n : Decision(n)' = Decision(n)
        BY <1>5 DEF Decision, Seen
    <2>2. \A t \in 1..Len(trades) : Sound(trades[t])'
        BY <1>5, <2>1 DEF TestInv, TradesInv, Sound
    <2>3. \A t \in 1..Len(trades) : trades[t].closed \in Int
        BY <1>2 DEF TestInv, TradesInv, Sound
    <2> QED
        BY <1>1, <1>5, <2>2, <2>3 DEF TestInv, TradesInv
<1>6. CASE TestTrade
    <2> DEFINE trade == Trade(Decision(i), i + 1, ExitBar(Decision(i), i + 1))
               n == Len(trades)
    <2>1. /\ i < Len(bars) /\ Decision(i) # None /\ trades' = Append(trades, trade)
          /\ i' = ExitBar(Decision(i), i + 1) + 1 /\ UNCHANGED <<key, bars, phase, ticks>>
        BY <1>6 DEF TestTrade, Tradable, paperVars
    <2>2. i \in Nat \ {0}
        BY DEF TestInv, TradesInv
    <2>3. Sound(trade) /\ trade.opened = i + 1 /\ i' = trade.closed + 1
        BY <2>1, <2>2, TradeIsSound DEF TestInv
    <2> HIDE DEF trade
    <2>4. trade.closed \in (i + 1)..Len(bars) /\ i' \in Nat \ {0} /\ i < i'
        BY <1>2, <2>2, <2>3 DEF Sound
    <2>5. /\ IsSeq(trades') /\ Len(trades') = n + 1 /\ trades'[n + 1] = trade
          /\ \A t \in 1..n : trades'[t] = trades[t]
        BY <1>2, <2>1, Appended
    <2>6. \A m : Decision(m)' = Decision(m)
        BY <2>1 DEF Decision, Seen
    <2>7. ASSUME NEW t \in 1..(n + 1)
          PROVE  Sound(trades'[t]) /\ trades'[t].closed < i'
        <3>1. CASE t = n + 1
            BY <2>3, <2>4, <2>5, <3>1
        <3>2. CASE t # n + 1
            <4>1. t \in 1..n /\ trades'[t] = trades[t]
                BY <1>2, <2>5, <3>2
            <4>2. Sound(trades[t]) /\ trades[t].closed < i
                BY <4>1 DEF TestInv, TradesInv
            <4>3. trades[t].closed \in Int
                BY <1>2, <4>2 DEF Sound
            <4> QED
                BY <2>2, <2>4, <4>1, <4>2, <4>3
        <3> QED
            BY <3>1, <3>2
    <2>8. ASSUME NEW t \in 1..(n + 1), NEW u \in 1..(n + 1), t < u
          PROVE  trades'[t].closed + 1 < trades'[u].opened
        <3>1. t \in 1..n /\ trades'[t] = trades[t]
            BY <1>2, <2>5, <2>8
        <3>2. CASE u = n + 1
            <4>1. Sound(trades[t]) /\ trades[t].closed < i
                BY <3>1 DEF TestInv, TradesInv
            <4>2. trades[t].closed \in Int
                BY <1>2, <4>1 DEF Sound
            <4> QED
                BY <2>2, <2>3, <2>5, <3>1, <3>2, <4>1, <4>2
        <3>3. CASE u # n + 1
            <4>1. u \in 1..n /\ trades'[u] = trades[u]
                BY <1>2, <2>5, <3>3
            <4> QED
                BY <2>8, <3>1, <4>1 DEF TestInv, TradesInv
        <3> QED
            BY <3>2, <3>3
    <2>9. ASSUME NEW t \in 1..(n + 1)
          PROVE  Sound(trades[t])'
        <3>1. Sound(trades'[t])
            BY <2>7
        <3> QED
            BY <2>1, <2>6, <3>1 DEF Sound
    <2> QED
        BY <1>1, <2>4, <2>5, <2>7, <2>8, <2>9 DEF TestInv, TradesInv
<1>7. CASE Arrive
    <2>1. phase = "market" /\ UNCHANGED <<trades, i>>
        BY <1>7 DEF Arrive, testVars
    <2> QED
        BY <1>4, <2>1 DEF TestInv, TradesInv, MarketInv
<1>8. CASE TestDone
    BY <1>4, <1>8 DEF TestDone
<1>9. CASE PaperTick \/ Mark \/ TestSkip \/ UNCHANGED vars
    <2>1. UNCHANGED <<key, bars, trades>> /\ (i' = i \/ i' = i + 1)
        BY <1>9 DEF PaperTick, Mark, TestSkip, vars, testVars, paperVars
    <2> QED
        BY <1>5, <2>1 DEF TestInv, TradesInv
<1> QED
    BY <1>6, <1>7, <1>8, <1>9 DEF Next

(* Where it starts.                                                        *)
LEMMA TestStart == Init => TestInv
<1> SUFFICES ASSUME Init
             PROVE  TestInv
    OBVIOUS
<1>1. MarketInv
    BY PositionStart DEF PositionInv
<1>2. i = 1 /\ IsSeq(trades) /\ Len(trades) = 0
    BY DEF Init, IsSeq
<1> QED
    BY <1>1, <1>2 DEF TestInv, TradesInv

(* The domain of the trades, and where each was made.                      *)
LEMMA TradesAre ==
    ASSUME TestInv, NEW t \in DOMAIN trades
    PROVE  t \in 1..Len(trades) /\ Sound(trades[t]) /\ bars \in Seq(Bar) /\ Len(bars) \in Nat
BY Appended DEF TestInv, MarketInv, TradesInv

(* The backtester holds one position at a time, whatever the strategy and  *)
(* the bars are.                                                           *)
THEOREM OnePositionAtATime == Spec => []TradesDisjoint
<1>1. TestInv => TradesDisjoint
    BY TradesAre DEF TradesDisjoint, TestInv, TradesInv, Sound
<1> QED
    BY <1>1, TestStart, TestStep, PTL DEF Spec

(* A simulated trade ends at the first bar that touches its stop or its    *)
(* target, and the stop wins a bar that touches both.                      *)
THEOREM FirstTouchEnds == Spec => []ExitsAtFirstTouch
<1>1. TestInv => ExitsAtFirstTouch
    <2> SUFFICES ASSUME TestInv, NEW t \in DOMAIN trades
                 PROVE  LET trade == trades[t]
                            s == Decision(trade.opened - 1)
                            stopped == HitsStop(s, bars[trade.closed])
                            hit == HitsTarget(s, bars[trade.closed])
                        IN  /\ \A k \in trade.opened..(trade.closed - 1) :
                                    ~HitsStop(s, bars[k]) /\ ~HitsTarget(s, bars[k])
                            /\ trade.reason = "sl" <=> stopped
                            /\ trade.reason = "tp" <=> hit /\ ~stopped
                            /\ trade.reason = "forced_close" => trade.closed = Len(bars)
        BY DEF ExitsAtFirstTouch
    <2>1. Sound(trades[t])
        BY TradesAre
    <2> QED
        BY <2>1 DEF Sound, Touches, ExitReason
<1> QED
    BY <1>1, TestStart, TestStep, PTL DEF Spec

(* Every trade of a backtest is one the paper engine would have made: the  *)
(* two never decide differently on the same bars.                          *)
THEOREM BacktestsArePaper == Spec => []BacktestIsPaper
<1>1. TestInv => BacktestIsPaper
    <2> SUFFICES ASSUME TestInv, NEW t \in DOMAIN trades
                 PROVE  LET tick == ticks[trades[t].opened]
                        IN  /\ tick.signal # None /\ tick.signal.side = trades[t].side
                            /\ tick.fill # None => tick.fill.entry = trades[t].entry
        BY DEF BacktestIsPaper
    <2>1. Sound(trades[t]) /\ trades[t].opened \in 2..Len(bars) /\ Len(bars) = Len(ticks)
          /\ Len(bars) \in Nat
        BY TradesAre DEF Sound, TestInv, MarketInv, TradesInv
    <2>2. TickInv(trades[t].opened)
        BY <2>1 DEF TestInv, MarketInv
    <2>3. ticks[trades[t].opened].signal = Decision(trades[t].opened - 1)
        BY <2>1, <2>2 DEF TickInv
    <2> QED
        BY <2>1, <2>2, <2>3 DEF TickInv, Sound
<1> QED
    BY <1>1, TestStart, TestStep, PTL DEF Spec

-----------------------------------------------------------------------------
(* Types.  What the replay computes of bars of whole numbers is made of    *)
(* whole numbers: sums, means and smoothings of them, the signals of the   *)
(* strategies and the trades made of the signals.                          *)

(* The sum of a sequence is of the type of its elements, for a type with a *)
(* zero that is closed under addition.                                     *)
LEMMA TotalIs ==
    ASSUME NEW V \in SUBSET Int, 0 \in V, \A x, y \in V : x + y \in V,
           NEW n \in Nat, NEW s \in [1..n -> V]
    PROVE  Total(s) \in V
<1> DEFINE S == 1..n
           Pick(T) == CHOOSE x \in T : TRUE
           element == [T \in SUBSET S |-> Pick(T)]
           next == [p \in S \X V |-> s[p[1]] + p[2]]
           Sums(f) == f = [T \in SUBSET S |-> IF T = {} THEN 0 ELSE s[Pick(T)] + f[T \ {Pick(T)}]]
<1>1. IsFiniteSet(S) /\ DOMAIN s = S
    BY FS_Interval
<1>2. Takes(S, element)
    BY DEF Takes
<1>3. next \in [S \X V -> V]
    OBVIOUS
<1>4. PICK g \in [SUBSET S -> V] : FoldsBy(S, 0, element, next, g)
    <2> HIDE DEF S, element, next
    <2> QED
        BY <1>1, <1>2, <1>3, FoldExists
<1>5. Sums(g)
    <2>1. ASSUME NEW T \in SUBSET S
          PROVE  g[T] = IF T = {} THEN 0 ELSE s[Pick(T)] + g[T \ {Pick(T)}]
        <3>1. CASE T = {}
            BY <1>4, <3>1 DEF FoldsBy
        <3>2. CASE T # {}
            <4>1. element[T] = Pick(T) /\ element[T] \in T
                BY <1>2, <3>2 DEF Takes
            <4>2. Pick(T) \in S /\ T \ {Pick(T)} \in SUBSET S
                BY <4>1
            <4> HIDE DEF Pick, S
            <4>3. g[T \ {Pick(T)}] \in V
                BY <4>2
            <4>4. next[<<Pick(T), g[T \ {Pick(T)}]>>] = s[Pick(T)] + g[T \ {Pick(T)}]
                BY <4>2, <4>3
            <4> HIDE DEF element, next
            <4>5. g[T] = next[<<Pick(T), g[T \ {Pick(T)}]>>]
                BY <1>4, <3>2, <4>1 DEF FoldsBy
            <4> QED
                BY <3>2, <4>4, <4>5
        <3> QED
            BY <3>1, <3>2
    <2> HIDE DEF S, Pick
    <2> QED
        BY <1>4, <2>1
<1> DEFINE h == CHOOSE f : Sums(f)
<1>6. Sums(h)
    <2> HIDE DEF Sums
    <2> QED
        BY <1>5
<1>7. Total(s) = h[S]
    BY <1>1 DEF Total, FoldSeq, FoldFunction, FoldFunctionOnSet, MapThenFoldSet
<1> HIDE DEF h
<1> DEFINE D == {T \in SUBSET S : h[T] \notin V}
<1>8. ASSUME D # {}
      PROVE  FALSE
    <2>1. PICK T \in D : \A U \in D : U \subseteq T => U = T
        <3>1. D \in SUBSET SUBSET S
            OBVIOUS
        <3> HIDE DEF D, S
        <3> QED
            BY ONLY <1>1, <1>8, <3>1, Smallest
    <2>2. T \in SUBSET S /\ h[T] \notin V
        OBVIOUS
    <2>3. T # {}
        BY <1>6, <2>2
    <2>4. Pick(T) \in T
        BY <2>3
    <2>5. h[T \ {Pick(T)}] \in V
        BY <2>1, <2>2, <2>4
    <2>6. h[T] = s[Pick(T)] + h[T \ {Pick(T)}] /\ s[Pick(T)] \in V
        <3> HIDE DEF Pick
        <3> QED
            BY <1>6, <2>2, <2>3, <2>4
    <2>7. s[Pick(T)] + h[T \ {Pick(T)}] \in V
        <3> HIDE DEF Pick, D
        <3>1. \A x, y \in V : x + y \in V
            OBVIOUS
        <3> QED
            BY ONLY <2>5, <2>6, <3>1
    <2> QED
        BY <2>2, <2>6, <2>7
<1>9. S \in SUBSET S
    OBVIOUS
<1> HIDE DEF S
<1>10. h[S] \in V
    BY <1>8, <1>9
<1> QED
    BY <1>7, <1>10

(* The steps the indicators smooth with, by name.                          *)
StepOf(kind, n, prev, v) ==
    CASE kind = "wilder" -> (prev * (n - 1) + v) \div n
      [] kind = "ema" -> (2 * v + (n - 1) * prev) \div (n + 1)
      [] kind = "sum" -> prev - (prev \div n) + v

(* The equation a smoothed series solves.                                  *)
Solves(vs, first, seed, kind, n, s) ==
    s = [j \in DOMAIN vs |-> IF j < first THEN None
                             ELSE IF j = first THEN seed
                             ELSE StepOf(kind, n, s[j - 1], vs[j])]

(* It has a solution, whatever the samples are.                            *)
LEMMA SmoothExists ==
    ASSUME NEW N \in Nat, NEW vs, DOMAIN vs = 1..N, NEW first \in Nat \ {0},
           NEW seed, NEW kind, NEW n
    PROVE  \E s : Solves(vs, first, seed, kind, n, s)
<1> DEFINE Value(s, j) == IF j < first THEN None
                          ELSE IF j = first THEN seed
                          ELSE StepOf(kind, n, s[j - 1], vs[j])
           Upto(k, s) == s = [j \in 1..k |-> Value(s, j)]
           S == {k \in Nat : ~\E s : Upto(k, s)}
<1>1. S = {}
    <2> SUFFICES ASSUME S # {}
                 PROVE  FALSE
        OBVIOUS
    <2>1. PICK k \in S : \A j \in S : k <= j
        <3>1. S \in SUBSET Nat
            OBVIOUS
        <3> HIDE DEF S
        <3> QED
            BY <3>1, Least
    <2>2. k \in Nat /\ ~\E s : Upto(k, s)
        OBVIOUS
    <2> HIDE DEF Value
    <2>3. k # 0
        <3>1. Upto(0, <<>>)
            <4>1. 1..0 = {}
                OBVIOUS
            <4>2. [j \in {} |-> Value(<<>>, j)] = <<>>
                OBVIOUS
            <4> QED
                BY ONLY <4>1, <4>2
        <3> HIDE DEF Upto
        <3> QED
            BY <2>2, <3>1
    <2>4. k - 1 \in Nat /\ k - 1 \notin S
        <3>1. k \in Nat /\ k # 0
            BY <2>2, <2>3
        <3>2. \A j \in S : k <= j
            BY <2>1
        <3> HIDE DEF S
        <3> QED
            BY ONLY <3>1, <3>2
    <2>5. PICK s : Upto(k - 1, s)
        <3> HIDE DEF Upto
        <3> QED
            BY <2>4
    <2> DEFINE t == [j \in 1..k |-> IF j = k THEN Value(s, k) ELSE s[j]]
    <2>6. \A j \in 1..k : j # 1 => j - 1 \in 1..k /\ t[j - 1] = s[j - 1]
        BY <2>4
    <2>7. ASSUME NEW j \in 1..k
          PROVE  Value(t, j) = Value(s, j)
        BY <2>6 DEF Value
    <2>8. \A j \in 1..k : t[j] = Value(s, j)
        BY <2>4, <2>5
    <2>9. Upto(k, t)
        <3>1. t = [j \in 1..k |-> t[j]]
            OBVIOUS
        <3> HIDE DEF t
        <3> QED
            BY <2>7, <2>8, <3>1
    <2> HIDE DEF Upto
    <2> QED
        BY <2>2, <2>9
<1>2. PICK s : Upto(N, s)
    <2> HIDE DEF Upto
    <2> QED
        BY <1>1
<1> QED
    BY <1>2 DEF Solves

(* The one that is chosen.                                                 *)
Smoothed(vs, first, seed, kind, n) == CHOOSE s : Solves(vs, first, seed, kind, n, s)

(* It solves the recursion.                                                *)
LEMMA SmoothSolves ==
    ASSUME NEW N \in Nat, NEW vs, DOMAIN vs = 1..N, NEW first \in Nat \ {0},
           NEW seed, NEW kind, NEW n
    PROVE  Solves(vs, first, seed, kind, n, Smoothed(vs, first, seed, kind, n))
<1>1. \E s : Solves(vs, first, seed, kind, n, s)
    BY SmoothExists
<1> HIDE DEF Solves
<1> QED
    BY <1>1 DEF Smoothed

(* Two of them agree as far as their samples do.                           *)
LEMMA SmoothsAgree ==
    ASSUME NEW N \in Nat, NEW M \in 0..N, NEW vs, DOMAIN vs = 1..N, NEW ws, DOMAIN ws = 1..M,
           \A j \in 1..M : vs[j] = ws[j],
           NEW first \in Nat \ {0}, NEW seed, NEW kind, NEW n,
           NEW s, Solves(vs, first, seed, kind, n, s),
           NEW t, Solves(ws, first, seed, kind, n, t)
    PROVE  \A j \in 1..M : s[j] = t[j]
<1> DEFINE S == {j \in 1..M : s[j] # t[j]}
<1> SUFFICES ASSUME S # {}
             PROVE  FALSE
    OBVIOUS
<1>1. PICK j \in S : \A k \in S : j <= k
    <2>1. S \in SUBSET Nat
        OBVIOUS
    <2> HIDE DEF S
    <2> QED
        BY <2>1, Least
<1>2. j \in 1..M /\ j \in 1..N /\ s[j] # t[j]
    OBVIOUS
<1>3. /\ s[j] = IF j < first THEN None ELSE IF j = first THEN seed
                ELSE StepOf(kind, n, s[j - 1], vs[j])
      /\ t[j] = IF j < first THEN None ELSE IF j = first THEN seed
                ELSE StepOf(kind, n, t[j - 1], ws[j])
    BY <1>2 DEF Solves
<1>4. j > first
    BY <1>2, <1>3
<1>5. j - 1 \in 1..M /\ j - 1 \notin S
    BY <1>1, <1>2, <1>4
<1>6. s[j - 1] = t[j - 1] /\ vs[j] = ws[j]
    BY <1>2, <1>5
<1> QED
    BY <1>2, <1>3, <1>4, <1>6

(* A Wilder mean of integers is None in the warmup and then integers.      *)
LEMMA WilderIs ==
    ASSUME NEW N \in Nat, NEW vs \in [1..N -> Int], NEW first \in Nat \ {0},
           NEW seed \in Int, NEW n \in Nat \ {0}
    PROVE  \A j \in 1..N : WilderMean(vs, first, seed, n)[j] = None
                           \/ WilderMean(vs, first, seed, n)[j] \in Int
<1> DEFINE w == WilderMean(vs, first, seed, n)
<1>1. \A v \in Int, x \in Int : (v * (n - 1) + x) \div n \in Int
    <2> SUFFICES ASSUME NEW v \in Int, NEW x \in Int
                 PROVE  (v * (n - 1) + x) \div n \in Int
        OBVIOUS
    <2> DEFINE y == v * (n - 1) + x
    <2>1. y \in Int
        OBVIOUS
    <2> HIDE DEF y
    <2>2. y \div n \in Int
        BY <2>1
    <2> QED
        BY <2>2 DEF y
<1>2. Solves(vs, first, seed, "wilder", n, w)
    <2>1. w = Smoothed(vs, first, seed, "wilder", n)
        BY DEF WilderMean, Smooth, Smoothed, Solves, StepOf
    <2> HIDE DEF w
    <2> QED
        BY <2>1, SmoothSolves
<1> HIDE DEF w
<1> DEFINE D == {j \in 1..N : ~(w[j] = None \/ w[j] \in Int) \/ (j >= first /\ w[j] \notin Int)}
<1>3. ASSUME D # {}
      PROVE  FALSE
    <2>1. PICK j \in D : \A k \in D : j <= k
        <3>1. D \in SUBSET Nat
            OBVIOUS
        <3> HIDE DEF D
        <3> QED
            BY <1>3, <3>1, Least
    <2>2. w[j] = IF j < first THEN None
                 ELSE IF j = first THEN seed
                 ELSE (w[j - 1] * (n - 1) + vs[j]) \div n
        BY <1>2 DEF Solves, StepOf
    <2>3. j > first /\ j \in 1..N
        BY <2>2
    <2>4. j - 1 \notin D /\ j - 1 \in 1..N /\ j - 1 >= first
        BY <2>1, <2>3
    <2>5. w[j - 1] \in Int
        BY <2>4
    <2>6. w[j] \in Int
        <3>1. vs[j] \in Int
            BY <2>3
        <3> QED
            BY <1>1, <2>2, <2>3, <2>5, <3>1
    <2> QED
        BY <2>6
<1>4. \A j \in 1..N : w[j] = None \/ w[j] \in Int
    BY <1>3
<1> QED
    BY <1>4 DEF w

(* The bars, one by one.                                                   *)
LEMMA BarsAre ==
    ASSUME NEW ks \in Seq(Bar)
    PROVE  /\ Len(ks) \in Nat /\ DOMAIN ks = 1..Len(ks)
           /\ \A j \in 1..Len(ks) : /\ ks[j].open \in Int /\ ks[j].high \in Int
                                    /\ ks[j].low \in Int /\ ks[j].close \in Int
                                    /\ ks[j].volume \in Nat
<1>1. Len(ks) \in Nat /\ DOMAIN ks = 1..Len(ks) /\ \A j \in 1..Len(ks) : ks[j] \in Bar
    OBVIOUS
<1> QED
    BY <1>1 DEF Bar

(* The mean of some integers is one.                                       *)
LEMMA MeanIsInt ==
    ASSUME NEW n \in Nat \ {0}, NEW s \in [1..n -> Int]
    PROVE  Mean(s) \in Int
<1>1. Total(s) \in Int
    <2>1. Int \in SUBSET Int /\ 0 \in Int /\ \A x, y \in Int : x + y \in Int
        OBVIOUS
    <2> QED
        BY <2>1, TotalIs
<1>2. Len(s) = n
    OBVIOUS
<1> QED
    BY <1>1, <1>2 DEF Mean

(* Two or three things are finitely many.                                  *)
LEMMA FewAreFinite ==
    ASSUME NEW x, NEW y, NEW z
    PROVE  IsFiniteSet({x, y}) /\ IsFiniteSet({x, y, z})
<1>1. IsFiniteSet({x})
    BY FS_Singleton
<1>2. IsFiniteSet({x} \union {y})
    BY <1>1, FS_AddElement
<1>3. IsFiniteSet(({x} \union {y}) \union {z})
    BY <1>2, FS_AddElement
<1>4. {x, y} = {x} \union {y} /\ {x, y, z} = ({x} \union {y}) \union {z}
    OBVIOUS
<1> QED
    BY <1>2, <1>3, <1>4

(* The true range of a bar, taken from the close before it.                *)
LEMMA TrueRangeIs ==
    ASSUME NEW ks \in Seq(Bar)
    PROVE  TrueRange(ks) \in [1..Len(ks) -> Int]
<1>1. /\ Len(ks) \in Nat /\ DOMAIN ks = 1..Len(ks)
      /\ \A j \in 1..Len(ks) : ks[j].high \in Int /\ ks[j].low \in Int /\ ks[j].close \in Int
    BY BarsAre
<1>2. ASSUME NEW x \in Int, NEW y \in Int, NEW z \in Int
      PROVE  Max({x, y, z}) \in Int
    <2> DEFINE S == {x, y, z}
    <2>1. IsFiniteSet(S) /\ S \subseteq Int /\ S # {}
        BY FewAreFinite
    <2> HIDE DEF S
    <2>2. Max(S) \in S
        BY <2>1, MaxIs
    <2>3. Max(S) \in Int
        BY <2>1, <2>2
    <2> QED
        BY <2>3 DEF S
<1>3. \A x \in Int, y \in Int : Abs(x - y) \in Int
    BY DEF Abs
<1>4. ASSUME NEW j \in 1..Len(ks)
      PROVE  (IF j = 1 THEN ks[1].high - ks[1].low
              ELSE Max({ks[j].high - ks[j].low, Abs(ks[j].high - ks[j - 1].close),
                        Abs(ks[j].low - ks[j - 1].close)})) \in Int
    <2>1. CASE j = 1
        BY <1>1, <2>1
    <2>2. CASE j # 1
        <3>1. j - 1 \in 1..Len(ks)
            BY <1>1, <2>2
        <3>2. /\ ks[j].high - ks[j].low \in Int /\ Abs(ks[j].high - ks[j - 1].close) \in Int
              /\ Abs(ks[j].low - ks[j - 1].close) \in Int
            BY <1>1, <1>3, <3>1
        <3> QED
            BY <1>2, <2>2, <3>2
    <2> QED
        BY <2>1, <2>2
<1> QED
    BY <1>1, <1>4 DEF TrueRange

(* The average true range of a bar is a whole number, once there is one.   *)
LEMMA AtrIs ==
    ASSUME NEW ks \in Seq(Bar), NEW period \in Nat \ {0}, NEW j \in 1..Len(ks)
    PROVE  Atr(ks, period)[j] = None \/ Atr(ks, period)[j] \in Int
<1> DEFINE tr == TrueRange(ks)
           n == Len(ks)
<1>1. n \in Nat /\ DOMAIN ks = 1..n /\ tr \in [1..n -> Int]
    BY BarsAre, TrueRangeIs
<1>2. CASE n < period
    BY <1>1, <1>2 DEF Atr
<1>3. CASE n >= period
    <2> HIDE DEF tr
    <2>1. SubSeq(tr, 1, period) \in [1..period -> Int]
        <3>1. tr \in Seq(Int) /\ Len(tr) = n
            BY <1>1
        <3>2. SubSeq(tr, 1, period) \in Seq(Int) /\ Len(SubSeq(tr, 1, period)) = period
            BY <1>1, <1>3, <3>1, SubSeqProperties
        <3> QED
            BY <3>2, LenProperties
    <2> DEFINE seed == Mean(SubSeq(tr, 1, period))
    <2>2. seed \in Int
        BY <2>1, MeanIsInt
    <2> HIDE DEF seed, n
    <2>3. \A k \in 1..n : WilderMean(tr, period, seed, period)[k] = None
                          \/ WilderMean(tr, period, seed, period)[k] \in Int
        BY <1>1, <2>2, WilderIs
    <2>4. Atr(ks, period) = WilderMean(tr, period, seed, period)
        BY <1>1, <1>3 DEF Atr, tr, seed, n
    <2> QED
        BY <2>3, <2>4 DEF n
<1> QED
    BY <1>1, <1>2, <1>3

(* So is the volume weighted average price, once anything was traded.      *)
LEMMA VwapIs ==
    ASSUME NEW ks \in Seq(Bar), NEW j \in 1..Len(ks)
    PROVE  Vwap(ks)[j] = None \/ Vwap(ks)[j] \in Int
<1> DEFINE volumes == [k \in 1..j |-> ks[k].volume]
           amounts == [k \in 1..j |-> (ks[k].high + ks[k].low + ks[k].close) * ks[k].volume]
<1>1. /\ Len(ks) \in Nat /\ DOMAIN ks = 1..Len(ks) /\ j \in Nat
      /\ \A k \in 1..j : /\ ks[k].high \in Int /\ ks[k].low \in Int /\ ks[k].close \in Int
                         /\ ks[k].volume \in Nat
    BY BarsAre
<1>2. volumes \in [1..j -> Nat] /\ amounts \in [1..j -> Int]
    BY <1>1
<1>3. Vwap(ks)[j] = IF Total(volumes) = 0 THEN None
                    ELSE Total(amounts) \div (3 * Total(volumes))
    BY <1>1 DEF Vwap
<1> HIDE DEF volumes, amounts
<1>4. Total(volumes) \in Nat /\ Total(amounts) \in Int
    <2>1. Nat \in SUBSET Int /\ 0 \in Nat /\ \A x, y \in Nat : x + y \in Nat
        OBVIOUS
    <2>2. Int \in SUBSET Int /\ 0 \in Int /\ \A x, y \in Int : x + y \in Int
        OBVIOUS
    <2>3. Total(volumes) \in Nat
        BY <1>1, <1>2, <2>1, TotalIs
    <2>4. Total(amounts) \in Int
        BY <1>1, <1>2, <2>2, TotalIs
    <2> QED
        BY <2>3, <2>4
<1> QED
    BY <1>3, <1>4

(* Whatever a strategy answers is nothing or a signal.                     *)
Answers == SignalType \union {None}

(* A signal of whole numbers is one, whatever side it is on.               *)
LEMMA SignalIs ==
    ASSUME NEW side \in Sides, NEW entry \in Int, NEW sl \in Int, NEW tp \in Int
    PROVE  Signal(side, entry, sl, tp) \in Answers
BY DEF Signal, Answers, SignalType

(* What the trend strategy answers.                                        *)
LEMMA TrendAnswers ==
    ASSUME NEW ks \in Seq(Bar), Len(ks) > 0, NEW fast, NEW slow, NEW adx,
           NEW atr, atr = None \/ atr \in Int
    PROVE  TrendSignal(ks, fast, slow, adx, atr) \in Answers
<1>1. ks[Len(ks)].close \in Int
    BY BarsAre
<1>2. Trend.stopMult \in Nat /\ Trend.tpMult \in Nat
    BY StrategyAssumption DEF TrendParams
<1>3. ASSUME atr \in Int, NEW side \in {"long", "short"}
      PROVE  BuildTrend(side, ks[Len(ks)].close, atr) \in Answers
    <2>1. Trend.stopMult * atr \in Int /\ Trend.tpMult * atr \in Int
        BY <1>2, <1>3
    <2> DEFINE stop == Trend.stopMult * atr
               target == Trend.tpMult * atr
               close == ks[Len(ks)].close
    <2>2. BuildTrend(side, close, atr) =
            IF side = "long" THEN Signal(side, close, close - stop, close + target)
            ELSE Signal(side, close, close + stop, close - target)
        BY DEF BuildTrend
    <2>3. close \in Int /\ stop \in Int /\ target \in Int
        BY <1>1, <2>1
    <2> HIDE DEF close, stop, target
    <2>4. /\ close - stop \in Int /\ close + target \in Int /\ close + stop \in Int
          /\ close - target \in Int /\ side \in Sides
        BY <2>3 DEF Sides
    <2> QED
        BY <2>2, <2>3, <2>4, SignalIs DEF close
<1>4. atr # None => atr \in Int
    OBVIOUS
<1>5. None \in Answers
    BY DEF Answers
<1>6. TrendSignal(ks, fast, slow, adx, atr) # None =>
        /\ atr # None
        /\ \E side \in {"long", "short"} :
            TrendSignal(ks, fast, slow, adx, atr) = BuildTrend(side, ks[Len(ks)].close, atr)
    BY DEF TrendSignal
<1> QED
    BY <1>3, <1>4, <1>5, <1>6

(* What the mean reversion strategy answers.                               *)
LEMMA MeanRevAnswers ==
    ASSUME NEW n, NEW close \in Int, NEW adx, NEW rsi, NEW vwap, vwap = None \/ vwap \in Int,
           NEW atr, atr = None \/ atr \in Int
    PROVE  MeanRevSignal(n, close, adx, rsi, vwap, atr) \in Answers
<1> DEFINE stop == (MeanRev.stopMult[1] * atr) \div MeanRev.stopMult[2]
           answer == MeanRevSignal(n, close, adx, rsi, vwap, atr)
<1>1. MeanRev.stopMult[1] \in Nat /\ MeanRev.stopMult[2] \in Nat \ {0}
    BY StrategyAssumption DEF MeanRevParams
<1>2. ASSUME atr \in Int
      PROVE  stop \in Int
    <2> DEFINE y == MeanRev.stopMult[1] * atr
    <2>1. y \in Int
        BY <1>1, <1>2
    <2> HIDE DEF y
    <2>2. y \div MeanRev.stopMult[2] \in Int
        BY <1>1, <2>1
    <2> QED
        BY <2>2 DEF y
<1>3. answer # None =>
        /\ atr # None /\ vwap # None
        /\ \/ answer = Signal("long", close, close - stop, vwap)
           \/ answer = Signal("short", close, close + stop, vwap)
    BY DEF MeanRevSignal
<1> HIDE DEF stop, answer
<1>4. ASSUME answer # None
      PROVE  answer \in Answers
    <2>1. stop \in Int /\ vwap \in Int
        BY <1>2, <1>3, <1>4
    <2>2. close - stop \in Int /\ close + stop \in Int /\ "long" \in Sides /\ "short" \in Sides
        BY <2>1 DEF Sides
    <2>3. /\ Signal("long", close, close - stop, vwap) \in Answers
          /\ Signal("short", close, close + stop, vwap) \in Answers
        BY <2>1, <2>2, SignalIs
    <2> QED
        BY <1>3, <1>4, <2>3
<1>5. answer \in Answers
    BY <1>4 DEF Answers
<1> QED
    BY <1>5 DEF answer

(* What the fair value gap strategy answers: the gap is one of finitely    *)
(* many, and its zone and its order block are made of the bars.            *)
LEMMA FvgObAnswers ==
    ASSUME NEW ks \in Seq(Bar), Len(ks) > 0
    PROVE  FvgOb(ks) \in Answers
<1> DEFINE n == Len(ks)
           first == Max({1, n - Gap.lookback - 2})
           bulls == {j \in first..(n - 2) : BullishGap(ks, j)}
           bears == {j \in first..(n - 2) : BearishGap(ks, j)}
           bull == Max(bulls)
           bear == Max(bears)
           close == ks[n].close
           high == Max({ks[j].high : j \in bull..(bull + 2)})
           low == Min({ks[j].low : j \in bear..(bear + 2)})
           under == (ks[bull].high * 999) \div 1000
           over == (ks[bear].low * 1001) \div 1000
<1>1. n \in Nat /\ close \in Int
      /\ \A j \in 1..n : ks[j].high \in Int /\ ks[j].low \in Int
    BY BarsAre
<1>2. first \in Nat \ {0}
    <2> DEFINE S == {1, n - Gap.lookback - 2}
    <2>1. Gap.lookback \in Nat
        BY StrategyAssumption DEF GapParams
    <2>2. S \subseteq Int /\ S # {} /\ 1 \in S
        BY <1>1, <2>1
    <2>3. IsFiniteSet(S)
        BY FewAreFinite
    <2> HIDE DEF S
    <2>4. Max(S) \in S /\ \A x \in S : x <= Max(S)
        BY <2>2, <2>3, MaxIs
    <2>5. Max(S) \in Int /\ 1 <= Max(S)
        BY <2>2, <2>4
    <2> QED
        BY <2>5 DEF S
<1> HIDE DEF n, first
<1>3. ASSUME NEW gaps, gaps \subseteq first..(n - 2), gaps # {}
      PROVE  Max(gaps) \in 1..n /\ Max(gaps) + 1 \in 1..n /\ Max(gaps) + 2 \in 1..n
    <2>1. IsFiniteSet(gaps) /\ gaps \subseteq Int
        <3>1. IsFiniteSet(first..(n - 2))
            BY <1>1, <1>2, FS_Interval
        <3>2. IsFiniteSet(gaps)
            BY <1>3, <3>1, FS_Subset
        <3> QED
            BY <1>3, <3>2
    <2>2. Max(gaps) \in gaps
        BY <1>3, <2>1, MaxIs
    <2>3. Max(gaps) \in first..(n - 2)
        BY <1>3, <2>2
    <2> QED
        BY <1>1, <1>2, <2>3
<1>4. ASSUME NEW j \in 1..n, j + 1 \in 1..n, j + 2 \in 1..n
      PROVE  /\ Max({ks[k].high : k \in j..(j + 2)}) \in Int
             /\ Min({ks[k].low : k \in j..(j + 2)}) \in Int
    <2> DEFINE places == j..(j + 2)
               highs == [k \in places |-> ks[k].high]
               lows == [k \in places |-> ks[k].low]
               H == {highs[k] : k \in places}
               L == {lows[k] : k \in places}
    <2>1. \A k \in places : k \in 1..n
        BY <1>1, <1>4
    <2>2. IsFiniteSet(places) /\ j \in places
        <3>1. j \in Int /\ j + 2 \in Int /\ j \in places
            BY <1>1, <1>4
        <3> QED
            BY <3>1, FS_Interval
    <2>3. H \subseteq Int /\ L \subseteq Int /\ H # {} /\ L # {}
        <3>1. \A k \in places : highs[k] \in Int /\ lows[k] \in Int
            BY <1>1, <2>1
        <3> HIDE DEF places, highs, lows
        <3> QED
            BY <2>2, <3>1
    <2>4. H = {ks[k].high : k \in places} /\ L = {ks[k].low : k \in places}
        OBVIOUS
    <2>5. IsFiniteSet(H) /\ IsFiniteSet(L)
        <3> HIDE DEF places, highs, lows
        <3> QED
            BY <2>2, Image
    <2> HIDE DEF H, L
    <2>6. Max(H) \in Int /\ Min(L) \in Int
        BY <2>3, <2>5, MaxIs, MinIs
    <2> QED
        BY <2>4, <2>6
<1>5. ASSUME bulls # {}
      PROVE  under \in Int /\ high \in Int
    <2>1. bull \in 1..n /\ bull + 1 \in 1..n /\ bull + 2 \in 1..n
        <3>1. bulls \subseteq first..(n - 2)
            OBVIOUS
        <3> HIDE DEF bulls
        <3> QED
            BY <1>3, <1>5, <3>1
    <2> HIDE DEF bull
    <2>2. high \in Int
        BY <1>4, <2>1
    <2>3. ks[bull].high \in Int
        BY <1>1, <2>1
    <2> QED
        BY <2>2, <2>3
<1>6. ASSUME bears # {}
      PROVE  over \in Int /\ low \in Int
    <2>1. bear \in 1..n /\ bear + 1 \in 1..n /\ bear + 2 \in 1..n
        <3>1. bears \subseteq first..(n - 2)
            OBVIOUS
        <3> HIDE DEF bears
        <3> QED
            BY <1>3, <1>6, <3>1
    <2> HIDE DEF bear
    <2>2. low \in Int
        BY <1>4, <2>1
    <2>3. ks[bear].low \in Int
        BY <1>1, <2>1
    <2> QED
        BY <2>2, <2>3
<1>7. \/ FvgOb(ks) = None
      \/ bulls # {} /\ FvgOb(ks) = Signal("long", close, under, high)
      \/ bears # {} /\ FvgOb(ks) = Signal("short", close, over, low)
    <2> DEFINE long == /\ bulls # {}
                       /\ ks[n].low <= ks[bull + 2].low /\ close > ks[bull].high
                       /\ high > close /\ close > under
               short == /\ bears # {}
                        /\ ks[n].high >= ks[bear + 2].high /\ close < ks[bear].low
                        /\ over > close /\ close > low
    <2>1. FvgOb(ks) = IF n < Gap.minBars THEN None
                      ELSE IF long THEN Signal("long", close, under, high)
                      ELSE IF short THEN Signal("short", close, over, low)
                      ELSE None
        BY DEF FvgOb, n, first
    <2>2. long => bulls # {}
        OBVIOUS
    <2>3. short => bears # {}
        OBVIOUS
    <2> HIDE DEF bulls, bears, bull, bear, close, high, low, under, over, long, short
    <2> QED
        BY <2>1, <2>2, <2>3
<1> HIDE DEF bulls, bears, bull, bear, close, high, low, under, over
<1>8. "long" \in Sides /\ "short" \in Sides /\ None \in Answers
    BY DEF Sides, Answers
<1> QED
    BY <1>1, <1>5, <1>6, <1>7, <1>8, SignalIs

(* What any strategy answers, on any bars.                                 *)
LEMMA EvaluateAnswers ==
    ASSUME NEW k \in StrategyKeys, NEW ks \in Seq(Bar), Len(ks) > 0
    PROVE  Evaluate(k, ks) \in Answers
<1> DEFINE n == Len(ks)
<1>1. n \in 1..n /\ ks[n].close \in Int
    BY BarsAre
<1>2. Trend.atr \in Nat \ {0} /\ MeanRev.atr \in Nat \ {0}
    BY StrategyAssumption DEF TrendParams, MeanRevParams
<1>3. \A p \in Nat \ {0} : Atr(ks, p)[n] = None \/ Atr(ks, p)[n] \in Int
    BY <1>1, AtrIs
<1>4. Vwap(ks)[n] = None \/ Vwap(ks)[n] \in Int
    BY <1>1, VwapIs
<1>5. EmaAdxTrend(ks) \in Answers
    BY <1>2, <1>3, TrendAnswers DEF EmaAdxTrend
<1>6. VwapRsiMeanRev(ks) \in Answers
    BY <1>1, <1>2, <1>3, <1>4, MeanRevAnswers DEF VwapRsiMeanRev
<1>7. FvgOb(ks) \in Answers
    BY FvgObAnswers
<1> QED
    BY <1>5, <1>6, <1>7 DEF Evaluate, StrategyKeys

(* The funding intervals of a trade are counted from none.                 *)
LEMMA CyclesAreNat ==
    ASSUME NEW held \in Nat
    PROVE  FundingCycles(held) \in Nat
<1>1. /\ FillModel.interval \in Nat \ {0}
      /\ FillModel.barHours[1] \in Nat \ {0} /\ FillModel.barHours[2] \in Nat \ {0}
    BY FillModelAssumption DEF FillModelType
<1> DEFINE hours == held * FillModel.barHours[1]
           interval == FillModel.interval * FillModel.barHours[2]
           begun == (hours + interval - 1) \div interval
           S == {1, begun}
<1>2. hours \in Int /\ interval \in Nat \ {0}
    <2>1. \A x \in Nat \ {0}, y \in Nat \ {0} : x * y \in Nat \ {0}
        BY SMTT(30)
    <2> QED
        BY <1>1, <2>1
<1> HIDE DEF hours, interval
<1>3. begun \in Int
    BY <1>2
<1> HIDE DEF begun
<1>4. S \subseteq Int /\ 1 \in S
    BY <1>3
<1>5. IsFiniteSet(S)
    BY FewAreFinite
<1>6. FundingCycles(held) = Max(S)
    BY DEF FundingCycles, begun, hours, interval
<1> HIDE DEF S
<1>7. Max(S) \in S /\ 1 <= Max(S)
    BY <1>4, <1>5, MaxIs
<1>8. Max(S) \in Int
    BY <1>4, <1>7
<1> QED
    BY <1>6, <1>7, <1>8

(* Funding is a whole number, of either sign.                              *)
LEMMA FundingIsInt ==
    ASSUME NEW notional \in Int, NEW held \in Nat
    PROVE  FundingPaid(notional, held) \in Int
<1>1. FillModel.funding \in Int /\ FundingCycles(held) \in Int
    BY CyclesAreNat, FillModelAssumption DEF FillModelType
<1> DEFINE y == notional * FillModel.funding * FundingCycles(held)
<1>2. y \in Int
    <2>1. notional * FillModel.funding \in Int
        BY <1>1
    <2> QED
        BY <1>1, <2>1
<1> HIDE DEF y
<1>3. y \div BPS \in Int
    BY <1>2 DEF BPS
<1> QED
    BY <1>3 DEF FundingPaid, y

(* The size of a signal is a whole number.                                 *)
LEMMA QuantityIsInt ==
    ASSUME NEW s \in SignalType
    PROVE  Quantity(s) \in Int
<1> DEFINE distance == Abs(s.entry - s.sl)
           money == ((Equity * RiskBps) \div BPS) * Lot
<1>1. distance \in Int /\ money \in Int
    <2>1. s.entry \in Int /\ s.sl \in Int /\ Equity * RiskBps \in Int
        BY ReplayAssumption DEF SignalType
    <2> QED
        BY <2>1 DEF Abs, BPS, Lot
<1> HIDE DEF distance, money
<1>2. distance > 0 => money \div distance \in Int
    BY <1>1
<1>3. Quantity(s) = IF distance <= 0 THEN 0 ELSE money \div distance
    BY DEF Quantity, distance, money
<1> QED
    BY <1>1, <1>2, <1>3

(* What is decided on the bars seen so far.                                *)
LEMMA DecisionIs ==
    ASSUME key \in StrategyKeys, bars \in Seq(Bar), NEW n \in 1..Len(bars)
    PROVE  Decision(n) \in Answers
<1>1. Seen(n) \in Seq(Bar) /\ Len(Seen(n)) = n
    <2>1. Len(bars) \in Nat /\ \A j \in 1..n : bars[j] \in Bar
        OBVIOUS
    <2> QED
        BY <2>1, SubSeqProperties DEF Seen
<1> QED
    BY <1>1, EvaluateAnswers DEF Decision

(* A trade of a signal on some bars is of its type.                        *)
LEMMA TradeIs ==
    ASSUME bars \in Seq(Bar), NEW s \in SignalType, NEW opened \in 1..Len(bars),
           NEW closed \in opened..Len(bars)
    PROVE  Trade(s, opened, closed) \in TradeType
<1>1. /\ Len(bars) \in Nat /\ opened \in Nat /\ closed \in 1..Len(bars) /\ closed \in Nat
      /\ closed - opened + 1 \in Nat
    OBVIOUS
<1>2. bars[opened].open \in Int /\ bars[closed].close \in Int
    BY <1>1, BarsAre
<1>3. s.side \in Sides /\ s.sl \in Int /\ s.tp \in Int
    BY DEF SignalType
<1> DEFINE qty == Quantity(s)
           entry == EntryPrice(s.side, bars[opened].open)
           reference == ExitReference(s, bars[closed])
           exit == ExitPrice(s.side, reference)
           fees == EntryFee(entry, qty) + ExitFee(exit, qty)
           funding == FundingPaid(Notional(entry, qty), closed - opened + 1)
<1>4. qty \in Int /\ reference \in Int
    BY <1>2, <1>3, QuantityIsInt DEF ExitReference
<1> HIDE DEF qty, reference
<1>5. entry \in Int /\ exit \in Int
    BY <1>2, <1>4, CostsAreInt
<1> HIDE DEF entry, exit
<1>6. fees \in Int /\ Notional(entry, qty) \in Int
    <2>1. /\ EntryFee(entry, qty) \in Int /\ Notional(entry, qty) \in Int
          /\ ExitFee(exit, qty) \in Int
        BY <1>4, <1>5, CostsAreInt
    <2> QED
        BY <2>1
<1>7. funding \in Int
    BY <1>1, <1>6, FundingIsInt
<1>8. ExitReason(s, bars[closed]) \in {"sl", "tp", "forced_close"}
    BY DEF ExitReason
<1>9. Trade(s, opened, closed) =
        [side |-> s.side, qty |-> qty, entry |-> entry, exit |-> exit, fees |-> fees,
         funding |-> funding, opened |-> opened, closed |-> closed,
         reason |-> ExitReason(s, bars[closed])]
    BY DEF Trade, qty, entry, reference, exit, fees, funding
<1> HIDE DEF fees, funding
<1> QED
    BY <1>1, <1>3, <1>4, <1>5, <1>6, <1>7, <1>8, <1>9 DEF TradeType

(* The gain of a position that is marked, and the position after it.       *)
LEMMA MarkedIs ==
    ASSUME NEW p \in PositionType, NEW mark \in Int
    PROVE  LET net == NetUnrealized(p, mark)
           IN  net \in Int /\ AdvanceFloor(p, net) \in PositionType
<1> DEFINE net == NetUnrealized(p, mark)
           peak == Larger(p.peak, net)
           floor == IF p.floor = None THEN FloorOf(peak) ELSE Larger(p.floor, FloorOf(peak))
<1>1. /\ p.side \in Sides /\ p.qty \in Int /\ p.entry \in Int /\ p.peak \in Int
      /\ p.floor = None \/ p.floor \in Int
    BY DEF PositionType
<1>2. net \in Int
    <2> DEFINE move == IF p.side = "long" THEN mark - p.entry ELSE p.entry - mark
    <2>1. ExitFee(mark, p.qty) \in Int /\ move \in Int
        <3>1. ExitFee(mark, p.qty) \in Int
            BY <1>1, CostsAreInt
        <3> QED
            BY <1>1, <3>1
    <2>2. net = (move * p.qty) \div Lot - ExitFee(mark, p.qty)
        BY DEF NetUnrealized
    <2> HIDE DEF move, net
    <2>3. move * p.qty \in Int
        BY <1>1, <2>1
    <2> QED
        BY <2>1, <2>2, <2>3 DEF Lot
<1> HIDE DEF net
<1>3. peak \in Int
    BY <1>1, <1>2 DEF Larger
<1> HIDE DEF peak
<1>4. FloorOf(peak) \in Int
    <2> DEFINE y == peak * (100 - Giveback)
    <2>1. y \in Int
        BY <1>3, GivebackAssumption
    <2> HIDE DEF y
    <2>2. y \div 100 \in Int
        BY <2>1
    <2> QED
        BY <2>2 DEF FloorOf, y
<1>5. floor \in Int
    BY <1>1, <1>4 DEF Larger
<1> HIDE DEF floor
<1>6. AdvanceFloor(p, net) =
        [side |-> p.side, qty |-> p.qty, entry |-> p.entry, peak |-> peak, floor |-> floor]
    BY DEF AdvanceFloor, peak, floor
<1> QED
    BY <1>1, <1>2, <1>3, <1>5, <1>6 DEF PositionType, net

TypesInv == TestInv /\ TypeOK

(* The variables keep their types, step by step.                           *)
LEMMA TypesStep == TypesInv /\ [Next]_vars => TypesInv'
<1> SUFFICES ASSUME TypesInv, [Next]_vars
             PROVE  TypesInv'
    OBVIOUS
<1>1. TestInv' /\ TestInv /\ MarketInv /\ MarketInv'
    BY TestStep DEF TypesInv, TestInv
<1>2. /\ key \in StrategyKeys /\ bars \in Seq(Bar) /\ ticks \in Seq(TickType)
      /\ phase \in {"market", "paper", "mark", "test"}
      /\ position \in PositionType \union {None}
      /\ exited \in [last : PositionType, net : Int] \union {None}
      /\ i \in Nat \ {0} /\ trades \in Seq(TradeType)
      /\ report.bars \in Nat /\ report.trades \in Seq(TradeType)
      /\ Len(bars) \in Nat
    BY DEF TypesInv, TypeOK
<1>3. /\ bars' \in Seq(Bar) /\ i' \in Nat \ {0}
      /\ phase' \in {"market", "paper", "mark", "test"}
    BY <1>1 DEF TestInv, MarketInv, TradesInv
<1>4. key' = key
    BY DEF Next, Arrive, PaperTick, Mark, TestSkip, TestTrade, TestDone, vars
<1>5. ticks' \in Seq(TickType)
    <2>1. CASE PaperTick
        <3> DEFINE n == Len(bars) - 1
                   signal == IF n = 0 THEN None ELSE Evaluate(key, Seen(n))
                   fill == [side |-> signal.side, qty |-> PaperQty,
                            entry |-> EntryPrice(signal.side, bars[n + 1].open)]
        <3>1. \/ signal = None /\ ticks' = Append(ticks, Tick(None, "no_signal", None))
              \/ signal # None /\ ticks' = Append(ticks, Tick(signal, "rejected", None))
              \/ signal # None /\ ticks' = Append(ticks, Tick(signal, "approved", fill))
            BY <2>1 DEF PaperTick
        <3>2. phase = "paper" /\ Len(bars) > 0
            BY <1>1, <2>1 DEF PaperTick, MarketInv
        <3>3. n \in Nat /\ n + 1 \in 1..Len(bars) /\ (n > 0 => n \in 1..Len(bars))
            BY <1>2, <3>2
        <3>4. signal \in Answers
            <4>1. CASE n = 0
                BY <4>1 DEF Answers
            <4>2. CASE n > 0
                <5>1. Decision(n) \in Answers
                    BY <1>2, <3>3, <4>2, DecisionIs
                <5>2. signal = Decision(n)
                    <6> HIDE DEF n
                    <6>1. n # 0
                        BY <3>3, <4>2
                    <6> QED
                        BY <6>1 DEF Decision
                <5> QED
                    BY <5>1, <5>2
            <4> HIDE DEF n
            <4> QED
                BY <3>3, <4>1, <4>2
        <3>5. signal # None => signal \in SignalType /\ signal.side \in Sides
            <4> HIDE DEF signal
            <4> QED
                BY <3>4 DEF Answers, SignalType
        <3>6. bars[n + 1].open \in Int
            BY <1>2, <3>3, BarsAre
        <3> HIDE DEF n, signal
        <3>7. EntryPrice(signal.side, bars[n + 1].open) \in Int
            BY <3>6, CostsAreInt, ReplayAssumption
        <3>8. signal # None =>
                fill \in [side : Sides, qty : Nat, entry : Int]
            BY <3>5, <3>7, ReplayAssumption
        <3> HIDE DEF fill
        <3>9. /\ Tick(None, "no_signal", None) \in TickType
              /\ signal # None => /\ Tick(signal, "rejected", None) \in TickType
                                  /\ Tick(signal, "approved", fill) \in TickType
            BY <3>5, <3>8 DEF Tick, TickType
        <3>10. \E tick \in TickType : ticks' = Append(ticks, tick)
            BY <3>1, <3>9
        <3> QED
            BY <1>2, <3>10
    <2>2. PaperTick \/ UNCHANGED ticks
        BY DEF Next, Arrive, Mark, TestSkip, TestTrade, TestDone, vars, paperVars
    <2> QED
        BY <1>2, <2>1, <2>2
<1>6. /\ position' \in PositionType \union {None}
      /\ exited' \in [last : PositionType, net : Int] \union {None}
    <2>1. CASE Mark
        <3> DEFINE net == NetUnrealized(Opened, bars[Len(bars)].close)
                   p == AdvanceFloor(Opened, net)
        <3>1. CASE UNCHANGED <<position, exited>>
            BY <1>2, <3>1
        <3>2. CASE ~UNCHANGED <<position, exited>>
            <4>1. /\ phase = "mark" /\ Opened # None
                  /\ IF ShouldExit(p, net)
                     THEN position' = None /\ exited' = [last |-> p, net |-> net]
                     ELSE position' = p /\ UNCHANGED exited
                BY <2>1, <3>2 DEF Mark
            <4>2. Len(bars) > 0 /\ Len(ticks) = Len(bars)
                BY <1>1, <4>1 DEF MarketInv
            <4>3. bars[Len(bars)].close \in Int
                BY <1>2, <4>2, BarsAre
            <4>4. Opened \in PositionType
                <5> DEFINE fill == ticks[Len(ticks)].fill
                <5>1. ticks[Len(ticks)] \in TickType
                    BY <1>2, <4>2
                <5>2. fill \in [side : Sides, qty : Nat, entry : Int] \union {None}
                    BY <5>1 DEF TickType
                <5>3. \/ position # None /\ Opened = position
                      \/ fill # None /\ Opened = [side |-> fill.side, qty |-> fill.qty,
                                                  entry |-> fill.entry, peak |-> 0, floor |-> None]
                    BY <4>1 DEF Opened
                <5> HIDE DEF fill
                <5>4. fill # None => fill.side \in Sides /\ fill.qty \in Int /\ fill.entry \in Int
                    BY <5>2
                <5>5. fill # None => [side |-> fill.side, qty |-> fill.qty, entry |-> fill.entry,
                                      peak |-> 0, floor |-> None] \in PositionType
                    BY <5>4 DEF PositionType
                <5> QED
                    BY <1>2, <5>3, <5>5
            <4>5. net \in Int /\ p \in PositionType
                BY <4>3, <4>4, MarkedIs
            <4> HIDE DEF net, p
            <4> QED
                BY <1>2, <4>1, <4>5
        <3> QED
            BY <3>1, <3>2
    <2>2. Mark \/ UNCHANGED <<position, exited>>
        BY DEF Next, Arrive, PaperTick, TestSkip, TestTrade, TestDone, vars, paperVars
    <2> QED
        BY <1>2, <2>1, <2>2
<1>7. trades' \in Seq(TradeType)
    <2>1. CASE TestTrade
        <3> DEFINE s == Decision(i)
                   closed == ExitBar(s, i + 1)
        <3>1. /\ i < Len(bars) /\ s # None
              /\ trades' = Append(trades, Trade(s, i + 1, closed))
            BY <2>1 DEF TestTrade, Tradable
        <3>2. i \in 1..Len(bars) /\ i + 1 \in 1..Len(bars) /\ i + 1 \in Nat /\ i + 1 <= Len(bars)
            BY <1>2, <3>1
        <3>3. s \in SignalType
            <4>1. s \in Answers
                BY <1>2, <3>2, DecisionIs
            <4> HIDE DEF s
            <4> QED
                BY <3>1, <4>1 DEF Answers
        <3> HIDE DEF s
        <3>4. closed \in (i + 1)..Len(bars)
            BY <1>2, <3>2, ExitBarIs
        <3> HIDE DEF closed
        <3>5. Trade(s, i + 1, closed) \in TradeType
            BY <1>2, <3>2, <3>3, <3>4, TradeIs
        <3> QED
            BY <1>2, <3>1, <3>5
    <2>2. TestTrade \/ trades' = trades \/ trades' = <<>>
        BY DEF Next, Arrive, PaperTick, Mark, TestSkip, TestDone, vars, testVars
    <2>3. <<>> \in Seq(TradeType)
        OBVIOUS
    <2> QED
        BY <1>2, <2>1, <2>2, <2>3
<1>8. report'.bars \in Nat /\ report'.trades \in Seq(TradeType)
    <2>1. CASE TestDone
        <3>1. report'.bars = Len(bars) /\ report'.trades = trades
            BY <2>1 DEF TestDone
        <3> QED
            BY <1>2, <3>1
    <2>2. TestDone \/ UNCHANGED report
        BY DEF Next, Arrive, PaperTick, Mark, TestSkip, TestTrade, vars, testVars
    <2> QED
        BY <1>2, <2>1, <2>2
<1>9. TypeOK'
    BY <1>2, <1>3, <1>4, <1>5, <1>6, <1>7, <1>8 DEF TypeOK
<1> QED
    BY <1>1, <1>9 DEF TypesInv

(* They start of their types.                                              *)
LEMMA TypesStart == Init => TypesInv
<1> SUFFICES ASSUME Init
             PROVE  TypesInv
    OBVIOUS
<1>1. TestInv
    BY TestStart
<1>2. TypeOK
    <2>1. report.bars = 0 /\ report.trades = <<>>
        BY DEF Init
    <2> QED
        BY <2>1 DEF Init, TypeOK
<1> QED
    BY <1>1, <1>2 DEF TypesInv

(* Every variable keeps its type: whatever the bars are, each strategy     *)
(* answers with a signal of whole numbers or none, and every trade made of *)
(* one has a size, prices and costs.                                       *)
THEOREM ReplayKeepsItsTypes == Spec => []TypeOK
<1>1. TypesInv => TypeOK
    BY DEF TypesInv
<1> QED
    BY <1>1, TypesStart, TypesStep, PTL DEF Spec

-----------------------------------------------------------------------------
(* Stops.  Each trade is what Trade makes of a signal of a size above      *)
(* zero; at prices that are not negative its costs are against the trader. *)

(* Every trade is what Trade makes of the signal at its entry, of a size   *)
(* above zero.                                                             *)
Booked(trade) ==
    LET s == Decision(trade.opened - 1)
    IN  /\ trade = Trade(s, trade.opened, trade.closed)
        /\ s \in SignalType /\ Quantity(s) > 0

BookedInv == TypesInv /\ \A t \in 1..Len(trades) : Booked(trades[t])

(* Trades stay what they were made as, and new ones are made the same.     *)
LEMMA BookedStep == BookedInv /\ [Next]_vars => BookedInv'
<1> SUFFICES ASSUME BookedInv, [Next]_vars
             PROVE  BookedInv'
    OBVIOUS
<1>1. TypesInv' /\ TypesInv /\ TestInv /\ MarketInv
    BY TypesStep DEF BookedInv, TypesInv, TestInv
<1>2. /\ key \in StrategyKeys /\ bars \in Seq(Bar) /\ i \in Nat \ {0}
      /\ trades \in Seq(TradeType) /\ Len(bars) \in Nat
    BY <1>1 DEF TypesInv, TypeOK
<1>3. CASE trades' = <<>>
    BY <1>1, <1>3 DEF BookedInv
<1>4. ASSUME UNCHANGED <<key, bars>>, NEW trade, Booked(trade)
      PROVE  Booked(trade)'
    <2>1. \A n : Decision(n)' = Decision(n)
        BY <1>4 DEF Decision, Seen
    <2>2. \A s, o, c : Trade(s, o, c)' = Trade(s, o, c)
        BY <1>4 DEF Trade
    <2> QED
        BY <1>4, <2>1, <2>2 DEF Booked
<1>5. CASE UNCHANGED <<key, bars, trades>>
    BY <1>1, <1>4, <1>5 DEF BookedInv
<1>6. CASE TestTrade
    <2> DEFINE s == Decision(i)
               closed == ExitBar(s, i + 1)
    <2>1. /\ i < Len(bars) /\ s # None /\ Quantity(s) > 0 /\ UNCHANGED <<key, bars>>
          /\ \E trade : trade = Trade(s, i + 1, closed) /\ trades' = Append(trades, trade)
        BY <1>6 DEF TestTrade, Tradable
    <2>2. s \in SignalType
        <3>1. s \in Answers
            BY <1>2, <2>1, DecisionIs
        <3> HIDE DEF s
        <3> QED
            BY <2>1, <3>1 DEF Answers
    <2>3. PICK trade : trade = Trade(s, i + 1, closed) /\ trades' = Append(trades, trade)
        BY <2>1
    <2>4. Booked(trade)
        <3>1. trade.opened = i + 1 /\ trade.closed = closed
            BY <2>3 DEF Trade
        <3>2. trade.opened - 1 = i /\ trade = Trade(s, trade.opened, trade.closed)
            BY <1>2, <2>3, <3>1
        <3> QED
            BY <2>1, <2>2, <3>2 DEF Booked
    <2>5. Booked(trade)'
        BY <1>4, <2>1, <2>4
    <2>6. \A t \in 1..Len(trades') :
            trades'[t] = trade \/ (t \in 1..Len(trades) /\ trades'[t] = trades[t])
        BY <1>2, <2>3
    <2>7. ASSUME NEW t \in 1..Len(trades')
          PROVE  Booked(trades[t])'
        <3>1. CASE trades'[t] = trade
            BY <2>5, <3>1 DEF Booked
        <3>2. CASE t \in 1..Len(trades) /\ trades'[t] = trades[t]
            <4>1. PICK old : old = trades[t]
                OBVIOUS
            <4>2. Booked(old)'
                BY <1>4, <2>1, <3>2, <4>1 DEF BookedInv
            <4> QED
                BY <3>2, <4>1, <4>2 DEF Booked
        <3> QED
            BY <2>6, <3>1, <3>2
    <2> QED
        BY <1>1, <2>7 DEF BookedInv
<1>7. CASE Arrive
    <2>1. trades' = <<>>
        BY <1>1, <1>7 DEF Arrive, MarketInv, testVars
    <2> QED
        BY <1>3, <2>1
<1>8. CASE TestDone
    BY <1>3, <1>8 DEF TestDone
<1>9. CASE PaperTick \/ Mark \/ TestSkip \/ UNCHANGED vars
    BY <1>5, <1>9 DEF PaperTick, Mark, TestSkip, vars, testVars, paperVars
<1> QED
    BY <1>6, <1>7, <1>8, <1>9 DEF Next

(* There are none to begin with.                                           *)
LEMMA BookedStart == Init => BookedInv
<1> SUFFICES ASSUME Init
             PROVE  BookedInv
    OBVIOUS
<1>1. TypesInv /\ trades = <<>>
    BY TypesStart DEF Init
<1> QED
    BY <1>1 DEF BookedInv

(* At prices of zero or more the costs are against the trader.             *)
LEMMA CostsAreNat ==
    ASSUME NEW price \in Nat, NEW qty \in Nat
    PROVE  /\ Cost(price) \in Nat
           /\ Notional(price, qty) \in Nat
           /\ EntryFee(price, qty) \in Nat /\ ExitFee(price, qty) \in Nat
<1>1. FillModel.spread \in Nat /\ FillModel.slippage \in Nat /\ FillModel.taker \in Nat
      /\ FillModel.maker \in Nat
    BY FillModelAssumption DEF FillModelType
<1>2. \A x \in Nat, y \in Nat : x * y \in Nat
    BY SMTT(30)
<1>3. Cost(price) \in Nat
    <2> DEFINE y == price * (FillModel.spread + 2 * FillModel.slippage)
    <2>1. y \in Nat
        BY <1>1, <1>2
    <2> HIDE DEF y
    <2>2. y \div (2 * BPS) \in Nat
        BY <2>1 DEF BPS
    <2> QED
        BY <2>2 DEF Cost, y
<1>4. Notional(price, qty) \in Nat
    <2> DEFINE y == price * qty
    <2>1. y \in Nat
        BY <1>2
    <2> HIDE DEF y
    <2>2. y \div Lot \in Nat
        BY <2>1 DEF Lot
    <2> QED
        BY <2>2 DEF Notional, y
<1>5. ASSUME NEW bps \in Nat
      PROVE  Fee(price, qty, bps) \in Nat
    <2> DEFINE y == Notional(price, qty) * bps
    <2>1. y \in Nat
        BY <1>2, <1>4
    <2> HIDE DEF y
    <2>2. y \div BPS \in Nat
        BY <2>1 DEF BPS
    <2> QED
        BY <2>2 DEF Fee, y
<1> QED
    BY <1>1, <1>3, <1>4, <1>5 DEF EntryFee, ExitFee

(* Funding is paid, not received, when its rate is not negative.           *)
LEMMA FundingIsNat ==
    ASSUME FillModel.funding >= 0, NEW notional \in Nat, NEW held \in Nat
    PROVE  FundingPaid(notional, held) \in Nat
<1> DEFINE cycles == FundingCycles(held)
<1>1. FillModel.funding \in Nat
    BY FillModelAssumption DEF FillModelType
<1>2. cycles \in Nat
    BY CyclesAreNat
<1> DEFINE y == notional * FillModel.funding * cycles
<1>3. y \in Nat
    <2>1. \A x \in Nat, z \in Nat : x * z \in Nat
        BY SMTT(30)
    <2> QED
        BY <1>1, <1>2, <2>1
<1> HIDE DEF y
<1>4. y \div BPS \in Nat
    BY <1>3 DEF BPS
<1> QED
    BY <1>4 DEF FundingPaid, y

(* Prices are not negative: neither the ones a trade is made of nor, after *)
(* the costs, the ones it is made at.                                      *)
Priced(trade) ==
    /\ bars[trade.opened].open >= 0 /\ Decision(trade.opened - 1).sl >= 0
    /\ trade.entry >= 0 /\ trade.exit >= 0

(* A trade ended by its stop, beyond which it was not opened, loses: the   *)
(* costs only add to the move against it.                                  *)
LEMMA StopCosts ==
    ASSUME FillModel.funding >= 0, bars \in Seq(Bar),
           NEW trade, trade.opened \in 1..Len(bars), trade.closed \in trade.opened..Len(bars),
           Booked(trade), Priced(trade), trade.reason = "sl",
           IF Decision(trade.opened - 1).side = "long"
           THEN bars[trade.opened].open > Decision(trade.opened - 1).sl
           ELSE bars[trade.opened].open < Decision(trade.opened - 1).sl
    PROVE  NetPnl(trade) < 0
<1> DEFINE s == Decision(trade.opened - 1)
           open == bars[trade.opened].open
<1>1. /\ Len(bars) \in Nat /\ trade.opened \in 1..Len(bars) /\ trade.closed \in 1..Len(bars)
      /\ trade.closed - trade.opened + 1 \in Nat
    OBVIOUS
<1>2. /\ s \in SignalType /\ Quantity(s) > 0 /\ Quantity(s) \in Int
      /\ s.side \in Sides /\ s.sl \in Int /\ open \in Int
    BY <1>1, BarsAre, QuantityIsInt DEF Booked, SignalType
<1>3. s.sl \in Nat /\ open \in Nat
    BY <1>2 DEF Priced
<1> DEFINE made == Trade(s, trade.opened, trade.closed)
           reference == ExitReference(s, bars[trade.closed])
<1>4. trade = made
    BY DEF Booked
<1>5. /\ trade.side = s.side /\ trade.qty = Quantity(s)
      /\ trade.entry = EntryPrice(s.side, open)
      /\ trade.exit = ExitPrice(s.side, reference)
      /\ trade.fees = EntryFee(trade.entry, trade.qty) + ExitFee(trade.exit, trade.qty)
      /\ trade.funding = FundingPaid(Notional(trade.entry, trade.qty),
                                     trade.closed - trade.opened + 1)
      /\ trade.reason = ExitReason(s, bars[trade.closed])
    BY <1>4 DEF Trade
<1> HIDE DEF made
<1>6. reference = s.sl
    BY <1>5 DEF ExitReason, ExitReference
<1> HIDE DEF reference
<1>7. Cost(open) \in Nat /\ Cost(s.sl) \in Nat
    BY <1>2, <1>3, CostsAreNat
<1> DEFINE move == IF trade.side = "long" THEN trade.exit - trade.entry ELSE trade.entry - trade.exit
<1>8. /\ trade.entry \in Nat /\ trade.exit \in Nat /\ move \in Int /\ move < 0
    <2>1. /\ trade.entry = IF s.side = "long" THEN open + Cost(open) ELSE open - Cost(open)
          /\ trade.exit = IF s.side = "long" THEN s.sl - Cost(s.sl) ELSE s.sl + Cost(s.sl)
        BY <1>5, <1>6 DEF EntryPrice, ExitPrice
    <2>2. trade.entry >= 0 /\ trade.exit >= 0
        BY DEF Priced
    <2>3. IF s.side = "long" THEN open > s.sl ELSE open < s.sl
        OBVIOUS
    <2> HIDE DEF s, open
    <2>4. trade.entry \in Nat /\ trade.exit \in Nat
        BY <1>3, <1>7, <2>1, <2>2
    <2>5. move \in Int /\ move < 0
        BY <1>3, <1>5, <1>7, <2>1, <2>3
    <2> QED
        BY <2>4, <2>5
<1>9. trade.qty \in Nat /\ trade.qty > 0
    BY <1>2, <1>5
<1> DEFINE gross == move * trade.qty
<1>10. GrossPnl(trade) \in Int /\ GrossPnl(trade) < 0
    <2>1. \A x \in Int, y \in Nat : x < 0 /\ y > 0 => x * y \in Int /\ x * y < 0
        BY SMTT(30)
    <2>2. GrossPnl(trade) = gross \div Lot
        BY DEF GrossPnl
    <2>3. gross \in Int /\ gross < 0
        <3> HIDE DEF move
        <3> QED
            BY <1>8, <1>9, <2>1
    <2> HIDE DEF gross
    <2>4. gross \div Lot \in Int /\ gross \div Lot < 0
        BY <2>3 DEF Lot
    <2> QED
        BY <2>2, <2>4
<1>11. trade.fees \in Nat
    <2>1. EntryFee(trade.entry, trade.qty) \in Nat /\ ExitFee(trade.exit, trade.qty) \in Nat
        BY <1>8, <1>9, CostsAreNat
    <2> QED
        BY <1>5, <2>1
<1>12. trade.funding \in Nat
    <2>1. Notional(trade.entry, trade.qty) \in Nat
        BY <1>8, <1>9, CostsAreNat
    <2> QED
        BY <1>1, <1>5, <2>1, FundingIsNat
<1> QED
    BY <1>10, <1>11, <1>12 DEF NetPnl

(* A stop loses, whatever the strategy and the costs are, unless its entry *)
(* bar opened beyond it: as long as prices are not negative and funding is *)
(* paid and not received, which the code does not ask for.                 *)
THEOREM StopsLoseAtPrices ==
    ASSUME FillModel.funding >= 0
    PROVE  Spec => []((\A t \in DOMAIN trades : Priced(trades[t])) => StopsLose)
<1>1. BookedInv => ((\A t \in DOMAIN trades : Priced(trades[t])) => StopsLose)
    <2> SUFFICES ASSUME BookedInv, \A t \in DOMAIN trades : Priced(trades[t]),
                        NEW t \in DOMAIN trades, trades[t].reason = "sl",
                        IF Decision(trades[t].opened - 1).side = "long"
                        THEN bars[trades[t].opened].open > Decision(trades[t].opened - 1).sl
                        ELSE bars[trades[t].opened].open < Decision(trades[t].opened - 1).sl
                 PROVE  NetPnl(trades[t]) < 0
        BY DEF StopsLose
    <2>1. TestInv
        BY DEF BookedInv, TypesInv
    <2>2. /\ t \in 1..Len(trades) /\ Sound(trades[t]) /\ bars \in Seq(Bar) /\ Len(bars) \in Nat
        BY <2>1, TradesAre
    <2>3. /\ trades[t].opened \in 1..Len(bars)
          /\ trades[t].closed \in trades[t].opened..Len(bars)
        BY <2>2 DEF Sound
    <2>4. Booked(trades[t]) /\ Priced(trades[t])
        BY <2>2 DEF BookedInv
    <2> QED
        BY <2>2, <2>3, <2>4, StopCosts
<1> QED
    BY <1>1, BookedStart, BookedStep, PTL DEF Spec

-----------------------------------------------------------------------------
(* Funding.                                                                *)

(* The intervals begun in some hours are the fewest that last as long.     *)
LEMMA CyclesAreFewest ==
    ASSUME NEW held \in Nat \ {0}
    PROVE  LET hours == held * FillModel.barHours[1]
               interval == FillModel.interval * FillModel.barHours[2]
               n == FundingCycles(held)
           IN  /\ n \in 1..hours /\ n * interval >= hours
               /\ \A m \in 1..(n - 1) : ~(m * interval >= hours)
<1> DEFINE hours == held * FillModel.barHours[1]
           interval == FillModel.interval * FillModel.barHours[2]
           y == hours + interval - 1
           begun == y \div interval
           S == {1, begun}
<1>1. hours \in Nat \ {0} /\ interval \in Nat \ {0}
    <2>1. /\ FillModel.interval \in Nat \ {0}
          /\ FillModel.barHours[1] \in Nat \ {0} /\ FillModel.barHours[2] \in Nat \ {0}
        BY FillModelAssumption DEF FillModelType
    <2>2. \A x, z \in Nat \ {0} : x * z \in Nat \ {0}
        BY SMTT(30)
    <2> QED
        BY <2>1, <2>2
<1>2. FundingCycles(held) = Max(S)
    BY DEF FundingCycles
<1> HIDE DEF hours, interval
<1>3. begun \in Nat /\ begun * interval <= y /\ y < begun * interval + interval
    <2>1. \A x \in Nat, z \in Nat \ {0} :
            x \div z \in Nat /\ (x \div z) * z <= x /\ x < (x \div z) * z + z
        BY SMTT(30)
    <2>2. y \in Nat
        BY <1>1
    <2> HIDE DEF y
    <2> QED
        BY <1>1, <2>1, <2>2
<1> HIDE DEF begun
<1>4. begun * interval \in Nat /\ begun * interval >= hours /\ begun >= 1
    <2>1. \A x \in Nat, z \in Nat \ {0} : x * z \in Nat /\ (x = 0 => x * z = 0)
        BY SMTT(30)
    <2>2. begun * interval \in Nat /\ (begun = 0 => begun * interval = 0)
        BY <1>1, <1>3, <2>1
    <2> QED
        BY <1>1, <1>3, <2>2
<1>5. begun <= hours
    <2>1. \A x \in Nat \ {0}, z \in Nat \ {0}, h \in Nat \ {0} :
            x > h => x * z >= h * z + z /\ h * z + z >= h + z
        BY SMTT(30)
    <2>2. begun \in Nat \ {0}
        BY <1>3, <1>4
    <2> QED
        BY <1>1, <1>3, <1>4, <2>1, <2>2
<1>6. ASSUME NEW m \in 1..(begun - 1)
      PROVE  m * interval < hours
    <2>1. \A x \in Nat, k \in Nat, z \in Nat \ {0} :
            k <= x - 1 => k * z \in Nat /\ k * z + z <= x * z
        BY SMTT(30)
    <2>2. m \in Nat /\ m <= begun - 1
        BY <1>3
    <2>3. m * interval \in Nat /\ m * interval + interval <= begun * interval
        BY <1>1, <1>3, <2>1, <2>2
    <2> QED
        BY <1>1, <1>3, <1>4, <2>3
<1>7. Max(S) = begun
    <2>1. S \subseteq Int /\ S # {} /\ begun \in S /\ \A x \in S : x <= begun
        BY <1>3, <1>4
    <2>2. IsFiniteSet(S)
        BY FewAreFinite
    <2> HIDE DEF S
    <2>3. Max(S) \in S /\ begun <= Max(S)
        BY <2>1, <2>2, MaxIs
    <2>4. Max(S) <= begun /\ Max(S) \in Int
        BY <2>1, <2>3
    <2> QED
        BY <1>3, <2>3, <2>4
<1> HIDE DEF S
<1>8. begun \in 1..hours /\ \A m \in 1..(begun - 1) : m * interval \in Int
    BY <1>1, <1>3, <1>4, <1>5
<1> QED
    BY <1>1, <1>2, <1>4, <1>6, <1>7, <1>8 DEF hours, interval

(* A trade pays for the intervals it lasts, none left out and none twice,  *)
(* whatever the bars, the interval and the rate are.                       *)
THEOREM TradesPayTheirFunding == Spec => []FundingIsDue
<1>1. BookedInv => FundingIsDue
    <2> SUFFICES ASSUME BookedInv, NEW t \in DOMAIN trades
                 PROVE  LET trade == trades[t]
                            notional == Notional(trade.entry, trade.qty)
                            hours == (trade.closed - trade.opened + 1) * FillModel.barHours[1]
                            Lasts(n) == n * (FillModel.interval * FillModel.barHours[2]) >= hours
                        IN  IF notional <= 0 THEN trade.funding = 0
                            ELSE \E n \in 1..hours :
                                    /\ Lasts(n) /\ \A m \in 1..(n - 1) : ~Lasts(m)
                                    /\ trade.funding
                                       = (notional * FillModel.funding * n) \div BPS
        BY DEF FundingIsDue
    <2> DEFINE trade == trades[t]
               notional == Notional(trade.entry, trade.qty)
               held == trade.closed - trade.opened + 1
               n == FundingCycles(held)
               s == Decision(trade.opened - 1)
    <2>1. TestInv /\ trades \in Seq(TradeType)
        BY DEF BookedInv, TypesInv, TypeOK
    <2>2. t \in 1..Len(trades) /\ Sound(trade) /\ Len(bars) \in Nat
        BY <2>1, TradesAre
    <2>3. held \in Nat \ {0}
        BY <2>2 DEF Sound
    <2>4. trade = Trade(s, trade.opened, trade.closed)
        BY <2>2 DEF BookedInv, Booked
    <2>5. trade.funding = FundingPaid(notional, held)
        <3>1. \A o, c : /\ Trade(s, o, c).entry = EntryPrice(s.side, bars[o].open)
                        /\ Trade(s, o, c).qty = Quantity(s)
                        /\ Trade(s, o, c).funding
                           = FundingPaid(Notional(EntryPrice(s.side, bars[o].open), Quantity(s)),
                                         c - o + 1)
            BY DEF Trade
        <3> HIDE DEF trade, s
        <3> QED
            BY <2>4, <3>1
    <2>6. notional \in Int
        <3>1. trade \in TradeType
            BY <2>1, <2>2
        <3>2. trade.entry \in Int /\ trade.qty \in Int
            BY <3>1 DEF TradeType
        <3> QED
            BY <3>2, CostsAreInt
    <2> HIDE DEF trade, notional, held
    <2>7. FundingPaid(notional, held) =
            IF FillModel.funding = 0 \/ held <= 0 \/ notional <= 0 THEN 0
            ELSE (notional * FillModel.funding * n) \div BPS
        BY DEF FundingPaid
    <2>8. LET hours == held * FillModel.barHours[1]
              interval == FillModel.interval * FillModel.barHours[2]
          IN  /\ n \in 1..hours /\ n * interval >= hours
              /\ \A m \in 1..(n - 1) : ~(m * interval >= hours)
        BY <2>3, CyclesAreFewest
    <2>9. CASE notional <= 0
        BY <2>5, <2>7, <2>9 DEF trade, notional
    <2>10. CASE ~(notional <= 0)
        <3>1. FillModel.funding = 0 => (notional * FillModel.funding * n) \div BPS = 0
            <4>1. n \in Int
                BY <2>3, CyclesAreNat
            <4> HIDE DEF n
            <4>2. \A x \in Int, k \in Int : x * 0 * k = 0
                OBVIOUS
            <4>3. FillModel.funding = 0 => notional * FillModel.funding * n = 0
                BY <2>6, <4>1, <4>2
            <4> QED
                BY <4>3 DEF BPS
        <3>2. trade.funding = (notional * FillModel.funding * n) \div BPS
            <4> HIDE DEF n
            <4> QED
                BY <2>3, <2>5, <2>7, <2>10, <3>1
        <3> HIDE DEF n
        <3> QED
            BY <2>8, <2>10, <3>2 DEF trade, notional, held
    <2> QED
        BY <2>9, <2>10
<1> QED
    BY <1>1, BookedStart, BookedStep, PTL DEF Spec

-----------------------------------------------------------------------------
(* Drawdown.                                                               *)

(* The larger of two.                                                      *)
LEMMA MaxOfTwo ==
    ASSUME NEW a \in Int, NEW b \in Int
    PROVE  Max({a, b}) = IF a >= b THEN a ELSE b
<1> DEFINE S == {a, b}
<1>1. S \subseteq Int /\ S # {}
    OBVIOUS
<1>2. IsFiniteSet(S)
    BY FewAreFinite
<1>3. a \in S /\ b \in S /\ \A x \in S : x = a \/ x = b
    OBVIOUS
<1> HIDE DEF S
<1>4. Max(S) \in S /\ \A x \in S : x <= Max(S)
    BY <1>1, <1>2, MaxIs
<1>5. Max(S) = IF a >= b THEN a ELSE b
    <2>1. Max(S) = a \/ Max(S) = b
        BY <1>3, <1>4
    <2>2. a <= Max(S) /\ b <= Max(S)
        BY <1>3, <1>4
    <2> HIDE DEF S
    <2>3. PICK m \in Int : m = Max(S)
        BY <2>1
    <2> QED
        BY ONLY <2>1, <2>2, <2>3, a \in Int, b \in Int
<1> QED
    BY <1>5 DEF S

(* A fall to a value above zero is the deeper the higher it starts.        *)
LEMMA FallsDeepen ==
    ASSUME NEW a \in Nat \ {0}, NEW b \in Nat, a <= b, NEW e \in Nat \ {0}
    PROVE  ((a - e) * BPS) \div a <= ((b - e) * BPS) \div b
<1> DEFINE x == (a - e) * BPS
           y == (b - e) * BPS
           q == x \div a
           r == y \div b
<1>1. x \in Int /\ y \in Int /\ e * BPS \in Nat /\ e * BPS > 0
      /\ x = a * BPS - e * BPS /\ y = b * BPS - e * BPS
    BY DEF BPS
<1> DEFINE d == e * BPS
<1> HIDE DEF x, y, d
<1>2. q \in Int /\ q * a <= x
    BY <1>1, SMTT(30)
<1>3. r \in Int /\ y < (r + 1) * b
    BY <1>1, SMTT(30)
<1> HIDE DEF q, r
<1>4. d <= (BPS - q) * a
    <2>1. (BPS - q) * a = a * BPS - q * a
        BY <1>2, SMTT(30) DEF BPS
    <2>2. q * a \in Int /\ a * BPS \in Int
        BY <1>2 DEF BPS
    <2> QED
        BY <1>1, <1>2, <2>1, <2>2 DEF d
<1>5. BPS - q > 0
    <2> DEFINE z == BPS - q
    <2>1. z \in Int
        BY <1>2 DEF BPS
    <2>2. d <= z * a /\ d > 0 /\ d \in Int
        BY <1>1, <1>4 DEF d
    <2> HIDE DEF z
    <2>3. z <= 0 => z * a <= 0
        BY <2>1, SMTT(30)
    <2>4. z > 0
        BY <2>1, <2>2, <2>3
    <2> QED
        BY <2>4 DEF z
<1>6. d <= (BPS - q) * b
    <2> DEFINE z == BPS - q
    <2>1. z \in Nat
        BY <1>2, <1>5 DEF BPS
    <2> HIDE DEF z
    <2>2. z * a <= z * b /\ z * a \in Int /\ z * b \in Int
        BY <2>1, SMTT(30)
    <2>3. d <= z * a /\ d \in Int
        BY <1>1, <1>4 DEF z, d
    <2> QED
        BY <2>2, <2>3 DEF z
<1>7. q * b <= y
    <2>1. (BPS - q) * b = b * BPS - q * b
        BY <1>2, SMTT(30) DEF BPS
    <2>2. q * b \in Int /\ b * BPS \in Int
        BY <1>2 DEF BPS
    <2> QED
        BY <1>1, <1>6, <2>1, <2>2 DEF d
<1>8. q < r + 1
    <2>1. q * b < (r + 1) * b
        <3>1. q * b \in Int /\ (r + 1) * b \in Int
            BY <1>2, <1>3
        <3> QED
            BY <1>1, <1>3, <1>7, <3>1
    <2>2. ~(r + 1 <= q)
        <3> DEFINE z == r + 1
        <3>1. z \in Int
            BY <1>3
        <3> HIDE DEF z
        <3>2. z <= q => z * b <= q * b
            BY <1>2, <3>1, SMTT(30)
        <3>3. z * b \in Int /\ q * b \in Int
            BY <1>2, <3>1
        <3>4. q * b < z * b
            BY <2>1 DEF z
        <3>5. ~(z <= q)
            BY <3>2, <3>3, <3>4
        <3> QED
            BY <3>5 DEF z
    <2> QED
        BY <1>2, <1>3, <2>2
<1>9. q <= r
    BY <1>2, <1>3, <1>8
<1> QED
    BY <1>9 DEF q, r, x, y

(* What a trade nets is a whole number.                                    *)
LEMMA NetPnlIsInt ==
    ASSUME NEW trade \in TradeType
    PROVE  NetPnl(trade) \in Int
<1> DEFINE move == IF trade.side = "long" THEN trade.exit - trade.entry ELSE trade.entry - trade.exit
           gross == move * trade.qty
<1>1. /\ trade.qty \in Int /\ trade.entry \in Int /\ trade.exit \in Int
      /\ trade.fees \in Int /\ trade.funding \in Int
    BY DEF TradeType
<1>2. move \in Int
    BY <1>1
<1>3. gross \in Int
    <2> HIDE DEF move
    <2> QED
        BY <1>1, <1>2
<1>4. GrossPnl(trade) = gross \div Lot
    BY DEF GrossPnl
<1> HIDE DEF gross
<1>5. GrossPnl(trade) \in Int
    BY <1>3, <1>4 DEF Lot
<1> QED
    BY <1>1, <1>5 DEF NetPnl

(* The equity after each trade is what the trade adds to the one before.   *)
LEMMA EquityCurveIs ==
    ASSUME NEW of \in Seq(TradeType)
    PROVE  LET eq == EquityCurve(of)
           IN  /\ eq \in [0..Len(of) -> Int] /\ eq[0] = Equity
               /\ \A k \in 1..Len(of) : eq[k] = eq[k - 1] + NetPnl(of[k])
<1> DEFINE N == Len(of)
           next == [p \in (1..N) \X Int |-> p[2] + NetPnl(of[p[1]])]
           Curve(f) == f = [k \in 0..N |-> IF k = 0 THEN Equity ELSE f[k - 1] + NetPnl(of[k])]
<1>1. N \in Nat /\ Equity \in Int
    BY ReplayAssumption
<1>2. \A k \in 1..N : NetPnl(of[k]) \in Int
    BY NetPnlIsInt
<1> HIDE DEF N
<1>3. next \in [(1..N) \X Int -> Int]
    BY <1>2
<1>4. PICK g \in [0..N -> Int] : Recurs(N, Equity, next, g)
    <2> HIDE DEF next
    <2> QED
        BY <1>1, <1>3, RecursionExists
<1>5. g[0] = Equity /\ \A k \in 1..N : g[k] = g[k - 1] + NetPnl(of[k])
    <2>1. ASSUME NEW k \in 1..N
          PROVE  next[<<k, g[k - 1]>>] = g[k - 1] + NetPnl(of[k])
        <3>1. g[k - 1] \in Int
            BY <1>1
        <3> QED
            BY <3>1
    <2> HIDE DEF next
    <2> QED
        BY <1>4, <2>1 DEF Recurs
<1>6. Curve(g)
    <2>1. \A k \in 0..N : k = 0 \/ k \in 1..N
        BY <1>1
    <2>2. \A k \in 0..N : g[k] = IF k = 0 THEN Equity ELSE g[k - 1] + NetPnl(of[k])
        BY <1>5, <2>1
    <2> QED
        BY <2>2
<1> DEFINE eq == CHOOSE f : Curve(f)
<1>7. Curve(eq)
    <2> HIDE DEF Curve
    <2> QED
        BY <1>6
<1>8. EquityCurve(of) = eq
    BY DEF EquityCurve, N
<1> HIDE DEF eq
<1>9. /\ eq[0] = Equity /\ \A k \in 1..N : eq[k] = eq[k - 1] + NetPnl(of[k])
      /\ eq = [k \in 0..N |-> eq[k]]
    <2>1. \A k \in 1..N : k \in 0..N /\ k # 0
        BY <1>1
    <2>2. 0 \in 0..N
        BY <1>1
    <2>3. \A k \in 0..N : eq[k] = IF k = 0 THEN Equity ELSE eq[k - 1] + NetPnl(of[k])
        BY <1>7
    <2>4. eq = [k \in 0..N |-> eq[k]]
        BY <1>7, <2>3
    <2> HIDE DEF Curve
    <2> QED
        BY <2>1, <2>2, <2>3, <2>4
<1> DEFINE S == {k \in 0..N : eq[k] \notin Int}
<1>10. S = {}
    <2> SUFFICES ASSUME S # {}
                 PROVE  FALSE
        OBVIOUS
    <2>1. PICK m \in S : \A k \in S : m <= k
        <3>1. S \in SUBSET Nat
            BY <1>1
        <3> HIDE DEF S
        <3> QED
            BY <3>1, Least
    <2>2. m # 0 /\ m \in 1..N
        BY <1>1, <1>9
    <2>3. eq[m - 1] \in Int
        BY <1>1, <2>1, <2>2
    <2>4. eq[m] = eq[m - 1] + NetPnl(of[m]) /\ NetPnl(of[m]) \in Int
        BY <1>2, <1>9, <2>2
    <2>5. eq[m] \notin Int
        OBVIOUS
    <2> HIDE DEF S
    <2> QED
        BY <2>3, <2>4, <2>5
<1>11. \A k \in 0..N : eq[k] \in Int
    BY <1>10
<1>12. eq \in [0..N -> Int]
    BY <1>9, <1>11
<1> HIDE DEF Curve
<1> QED
    BY <1>8, <1>9, <1>12 DEF N

(* The step of Drawdown's fold.                                            *)
Advance(acc, t) ==
    LET eq == acc.eq + NetPnl(t)
        peak == Max({acc.peak, eq})
        fall == IF peak > 0 THEN ((peak - eq) * BPS) \div peak ELSE 0
    IN  [eq |-> eq, peak |-> peak, worst |-> Max({acc.worst, fall})]

Account == [eq : Int, peak : Int, worst : Int]

(* It takes an account to an account.                                      *)
LEMMA AdvanceIs ==
    ASSUME NEW acc \in Account, NEW t \in TradeType
    PROVE  Advance(acc, t) \in Account
<1> DEFINE eq == acc.eq + NetPnl(t)
           peak == Max({acc.peak, eq})
           fall == IF peak > 0 THEN ((peak - eq) * BPS) \div peak ELSE 0
<1>1. acc.eq \in Int /\ acc.peak \in Int /\ acc.worst \in Int
    BY DEF Account
<1>2. eq \in Int
    BY <1>1, NetPnlIsInt
<1> HIDE DEF eq
<1>3. peak \in Int
    BY <1>1, <1>2, MaxOfTwo
<1> HIDE DEF peak
<1>4. fall \in Int
    BY <1>2, <1>3 DEF BPS
<1> HIDE DEF fall
<1>5. Max({acc.worst, fall}) \in Int
    BY <1>1, <1>4, MaxOfTwo
<1>6. Advance(acc, t) = [eq |-> eq, peak |-> peak, worst |-> Max({acc.worst, fall})]
    BY DEF Advance, eq, peak, fall
<1> QED
    BY <1>2, <1>3, <1>5, <1>6 DEF Account

(* Drawdown's fold, trade by trade.                                        *)
LEMMA DrawdownFolds ==
    ASSUME NEW of \in Seq(TradeType)
    PROVE  \E h : /\ Drawdown(of, Equity) = h[1..Len(of)].worst
                  /\ h[1..0] = [eq |-> Equity, peak |-> Equity, worst |-> 0]
                  /\ \A k \in 1..Len(of) : h[1..k] = Advance(h[1..(k - 1)], of[k])
<1> DEFINE N == Len(of)
           S == 1..N
           base == [eq |-> Equity, peak |-> Equity, worst |-> 0]
           element == [T \in SUBSET S |-> Max(T)]
           next == [p \in S \X Account |-> Advance(p[2], of[p[1]])]
           Folds(f) == f = [T \in SUBSET S |->
                               IF T = {} THEN base ELSE Advance(f[T \ {Max(T)}], of[Max(T)])]
<1>1. /\ N \in Nat /\ IsFiniteSet(S) /\ DOMAIN of = S /\ base \in Account
      /\ \A n \in S : of[n] \in TradeType
    BY ReplayAssumption, FS_Interval DEF Account
<1>2. \A T \in SUBSET S : T # {} => Max(T) \in T /\ \A n \in T : n <= Max(T)
    <2>1. ASSUME NEW T \in SUBSET S, T # {}
          PROVE  Max(T) \in T /\ \A n \in T : n <= Max(T)
        <3>1. IsFiniteSet(T)
            BY <1>1, FS_Subset
        <3>2. T \subseteq Int
            BY <1>1
        <3> QED
            BY <2>1, <3>1, <3>2, MaxIs
    <2> QED
        BY <2>1
<1>3. Takes(S, element)
    BY <1>2 DEF Takes
<1>4. next \in [S \X Account -> Account]
    <2> HIDE DEF S
    <2> QED
        BY <1>1, AdvanceIs
<1>5. PICK g \in [SUBSET S -> Account] : FoldsBy(S, base, element, next, g)
    <2> HIDE DEF S, element, next, base
    <2> QED
        BY <1>1, <1>3, <1>4, FoldExists
<1>6. Folds(g)
    <2>1. ASSUME NEW T \in SUBSET S
          PROVE  g[T] = IF T = {} THEN base ELSE Advance(g[T \ {Max(T)}], of[Max(T)])
        <3>1. CASE T = {}
            BY <1>5, <3>1 DEF FoldsBy
        <3>2. CASE T # {}
            <4>1. element[T] = Max(T) /\ Max(T) \in S /\ T \ {Max(T)} \in SUBSET S
                BY <1>2, <3>2
            <4> HIDE DEF S, base
            <4>2. g[T \ {Max(T)}] \in Account
                BY <4>1
            <4>3. next[<<Max(T), g[T \ {Max(T)}]>>] = Advance(g[T \ {Max(T)}], of[Max(T)])
                BY <4>1, <4>2
            <4> HIDE DEF element, next
            <4>4. g[T] = next[<<Max(T), g[T \ {Max(T)}]>>]
                BY <1>5, <3>2, <4>1 DEF FoldsBy
            <4> QED
                BY <3>2, <4>3, <4>4
        <3> QED
            BY <3>1, <3>2
    <2> HIDE DEF S, base
    <2> QED
        BY <1>5, <2>1
<1> DEFINE h == CHOOSE f : Folds(f)
<1>7. Folds(h)
    <2> HIDE DEF Folds
    <2> QED
        BY <1>6
<1>8. Drawdown(of, Equity) = h[S].worst
    BY <1>1 DEF Drawdown, FoldLeft, MapThenFoldSet, Advance
<1> HIDE DEF h
<1>9. \A T \in SUBSET S : h[T] = IF T = {} THEN base ELSE Advance(h[T \ {Max(T)}], of[Max(T)])
    <2> HIDE DEF S, base
    <2> QED
        BY <1>7
<1>10. h[1..0] = base
    <2>1. 1..0 = {} /\ {} \in SUBSET S
        OBVIOUS
    <2> HIDE DEF S, base
    <2> QED
        BY <1>9, <2>1
<1>11. ASSUME NEW k \in 1..N
       PROVE  h[1..k] = Advance(h[1..(k - 1)], of[k])
    <2> DEFINE T == 1..k
    <2>1. T \in SUBSET S /\ k \in T /\ T # {} /\ \A n \in T : n <= k
        <3>1. k \in Nat /\ 1 <= k /\ k <= N
            BY <1>1
        <3> HIDE DEF N
        <3>2. \A n \in T : n \in 1..N
            BY <1>1, <3>1
        <3>3. k \in T
            BY <3>1
        <3> QED
            BY <3>2, <3>3
    <2>2. Max(T) = k
        <3>1. Max(T) \in T /\ \A n \in T : n <= Max(T)
            BY <1>2, <2>1
        <3>2. k <= Max(T) /\ Max(T) <= k /\ Max(T) \in 1..k
            BY <2>1, <3>1
        <3> QED
            BY <1>1, <3>2
    <2>3. T \ {k} = 1..(k - 1)
        BY <1>1
    <2> HIDE DEF T, S
    <2> QED
        BY <1>9, <2>1, <2>2, <2>3 DEF T
<1> QED
    BY <1>8, <1>10, <1>11 DEF N, S

(* While the equity stays above zero, the fold's peak is the highest       *)
(* equity so far and its worst is the deepest fall from an earlier equity. *)
LEMMA DrawdownIs ==
    ASSUME NEW of \in Seq(TradeType), \A k \in 0..Len(of) : EquityCurve(of)[k] > 0
    PROVE  LET eq == EquityCurve(of)
               Fall(m, k) == ((eq[m] - eq[k]) * BPS) \div eq[m]
           IN  /\ \A m \in 0..Len(of) : \A k \in m..Len(of) : Fall(m, k) <= Drawdown(of, Equity)
               /\ \E m \in 0..Len(of) : \E k \in m..Len(of) : Fall(m, k) = Drawdown(of, Equity)
<1> DEFINE N == Len(of)
           eq == EquityCurve(of)
<1>1. N \in Nat /\ \A k \in 1..N : NetPnl(of[k]) \in Int
    BY NetPnlIsInt
<1>2. /\ \A k \in 0..N : eq[k] \in Nat \ {0}
      /\ eq[0] = Equity /\ \A k \in 1..N : eq[k] = eq[k - 1] + NetPnl(of[k])
    <2>1. eq \in [0..N -> Int] /\ eq[0] = Equity
          /\ \A k \in 1..N : eq[k] = eq[k - 1] + NetPnl(of[k])
        BY EquityCurveIs
    <2> QED
        BY <2>1
<1>3. PICK h : /\ Drawdown(of, Equity) = h[1..N].worst
               /\ h[1..0] = [eq |-> Equity, peak |-> Equity, worst |-> 0]
               /\ \A k \in 1..N : h[1..k] = Advance(h[1..(k - 1)], of[k])
    BY DrawdownFolds
<1> HIDE DEF N, eq
<1> DEFINE Fall(m, k) == ((eq[m] - eq[k]) * BPS) \div eq[m]
           Highest(k, peak) == /\ \E m \in 0..k : eq[m] = peak
                               /\ \A m \in 0..k : eq[m] <= peak
           Deepest(k, worst) == /\ \A m \in 0..k : \A j \in m..k : Fall(m, j) <= worst
                                /\ \E m \in 0..k : \E j \in m..k : Fall(m, j) = worst
           Kept(k) == /\ h[1..k].eq = eq[k] /\ h[1..k].worst \in Int
                      /\ Highest(k, h[1..k].peak) /\ Deepest(k, h[1..k].worst)
           S == {k \in 0..N : ~Kept(k)}
<1>4. ASSUME NEW m \in 0..N, NEW k \in 0..N
      PROVE  Fall(m, k) \in Int
    <2> DEFINE x == (eq[m] - eq[k]) * BPS
    <2>1. eq[m] \in Nat \ {0} /\ x \in Int
        BY <1>2 DEF BPS
    <2> HIDE DEF x
    <2>2. x \div eq[m] \in Int
        BY <2>1
    <2> QED
        BY <2>2 DEF x
<1>5. ASSUME NEW m \in 0..N, NEW p \in 0..N, NEW k \in 0..N, eq[m] <= eq[p]
      PROVE  Fall(m, k) <= Fall(p, k)
    BY <1>2, <1>5, FallsDeepen
<1>6. Kept(0)
    <2>1. /\ h[1..0].eq = eq[0] /\ h[1..0].peak = eq[0] /\ h[1..0].worst = 0
          /\ eq[0] \in Nat \ {0}
        BY <1>1, <1>2, <1>3
    <2>2. Fall(0, 0) = 0
        BY <2>1 DEF BPS
    <2>3. 0..0 = {0}
        OBVIOUS
    <2> HIDE DEF Fall
    <2> QED
        BY <2>1, <2>2, <2>3
<1>7. ASSUME NEW k \in 1..N, Kept(k - 1)
      PROVE  Kept(k)
    <2> DEFINE old == h[1..(k - 1)]
               new == h[1..k]
               fall == ((new.peak - eq[k]) * BPS) \div new.peak
    <2>1. /\ k \in Nat /\ k \in 0..N /\ k - 1 \in 0..N /\ k - 1 \in Nat
          /\ 0..k = 0..(k - 1) \union {k} /\ k \notin 0..(k - 1)
          /\ \A m \in 0..k : m \in 0..N
        BY <1>1
    <2>2. /\ old.eq = eq[k - 1] /\ old.worst \in Int
          /\ Highest(k - 1, old.peak) /\ Deepest(k - 1, old.worst)
        BY <1>7
    <2>3. eq[k] = eq[k - 1] + NetPnl(of[k]) /\ eq[k] \in Nat \ {0}
        BY <1>2, <2>1
    <2>4. old.peak \in Nat \ {0}
        BY <1>2, <2>1, <2>2
    <2>5. /\ new.eq = eq[k] /\ new.peak = Max({old.peak, eq[k]})
          /\ new.worst = Max({old.worst,
                              IF new.peak > 0 THEN ((new.peak - eq[k]) * BPS) \div new.peak ELSE 0})
        <3>1. new = Advance(old, of[k]) /\ old.eq + NetPnl(of[k]) = eq[k]
            BY <1>3, <2>2, <2>3
        <3> HIDE DEF old, new
        <3> QED
            BY <3>1 DEF Advance
    <2>6. new.peak = IF old.peak >= eq[k] THEN old.peak ELSE eq[k]
        <3> HIDE DEF new, old
        <3> QED
            BY <2>3, <2>4, <2>5, MaxOfTwo
    <2> HIDE DEF old, new, Fall
    <2>7. Highest(k, new.peak)
        <3>1. \E m \in 0..k : eq[m] = new.peak
            BY <2>1, <2>2, <2>6
        <3>2. ASSUME NEW m \in 0..k
              PROVE  eq[m] <= new.peak
            <4>1. m \in 0..(k - 1) \/ m = k
                BY <2>1
            <4>2. eq[m] \in Nat /\ (m \in 0..(k - 1) => eq[m] <= old.peak)
                BY <1>2, <2>1, <2>2
            <4> QED
                BY <2>3, <2>4, <2>6, <4>1, <4>2
        <3> QED
            BY <3>1, <3>2
    <2>8. PICK p \in 0..k : eq[p] = new.peak
        BY <2>7
    <2>9. fall = Fall(p, k) /\ fall \in Int /\ new.peak > 0
        <3>1. p \in 0..N /\ eq[p] \in Nat \ {0}
            BY <1>2, <2>1
        <3>2. Fall(p, k) \in Int
            BY <1>4, <2>1, <3>1
        <3> QED
            BY <2>8, <3>1, <3>2 DEF Fall
    <2> HIDE DEF fall
    <2>10. new.worst = IF old.worst >= fall THEN old.worst ELSE fall
        <3>1. new.worst = Max({old.worst, fall})
            BY <2>5, <2>9 DEF fall
        <3> QED
            BY <2>2, <2>9, <3>1, MaxOfTwo
    <2>11. Deepest(k, new.worst)
        <3>1. \E m \in 0..k : \E j \in m..k : Fall(m, j) = new.worst
            <4>1. CASE new.worst = fall
                <5>1. k \in p..k
                    BY <2>1
                <5> QED
                    BY <2>9, <4>1, <5>1
            <4>2. CASE new.worst = old.worst
                <5>1. PICK m \in 0..(k - 1) : \E j \in m..(k - 1) : Fall(m, j) = old.worst
                    BY <2>2
                <5>2. PICK j \in m..(k - 1) : Fall(m, j) = old.worst
                    BY <5>1
                <5>3. m \in 0..k /\ j \in m..k
                    BY <2>1
                <5> QED
                    BY <4>2, <5>2, <5>3
            <4> QED
                BY <2>10, <4>1, <4>2
        <3>2. ASSUME NEW m \in 0..k, NEW j \in m..k
              PROVE  Fall(m, j) <= new.worst
            <4>1. Fall(m, j) \in Int /\ m \in 0..N
                <5>1. m \in 0..N /\ j \in 0..k
                    BY <2>1
                <5>2. j \in 0..N
                    BY <2>1, <5>1
                <5> QED
                    BY <1>4, <5>1, <5>2
            <4>2. CASE j # k
                <5>1. m \in 0..(k - 1) /\ j \in m..(k - 1)
                    BY <2>1, <4>2
                <5>2. Fall(m, j) <= old.worst
                    BY <2>2, <5>1
                <5> QED
                    BY <2>2, <2>9, <2>10, <4>1, <5>2
            <4>3. CASE j = k
                <5>1. eq[m] <= eq[p]
                    BY <2>7, <2>8
                <5>2. Fall(m, k) <= Fall(p, k)
                    BY <1>5, <2>1, <4>1, <5>1
                <5> QED
                    BY <2>2, <2>9, <2>10, <4>1, <4>3, <5>2
            <4> QED
                BY <4>2, <4>3
        <3> QED
            BY <3>1, <3>2
    <2>12. new.eq = eq[k] /\ new.worst \in Int
        BY <2>2, <2>5, <2>9, <2>10
    <2> HIDE DEF Highest, Deepest
    <2> QED
        BY <2>7, <2>11, <2>12 DEF new
<1>8. ASSUME S # {}
      PROVE  FALSE
    <2>1. PICK k \in S : \A j \in S : k <= j
        <3>1. S \in SUBSET Nat
            BY <1>1
        <3> HIDE DEF S
        <3> QED
            BY <1>8, <3>1, Least
    <2> HIDE DEF Kept
    <2>2. k \in 0..N /\ ~Kept(k)
        OBVIOUS
    <2>3. k # 0
        BY <1>6, <2>2
    <2>4. k \in 1..N /\ k - 1 \in 0..N /\ k - 1 \notin S
        BY <1>1, <2>1, <2>2, <2>3
    <2>5. Kept(k - 1)
        BY <2>4
    <2> QED
        BY <1>7, <2>2, <2>4, <2>5
<1>9. N \in 0..N
    BY <1>1
<1>10. Kept(N)
    <2> HIDE DEF Kept
    <2> QED
        BY <1>8, <1>9
<1>11. Deepest(N, Drawdown(of, Equity))
    <2> HIDE DEF Deepest, Highest
    <2> QED
        BY <1>3, <1>10
<1> QED
    BY <1>11 DEF N, eq

DrawnInv == TypesInv /\ report.metrics.drawdown = Drawdown(report.trades, Equity)

(* A report carries the drawdown of the trades it carries.                 *)
LEMMA DrawnStep == DrawnInv /\ [Next]_vars => DrawnInv'
<1> SUFFICES ASSUME DrawnInv, [Next]_vars
             PROVE  DrawnInv'
    OBVIOUS
<1>1. TypesInv'
    BY TypesStep DEF DrawnInv
<1>2. report'.metrics.drawdown = Drawdown(report'.trades, Equity)
    <2>1. CASE TestDone
        <3>1. report'.trades = trades /\ report'.metrics = Summarize(trades, Equity)
            BY <2>1 DEF TestDone
        <3> QED
            BY <3>1 DEF Summarize
    <2>2. TestDone \/ UNCHANGED report
        BY DEF Next, Arrive, PaperTick, Mark, TestSkip, TestTrade, TestDone, vars, testVars
    <2> QED
        BY <2>1, <2>2 DEF DrawnInv
<1> QED
    BY <1>1, <1>2 DEF DrawnInv

(* The first report is of no trades.                                       *)
LEMMA DrawnStart == Init => DrawnInv
<1> SUFFICES ASSUME Init
             PROVE  DrawnInv
    OBVIOUS
<1>1. report.trades = <<>> /\ report.metrics = Summarize(<<>>, Equity)
    BY DEF Init
<1> QED
    BY <1>1, TypesStart DEF DrawnInv, Summarize

(* The drawdown a backtest reports is the deepest fall from an earlier     *)
(* equity, while the account stays solvent: below zero the fall from a     *)
(* lower equity is the larger share of it.                                 *)
THEOREM DrawdownsAreDeepest ==
    Spec => []((\A k \in 0..Len(report.trades) : EquityCurve(report.trades)[k] > 0)
                   => DrawdownIsDeepest)
<1>1. DrawnInv => ((\A k \in 0..Len(report.trades) : EquityCurve(report.trades)[k] > 0)
                       => DrawdownIsDeepest)
    <2> SUFFICES ASSUME DrawnInv,
                        \A k \in 0..Len(report.trades) : EquityCurve(report.trades)[k] > 0
                 PROVE  DrawdownIsDeepest
        OBVIOUS
    <2>1. report.trades \in Seq(TradeType)
        BY DEF DrawnInv, TypesInv, TypeOK
    <2> QED
        BY <2>1, DrawdownIs DEF DrawdownIsDeepest, DrawnInv
<1> QED
    BY <1>1, DrawnStart, DrawnStep, PTL DEF Spec

-----------------------------------------------------------------------------
(* Indicators.  What they say of a bar is read from a cut of the market,   *)
(* the bars up to the one after it, and from the whole.                    *)

(* Cuts of two sequences that agree there are one.                         *)
LEMMA CutsAgree ==
    ASSUME NEW vs, NEW ws, NEW a \in Nat \ {0}, NEW b \in Nat,
           \A j \in a..b : vs[j] = ws[j]
    PROVE  SubSeq(vs, a, b) = SubSeq(ws, a, b)
<1> DEFINE S == {vs[j] : j \in a..b}
<1>1. \A j \in a..b : vs[j] \in S /\ ws[j] \in S
    OBVIOUS
<1> HIDE DEF S
<1>2. /\ SubSeq(vs, a, b) \in Seq(S) /\ SubSeq(ws, a, b) \in Seq(S)
      /\ Len(SubSeq(vs, a, b)) = IF a <= b THEN b - a + 1 ELSE 0
      /\ Len(SubSeq(ws, a, b)) = IF a <= b THEN b - a + 1 ELSE 0
      /\ \A j \in 1..(b - a + 1) : SubSeq(vs, a, b)[j] = vs[a + j - 1]
      /\ \A j \in 1..(b - a + 1) : SubSeq(ws, a, b)[j] = ws[a + j - 1]
    BY <1>1, SubSeqProperties
<1>3. ASSUME NEW j \in 1..Len(SubSeq(vs, a, b))
      PROVE  SubSeq(vs, a, b)[j] = SubSeq(ws, a, b)[j]
    <2>1. j \in 1..(b - a + 1) /\ a + j - 1 \in a..b
        BY <1>2
    <2> QED
        BY <1>2, <2>1
<1> QED
    BY <1>2, <1>3, SeqEqual

(* A function on the numbers up to n is as long.                           *)
Counts(s, n) == s = [j \in 1..n |-> s[j]]

(* Its length and its domain say so.                                       *)
LEMMA LengthIs ==
    ASSUME NEW n \in Nat, NEW s, Counts(s, n)
    PROVE  Len(s) = n /\ DOMAIN s = 1..n
<1> DEFINE S == {s[j] : j \in 1..n}
<1>1. s \in [1..n -> S]
    BY DEF Counts
<1>2. s \in Seq(S)
    BY <1>1
<1> HIDE DEF S
<1> QED
    BY <1>1, <1>2, LenProperties

(* The averages of two series that agree.                                  *)
LEMMA EmasAgree ==
    ASSUME NEW N \in Nat, NEW M \in 0..N, NEW vs, DOMAIN vs = 1..N, Len(vs) = N,
           NEW ws, DOMAIN ws = 1..M, Len(ws) = M, \A j \in 1..M : vs[j] = ws[j],
           NEW first \in Nat \ {0}, NEW period \in Nat \ {0}
    PROVE  LET e == EmaFrom(vs, first, period)
               f == EmaFrom(ws, first, period)
           IN  /\ Counts(e, N) /\ Counts(f, M)
               /\ \A j \in 1..M : e[j] = f[j]
<1> DEFINE at == first + period - 1
           e == EmaFrom(vs, first, period)
           f == EmaFrom(ws, first, period)
           seed == Mean(SubSeq(vs, first, at))
           seed2 == Mean(SubSeq(ws, first, at))
<1>1. at \in Nat \ {0} /\ M \in Nat /\ M <= N
    OBVIOUS
<1>2. ASSUME N >= at
      PROVE  Solves(vs, at, seed, "ema", period, e)
    <2>1. e = Smoothed(vs, at, seed, "ema", period)
        BY <1>2 DEF EmaFrom, Smooth, Smoothed, Solves, StepOf
    <2> HIDE DEF e, seed, at
    <2> QED
        BY <1>1, <2>1, SmoothSolves
<1>3. ASSUME M >= at
      PROVE  Solves(ws, at, seed2, "ema", period, f)
    <2>1. f = Smoothed(ws, at, seed2, "ema", period)
        BY <1>3 DEF EmaFrom, Smooth, Smoothed, Solves, StepOf
    <2> HIDE DEF f, seed2, at
    <2> QED
        BY <1>1, <2>1, SmoothSolves
<1>4. N < at => e = [j \in 1..N |-> None]
    BY DEF EmaFrom
<1>5. M < at => f = [j \in 1..M |-> None]
    BY DEF EmaFrom
<1>6. M >= at => seed = seed2
    <2>1. M >= at => \A j \in first..at : vs[j] = ws[j]
        BY <1>1
    <2> HIDE DEF at
    <2> QED
        BY <1>1, <2>1, CutsAgree
<1> HIDE DEF e, f, seed, seed2, at
<1>7. Counts(e, N)
    BY <1>1, <1>2, <1>4 DEF Solves, Counts
<1>8. Counts(f, M)
    BY <1>1, <1>3, <1>5 DEF Solves, Counts
<1>9. \A j \in 1..M : e[j] = f[j]
    <2>1. CASE M >= at
        <3>1. Solves(vs, at, seed, "ema", period, e) /\ Solves(ws, at, seed, "ema", period, f)
            BY <1>1, <1>2, <1>3, <1>6, <2>1
        <3> QED
            BY <1>1, <3>1, SmoothsAgree
    <2>2. CASE M < at
        <3>1. ASSUME NEW j \in 1..M
              PROVE  f[j] = None /\ e[j] = None
            <4>1. j < at /\ j \in 1..N
                BY <1>1, <2>2
            <4> QED
                BY <1>1, <1>2, <1>4, <1>5, <2>2, <4>1 DEF Solves
        <3> QED
            BY <3>1
    <2> QED
        BY <1>1, <2>1, <2>2
<1> QED
    BY <1>7, <1>8, <1>9 DEF e, f

(* The first bars of a market.                                             *)
Cut(ks, pre) ==
    /\ ks \in Seq(Bar) /\ pre \in Seq(Bar) /\ Len(pre) <= Len(ks)
    /\ \A j \in 1..Len(pre) : pre[j] = ks[j]

(* The first bars of a market are a cut of it.                             *)
LEMMA CutIs ==
    ASSUME NEW ks \in Seq(Bar), NEW m \in 1..Len(ks)
    PROVE  Cut(ks, SubSeq(ks, 1, m)) /\ Len(SubSeq(ks, 1, m)) = m
<1>1. \A j \in 1..m : ks[j] \in Bar
    OBVIOUS
<1>2. /\ SubSeq(ks, 1, m) \in Seq(Bar) /\ Len(SubSeq(ks, 1, m)) = m
      /\ \A j \in 1..m : SubSeq(ks, 1, m)[j] = ks[j]
    BY <1>1, SubSeqProperties
<1> QED
    BY <1>2 DEF Cut

(* The exponential average of a cut is the cut of the average.             *)
LEMMA EmaCausal ==
    ASSUME NEW ks, NEW pre, Cut(ks, pre), NEW period \in Nat \ {0}
    PROVE  LET e == Ema(ks, period)
               f == Ema(pre, period)
           IN  /\ Counts(e, Len(ks)) /\ Counts(f, Len(pre))
               /\ \A j \in 1..Len(pre) : e[j] = f[j]
<1> DEFINE vs == Closes(ks)
           ws == Closes(pre)
<1>1. Len(ks) \in Nat /\ Len(pre) \in 0..Len(ks) /\ DOMAIN ks = 1..Len(ks)
      /\ DOMAIN pre = 1..Len(pre) /\ \A j \in 1..Len(pre) : j \in 1..Len(ks) /\ pre[j] = ks[j]
    BY DEF Cut
<1>2. Counts(vs, Len(ks)) /\ Counts(ws, Len(pre))
      /\ \A j \in 1..Len(pre) : vs[j] = ws[j]
    BY <1>1 DEF Closes, Counts
<1> HIDE DEF vs, ws
<1>3. Len(vs) = Len(ks) /\ DOMAIN vs = 1..Len(ks)
    BY <1>1, <1>2, LengthIs
<1>4. Len(ws) = Len(pre) /\ DOMAIN ws = 1..Len(pre)
    <2>1. Len(pre) \in Nat
        BY <1>1
    <2> QED
        BY <1>2, <2>1, LengthIs
<1>5. LET e == EmaFrom(vs, 1, period)
          f == EmaFrom(ws, 1, period)
      IN  /\ Counts(e, Len(ks)) /\ Counts(f, Len(pre))
          /\ \A j \in 1..Len(pre) : e[j] = f[j]
    <2> DEFINE N == Len(ks)
               M == Len(pre)
    <2>1. /\ N \in Nat /\ M \in 0..N /\ DOMAIN vs = 1..N /\ Len(vs) = N
          /\ DOMAIN ws = 1..M /\ Len(ws) = M /\ \A j \in 1..M : vs[j] = ws[j]
        BY <1>1, <1>2, <1>3, <1>4
    <2>2. 1 \in Nat \ {0} /\ period \in Nat \ {0}
        OBVIOUS
    <2> HIDE DEF N, M
    <2>3. /\ Counts(EmaFrom(vs, 1, period), N) /\ Counts(EmaFrom(ws, 1, period), M)
          /\ \A j \in 1..M : EmaFrom(vs, 1, period)[j] = EmaFrom(ws, 1, period)[j]
        BY ONLY <2>1, <2>2, EmasAgree
    <2> QED
        BY <2>3 DEF N, M
<1> QED
    BY <1>5 DEF Ema, vs, ws

(* What a cut shares with the whole.                                       *)
LEMMA CutsShare ==
    ASSUME NEW ks, NEW pre, Cut(ks, pre)
    PROVE  /\ Len(ks) \in Nat /\ Len(pre) \in Nat /\ Len(pre) \in 0..Len(ks)
           /\ DOMAIN ks = 1..Len(ks) /\ DOMAIN pre = 1..Len(pre)
           /\ \A j \in 1..Len(pre) : /\ j \in 1..Len(ks) /\ pre[j] = ks[j]
                                     /\ j # 1 => pre[j - 1] = ks[j - 1]
<1>1. /\ Len(ks) \in Nat /\ Len(pre) \in Nat /\ Len(pre) <= Len(ks)
      /\ DOMAIN ks = 1..Len(ks) /\ DOMAIN pre = 1..Len(pre)
      /\ \A j \in 1..Len(pre) : pre[j] = ks[j]
    BY DEF Cut
<1>2. \A j \in 1..Len(pre) : /\ j \in 1..Len(ks)
                             /\ j # 1 => j - 1 \in 1..Len(pre)
    BY <1>1
<1> QED
    BY <1>1, <1>2

MacdHist(ks, fast, slow, signal) == Macd(ks, fast, slow, signal).hist

(* So is the histogram of a cut.                                           *)
LEMMA MacdCausal ==
    ASSUME NEW ks, NEW pre, Cut(ks, pre), NEW fast \in Nat \ {0}, NEW slow \in Nat \ {0},
           NEW signal \in Nat \ {0}
    PROVE  \A j \in 1..Len(pre) :
               MacdHist(ks, fast, slow, signal)[j] = MacdHist(pre, fast, slow, signal)[j]
<1> DEFINE N == Len(ks)
           M == Len(pre)
           line == Minus(Ema(ks, fast), Ema(ks, slow))
           line2 == Minus(Ema(pre, fast), Ema(pre, slow))
           e == EmaFrom(line, slow, signal)
           f == EmaFrom(line2, slow, signal)
<1>1. N \in Nat /\ M \in Nat /\ M \in 0..N /\ \A j \in 1..M : j \in 1..N
    BY CutsShare
<1>2. \A period \in Nat \ {0} :
        /\ Counts(Ema(ks, period), N) /\ Counts(Ema(pre, period), M)
        /\ \A j \in 1..M : Ema(ks, period)[j] = Ema(pre, period)[j]
    BY EmaCausal
<1> HIDE DEF N, M
<1>3. DOMAIN Ema(ks, fast) = 1..N /\ DOMAIN Ema(pre, fast) = 1..M
    BY <1>1, <1>2, LengthIs
<1>4. Counts(line, N) /\ Counts(line2, M) /\ \A j \in 1..M : line[j] = line2[j]
    BY <1>1, <1>2, <1>3 DEF Minus, Counts
<1> HIDE DEF line, line2
<1>5. Len(line) = N /\ DOMAIN line = 1..N /\ Len(line2) = M /\ DOMAIN line2 = 1..M
    BY <1>1, <1>4, LengthIs
<1>6. \A j \in 1..M : e[j] = f[j]
    BY <1>1, <1>4, <1>5, EmasAgree
<1> HIDE DEF e, f
<1>7. \A j \in 1..M : Minus(line, e)[j] = Minus(line2, f)[j]
    BY <1>1, <1>4, <1>5, <1>6 DEF Minus
<1> QED
    BY <1>7 DEF MacdHist, Macd, line, line2, e, f, M

(* The Wilder means of two series that agree, on the same seed.            *)
LEMMA WildersAgree ==
    ASSUME NEW N \in Nat, NEW M \in 0..N, NEW vs, DOMAIN vs = 1..N, NEW ws, DOMAIN ws = 1..M,
           \A j \in 1..M : vs[j] = ws[j],
           NEW first \in Nat \ {0}, NEW seed, NEW n
    PROVE  \A j \in 1..M : WilderMean(vs, first, seed, n)[j] = WilderMean(ws, first, seed, n)[j]
<1>1. M \in Nat
    OBVIOUS
<1>2. WilderMean(vs, first, seed, n) = Smoothed(vs, first, seed, "wilder", n)
      /\ WilderMean(ws, first, seed, n) = Smoothed(ws, first, seed, "wilder", n)
    BY DEF WilderMean, Smooth, Smoothed, Solves, StepOf
<1>3. Solves(vs, first, seed, "wilder", n, Smoothed(vs, first, seed, "wilder", n))
      /\ Solves(ws, first, seed, "wilder", n, Smoothed(ws, first, seed, "wilder", n))
    BY <1>1, SmoothSolves
<1> QED
    BY <1>2, <1>3, SmoothsAgree

(* The relative strength of a bar is that of the bars up to it.            *)
LEMMA RsiCausal ==
    ASSUME NEW ks, NEW pre, Cut(ks, pre), NEW period \in Nat \ {0}
    PROVE  \A j \in 1..Len(pre) : Rsi(ks, period)[j] = Rsi(pre, period)[j]
<1> DEFINE N == Len(ks)
           M == Len(pre)
           Seed(vs) == Mean(SubSeq(vs, 2, period + 1))
           Avg(vs) == WilderMean(vs, period + 1, Seed(vs), period)
<1>1. /\ N \in Nat /\ M \in Nat /\ M \in 0..N /\ M <= N /\ \A j \in 1..M : j \in 1..N
      /\ DOMAIN ks = 1..N /\ DOMAIN pre = 1..M
      /\ \A j \in 1..M : ks[j] = pre[j] /\ (j # 1 => ks[j - 1] = pre[j - 1])
    BY CutsShare
<1> HIDE DEF N, M
<1>2. /\ DOMAIN Gains(ks) = 1..N /\ DOMAIN Gains(pre) = 1..M
      /\ DOMAIN Losses(ks) = 1..N /\ DOMAIN Losses(pre) = 1..M
      /\ \A j \in 1..M : Gains(ks)[j] = Gains(pre)[j] /\ Losses(ks)[j] = Losses(pre)[j]
    BY <1>1 DEF Gains, Losses
<1>3. ASSUME M > period, NEW vs, NEW ws, DOMAIN vs = 1..N, DOMAIN ws = 1..M,
             \A j \in 1..M : vs[j] = ws[j]
      PROVE  \A j \in 1..M : Avg(vs)[j] = Avg(ws)[j]
    <2>1. \A j \in 2..(period + 1) : vs[j] = ws[j]
        BY <1>1, <1>3
    <2>2. Seed(vs) = Seed(ws)
        <3>1. 2 \in Nat \ {0} /\ period + 1 \in Nat
            OBVIOUS
        <3>2. SubSeq(vs, 2, period + 1) = SubSeq(ws, 2, period + 1)
            BY ONLY <2>1, <3>1, CutsAgree
        <3> QED
            BY <3>2
    <2> DEFINE seed == Seed(vs)
    <2> HIDE DEF Seed
    <2>3. period + 1 \in Nat \ {0}
        OBVIOUS
    <2> HIDE DEF seed
    <2>4. \A j \in 1..M : WilderMean(vs, period + 1, seed, period)[j]
                          = WilderMean(ws, period + 1, seed, period)[j]
        BY <1>1, <1>3, <2>3, WildersAgree
    <2> QED
        BY <2>2, <2>4 DEF seed
<1>4. /\ Rsi(ks, period) =
                     IF N <= period THEN [j \in 1..N |-> None]
                        ELSE [j \in 1..N |-> IF j <= period THEN None
                              ELSE RsiFromGainLoss(Avg(Gains(ks))[j], Avg(Losses(ks))[j])]
      /\ Rsi(pre, period) =
                     IF M <= period THEN [j \in 1..M |-> None]
                        ELSE [j \in 1..M |-> IF j <= period THEN None
                              ELSE RsiFromGainLoss(Avg(Gains(pre))[j], Avg(Losses(pre))[j])]
    BY <1>1 DEF Rsi, N, M
<1> HIDE DEF Avg
<1>5. CASE M <= period
    BY <1>1, <1>4, <1>5 DEF M
<1>6. CASE M > period
    <2>1. \A j \in 1..M : Avg(Gains(ks))[j] = Avg(Gains(pre))[j]
                          /\ Avg(Losses(ks))[j] = Avg(Losses(pre))[j]
        BY <1>2, <1>3, <1>6
    <2>2. \A j \in 1..M : Rsi(ks, period)[j] = Rsi(pre, period)[j]
        BY <1>1, <1>4, <1>6, <2>1
    <2> QED
        BY <2>2 DEF M
<1> QED
    BY <1>1, <1>5, <1>6

(* So is the average true range,                                           *)
LEMMA AtrCausal ==
    ASSUME NEW ks, NEW pre, Cut(ks, pre), NEW period \in Nat \ {0}
    PROVE  \A j \in 1..Len(pre) : Atr(ks, period)[j] = Atr(pre, period)[j]
<1> DEFINE N == Len(ks)
           M == Len(pre)
           vs == TrueRange(ks)
           ws == TrueRange(pre)
           Seed(s) == Mean(SubSeq(s, 1, period))
<1>1. /\ N \in Nat /\ M \in Nat /\ M \in 0..N /\ M <= N /\ \A j \in 1..M : j \in 1..N
      /\ DOMAIN ks = 1..N /\ DOMAIN pre = 1..M
      /\ \A j \in 1..M : ks[j] = pre[j] /\ (j # 1 => ks[j - 1] = pre[j - 1])
    BY CutsShare
<1> HIDE DEF N, M
<1>2. DOMAIN vs = 1..N /\ DOMAIN ws = 1..M /\ \A j \in 1..M : vs[j] = ws[j]
    <2>1. DOMAIN vs = 1..N /\ DOMAIN ws = 1..M
        BY <1>1 DEF TrueRange
    <2>2. ASSUME NEW j \in 1..M
          PROVE  vs[j] = ws[j]
        <3>1. j = 1 => ks[1] = pre[1]
            BY <1>1
        <3> QED
            BY <1>1, <3>1 DEF TrueRange
    <2> QED
        BY <2>1, <2>2
<1>3. Atr(ks, period) = (IF N < period THEN [j \in 1..N |-> None]
                         ELSE WilderMean(vs, period, Seed(vs), period))
      /\ Atr(pre, period) = (IF M < period THEN [j \in 1..M |-> None]
                             ELSE WilderMean(ws, period, Seed(ws), period))
    BY <1>1 DEF Atr, N, M
<1> HIDE DEF vs, ws
<1>4. CASE M < period
    <2>1. \A j \in 1..M : Atr(pre, period)[j] = None
        BY <1>3, <1>4
    <2> DEFINE seed == Seed(vs)
    <2> HIDE DEF seed
    <2>2. Solves(vs, period, seed, "wilder", period, Smoothed(vs, period, seed, "wilder", period))
        BY <1>1, <1>2, SmoothSolves
    <2>3. WilderMean(vs, period, seed, period) = Smoothed(vs, period, seed, "wilder", period)
        BY DEF WilderMean, Smooth, Smoothed, Solves, StepOf
    <2>4. \A j \in 1..M : j \in DOMAIN vs /\ j < period
        BY <1>1, <1>2, <1>4
    <2>5. \A j \in 1..M : WilderMean(vs, period, seed, period)[j] = None
        BY <2>2, <2>3, <2>4 DEF Solves
    <2>6. \A j \in 1..M : Atr(ks, period)[j] = None
        BY <1>1, <1>3, <2>5 DEF seed
    <2> QED
        BY <2>1, <2>6 DEF M
<1>5. CASE M >= period
    <2>1. Seed(vs) = Seed(ws)
        <3>1. \A j \in 1..period : vs[j] = ws[j]
            BY <1>1, <1>2, <1>5
        <3>2. SubSeq(vs, 1, period) = SubSeq(ws, 1, period)
            BY ONLY <3>1, period \in Nat \ {0}, CutsAgree
        <3> QED
            BY <3>2
    <2> DEFINE seed == Seed(vs)
    <2> HIDE DEF Seed
    <2> HIDE DEF seed
    <2>2. N \in Nat /\ M \in 0..N /\ period \in Nat \ {0}
        BY <1>1
    <2>3. \A j \in 1..M : WilderMean(vs, period, seed, period)[j]
                          = WilderMean(ws, period, seed, period)[j]
        BY ONLY <1>2, <2>2, WildersAgree
    <2>4. Atr(ks, period) = WilderMean(vs, period, seed, period)
          /\ Atr(pre, period) = WilderMean(ws, period, seed, period)
        BY <1>1, <1>3, <1>5, <2>1 DEF seed
    <2> QED
        BY <2>3, <2>4 DEF M
<1> QED
    BY <1>1, <1>4, <1>5

(* and the volume weighted price.                                          *)
LEMMA VwapCausal ==
    ASSUME NEW ks, NEW pre, Cut(ks, pre)
    PROVE  \A j \in 1..Len(pre) : Vwap(ks)[j] = Vwap(pre)[j]
<1> SUFFICES ASSUME NEW j \in 1..Len(pre)
             PROVE  Vwap(ks)[j] = Vwap(pre)[j]
    OBVIOUS
<1>1. j \in DOMAIN ks /\ j \in DOMAIN pre /\ \A k \in 1..j : ks[k] = pre[k]
    <2>1. j \in DOMAIN ks /\ j \in DOMAIN pre
        BY CutsShare
    <2>2. \A k \in 1..j : k \in 1..Len(pre)
        BY CutsShare
    <2> QED
        BY <2>1, <2>2, CutsShare
<1>2. /\ [k \in 1..j |-> ks[k].volume] = [k \in 1..j |-> pre[k].volume]
      /\ [k \in 1..j |-> (ks[k].high + ks[k].low + ks[k].close) * ks[k].volume]
         = [k \in 1..j |-> (pre[k].high + pre[k].low + pre[k].close) * pre[k].volume]
    BY <1>1
<1> QED
    BY <1>1, <1>2 DEF Vwap

(* The smoothed sum of a series is as long, and agrees with that of a cut. *)
LEMMA SumsAgree ==
    ASSUME NEW N \in Nat, NEW M \in 0..N, NEW vs, DOMAIN vs = 1..N, Len(vs) = N,
           NEW ws, DOMAIN ws = 1..M, Len(ws) = M, \A j \in 1..M : vs[j] = ws[j],
           NEW period \in Nat \ {0}
    PROVE  LET e == WilderSmooth(vs, period)
               f == WilderSmooth(ws, period)
           IN  /\ Counts(e, N) /\ Counts(f, M)
               /\ \A j \in 1..M : e[j] = f[j]
<1> DEFINE e == WilderSmooth(vs, period)
           f == WilderSmooth(ws, period)
           seed == Total(SubSeq(vs, 1, period))
           seed2 == Total(SubSeq(ws, 1, period))
<1>1. M \in Nat /\ M <= N
    OBVIOUS
<1>2. ASSUME N >= period
      PROVE  Solves(vs, period, seed, "sum", period, e)
    <2>1. ~(Len(vs) < period)
        BY <1>2
    <2>2. e = Smoothed(vs, period, seed, "sum", period)
        BY <2>1 DEF WilderSmooth, Smooth, Smoothed, Solves, StepOf
    <2> HIDE DEF e, seed
    <2> QED
        BY <1>1, <2>2, SmoothSolves
<1>3. ASSUME M >= period
      PROVE  Solves(ws, period, seed2, "sum", period, f)
    <2>1. ~(Len(ws) < period)
        BY <1>3
    <2>2. f = Smoothed(ws, period, seed2, "sum", period)
        BY <2>1 DEF WilderSmooth, Smooth, Smoothed, Solves, StepOf
    <2> HIDE DEF f, seed2
    <2> QED
        BY <1>1, <2>2, SmoothSolves
<1>4. N < period => e = [j \in 1..N |-> None]
    BY DEF WilderSmooth
<1>5. M < period => f = [j \in 1..M |-> None]
    BY DEF WilderSmooth
<1>6. M >= period => seed = seed2
    <2>1. M >= period => \A j \in 1..period : vs[j] = ws[j]
        BY <1>1
    <2>2. 1 \in Nat \ {0} /\ period \in Nat
        OBVIOUS
    <2>3. M >= period => SubSeq(vs, 1, period) = SubSeq(ws, 1, period)
        BY ONLY <2>1, <2>2, CutsAgree
    <2> QED
        BY <2>3
<1> HIDE DEF e, f, seed, seed2
<1>7. Counts(e, N)
    BY <1>1, <1>2, <1>4 DEF Solves, Counts
<1>8. Counts(f, M)
    BY <1>1, <1>3, <1>5 DEF Solves, Counts
<1>9. \A j \in 1..M : e[j] = f[j]
    <2>1. CASE M >= period
        <3>1. Solves(vs, period, seed, "sum", period, e) /\ Solves(ws, period, seed, "sum", period, f)
            BY <1>1, <1>2, <1>3, <1>6, <2>1
        <3> QED
            BY <1>1, <3>1, SmoothsAgree
    <2>2. CASE M < period
        <3>1. ASSUME NEW j \in 1..M
              PROVE  f[j] = None /\ e[j] = None
            <4>1. j < period /\ j \in 1..N
                BY <1>1, <2>2
            <4> QED
                BY <1>1, <1>2, <1>4, <1>5, <2>2, <4>1 DEF Solves
        <3> QED
            BY <3>1
    <2> QED
        BY <1>1, <2>1, <2>2
<1> QED
    BY <1>7, <1>8, <1>9 DEF e, f

(* The DX of one bar, and the series of them up to a bar.                  *)
DxAt(ts, ps, ms, j) == Dx((100 * ps[j]) \div ts[j], (100 * ms[j]) \div ts[j])

Collects(ts, ps, ms, N, dx) ==
    /\ dx[0] = <<>>
    /\ \A j \in 1..N : dx[j] = IF ts[j] \in {None, 0} THEN dx[j - 1]
                               ELSE Append(dx[j - 1], DxAt(ts, ps, ms, j))

Collected(ts, ps, ms, N) ==
    \E S, dx : /\ dx \in [0..N -> Seq(S)] /\ Collects(ts, ps, ms, N, dx)
               /\ \A j \in 1..N : DxAt(ts, ps, ms, j) \in S
               /\ DxOf(ts, ps, ms) = dx[N]

(* DxOf is the last of them.                                               *)
LEMMA DxOfIs ==
    ASSUME NEW N \in Nat, NEW ts, Len(ts) = N, NEW ps, NEW ms
    PROVE  Collected(ts, ps, ms, N)
<1> DEFINE At(j) == DxAt(ts, ps, ms, j)
           S == {At(j) : j \in 1..N}
           next == [p \in (1..N) \X Seq(S) |->
                       IF ts[p[1]] \in {None, 0} THEN p[2] ELSE Append(p[2], At(p[1]))]
           Series(f) == f = [j \in 0..N |-> IF j = 0 THEN <<>>
                                            ELSE IF ts[j] \in {None, 0} THEN f[j - 1]
                                            ELSE Append(f[j - 1], At(j))]
<1>1. \A j \in 1..N : At(j) \in S
    OBVIOUS
<1> HIDE DEF At, S
<1>2. <<>> \in Seq(S) /\ next \in [(1..N) \X Seq(S) -> Seq(S)]
    BY <1>1
<1>3. PICK g \in [0..N -> Seq(S)] : Recurs(N, <<>>, next, g)
    <2> HIDE DEF next
    <2> QED
        BY <1>2, RecursionExists
<1>4. \A j \in 1..N : g[j] = IF ts[j] \in {None, 0} THEN g[j - 1] ELSE Append(g[j - 1], At(j))
    <2> SUFFICES ASSUME NEW j \in 1..N
                 PROVE  g[j] = IF ts[j] \in {None, 0} THEN g[j - 1] ELSE Append(g[j - 1], At(j))
        OBVIOUS
    <2>1. g[j - 1] \in Seq(S)
        OBVIOUS
    <2>2. next[<<j, g[j - 1]>>] = IF ts[j] \in {None, 0} THEN g[j - 1]
                                  ELSE Append(g[j - 1], At(j))
        BY <2>1
    <2> HIDE DEF next
    <2> QED
        BY <1>3, <2>2 DEF Recurs
<1>5. Series(g)
    <2>1. g[0] = <<>> /\ \A j \in 0..N : j = 0 \/ j \in 1..N
        BY <1>3 DEF Recurs
    <2>2. \A j \in 0..N : g[j] = IF j = 0 THEN <<>>
                                 ELSE IF ts[j] \in {None, 0} THEN g[j - 1]
                                 ELSE Append(g[j - 1], At(j))
        BY <1>4, <2>1
    <2> QED
        BY <2>2
<1> DEFINE h == CHOOSE f : Series(f)
<1>6. Series(h)
    <2> HIDE DEF Series
    <2> QED
        BY <1>5
<1>7. DxOf(ts, ps, ms) = h[N]
    BY DEF DxOf, At, DxAt
<1> HIDE DEF h
<1> DEFINE D == {j \in 0..N : h[j] # g[j]}
<1>8. D = {}
    <2> SUFFICES ASSUME D # {}
                 PROVE  FALSE
        OBVIOUS
    <2>1. PICK j \in D : \A k \in D : j <= k
        <3>1. D \in SUBSET Nat
            OBVIOUS
        <3> HIDE DEF D
        <3> QED
            BY <3>1, Least
    <2>2. j \in 0..N /\ h[j] # g[j]
        OBVIOUS
    <2>3. /\ h[j] = IF j = 0 THEN <<>> ELSE IF ts[j] \in {None, 0} THEN h[j - 1]
                    ELSE Append(h[j - 1], At(j))
          /\ g[j] = IF j = 0 THEN <<>> ELSE IF ts[j] \in {None, 0} THEN g[j - 1]
                    ELSE Append(g[j - 1], At(j))
        BY <1>5, <1>6, <2>2
    <2>4. j # 0 /\ j - 1 \in 0..N
        BY <2>2, <2>3
    <2>5. h[j - 1] = g[j - 1]
        <3>1. j - 1 \notin D
            BY <2>1, <2>4
        <3> QED
            BY <2>4, <3>1
    <2> QED
        BY <2>2, <2>3, <2>5
<1>9. h[N] = g[N]
    BY <1>8
<1>10. Collects(ts, ps, ms, N, g)
    BY <1>3, <1>4 DEF Collects, Recurs, At
<1>11. /\ g \in [0..N -> Seq(S)] /\ Collects(ts, ps, ms, N, g)
       /\ \A j \in 1..N : DxAt(ts, ps, ms, j) \in S
       /\ DxOf(ts, ps, ms) = g[N]
    BY <1>1, <1>7, <1>9, <1>10 DEF At
<1> QED
    BY <1>11 DEF Collected

(* One more bar adds at most one DX, at the end of the series.             *)
LEMMA DxSeriesGrows ==
    ASSUME NEW ks, NEW pre, Cut(ks, pre), Len(ks) = Len(pre) + 1, NEW period \in Nat \ {0}
    PROVE  LET d == DxSeries(ks, period)
               d2 == DxSeries(pre, period)
           IN  /\ Len(d) \in Nat /\ DOMAIN d = 1..Len(d)
               /\ Len(d2) \in Nat /\ DOMAIN d2 = 1..Len(d2)
               /\ Len(d2) <= Len(d) /\ Len(d) <= Len(d2) + 1
               /\ \A k \in 1..Len(d2) : d[k] = d2[k]
<1> DEFINE N == Len(ks)
           M == Len(pre)
           ts == WilderSmooth(TrueRange(ks), period)
           ts2 == WilderSmooth(TrueRange(pre), period)
           ps == WilderSmooth(PlusDM(ks), period)
           ps2 == WilderSmooth(PlusDM(pre), period)
           ms == WilderSmooth(MinusDM(ks), period)
           ms2 == WilderSmooth(MinusDM(pre), period)
<1>1. /\ N \in Nat /\ M \in Nat /\ M \in 0..N /\ N = M + 1 /\ N \in 1..N
      /\ DOMAIN ks = 1..N /\ DOMAIN pre = 1..M
      /\ \A j \in 1..M : j \in 1..N /\ ks[j] = pre[j] /\ (j # 1 => ks[j - 1] = pre[j - 1])
    BY CutsShare
<1> HIDE DEF N, M
<1>2. /\ Counts(TrueRange(ks), N) /\ Counts(TrueRange(pre), M)
      /\ \A j \in 1..M : TrueRange(ks)[j] = TrueRange(pre)[j]
    <2>1. Counts(TrueRange(ks), N) /\ Counts(TrueRange(pre), M)
        BY <1>1 DEF TrueRange, Counts
    <2>2. ASSUME NEW j \in 1..M
          PROVE  TrueRange(ks)[j] = TrueRange(pre)[j]
        <3>1. j = 1 => ks[1] = pre[1]
            BY <1>1
        <3> QED
            BY <1>1, <3>1 DEF TrueRange
    <2> QED
        BY <2>1, <2>2
<1>3. /\ Counts(PlusDM(ks), N) /\ Counts(PlusDM(pre), M)
      /\ \A j \in 1..M : PlusDM(ks)[j] = PlusDM(pre)[j]
    BY <1>1 DEF PlusDM, Counts
<1>4. /\ Counts(MinusDM(ks), N) /\ Counts(MinusDM(pre), M)
      /\ \A j \in 1..M : MinusDM(ks)[j] = MinusDM(pre)[j]
    BY <1>1 DEF MinusDM, Counts
<1>5. ASSUME NEW vs, NEW ws, Counts(vs, N), Counts(ws, M), \A j \in 1..M : vs[j] = ws[j]
      PROVE  /\ Counts(WilderSmooth(vs, period), N) /\ Counts(WilderSmooth(ws, period), M)
             /\ \A j \in 1..M : WilderSmooth(vs, period)[j] = WilderSmooth(ws, period)[j]
    <2>1. /\ Len(vs) = N /\ DOMAIN vs = 1..N /\ Len(ws) = M /\ DOMAIN ws = 1..M
        BY <1>1, <1>5, LengthIs
    <2>2. N \in Nat /\ M \in 0..N /\ period \in Nat \ {0}
        BY <1>1
    <2> QED
        BY ONLY <1>5, <2>1, <2>2, SumsAgree
<1>6. /\ Counts(ts, N) /\ Counts(ts2, M)
      /\ \A j \in 1..M : ts[j] = ts2[j] /\ ps[j] = ps2[j] /\ ms[j] = ms2[j]
    BY <1>2, <1>3, <1>4, <1>5
<1>7. DxSeries(ks, period) = DxOf(ts, ps, ms) /\ DxSeries(pre, period) = DxOf(ts2, ps2, ms2)
    BY DEF DxSeries
<1> HIDE DEF ts, ts2, ps, ps2, ms, ms2
<1>8. Len(ts) \in Nat /\ Len(ts) = N /\ Len(ts2) \in Nat /\ Len(ts2) = M
    BY <1>1, <1>6, LengthIs
<1>9. Collected(ts, ps, ms, N) /\ Collected(ts2, ps2, ms2, M)
    BY ONLY <1>8, DxOfIs
<1>10. PICK S, dx : /\ dx \in [0..N -> Seq(S)] /\ Collects(ts, ps, ms, N, dx)
                    /\ \A j \in 1..N : DxAt(ts, ps, ms, j) \in S
                    /\ DxOf(ts, ps, ms) = dx[N]
    BY <1>9 DEF Collected
<1>11. PICK S2, dx2 : /\ dx2 \in [0..M -> Seq(S2)] /\ Collects(ts2, ps2, ms2, M, dx2)
                      /\ DxOf(ts2, ps2, ms2) = dx2[M]
    BY <1>9 DEF Collected
<1> DEFINE D == {j \in 0..M : dx[j] # dx2[j]}
<1>12. D = {}
    <2> SUFFICES ASSUME D # {}
                 PROVE  FALSE
        OBVIOUS
    <2>1. PICK j \in D : \A k \in D : j <= k
        <3>1. D \in SUBSET Nat
            BY <1>1
        <3> HIDE DEF D
        <3> QED
            BY <3>1, Least
    <2>2. j \in 0..M /\ dx[j] # dx2[j]
        OBVIOUS
    <2>3. j # 0
        BY <1>10, <1>11, <2>2 DEF Collects
    <2>4. j \in 1..M /\ j \in 1..N /\ j - 1 \in 0..M
        BY <1>1, <2>2, <2>3
    <2>5. dx[j - 1] = dx2[j - 1]
        <3>1. j - 1 \notin D
            BY <1>1, <2>1, <2>4
        <3> QED
            BY <2>4, <3>1
    <2>6. DxAt(ts, ps, ms, j) = DxAt(ts2, ps2, ms2, j) /\ ts[j] = ts2[j]
        BY <1>6, <2>4 DEF DxAt
    <2> HIDE DEF D
    <2> QED
        BY <1>10, <1>11, <2>2, <2>4, <2>5, <2>6 DEF Collects
<1>13. dx[M] = dx2[M] /\ dx[M] \in Seq(S)
    <2>1. M \in 0..M /\ M \notin D
        BY <1>1, <1>12
    <2> QED
        BY <1>1, <1>10, <2>1
<1> DEFINE d == dx[N]
           d2 == dx[M]
           x == DxAt(ts, ps, ms, N)
<1>14. /\ d = d2 \/ d = Append(d2, x)
       /\ x \in S /\ d2 \in Seq(S) /\ d \in Seq(S)
    <2>1. N - 1 = M /\ N \in 0..N
        BY <1>1
    <2> QED
        BY <1>1, <1>10, <1>13, <2>1 DEF Collects
<1>15. DxOf(ts, ps, ms) = d /\ DxOf(ts2, ps2, ms2) = d2
    BY <1>10, <1>11, <1>13
<1> HIDE DEF d, d2, x
<1>16. /\ Len(d) \in Nat /\ DOMAIN d = 1..Len(d) /\ Len(d2) \in Nat /\ DOMAIN d2 = 1..Len(d2)
       /\ Len(d2) <= Len(d) /\ Len(d) <= Len(d2) + 1 /\ \A k \in 1..Len(d2) : d[k] = d2[k]
    <2>1. CASE d = d2
        BY <1>14, <2>1
    <2>2. CASE d = Append(d2, x)
        BY <1>14, <2>2
    <2> QED
        BY <1>14, <2>1, <2>2
<1>17. DxSeries(ks, period) = d /\ DxSeries(pre, period) = d2
    BY ONLY <1>7, <1>15
<1> QED
    BY <1>16, <1>17

(* The ADX of a bar does not change with the next one, as long as at most  *)
(* one bar was left out of its series.                                     *)
LEMMA AdxCausal ==
    ASSUME NEW ks, NEW pre, Cut(ks, pre), Len(ks) = Len(pre) + 1, Len(pre) > 0,
           NEW period \in Nat \ {0}, Len(DxSeries(ks, period)) >= Len(ks) - period
    PROVE  Adx(ks, period)[Len(pre)] = Adx(pre, period)[Len(pre)]
<1> DEFINE N == Len(ks)
           M == Len(pre)
           d == DxSeries(ks, period)
           d2 == DxSeries(pre, period)
           Seed(s) == Mean(SubSeq(s, 1, period))
           w == WilderMean(d, period, Seed(d), period)
           w2 == WilderMean(d2, period, Seed(d2), period)
           k == period + M - 2 * period
<1>1. /\ Len(d) \in Nat /\ DOMAIN d = 1..Len(d) /\ Len(d2) \in Nat /\ DOMAIN d2 = 1..Len(d2)
      /\ Len(d2) <= Len(d) /\ Len(d) <= Len(d2) + 1
      /\ \A j \in 1..Len(d2) : d[j] = d2[j]
    BY DxSeriesGrows
<1>2. N \in Nat /\ M \in Nat /\ N = M + 1 /\ M > 0
    BY CutsShare
<1>3. Len(d) >= N - period
    OBVIOUS
<1>4. /\ Adx(ks, period)[M] = IF M < 2 * period \/ k > Len(d) THEN None ELSE w[k]
      /\ Adx(pre, period)[M] = IF M < 2 * period \/ k > Len(d2) THEN None ELSE w2[k]
    <2>1. M \in 1..N /\ M \in 1..M
        BY <1>2
    <2> HIDE DEF N, M, d, d2
    <2>2. Adx(ks, period) = AdxOf(d, N, period) /\ Adx(pre, period) = AdxOf(d2, M, period)
        BY DEF Adx, N, M, d, d2
    <2> QED
        BY <2>1, <2>2 DEF AdxOf
<1> HIDE DEF N, M, d, d2, w, w2
<1>5. k <= Len(d2) /\ k \in Int
    BY <1>1, <1>2, <1>3
<1>6. CASE M < 2 * period
    BY <1>4, <1>6 DEF M
<1>7. CASE M >= 2 * period
    <2>1. k \in 1..Len(d2) /\ k <= Len(d) /\ period <= Len(d2)
        BY <1>1, <1>2, <1>5, <1>7
    <2>2. Seed(d) = Seed(d2)
        <3>1. \A j \in 1..period : d[j] = d2[j]
            BY <1>1, <2>1
        <3>2. 1 \in Nat \ {0} /\ period \in Nat
            OBVIOUS
        <3>3. SubSeq(d, 1, period) = SubSeq(d2, 1, period)
            BY ONLY <3>1, <3>2, CutsAgree
        <3> QED
            BY <3>3
    <2> DEFINE seed == Seed(d)
               L == Len(d)
               L2 == Len(d2)
    <2>3. L \in Nat /\ L2 \in 0..L /\ DOMAIN d = 1..L /\ DOMAIN d2 = 1..L2
          /\ (\A j \in 1..L2 : d[j] = d2[j]) /\ period \in Nat \ {0}
        BY <1>1
    <2> HIDE DEF seed, L, L2
    <2>4. \A j \in 1..L2 : WilderMean(d, period, seed, period)[j]
                           = WilderMean(d2, period, seed, period)[j]
        BY ONLY <2>3, WildersAgree
    <2>5. w[k] = w2[k]
        <3>1. w = WilderMean(d, period, seed, period) /\ w2 = WilderMean(d2, period, seed, period)
            BY <2>2 DEF w, w2, seed
        <3> HIDE DEF k
        <3> QED
            BY <2>1, <2>4, <3>1 DEF L2
    <2>6. Adx(ks, period)[M] = w[k] /\ Adx(pre, period)[M] = w2[k]
        <3>1. ~(M < 2 * period) /\ ~(k > Len(d)) /\ ~(k > Len(d2))
            BY <1>1, <1>2, <1>7, <2>1
        <3> HIDE DEF k
        <3> QED
            BY <1>4, <3>1
    <2> QED
        BY <2>5, <2>6 DEF M
<1> QED
    BY <1>2, <1>6, <1>7

(* No indicator looks ahead, whatever the bars and the parameters are,     *)
(* but for the ADX of a market that was flat from the start.               *)
THEOREM IndicatorsAreCausal == Spec => []IndicatorsCausal
<1>1. MarketInv => IndicatorsCausal
    <2> SUFFICES ASSUME MarketInv, Len(bars) > 1
                 PROVE  LET Says(Of(_), n) == n > 0 => Of(bars)[n - 1] = Of(Seen(n - 1))[n - 1]
                            n == Len(bars)
                        IN  /\ Says(LAMBDA ks : Ema(ks, Trend.fast), n)
                            /\ Says(LAMBDA ks : Rsi(ks, MeanRev.rsi), n)
                            /\ Says(LAMBDA ks : Atr(ks, Trend.atr), n)
                            /\ Says(Vwap, n)
                            /\ Says(LAMBDA ks : Macd(ks, Trend.fast, Trend.slow, 2).hist, n)
                            /\ \/ Len(DxSeries(bars, Trend.adx)) < n - Trend.adx
                               \/ Says(LAMBDA ks : Adx(ks, Trend.adx), n)
        BY DEF IndicatorsCausal
    <2> DEFINE n == Len(bars)
               pre == Seen(n - 1)
    <2>1. bars \in Seq(Bar) /\ n \in Nat /\ n - 1 \in 1..n
        BY DEF MarketInv
    <2>2. Cut(bars, pre) /\ Len(pre) = n - 1 /\ n - 1 \in 1..Len(pre)
        BY <2>1, CutIs DEF Seen
    <2>3. /\ Trend.fast \in Nat \ {0} /\ Trend.slow \in Nat \ {0} /\ Trend.adx \in Nat \ {0}
          /\ Trend.atr \in Nat \ {0} /\ MeanRev.rsi \in Nat \ {0} /\ 2 \in Nat \ {0}
        <3>1. Trend \in TrendParams /\ MeanRev \in MeanRevParams
            BY ONLY StrategyAssumption
        <3>2. /\ Trend.fast \in Nat \ {0} /\ Trend.slow \in Nat \ {0}
              /\ Trend.adx \in Nat \ {0} /\ Trend.atr \in Nat \ {0}
            BY ONLY <3>1 DEF TrendParams
        <3>3. MeanRev.rsi \in Nat \ {0}
            BY ONLY <3>1 DEF MeanRevParams
        <3> QED
            BY ONLY <3>2, <3>3
    <2> HIDE DEF pre
    <2>4. Ema(bars, Trend.fast)[n - 1] = Ema(pre, Trend.fast)[n - 1]
        BY <2>2, <2>3, EmaCausal
    <2>5. Rsi(bars, MeanRev.rsi)[n - 1] = Rsi(pre, MeanRev.rsi)[n - 1]
        BY <2>2, <2>3, RsiCausal
    <2>6. Atr(bars, Trend.atr)[n - 1] = Atr(pre, Trend.atr)[n - 1]
        BY <2>2, <2>3, AtrCausal
    <2>7. Vwap(bars)[n - 1] = Vwap(pre)[n - 1]
        <3>1. \A j \in 1..Len(pre) : Vwap(bars)[j] = Vwap(pre)[j]
            BY <2>2, VwapCausal
        <3> HIDE DEF n
        <3> QED
            BY <2>2, <3>1
    <2>8. Macd(bars, Trend.fast, Trend.slow, 2).hist[n - 1]
          = Macd(pre, Trend.fast, Trend.slow, 2).hist[n - 1]
        <3>1. Cut(bars, pre)
            BY <2>2
        <3>2. ASSUME NEW fast \in Nat \ {0}, NEW slow \in Nat \ {0}, NEW m \in Nat \ {0}
              PROVE  \A j \in 1..Len(pre) :
                        MacdHist(bars, fast, slow, m)[j] = MacdHist(pre, fast, slow, m)[j]
            BY ONLY <3>2, <3>1, MacdCausal
        <3>3. MacdHist(bars, Trend.fast, Trend.slow, 2)[n - 1]
              = MacdHist(pre, Trend.fast, Trend.slow, 2)[n - 1]
            <4>1. Trend.fast \in Nat \ {0} /\ Trend.slow \in Nat \ {0} /\ 2 \in Nat \ {0}
                BY <2>3
            <4>2. n - 1 \in 1..Len(pre)
                BY <2>2
            <4> HIDE DEF n
            <4>3. \A j \in 1..Len(pre) : MacdHist(bars, Trend.fast, Trend.slow, 2)[j]
                                          = MacdHist(pre, Trend.fast, Trend.slow, 2)[j]
                BY ONLY <4>1, <3>2, Zenon
            <4> QED
                BY ONLY <4>2, <4>3, Zenon
        <3> QED
            BY <3>3 DEF MacdHist
    <2>9. Len(DxSeries(bars, Trend.adx)) >= n - Trend.adx =>
              Adx(bars, Trend.adx)[n - 1] = Adx(pre, Trend.adx)[n - 1]
        <3>1. Len(bars) = Len(pre) + 1 /\ Len(pre) = n - 1 /\ Len(pre) > 0
            BY <2>1, <2>2
        <3>2. Len(DxSeries(bars, Trend.adx)) >= Len(bars) - Trend.adx =>
                Adx(bars, Trend.adx)[Len(pre)] = Adx(pre, Trend.adx)[Len(pre)]
            BY <2>2, <2>3, <3>1, AdxCausal
        <3> QED
            BY <3>1, <3>2
    <2>10. Len(DxSeries(bars, Trend.adx)) \in Nat
        BY <2>1, <2>2, <2>3, DxSeriesGrows
    <2> QED
        BY <2>1, <2>3, <2>4, <2>5, <2>6, <2>7, <2>8, <2>9, <2>10 DEF pre
<1>2. TestInv => IndicatorsCausal
    BY <1>1 DEF TestInv
<1> QED
    BY <1>2, TestStart, TestStep, PTL DEF Spec

-----------------------------------------------------------------------------
(* Sides.  Each strategy is asked for a signal with its stop and its       *)
(* target on their sides of the entry, from the numbers its indicators     *)
(* answer.                                                                 *)

(* The stop is on the losing side of the entry, the target on the winning. *)
Sided(s) ==
    IF s.side = "long" THEN s.sl < s.entry /\ s.entry < s.tp
    ELSE s.tp < s.entry /\ s.entry < s.sl

(* The trend strategy's signal, by a true range that is above zero.        *)
LEMMA TrendSides ==
    ASSUME NEW ks \in Seq(Bar), Len(ks) > 0, NEW fast, NEW slow, NEW adx,
           NEW atr, atr = None \/ (atr \in Int /\ atr > 0),
           Trend.stopMult > 0, Trend.tpMult > 0,
           TrendSignal(ks, fast, slow, adx, atr) # None
    PROVE  Sided(TrendSignal(ks, fast, slow, adx, atr))
<1> DEFINE close == ks[Len(ks)].close
           stop == Trend.stopMult * atr
           target == Trend.tpMult * atr
           answer == TrendSignal(ks, fast, slow, adx, atr)
<1>1. close \in Int
    BY BarsAre
<1>2. atr # None
      /\ \/ answer = BuildTrend("long", close, atr)
         \/ answer = BuildTrend("short", close, atr)
    BY DEF TrendSignal
<1>3. stop \in Int /\ target \in Int /\ stop > 0 /\ target > 0
    <2>1. Trend.stopMult \in Nat \ {0} /\ Trend.tpMult \in Nat \ {0} /\ atr \in Nat \ {0}
        BY <1>2, StrategyAssumption DEF TrendParams
    <2>2. \A x, y \in Nat \ {0} : x * y \in Nat \ {0}
        BY SMTT(30)
    <2> QED
        BY <2>1, <2>2
<1>4. /\ BuildTrend("long", close, atr) = Signal("long", close, close - stop, close + target)
      /\ BuildTrend("short", close, atr) = Signal("short", close, close + stop, close - target)
    BY DEF BuildTrend
<1> HIDE DEF close, stop, target, answer
<1>5. /\ close - stop < close /\ close < close + target
      /\ close < close + stop /\ close - target < close
    BY <1>1, <1>3
<1>6. Sided(answer)
    BY <1>2, <1>4, <1>5 DEF Sided, Signal
<1> QED
    BY <1>6 DEF answer

(* The mean reversion's, whose target is a price that is not negative.     *)
LEMMA MeanRevSides ==
    ASSUME NEW n, NEW close \in Int, NEW adx, NEW rsi, NEW vwap, vwap = None \/ vwap \in Nat,
           NEW atr, atr = None \/ (atr \in Int /\ atr > 0),
           MeanRev.stopMult[1] >= MeanRev.stopMult[2],
           MeanRevSignal(n, close, adx, rsi, vwap, atr) # None
    PROVE  Sided(MeanRevSignal(n, close, adx, rsi, vwap, atr))
<1> DEFINE stop == (MeanRev.stopMult[1] * atr) \div MeanRev.stopMult[2]
           answer == MeanRevSignal(n, close, adx, rsi, vwap, atr)
           deviation == MeanRev.deviation
<1>1. /\ MeanRev.stopMult[1] \in Nat /\ MeanRev.stopMult[2] \in Nat \ {0}
      /\ deviation \in Nat
    BY StrategyAssumption DEF MeanRevParams
<1>2. /\ atr # None /\ vwap # None
      /\ \/ /\ answer = Signal("long", close, close - stop, vwap)
            /\ close * BPS < vwap * (BPS - deviation)
         \/ /\ answer = Signal("short", close, close + stop, vwap)
            /\ close * BPS > vwap * (BPS + deviation)
    BY DEF MeanRevSignal
<1>3. stop \in Int /\ stop > 0
    <2> DEFINE p == MeanRev.stopMult[1]
               q == MeanRev.stopMult[2]
    <2>1. p \in Nat /\ q \in Nat \ {0} /\ p >= q /\ atr \in Nat \ {0}
        BY <1>1, <1>2
    <2>2. \A x \in Nat, y \in Nat \ {0}, a \in Nat \ {0} : x >= y => x * a \in Nat /\ x * a >= y
        BY SMTT(30)
    <2>3. \A z \in Nat, y \in Nat \ {0} : z >= y => z \div y \in Int /\ z \div y > 0
        BY SMTT(30)
    <2> HIDE DEF p, q
    <2>4. (p * atr) \div q \in Int /\ (p * atr) \div q > 0
        BY <2>1, <2>2, <2>3
    <2> QED
        BY <2>4 DEF p, q
<1>4. /\ close * BPS < vwap * (BPS - deviation) => close < vwap
      /\ close * BPS > vwap * (BPS + deviation) => vwap < close
    <2>1. \A v \in Nat, d \in Nat : v * d \in Nat
        OBVIOUS
    <2>2. vwap \in Nat /\ vwap * deviation \in Nat
        BY <1>1, <1>2, <2>1
    <2>3. /\ vwap * (BPS - deviation) = vwap * BPS - vwap * deviation
          /\ vwap * (BPS + deviation) = vwap * BPS + vwap * deviation
        <3>1. \A v \in Int, d \in Int, b \in Int : v * (b - d) = v * b - v * d
                                                   /\ v * (b + d) = v * b + v * d
            BY SMTT(30)
        <3>2. vwap \in Int /\ deviation \in Int /\ BPS \in Int
            BY <1>1, <2>2 DEF BPS
        <3> QED
            BY <3>1, <3>2
    <2> HIDE DEF deviation
    <2> QED
        BY <2>2, <2>3 DEF BPS
<1> HIDE DEF stop, answer
<1>5. close - stop < close /\ close < close + stop
    BY <1>3
<1>6. Sided(answer)
    BY <1>2, <1>4, <1>5 DEF Sided, Signal
<1> QED
    BY <1>6 DEF answer

(* The fair value gap's: its guards ask for it.                            *)
LEMMA FvgObSides ==
    ASSUME NEW ks, FvgOb(ks) # None
    PROVE  Sided(FvgOb(ks))
<1> DEFINE n == Len(ks)
           first == Max({1, n - Gap.lookback - 2})
           bulls == {j \in first..(n - 2) : BullishGap(ks, j)}
           bears == {j \in first..(n - 2) : BearishGap(ks, j)}
           bull == Max(bulls)
           bear == Max(bears)
           close == ks[n].close
           high == Max({ks[j].high : j \in bull..(bull + 2)})
           low == Min({ks[j].low : j \in bear..(bear + 2)})
           under == (ks[bull].high * 999) \div 1000
           over == (ks[bear].low * 1001) \div 1000
           long == /\ bulls # {}
                   /\ ks[n].low <= ks[bull + 2].low /\ close > ks[bull].high
                   /\ high > close /\ close > under
           short == /\ bears # {}
                    /\ ks[n].high >= ks[bear + 2].high /\ close < ks[bear].low
                    /\ over > close /\ close > low
<1>1. FvgOb(ks) = IF n < Gap.minBars THEN None
                  ELSE IF long THEN Signal("long", close, under, high)
                  ELSE IF short THEN Signal("short", close, over, low)
                  ELSE None
    BY DEF FvgOb
<1>2. (long => under < close /\ close < high) /\ (short => low < close /\ close < over)
    OBVIOUS
<1> HIDE DEF n, close, high, low, under, over, long, short
<1> QED
    BY <1>1, <1>2 DEF Sided, Signal

(* At prices that are not negative, the volume weighted price is not.      *)
LEMMA VwapIsNat ==
    ASSUME NEW ks \in Seq(Bar), NEW j \in 1..Len(ks),
           \A k \in 1..j : ks[k].high >= 0 /\ ks[k].low >= 0 /\ ks[k].close >= 0
    PROVE  Vwap(ks)[j] = None \/ Vwap(ks)[j] \in Nat
<1> DEFINE volumes == [k \in 1..j |-> ks[k].volume]
           amounts == [k \in 1..j |-> (ks[k].high + ks[k].low + ks[k].close) * ks[k].volume]
<1>1. /\ Len(ks) \in Nat /\ DOMAIN ks = 1..Len(ks) /\ j \in Nat
      /\ \A k \in 1..j : /\ ks[k].high \in Nat /\ ks[k].low \in Nat /\ ks[k].close \in Nat
                         /\ ks[k].volume \in Nat
    BY BarsAre
<1>2. volumes \in [1..j -> Nat] /\ amounts \in [1..j -> Nat]
    <2>1. \A x, y \in Nat : x * y \in Nat
        OBVIOUS
    <2>2. \A k \in 1..j : ks[k].high + ks[k].low + ks[k].close \in Nat
        BY <1>1
    <2>3. \A k \in 1..j : (ks[k].high + ks[k].low + ks[k].close) * ks[k].volume \in Nat
        BY <1>1, <2>1, <2>2
    <2> QED
        BY <1>1, <2>3
<1>3. Vwap(ks)[j] = IF Total(volumes) = 0 THEN None
                    ELSE Total(amounts) \div (3 * Total(volumes))
    BY <1>1 DEF Vwap
<1> HIDE DEF volumes, amounts
<1>4. Total(volumes) \in Nat /\ Total(amounts) \in Nat
    <2>1. Nat \in SUBSET Int /\ 0 \in Nat /\ \A x, y \in Nat : x + y \in Nat
        OBVIOUS
    <2> QED
        BY <1>1, <1>2, <2>1, TotalIs
<1>5. \A x, y \in Nat : y # 0 => x \div (3 * y) \in Nat
    <2>1. \A x \in Nat, y \in Nat \ {0} : x \div y \in Nat
        BY SMTT(30)
    <2>2. \A y \in Nat : y # 0 => 3 * y \in Nat \ {0}
        OBVIOUS
    <2> QED
        BY <2>1, <2>2
<1> QED
    BY <1>3, <1>4, <1>5

(* A bar at prices that are not negative, in a market that has moved: the  *)
(* average true ranges the strategies take are above zero once they are    *)
(* known.                                                                  *)
Moving(n) ==
    /\ bars[n].high >= 0 /\ bars[n].low >= 0 /\ bars[n].close >= 0
    /\ \A period \in {Trend.atr, MeanRev.atr} :
        Atr(bars, period)[n] # None => Atr(bars, period)[n] > 0

(* What is decided at such bars has its sides.                             *)
LEMMA DecisionSides ==
    ASSUME key \in StrategyKeys, bars \in Seq(Bar), NEW n \in 1..Len(bars),
           \A m \in 1..n : Moving(m),
           Trend.stopMult > 0, Trend.tpMult > 0, MeanRev.stopMult[1] >= MeanRev.stopMult[2],
           Decision(n) # None
    PROVE  Sided(Decision(n))
<1> DEFINE ks == Seen(n)
<1>1. /\ ks \in Seq(Bar) /\ Len(ks) = n /\ n \in 1..Len(ks) /\ Len(ks) > 0 /\ n \in Nat
      /\ Cut(bars, ks) /\ \A m \in 1..n : ks[m] = bars[m] /\ m \in 1..Len(bars)
    <2>1. Len(bars) \in Nat /\ \A j \in 1..n : bars[j] \in Bar
        OBVIOUS
    <2>2. ks \in Seq(Bar) /\ Len(ks) = n /\ \A m \in 1..n : ks[m] = bars[m]
        BY <2>1, SubSeqProperties DEF Seen
    <2>3. Cut(bars, ks)
        BY CutIs DEF Seen
    <2> QED
        BY <2>1, <2>2, <2>3
<1>2. Trend.atr \in Nat \ {0} /\ MeanRev.atr \in Nat \ {0}
    BY StrategyAssumption DEF TrendParams, MeanRevParams
<1> HIDE DEF ks
<1>3. ASSUME NEW period \in {Trend.atr, MeanRev.atr}
      PROVE  Atr(ks, period)[n] = None \/ (Atr(ks, period)[n] \in Int /\ Atr(ks, period)[n] > 0)
    <2>1. period \in Nat \ {0}
        BY <1>2, <1>3
    <2>2. Atr(bars, period)[n] = Atr(ks, period)[n]
        BY <1>1, <2>1, AtrCausal
    <2>3. Atr(ks, period)[n] = None \/ Atr(ks, period)[n] \in Int
        BY <1>1, <2>1, AtrIs
    <2>4. Moving(n)
        BY <1>1
    <2> QED
        BY <2>2, <2>3, <2>4 DEF Moving
<1>4. Vwap(ks)[n] = None \/ Vwap(ks)[n] \in Nat
    <2>1. \A m \in 1..n : ks[m].high >= 0 /\ ks[m].low >= 0 /\ ks[m].close >= 0
        BY <1>1 DEF Moving
    <2> QED
        BY <1>1, <2>1, VwapIsNat
<1>5. ks[n].close \in Int
    BY <1>1, BarsAre
<1>6. Decision(n) = Evaluate(key, ks)
    BY DEF Decision, ks
<1>7. CASE key = "ema_adx_trend"
    <2>1. Decision(n) = EmaAdxTrend(ks)
        BY <1>6, <1>7 DEF Evaluate
    <2> QED
        BY <1>1, <1>3, <2>1, TrendSides DEF EmaAdxTrend
<1>8. CASE key = "vwap_rsi_meanrev"
    <2>1. Decision(n) = VwapRsiMeanRev(ks)
        BY <1>6, <1>8 DEF Evaluate
    <2> QED
        BY <1>1, <1>3, <1>4, <1>5, <2>1, MeanRevSides DEF VwapRsiMeanRev
<1>9. CASE key = "fvg_ob"
    <2>1. Decision(n) = FvgOb(ks)
        BY <1>6, <1>9 DEF Evaluate
    <2> QED
        BY <2>1, FvgObSides
<1> QED
    BY <1>7, <1>8, <1>9 DEF StrategyKeys

(* Every signal has its stop on the losing side of its entry and its       *)
(* target on the winning side, whatever the strategy: at prices that are   *)
(* not negative, in a market that has moved, by stop distances that a      *)
(* price unit does not round to nothing.  The code asks for none of this.  *)
THEOREM SignalsKeepTheirSides ==
    ASSUME Trend.stopMult > 0, Trend.tpMult > 0, MeanRev.stopMult[1] >= MeanRev.stopMult[2]
    PROVE  Spec => []((\A n \in DOMAIN bars : Moving(n)) => SignalsHaveSides)
<1>1. TypesInv => ((\A n \in DOMAIN bars : Moving(n)) => SignalsHaveSides)
    <2> SUFFICES ASSUME TypesInv, \A n \in DOMAIN bars : Moving(n),
                        NEW n \in DOMAIN ticks, ticks[n].signal # None
                 PROVE  Sided(ticks[n].signal)
        BY DEF SignalsHaveSides, Sided
    <2>1. /\ key \in StrategyKeys /\ bars \in Seq(Bar) /\ Len(bars) \in Nat
          /\ DOMAIN bars = 1..Len(bars) /\ MarketInv
        BY DEF TypesInv, TypeOK, TestInv
    <2>2. n \in 1..Len(ticks) /\ Len(ticks) \in Nat /\ Len(ticks) <= Len(bars)
        BY <2>1, Appended DEF MarketInv
    <2>3. TickInv(n)
        BY <2>1, <2>2 DEF MarketInv
    <2>4. n > 1 /\ n - 1 \in 1..Len(bars) /\ ticks[n].signal = Decision(n - 1)
        BY <2>1, <2>2, <2>3 DEF TickInv
    <2>5. \A m \in 1..(n - 1) : Moving(m)
        BY <2>1, <2>4
    <2> QED
        BY <2>1, <2>4, <2>5, DecisionSides
<1> QED
    BY <1>1, TypesStart, TypesStep, PTL DEF Spec
==============================================================================
