--------------------------- MODULE ProtectedProfit ---------------------------
(***************************************************************************)
(* The ratcheting protected-profit stop of an open position,               *)
(* risk/protected.py.  A position has a side, a quantity, an entry price,  *)
(* the peak of its net gain and the floor below which it is closed.        *)
(***************************************************************************)
EXTENDS Fills

CONSTANT Giveback    \* the share of the peak that is given back, in percent

(* advance_protected_floor raises on any other value.                      *)
ASSUME GivebackAssumption == Giveback \in 1..100

PositionType ==
    [side : Sides, qty : Int, entry : Int, peak : Int, floor : Int \union {None}]

(* The gain at a mark price after the fee of the exit: no funding is       *)
(* passed in.                                                              *)
NetUnrealized(p, mark) ==
    ((IF p.side = "long" THEN mark - p.entry ELSE p.entry - mark) * p.qty) \div Lot
        - ExitFee(mark, p.qty)

Larger(a, b) == IF a >= b THEN a ELSE b
FloorOf(peak) == (peak * (100 - Giveback)) \div 100

(* Defect: the floor follows the gain down as well as up.                  *)
Mutant_AdvanceFloor(p, net) ==
    [p EXCEPT !.peak = Larger(p.peak, net), !.floor = FloorOf(net)]

AdvanceFloor(p, net) ==
    LET peak == Larger(p.peak, net)
    IN  [side |-> p.side, qty |-> p.qty, entry |-> p.entry, peak |-> peak,
         floor |-> IF p.floor = None THEN FloorOf(peak) ELSE Larger(p.floor, FloorOf(peak))]

(* Defect: a floor that is not yet positive closes the position too.       *)
Mutant_ShouldExit(p, net) == p.floor # None /\ net <= p.floor

ShouldExit(p, net) == p.floor # None /\ p.floor > 0 /\ net <= p.floor
=============================================================================
