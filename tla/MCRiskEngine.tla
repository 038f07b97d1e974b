----------------------------- MODULE MCRiskEngine -----------------------------
(* A small instance of RiskEngine: equity 100, of which a trade risks 10    *)
(* and ties up at least 10 as margin, two positions at once.  Of three      *)
(* signals two are approved in a good state, one only in paper mode.        *)
EXTENDS RiskEngine, TLC

Good == [sample |-> 50, needed |-> 50, win |-> 60, avgWin |-> 100, avgLoss |-> 50]

Wide == [pair |-> "BTC", side |-> "long", entry |-> 100, sl |-> 90, tp |-> 120,
         lev |-> 10, key |-> "k1", stats |-> None]
Short == [pair |-> "BTC", side |-> "short", entry |-> 100, sl |-> 120, tp |-> 60,
          lev |-> 20, key |-> "k2", stats |-> Good]
Costly == [Wide EXCEPT !.key = "k3", !.stats = [Good EXCEPT !.win = 40]]
SomeSignals == {Wide, Short, Costly}

SmallProfile ==
    [risk |-> 1000, daily |-> 500, weekly |-> 1500, drawdown |-> 2500, open |-> 2,
     lev |-> 10, asset |-> 1000, total |-> 1400, hour |-> 2, rr |-> 14, profit |-> 5,
     liq |-> 200, stale |-> 1, loss |-> 1, spike |-> 1]
RoomyProfile == [SmallProfile EXCEPT !.total = 2500]

SomeCosts ==
    [takerBoth |-> TRUE, taker |-> 6, maker |-> 2, spread |-> 1, slippage |-> 1,
     funding |-> 1, hold |-> 1, interval |-> 8]

SomeResults == {-10, 5}

Positions == Permutations(Entries)
=============================================================================
