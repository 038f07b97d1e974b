------------------------------ MODULE MCReplay ------------------------------
(* Replay over six bars of four shapes, with parameters short enough for    *)
(* every strategy to fire in them.                                         *)
EXTENDS Replay

Shape(o, h, l, c, v) == [open |-> o, high |-> h, low |-> l, close |-> c, volume |-> v]
MCShapes ==
    {Shape(0, 0, 0, 0, 0),             \* flat, nothing traded
     Shape(300, 500, 300, 400, 2),     \* a gap up
     Shape(-300, -200, -500, -400, 2), \* a gap down
     Shape(0, 600, -600, 100, 1)}      \* both ways

MCTrend == [fast |-> 2, slow |-> 3, adx |-> 1, threshold |-> 10, atr |-> 2,
            stopMult |-> 1, tpMult |-> 2, minBars |-> 3]
MCMeanRev == [adx |-> 1, ceiling |-> 101, rsi |-> 2, oversold |-> 60, overbought |-> 40,
              deviation |-> 50, atr |-> 2, stopMult |-> <<3, 2>>, minBars |-> 3]
MCGap == [lookback |-> 3, minGap |-> 10, minImpulse |-> 30, minBars |-> 3]
MCFillModel == [spread |-> 10, slippage |-> 5, taker |-> 6, maker |-> 2,
                takerBoth |-> TRUE, funding |-> 1, interval |-> 8, barHours |-> <<4, 1>>]
=============================================================================
