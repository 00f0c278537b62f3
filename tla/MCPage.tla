------------------------------- MODULE MCPage -------------------------------
(* Two wallets with positions quoted in both units, a pool each.            *)
EXTENDS Page

Position(id, kind, day, fees, price, il, gas, exact, pool) ==
    [tokenId |-> id, kind |-> kind, gasKind |-> "eth", open |-> day = 0, closedAt |-> day,
     fees |-> fees, price |-> price, il |-> il, gas |-> gas,
     feesComplete |-> exact, tickComplete |-> TRUE, pool |-> pool]

MCQueries == {"a", "b"}
MCPortfoliosOf ==
    [a |-> {{Position(1, "eth", 11, 12, 24, -12, 1, TRUE, "p"),
             Position(2, "usd", 11, 24, -12, -24, 2, FALSE, "p"),
             Position(3, "eth", 34, 12, 0, 0, 1, TRUE, "p")}},
     b |-> {{Position(4, "eth", 0, 36, 12, -12, 1, FALSE, "q"),
             Position(5, "usd", 52, 0, 36, 0, 1, TRUE, "q")}, {}}]

Candle(ts, value) == [ts |-> ts, value |-> value]
MCCandles ==
    [p |-> {Candle(4, 3), Candle(10, 5), Candle(11, 2), Candle(30, 7)},
     q |-> {Candle(11, 0), Candle(12, 4), Candle(13, -1)},
     v3 |-> {Candle(3, 6), Candle(4, 1)},
     v4 |-> {Candle(17, 2), Candle(18, 0)}]
MCMaxPoints == [day |-> 20, week |-> 3]
MCRuns == 1 .. 2
=============================================================================
