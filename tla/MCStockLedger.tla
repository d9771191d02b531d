--------------------------- MODULE MCStockLedger ---------------------------
(* StockLedger for TLC: one or two cities, the order kinds of the code.    *)
EXTENDS StockLedger

CONSTANTS c1, c2, wood, stone, build, train, advance, pillage, trade

\* Costs keep the shape of the catalogue: a building and a villager pay wood,
\* an era advance pays both resources, pillage takes wood of the victim.
Cost(o, s) ==
    CASE o = build   -> IF s = <<c1, wood>> THEN 2 ELSE 0
      [] o = train   -> IF s = <<c1, wood>> THEN 1 ELSE 0
      [] o = pillage -> IF s = <<c1, wood>> THEN 1 ELSE 0
      [] o = advance -> IF s = <<c1, wood>> \/ s = <<c1, stone>> THEN 1 ELSE 0
      [] o = trade   -> IF s = <<c1, wood>> \/ s = <<c2, stone>> THEN 1 ELSE 0

\* c1 offers one wood for one stone of c2.
Income(o, s) ==
    IF o = trade /\ (s = <<c1, stone>> \/ s = <<c2, wood>>) THEN 1 ELSE 0

MCPays == [o \in Order |-> [s \in Stock |-> Cost(o, s)]]
MCGets == [o \in Order |-> [s \in Stock |-> Income(o, s)]]
\* Enough deposits to have one carried by an order, one flushed and one late.
MCDeposits == [s \in Stock |-> IF s = <<c1, wood>> THEN 2 ELSE IF s = <<c1, stone>> THEN 1 ELSE 0]
MCTradeDeposits == [s \in Stock |-> IF s[1] = c1 THEN 2 ELSE 0]
MCInitial == [s \in Stock |-> 1]
=============================================================================
