-------------------------- MODULE MCTradeLifecycle --------------------------
(***************************************************************************)
(* Small instances of TradeLifecycle: two trades that compete for one      *)
(* symbol, and orders, operators, faults and restarts as each cfg says.    *)
(***************************************************************************)
EXTENDS TradeLifecycle, TLC

CONSTANT BTC  \* the only symbol of the small instances

OneSymbol == {BTC}
AllBTC == [x \in Trades \cup Externals |-> BTC]

\* The trades of one symbol are only ever compared for equality, so permuting them
\* maps behaviours to behaviours (safety runs only).
TradeSymmetry == Permutations(Trades)
=============================================================================
