---------------------------- MODULE MCTradeEntry ----------------------------
(***************************************************************************)
(* TradeEntry on two correlated symbols.  Net positions are bounded by     *)
(* MaxNet; TradeIds holds one row per process and symbol, so a free id is  *)
(* always there.                                                           *)
(***************************************************************************)
EXTENDS TradeEntry, TLC

CONSTANTS ES, NQ

MCSymbols == {ES, NQ}
MCCorrelated == {{ES, NQ}}
MCSymmetry == Permutations(MCSymbols)

=============================================================================
