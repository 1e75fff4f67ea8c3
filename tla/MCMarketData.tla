---------------------------- MODULE MCMarketData ----------------------------
(***************************************************************************)
(* MarketData for TLC: groups of one and of two symbols, repeats included. *)
(***************************************************************************)
EXTENDS MarketData, TLC

CONSTANTS btc, eth

MCSymbol == {btc, eth}
MCSymLists == {<<s>> : s \in MCSymbol} \cup (MCSymbol \X MCSymbol)

\* Symbols and MDReqIDs are interchangeable: every group of one or two
\* symbols may be asked for, and a reverse lookup has one answer.
Symmetry == Permutations(MCSymbol) \cup Permutations(ReqID)
=============================================================================
