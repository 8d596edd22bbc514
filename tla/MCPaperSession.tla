---------------------------- MODULE MCPaperSession ----------------------------
(* One instrument, two prices or one, targets on both sides beyond the position     *)
(* limit, a turnover limit that cuts a flip, loss limits a price step can reach.    *)
EXTENDS PaperSession

MCInstrument == {1}
MCPrices == {6, 9}
MCOnePrice == {6}
MCTargets == {-70, 0, 70}
=============================================================================
