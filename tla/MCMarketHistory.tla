---------------------------- MODULE MCMarketHistory ----------------------------
(* Two days of three candles, a hole the exchange never fills at 4, pages of two. *)
EXTENDS MarketHistory

MCListed == {1, 2, 3, 5, 6}
MCWindows == {<<1, 6>>, <<2, 5>>, <<5, 6>>}
=============================================================================
