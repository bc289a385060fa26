---------------------------- MODULE MCQuoteStore ----------------------------
(* Two quotes, one of them present, for TLC.                               *)
EXTENDS QuoteStore, TLC

CONSTANTS q1, q2

OneQuote == (q1 :> [author |-> "a", content |-> "a"]) @@ (q2 :> Absent)
=============================================================================
