--------------------------- MODULE MCFundConversion ---------------------------
(* TLC instances of FundConversion.                                        *)
EXTENDS FundConversion

CONSTANTS l1, p1, w1, w2
=============================================================================
