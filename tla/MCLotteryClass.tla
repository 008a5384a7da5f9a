--------------------------- MODULE MCLotteryClass ---------------------------
(* An instance of LotteryClass for TLC. *)
EXTENDS LotteryClass
=============================================================================
