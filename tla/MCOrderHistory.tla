--------------------------- MODULE MCOrderHistory ---------------------------
(* A small instance of OrderHistory for TLC. *)
EXTENDS OrderHistory

CONSTANTS r1, t1

=============================================================================
