------------------------------ MODULE MCPayment ------------------------------
(* Instance of Payment for TLC; the bounds are in the .cfg file. *)
EXTENDS Payment
=============================================================================
