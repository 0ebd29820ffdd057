------------------------------- MODULE Values -------------------------------
(* What stands for a null, an absent row or an unset reference.            *)
CONSTANT Nil
=============================================================================
