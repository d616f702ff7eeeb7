--------------------------- MODULE MC_Dispatcher ---------------------------
(* Dispatcher with two action names and four dispatches per behaviour. *)
EXTENDS Dispatcher

CONSTANTS a1, a2

MC_Actions == {a1, a2}
MC_MaxDispatch == 4
=============================================================================
