---------------------------- MODULE MC_ChunkedMove ----------------------------
(* Every motion of up to 25 units per axis (two to three reports, with the  *)
(* exact multiples and the short last reports), from two start cursors.    *)
EXTENDS ChunkedMove

MC_MAX_DELTA == 10
MC_Requests == (-25..25) \X (-25..25)
MC_Cursors == {<<0, 0>>, <<200, 340>>}
=============================================================================
