----------------------------- MODULE MCAlgorithms ----------------------------
(***************************************************************************)
(* The sorts and the solutions of Algorithms on every small input.         *)
(***************************************************************************)
EXTENDS Algorithms

(* Streets of one row, of one column, and with turns in either direction.  *)
MCGridSizes == {<<1, 3>>, <<3, 1>>, <<2, 2>>, <<2, 3>>}
==============================================================================
