----------------------------- MODULE MCErpPages -----------------------------
(***************************************************************************)
(* ErpPages over two documents.                                            *)
(***************************************************************************)
EXTENDS ErpPages, TLC

CONSTANTS d1, d2

TwoDocs == {d1, d2}
Symmetric == Permutations(TwoDocs)
=============================================================================
