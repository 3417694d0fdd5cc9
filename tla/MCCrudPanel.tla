----------------------------- MODULE MCCrudPanel -----------------------------
(* Small instances of CrudPanel. *)
EXTENDS CrudPanel, TLC

CONSTANTS d1, d2, v1, v2

TwoDocs == {d1, d2}
TwoValues == {v1, v2}
OneValue == {v1}
AllOrNone == {TwoDocs, {}}
Symmetric == Permutations(TwoDocs) \union Permutations(TwoValues)
=============================================================================
