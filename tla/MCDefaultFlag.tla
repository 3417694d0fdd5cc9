--------------------------- MODULE MCDefaultFlag ---------------------------
(* Small instances of DefaultFlag. *)
EXTENDS DefaultFlag

CONSTANTS d1, d2, d3, r1

ThreeDocs == {d1, d2, d3}
OneRequest == {r1}

AnyField == {"yes", "no", "absent"}
=============================================================================
