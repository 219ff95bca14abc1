---------------------------- MODULE MCAllowedTags ----------------------------
(* Three places whose tags overlap: deleting p1 removes tag a only if no   *)
(* other place carries it.                                                 *)
EXTENDS AllowedTags, TLC

CONSTANTS p1, p2, p3, a, b, c

MCPlace == {p1, p2, p3}
MCTag == {a, b, c}
MCPlaceTags == (p1 :> {a}) @@ (p2 :> {b}) @@ (p3 :> {a, c})
=============================================================================
