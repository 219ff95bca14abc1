--------------------------- MODULE MCRouteBuilding ---------------------------
(* Places on a line: p1 and p2 one step from the start on either side, p3  *)
(* two steps beyond p2 and out of reach of the start.  p2 carries tag a    *)
(* twice and outranks p1.  With radius 2 the arrays a, a, a, b make the    *)
(* search return from p1 to p2 without picking anything and go on to p3.   *)
EXTENDS RouteBuilding, TLC, SequencesExt

CONSTANTS p1, p2, p3, a, b, MaxTagArrays

MCPlace == {p1, p2, p3}
MCTag == {a, b}
MCPlaceTags == (p1 :> <<a>>) @@ (p2 :> <<a, b, a>>) @@ (p3 :> <<b>>)
MCLocation == 0..4
MCPlaceLoc == (p1 :> 0) @@ (p2 :> 2) @@ (p3 :> 4)
MCDist == [l \in MCLocation |-> [o \in MCLocation |-> IF l < o THEN o - l ELSE l - o]]
MCTagArrays == SeqOf(SUBSET MCTag, MaxTagArrays)
=============================================================================
