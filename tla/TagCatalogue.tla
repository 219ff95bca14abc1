----------------------------- MODULE TagCatalogue -----------------------------
(***************************************************************************)
(* What GetAllowedTags promises, with no word of cache or database: the    *)
(* catalogue of tags only grows, and a request is answered with a list the *)
(* catalogue once was - late, perhaps, but never a mixture of two - or     *)
(* fails.                                                                  *)
(***************************************************************************)
CONSTANTS
  Request,
  Tag,
  None      \* no list

VARIABLES
  versions,  \* every list the catalogue has been
  state,     \* "idle", "asked", "answered" or "failed"
  list       \* list[r]: the answer, or None

catalogueVars == <<versions, state, list>>

Init ==
  /\ \E T \in SUBSET Tag : versions = {T}
  /\ state = [r \in Request |-> "idle"]
  /\ list = [r \in Request |-> None]

(* The new version contains every earlier one. *)
Grow ==
  /\ \E T \in SUBSET Tag :
       /\ UNION versions \subseteq T
       /\ versions' = versions \cup {T}
  /\ UNCHANGED <<state, list>>

Move(r, from, to, T) ==
  /\ state[r] = from
  /\ state' = [state EXCEPT ![r] = to]
  /\ list' = [list EXCEPT ![r] = T]
  /\ UNCHANGED versions

Ask(r) == Move(r, "idle", "asked", None)
Answer(r) == \E T \in versions : Move(r, "asked", "answered", T)
Fail(r) == Move(r, "asked", "failed", None)
Return(r) == Move(r, "answered", "idle", None) \/ Move(r, "failed", "idle", None)

Next ==
  \/ Grow
  \/ \E r \in Request : Ask(r) \/ Answer(r) \/ Fail(r) \/ Return(r)

Spec == Init /\ [][Next]_catalogueVars

(* A request is answered or fails in the end. *)
FairSpec ==
  Spec /\ \A r \in Request : WF_catalogueVars(Answer(r) \/ Fail(r))
=============================================================================
