----------------------------- MODULE Documents -----------------------------
(***************************************************************************)
(* What a query table promises: a map from document to record that a       *)
(* loader changes on a private copy and shows to readers all at once.      *)
(***************************************************************************)
EXTENDS Records

CONSTANTS
  Mutations,      \* the puts and deletes a segment may hold
  Readers,        \* searches that may run while a loader works
  None            \* no private copy, no snapshot

VARIABLES
  shown,          \* the published documents
  work,           \* the private copy, or None
  seen            \* the documents each reader holds, or None

docVars == <<shown, work, seen>>
-----------------------------------------------------------------------------
Init ==
  /\ shown = NoDocuments
  /\ work = None
  /\ seen = [r \in Readers |-> None]

Begin == work = None /\ work' = shown /\ UNCHANGED <<shown, seen>>

Change(m) == work # None /\ work' = Apply(work, m) /\ UNCHANGED <<shown, seen>>

Show == work # None /\ shown' = work /\ work' = None /\ UNCHANGED seen

Drop == work # None /\ work' = None /\ UNCHANGED <<shown, seen>>

Take(r) == seen[r] = None /\ seen' = [seen EXCEPT ![r] = shown] /\ UNCHANGED <<shown, work>>

Release(r) == seen[r] # None /\ seen' = [seen EXCEPT ![r] = None] /\ UNCHANGED <<shown, work>>

Next ==
  \/ Begin \/ Show \/ Drop
  \/ \E m \in Mutations : Change(m)
  \/ \E r \in Readers : Take(r) \/ Release(r)

Spec == Init /\ [][Next]_docVars
=============================================================================
