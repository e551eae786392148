------------------------------ MODULE Objects ------------------------------
(***************************************************************************)
(* What a Store promises about one object: versions that follow each       *)
(* other, each made by one Put.  A caller reads a version and later        *)
(* replaces that version and no other.  Every module above the store takes *)
(* its conditional writes from this specification.                         *)
(***************************************************************************)
EXTENDS Naturals

CONSTANTS
  Callers,
  Missing   \* no object

VARIABLES
  version,  \* the current version: the number of its Put, or Missing
  puts,     \* how many Puts took effect
  held      \* the version each caller read last

Init ==
  /\ version = Missing /\ puts = 0
  /\ held = [c \in Callers |-> Missing]

Read(c) == held' = [held EXCEPT ![c] = version] /\ UNCHANGED <<version, puts>>

(* A caller that gives up, or a process that crashes, forgets.             *)
Forget == held' \in [Callers -> Nat \cup {Missing}]
          /\ (\A c \in Callers : held'[c] \in {held[c], Missing}) /\ UNCHANGED <<version, puts>>

Write == puts' = puts + 1 /\ version' = puts' /\ UNCHANGED held

Create == version = Missing /\ Write

Replace(c) == version # Missing /\ version = held[c] /\ Write

Delete == version # Missing /\ version' = Missing /\ UNCHANGED <<puts, held>>

Next == Forget \/ Create \/ Delete \/ \E c \in Callers : Read(c) \/ Replace(c)

objectVars == <<version, puts, held>>

Spec == Init /\ [][Next]_objectVars
=============================================================================
