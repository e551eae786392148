------------------------------- MODULE Roster -------------------------------
(***************************************************************************)
(* What a catalog promises: a map from name to status that operations      *)
(* change one name at a time, each on the map as it then is.               *)
(*                                                                         *)
(* A status is "absent", "live" or "deleted".  Branches and tenants are    *)
(* added and branches removed; namespaces are created and deleted, and a   *)
(* deleted namespace keeps its entry, so that its name is never used again.*)
(***************************************************************************)
CONSTANTS
  Names,     \* what the catalog may list
  Calls,     \* operations on it
  Request    \* the operation and the name of each call

Status == {"absent", "live", "deleted"}
VARIABLE entries

SettledReusesDeleted(op, status) ==
  \/ op \in {"create", "add"} /\ status = "live"
  \/ op = "delete" /\ status # "live"
  \/ op = "remove" /\ status = "absent"

(* The operation finds nothing to do.                                      *)
Settled(op, status) ==
  \/ op = "create" /\ status # "absent"
  \/ op = "delete" /\ status # "live"
  \/ op = "add"    /\ status = "live"
  \/ op = "remove" /\ status = "absent"

Target(op) == IF op = "delete" THEN "deleted" ELSE IF op = "remove" THEN "absent" ELSE "live"

Init == entries = [n \in Names |-> "absent"]

Perform(c) ==
  LET r == Request[c]
  IN /\ ~Settled(r.op, entries[r.name])
     /\ entries' = [entries EXCEPT ![r.name] = Target(r.op)]

Next == \E c \in Calls : Perform(c)

Spec == Init /\ [][Next]_entries
=============================================================================
