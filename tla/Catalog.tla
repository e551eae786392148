------------------------------ MODULE Catalog ------------------------------
(***************************************************************************)
(* A catalog is one object that every operation reads, changes and writes  *)
(* back on the condition that its generation is still the one it read:     *)
(* branches.json (updateBranches), ns.json (CreateNamespace and            *)
(* DeleteNamespace) and tenants.json (AddTenant) use the same loop.        *)
(*                                                                         *)
(* Generation 0 is the missing object, which Condition{Absent} matches.    *)
(* The store may fail a request, and may perform a Put and report an       *)
(* error, or a failed precondition when the client repeats a request whose *)
(* first answer was lost.                                                  *)
(***************************************************************************)
EXTENDS Naturals

CONSTANTS
  Names,      \* what the catalog may list
  Calls,      \* operations on it
  Request,    \* the operation and the name of each call
  MaxFaults   \* bound: failed requests and lost answers

ASSUME CatalogConstants ==
  /\ Request \in [Calls -> [op : {"create", "delete", "add", "remove"}, name : Names]]
  /\ MaxFaults \in Nat

(* ns.json and the lists of branches are different objects: a name that is *)
(* created or deleted is a namespace, and never added or removed.          *)
ASSUME KindsApart ==
  \A c, d \in Calls :
    /\ Request[c].op \in {"create", "delete"} /\ Request[d].op \in {"add", "remove"}
    => Request[c].name # Request[d].name

VARIABLES
  object,   \* the stored catalog: its generation and its entries
  pc,       \* where each call is
  copy,     \* the catalog each call read
  answer,   \* what each call returned
  written,  \* ghost: how often each call's change reached the store
  faults    \* how many requests failed

vars == <<object, pc, copy, answer, written, faults>>

R == INSTANCE Roster WITH entries <- object.entries

Answers == {"none", "ok", "exists", "notfound", "error"}

Versions == [gen : Nat, entries : [Names -> R!Status]]

TypeOK ==
  /\ object \in Versions
  /\ pc \in [Calls -> {"read", "write", "done"}]
  /\ copy \in [Calls -> Versions]
  /\ answer \in [Calls -> Answers]
  /\ written \in [Calls -> Nat]
  /\ faults \in Nat

Missing == [gen |-> 0, entries |-> [n \in Names |-> "absent"]]

Init ==
  /\ object = Missing
  /\ pc = [c \in Calls |-> "read"]
  /\ copy = [c \in Calls |-> Missing]
  /\ answer = [c \in Calls |-> "none"]
  /\ written = [c \in Calls |-> 0]
  /\ faults = 0

(* What a call that finds nothing to do returns.                           *)
Reply(op, status) ==
  IF op = "create" THEN "exists" ELSE IF op = "delete" /\ status = "absent" THEN "notfound" ELSE "ok"

Finish(c, a) ==
  pc' = [pc EXCEPT ![c] = "done"] /\ answer' = [answer EXCEPT ![c] = a] /\ UNCHANGED copy

Again(c) == pc' = [pc EXCEPT ![c] = "read"] /\ UNCHANGED <<copy, answer>>

Read(c) ==
  LET r == Request[c]
  IN /\ pc[c] = "read"
     /\ IF R!Settled(r.op, object.entries[r.name])
        THEN Finish(c, Reply(r.op, object.entries[r.name]))
        ELSE /\ pc' = [pc EXCEPT ![c] = "write"]
             /\ copy' = [copy EXCEPT ![c] = object]
             /\ UNCHANGED answer
     /\ UNCHANGED <<object, written, faults>>

(* The catalog the call writes: the one it read with its name changed.     *)
Update(c) == [copy[c].entries EXCEPT ![Request[c].name] = R!Target(Request[c].op)]

MatchesAlways(c) == TRUE

Matches(c) == copy[c].gen = object.gen

Take(c) ==
  /\ pc[c] = "write" /\ Matches(c)
  /\ object' = [gen |-> object.gen + 1, entries |-> Update(c)]
  /\ written' = [written EXCEPT ![c] = @ + 1]

Write(c) == Take(c) /\ Finish(c, "ok") /\ UNCHANGED faults

(* The Put took effect, and the caller is told that it failed.             *)
WriteLost(c) ==
  /\ Take(c)
  /\ faults < MaxFaults /\ faults' = faults + 1
  /\ Finish(c, "error") \/ Again(c)

ConflictKeepsCopy(c) == pc[c] = "write" /\ ~Matches(c) /\ UNCHANGED vars

Conflict(c) ==
  /\ pc[c] = "write" /\ ~Matches(c)
  /\ Again(c)
  /\ UNCHANGED <<object, written, faults>>

Fail(c) ==
  /\ pc[c] \in {"read", "write"}
  /\ faults < MaxFaults /\ faults' = faults + 1
  /\ Finish(c, "error")
  /\ UNCHANGED <<object, written>>

Next == \E c \in Calls : Read(c) \/ Write(c) \/ WriteLost(c) \/ Conflict(c) \/ Fail(c)

Spec == Init /\ [][Next]_vars
-----------------------------------------------------------------------------
(* Overlapping operations never undo each other: the stored catalog only   *)
(* changes by one operation on the catalog as it is, although each writes  *)
(* a whole catalog it read earlier.                                        *)
ImplementsRoster == R!Spec

(* Only one CreateNamespace ever makes a name, and never a second time, so *)
(* of the calls that race for it at most one is told that it did.          *)
CreatedOnce ==
  \A n \in Names : \A c, d \in Calls :
    /\ Request[c] = [op |-> "create", name |-> n] /\ Request[d] = Request[c]
    /\ written[c] > 0 /\ written[d] > 0
    => c = d /\ written[c] = 1

(* A deleted namespace stays deleted: no CreateNamespace, and no operation *)
(* that read the catalog before the deletion, brings it back.              *)
NeverReused ==
  [][\A n \in Names : object.entries[n] = "deleted" => object'.entries[n] = "deleted"]_vars

(* Every call has returned.                                                *)
Returned == \A c \in Calls : pc[c] = "done"
=============================================================================
