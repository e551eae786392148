-------------------------------- MODULE Fork --------------------------------
(***************************************************************************)
(* Ingester.Fork (ingest/ingester.go): a new branch starts with a copy of  *)
(* its parent's manifest.  Four writes to four objects, and when a later   *)
(* one fails a rollback that deletes what the first two wrote.  A process  *)
(* of this model is one request.                                           *)
(***************************************************************************)
EXTENDS BranchStore

CONSTANTS
  Forks,      \* the fork requests
  ForkPairs   \* the (source, target) pairs that clients ask for

ASSUME ForkConstants == ForkPairs \subseteq Branches \X Branches

VARIABLES
  xpc,     \* where each request is
  source, target,
  copy     \* the parent's manifest as read

forkVars == <<xpc, source, target, copy>>

ForkWaiting == {"check", "write", "add", "append", "delete", "remove"}
ForkEnded   == {"acknowledged", "failed"}

ForkInit ==
  /\ xpc    = [x \in Forks |-> "idle"]
  /\ source = [x \in Forks |-> Main]
  /\ target = [x \in Forks |-> Main]
  /\ copy   = [x \in Forks |-> NoManifest]

ForkType ==
  /\ xpc    \in [Forks -> ForkWaiting \cup ForkEnded \cup {"idle"}]
  /\ source \in [Forks -> Branches]
  /\ target \in [Forks -> Branches]
  /\ copy   \in [Forks -> Manifest]

Move(x, from, to) == xpc[x] = from /\ xpc' = [xpc EXCEPT ![x] = to]

(* The parent must exist ...                                               *)
ReadParent(x, s, t) ==
  /\ Move(x, "idle", IF Found(manifests[s]) THEN "check" ELSE "failed")
  /\ source' = [source EXCEPT ![x] = s]
  /\ target' = [target EXCEPT ![x] = t]
  /\ copy' = [copy EXCEPT ![x] = manifests[s]]
  /\ UNCHANGED storeVars

(* ... and the target must not.                                            *)
CheckTarget(x) ==
  /\ Move(x, "check", IF Found(manifests[target[x]]) THEN "failed" ELSE "write")
  /\ UNCHANGED <<storeVars, source, target, copy>>

(* Mutants: the child starts at the end of the log; the copy overwrites a  *)
(* target that has appeared since.                                         *)
WriteAtTail(x) ==
  /\ Writable(target[x], 0)
  /\ Write(target[x], Len(wal), copy[x].segments)
  /\ Move(x, "write", "add")
  /\ UNCHANGED <<wal, catalog, segments, rolledBack, faults, source, target, copy>>

WriteOver(x) ==
  /\ Write(target[x], copy[x].checkpoint, copy[x].segments)
  /\ Move(x, "write", "add")
  /\ UNCHANGED <<wal, catalog, segments, rolledBack, faults, source, target, copy>>

(* The copy, on condition that there is still no target.  An error here is *)
(* returned as it is, even when the write took effect.                     *)
WriteTarget(x) ==
  /\ IF Writable(target[x], 0)
     THEN /\ Write(target[x], copy[x].checkpoint, copy[x].segments)
          /\ \/ Move(x, "write", "add") /\ UNCHANGED faults
             \/ Move(x, "write", "failed") /\ Fault
     ELSE /\ Move(x, "write", "failed")
          /\ UNCHANGED <<manifests, generation, faults>>
  /\ UNCHANGED <<wal, catalog, segments, rolledBack, source, target, copy>>

ListTarget(x) ==
  /\ AddBranch(target[x])
  /\ \/ Move(x, "add", "append") /\ UNCHANGED faults
     \/ Move(x, "add", "delete") /\ Fault
  /\ UNCHANGED <<wal, manifests, segments, generation, rolledBack, source, target, copy>>

AppendEvent(x) ==
  /\ WalAppend([kind |-> "fork", branch |-> target[x], parent |-> source[x]])
  /\ \/ Move(x, "append", "acknowledged") /\ UNCHANGED faults
     \/ Move(x, "append", "delete") /\ Fault
  /\ UNCHANGED <<manifests, catalog, segments, generation, rolledBack, source, target, copy>>

(* rollback: the target's manifest is deleted whatever it holds by now,    *)
(* then its catalog entry.  Errors of either are ignored.                  *)
DeleteTarget(x) ==
  /\ Move(x, "delete", "remove")
  /\ \/ /\ manifests' = [manifests EXCEPT ![target[x]] = NoManifest]
        /\ rolledBack' = rolledBack \cup {target[x]}
        /\ UNCHANGED faults
     \/ Fault /\ UNCHANGED <<manifests, rolledBack>>
  /\ UNCHANGED <<wal, catalog, segments, generation, source, target, copy>>

UnlistTarget(x) ==
  /\ Move(x, "remove", "failed")
  /\ \/ RemoveBranch(target[x]) /\ UNCHANGED faults
     \/ Fault /\ UNCHANGED catalog
  /\ UNCHANGED <<wal, manifests, segments, generation, rolledBack, source, target, copy>>

(* A request to the store fails without effect; Fork returns the error,    *)
(* after the rollback once there is something to roll back.                *)
ForkError(x) ==
  /\ Fault
  /\ \/ \E here \in {"check", "write"} : Move(x, here, "failed")
     \/ \E here \in {"add", "append"} : Move(x, here, "delete")
  /\ UNCHANGED <<wal, manifests, catalog, segments, generation, rolledBack,
                 source, target, copy>>

(* The ingester's process stops.                                           *)
ForkCrash(x) ==
  /\ Fault
  /\ \E here \in ForkWaiting : Move(x, here, "failed")
  /\ UNCHANGED <<wal, manifests, catalog, segments, generation, rolledBack,
                 source, target, copy>>

ForkStep(x) ==
  \/ CheckTarget(x) \/ WriteTarget(x) \/ ListTarget(x) \/ AppendEvent(x)
  \/ DeleteTarget(x) \/ UnlistTarget(x)

ForkNext(x) ==
  \/ \E p \in ForkPairs : ReadParent(x, p[1], p[2])
  \/ ForkStep(x) \/ ForkError(x) \/ ForkCrash(x)
=============================================================================
