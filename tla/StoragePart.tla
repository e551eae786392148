---------------------------- MODULE StoragePart -----------------------------
(***************************************************************************)
(* The object stores, on a directory and in memory, as parts of Stores.    *)
(***************************************************************************)
EXTENDS Integers

CONSTANTS
  None,
  \* on a directory
  Processes, Threads, Home, Solo, Nobody, Clock, Sizes, MaxTries, MaxCrashes,
  \* in memory
  Keys, Callers, MaxStored

ASSUME StorageConstants ==
  /\ Home \in [Threads -> Processes] /\ Nobody \notin Threads /\ Clock \subseteq Nat
  /\ None \notin Nat /\ None \notin [mtime : Nat, size : Sizes, version : Nat]

VARIABLES
  shared, file, puts, last, mutex, flock, localPc, cond, time, held, returned, tries, crashes,
  objects, genSeq, memPuts, memHeld

localVars  == <<shared, file, puts, last, mutex, flock, localPc, cond, time, held, returned, tries, crashes>>
memoryVars == <<objects, genSeq, memPuts, memHeld>>

Local == INSTANCE LocalStore WITH
  pc <- localPc, Free <- Nobody, Missing <- None, MaxPuts <- MaxTries

Memory == INSTANCE MemStore WITH
  puts <- memPuts, held <- memHeld, Missing <- None, MaxPuts <- MaxStored
-----------------------------------------------------------------------------
(* The stores keep the promise of one Put at a time that creates what is   *)
(* missing or replaces exactly the version its caller read.  On a          *)
(* directory they do although a generation is only a time and a size,      *)
(* creations take no lock and processes do not know of each other's        *)
(* clocks; with one process also when objects are deleted and made again   *)
(* and flock fails; in memory for each key, also after a deletion.  And a  *)
(* Put that replaces a file returns the generation of the file it wrote:   *)
(* nobody can replace it between the rename and the Stat.                  *)
StoresImplementObjects ==
  Local!ImplementsObjects /\ []Local!OwnGeneration /\ Memory!ImplementsObjects
=============================================================================
