------------------------------- MODULE Stores -------------------------------
(***************************************************************************)
(* What is kept and shared, side by side: the store on a directory, the    *)
(* store in memory, the cache of the catalog, and streams of records.      *)
(* These parts share no state; a behaviour is about one of them, and the   *)
(* others stay as they begin.                                              *)
(***************************************************************************)
EXTENDS StoragePart, CachePart, RecordPart

VARIABLE part
-----------------------------------------------------------------------------
StoresInit ==
  /\ Local!Init /\ (part # "local" => shared)
  /\ Memory!Init /\ Cache!Init /\ Record!Init

StoresNext ==
  \/ /\ part = "local" /\ Local!Next
     /\ UNCHANGED <<part, memoryVars, cacheVars, recordVars>>
  \/ /\ part = "memory" /\ Memory!Next
     /\ UNCHANGED <<part, localVars, cacheVars, recordVars>>
  \/ /\ part = "cache" /\ Cache!Next
     /\ UNCHANGED <<part, localVars, memoryVars, recordVars>>
  \/ /\ part = "record" /\ Record!Next
     /\ UNCHANGED <<part, localVars, memoryVars, cacheVars>>

stores == <<part, localVars, memoryVars, cacheVars, recordVars>>

StoresSpec == StoresInit /\ [][StoresNext]_stores
=============================================================================
