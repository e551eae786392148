------------------------------ MODULE Services ------------------------------
(***************************************************************************)
(* The processes over the store side by side: the query engine, the daemon,*)
(* its RPC handlers, and the checker of the log.  These parts share no     *)
(* state; a behaviour is about one of them, and the others stay as they    *)
(* begin.                                                                  *)
(***************************************************************************)
EXTENDS EnginePart, ServerPart

VARIABLE part
-----------------------------------------------------------------------------
ServicesInit ==
  /\ part \in {"engine", "daemon", "rpc", "walbench"}
  /\ Engine!Init /\ Daemon!Init /\ Walbench!Init
  /\ IF part = "rpc" THEN Rpc!Init
     ELSE req = None /\ stage = "interceptor" /\ call = None /\ applied = FALSE /\ status = None

ServicesNext ==
  \/ /\ part = "engine" /\ Engine!Next
     /\ UNCHANGED <<part, daemonVars, rpcVars, walbenchVars>>
  \/ /\ part = "daemon" /\ Daemon!Next
     /\ UNCHANGED <<part, engineVars, rpcVars, walbenchVars>>
  \/ /\ part = "rpc" /\ Rpc!Next
     /\ UNCHANGED <<part, engineVars, daemonVars, walbenchVars>>
  \/ /\ part = "walbench" /\ Walbench!Next
     /\ UNCHANGED <<part, engineVars, daemonVars, rpcVars>>

services == <<part, engineVars, daemonVars, rpcVars, walbenchVars>>

ServicesSpec == ServicesInit /\ [][ServicesNext]_services
=============================================================================
