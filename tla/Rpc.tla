-------------------------------- MODULE Rpc ---------------------------------
(***************************************************************************)
(* The gRPC services: what the interceptor and the handlers let through to *)
(* a tenant's ingester or engine, and the status a caller sees.            *)
(*                                                                         *)
(* The ingester is what Fork and LogStream say of it: an error after the   *)
(* request was sent leaves open whether it took effect.                    *)
(***************************************************************************)
EXTENDS Naturals, Sequences

CONSTANTS
  Tenants,      \* the configured ones
  ValidNames,   \* names that ValidateName accepts
  OddNames,     \* and others; Empty is one
  Empty, DefaultNamespace, DefaultBranch,
  None,
  MaxHeaders, MaxItems   \* bounds: tenant headers, records or ids of a request

VARIABLES
  req,      \* the request
  stage,    \* interceptor, handler, call, replied
  call,     \* what the handler passes on
  applied,  \* it took effect
  status

vars == <<req, stage, call, applied, status>>

Names == ValidNames \cup OddNames

UpTo(n, S) == UNION {[1..m -> S] : m \in 0..n}

Requests ==
  [op : {"upsert", "delete", "fork", "query"}, headers : UpTo(MaxHeaders, Names),
   namespace : Names, branch : Names, target : Names,
   items : UpTo(MaxItems, {"good", "bad"})]

(* Only a fork has a target, and a fork has no items.                      *)
Sensible(r) == IF r.op = "fork" THEN r.items = <<>> ELSE r.target = Empty

Init ==
  /\ req \in {r \in Requests : Sensible(r)}
  /\ stage = "interceptor" /\ call = None /\ applied = FALSE /\ status = None

Reply(code) == stage' = "replied" /\ status' = code /\ UNCHANGED <<req, call, applied>>
-----------------------------------------------------------------------------
tenant == Head(req.headers)

TenantInterceptor ==
  /\ stage = "interceptor"
  /\ IF req.headers = <<>> \/ tenant = Empty THEN Reply("Unauthenticated")
     ELSE IF Len(req.headers) > 1 \/ tenant \notin ValidNames THEN Reply("InvalidArgument")
     ELSE stage' = "handler" /\ UNCHANGED <<req, call, applied, status>>

(* resolveNamespace and resolveBranch.                                     *)
resolve(raw, default) == IF raw = Empty THEN default ELSE raw

namespace == IF req.op = "query" THEN req.namespace ELSE resolve(req.namespace, DefaultNamespace)
branch    == resolve(req.branch, DefaultBranch)

(* Every record has an id; every id is given; a query has a vector and a   *)
(* positive top_k.                                                         *)
ItemsValid ==
  /\ \A i \in DOMAIN req.items : req.items[i] = "good"
  /\ req.op = "query" => req.items # <<>>

TargetValid == req.op = "fork" => req.target \in ValidNames /\ req.target # branch

NothingToDo == req.op \in {"upsert", "delete"} /\ req.items = <<>>

(* Unknown tenants come before bad names, but for the namespace of a query.*)
Refusal ==
  IF req.op = "query" /\ namespace \notin ValidNames THEN "InvalidArgument"
  ELSE IF tenant \notin Tenants THEN "NotFound"
  ELSE IF {namespace, branch} \subseteq ValidNames /\ TargetValid /\ ItemsValid THEN None
  ELSE "InvalidArgument"

Refuse == stage = "handler" /\ Refusal # None /\ Reply(Refusal)

Nothing == stage = "handler" /\ Refusal = None /\ NothingToDo /\ Reply("OK")

Pass ==
  /\ stage = "handler" /\ Refusal = None /\ ~NothingToDo
  /\ call' = [op |-> req.op, tenant |-> tenant, namespace |-> namespace, branch |-> branch,
              target |-> req.target, items |-> req.items]
  /\ stage' = "call" /\ UNCHANGED <<req, applied, status>>
-----------------------------------------------------------------------------
(* What Ingester.Upsert, Delete and Fork return, and whether the request   *)
(* took effect: an error may be that of an answer, or of the last of       *)
(* several writes.  A fork that loses the answer to its manifest finds it  *)
(* there.                                                                  *)
IngesterOutcomes ==
  {<<"none", TRUE>>} \cup ({"canceled", "deadline", "other"} \X BOOLEAN) \cup
  (IF call.op = "fork" THEN {<<"not found", FALSE>>} \cup ({"exists"} \X BOOLEAN) ELSE {})

(* What Engine.Query returns; it changes nothing.                          *)
EngineOutcomes == {"none", "canceled", "deadline", "mismatch", "zero", "other"} \X {FALSE}

CodeIgnoresOther(err) == IF err = "not found" THEN "NotFound" ELSE "OK"

Code(err) ==
  IF err \in {"mismatch", "zero"} THEN "InvalidArgument"
  ELSE IF call.op # "query" /\ err = "canceled" THEN "Canceled"
  ELSE IF call.op # "query" /\ err = "deadline" THEN "DeadlineExceeded"
  ELSE IF err = "not found" THEN "NotFound"
  ELSE IF err = "exists" THEN "AlreadyExists"
  ELSE IF err = "none" THEN "OK" ELSE "Internal"

Return ==
  /\ stage = "call"
  /\ \E outcome \in IF call.op = "query" THEN EngineOutcomes ELSE IngesterOutcomes :
       status' = Code(outcome[1]) /\ applied' = outcome[2]
  /\ stage' = "replied" /\ UNCHANGED <<req, call>>
-----------------------------------------------------------------------------
Next == TenantInterceptor \/ Refuse \/ Nothing \/ Pass \/ Return

Spec == Init /\ [][Next]_vars
-----------------------------------------------------------------------------
(* A caller that is told OK has its effect, and one that is told its       *)
(* request was wrong, or that tenant or source are missing, has left no    *)
(* trace and may send another.  Other statuses leave open what happened.   *)
StatusTellsEffect ==
  /\ status = "OK" => applied \/ req.op = "query" \/ NothingToDo
  /\ status \in {"InvalidArgument", "Unauthenticated", "NotFound"} => ~applied
=============================================================================
