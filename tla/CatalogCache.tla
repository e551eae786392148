---------------------------- MODULE CatalogCache ----------------------------
(***************************************************************************)
(* namespace.CatalogCache: a copy of ns.json that lookups share.  A lookup *)
(* that misses, Refresh and the ticker of Run read the catalog without the *)
(* lock and store what they read under it, so refreshes overlap.           *)
(*                                                                         *)
(* ns.json itself changes as Roster says (Catalog implements it), and its  *)
(* generation counts the changes.                                          *)
(***************************************************************************)
EXTENDS Naturals

CONSTANTS
  Names,     \* namespaces
  Calls,     \* creations and deletions of namespaces
  Request,   \* the operation and the name of each call
  Readers,   \* concurrent lookups
  Ticker,    \* the refresh of Run, or a call of Refresh
  None       \* nothing cached, nobody asked

VARIABLES
  entries,  \* ns.json
  gen,      \* its generation
  cache,    \* the cached version, or None
  pc,       \* where each reader and the ticker are
  name,     \* what each reader looks up
  seen,     \* the version a refresh has read
  answer,   \* what a lookup returned
  asked     \* ghost: ns.json when the lookup began

vars == <<entries, gen, cache, pc, name, seen, answer, asked>>

R == INSTANCE Roster

All == Readers \cup {Ticker}

Stored == [gen |-> gen, entries |-> entries]

Init ==
  /\ R!Init /\ gen = 0
  /\ cache = None
  /\ pc = [r \in All |-> "idle"]
  /\ name = [r \in Readers |-> None]
  /\ seen = [r \in All |-> None]
  /\ answer = [r \in Readers |-> "none"]
  /\ asked = [r \in Readers |-> None]

Change ==
  /\ R!Next /\ gen' = gen + 1
  /\ UNCHANGED <<cache, pc, name, seen, answer, asked>>

AnswerFor(status) ==
  CASE status = "absent" -> "notfound" [] status = "live" -> "found" [] status = "deleted" -> "deleted"

lookupCached(n) == cache # None /\ cache.entries[n] # "absent"

LookupNamespace(r, n) ==
  /\ pc[r] = "idle"
  /\ name' = [name EXCEPT ![r] = n] /\ asked' = [asked EXCEPT ![r] = entries]
  /\ IF lookupCached(n)
     THEN answer' = [answer EXCEPT ![r] = AnswerFor(cache.entries[n])] /\ UNCHANGED pc
     ELSE answer' = [answer EXCEPT ![r] = "none"] /\ pc' = [pc EXCEPT ![r] = "read"]
  /\ UNCHANGED <<entries, gen, cache, seen>>

Tick ==
  /\ pc[Ticker] = "idle"
  /\ pc' = [pc EXCEPT ![Ticker] = "read"]
  /\ UNCHANGED <<entries, gen, cache, name, seen, answer, asked>>

(* refresh: read, then store under the lock.                               *)
RefreshRead(r) ==
  /\ pc[r] = "read"
  /\ seen' = [seen EXCEPT ![r] = Stored]
  /\ pc' = [pc EXCEPT ![r] = "store"]
  /\ UNCHANGED <<entries, gen, cache, name, answer, asked>>

RefreshFails(r) ==
  /\ pc[r] = "read"
  /\ pc' = [pc EXCEPT ![r] = "idle"]
  /\ answer' = IF r \in Readers THEN [answer EXCEPT ![r] = "error"] ELSE answer
  /\ UNCHANGED <<entries, gen, cache, name, seen, asked>>

Store(r, from) ==
  /\ pc[r] = "store"
  /\ cache' = seen[r]
  /\ seen' = [seen EXCEPT ![r] = None]
  /\ pc' = [pc EXCEPT ![r] = "idle"]
  /\ answer' = IF r \in Readers THEN [answer EXCEPT ![r] = AnswerFor(from.entries[name[r]])] ELSE answer
  /\ UNCHANGED <<entries, gen, name, asked>>

RefreshStoreKeepsFirst(r) ==
  \/ cache = None /\ Store(r, seen[r])
  \/ /\ pc[r] = "store" /\ cache # None
     /\ pc' = [pc EXCEPT ![r] = "idle"] /\ seen' = [seen EXCEPT ![r] = None]
     /\ UNCHANGED <<entries, gen, cache, name, answer, asked>>

RefreshStoreAnswersCached(r) == Store(r, IF cache = None THEN seen[r] ELSE cache)

RefreshStore(r) == Store(r, seen[r])

Invalidate ==
  /\ cache # None /\ cache' = None
  /\ UNCHANGED <<entries, gen, pc, name, seen, answer, asked>>

Next ==
  \/ Change \/ Tick \/ Invalidate
  \/ \E r \in Readers, n \in Names : LookupNamespace(r, n)
  \/ \E r \in All : RefreshRead(r) \/ RefreshFails(r) \/ RefreshStore(r)

Spec == Init /\ [][Next]_vars
-----------------------------------------------------------------------------
(* A lookup never misses a namespace that existed when it began, however   *)
(* many refreshes overlap: a miss in the cache is settled by the version   *)
(* the lookup itself has read.                                             *)
NothingMissed ==
  \A r \in Readers : answer[r] = "notfound" => asked[r][name[r]] = "absent"

(* The cache shows ns.json.                                                *)
CaughtUp == cache # None /\ cache.entries = entries
=============================================================================
