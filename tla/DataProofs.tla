----------------------------- MODULE DataProofs -----------------------------
(***************************************************************************)
(* The catalogs, their cache, and streams of records, for any number of    *)
(* names, calls, lookups and faults, records of any length and any sizes   *)
(* of header, footer and buffer.                                           *)
(***************************************************************************)
EXTENDS Catalog, CachePart, RecordPart, TLAPS

(* Catalogs.  A call that is about to write holds a copy that is the       *)
(* stored catalog or has an older generation, and in that copy its         *)
(* operation still has something to do.                                    *)

CopyOK(c) ==
  pc[c] = "write" =>
    /\ copy[c].gen <= object.gen
    /\ copy[c].gen = object.gen => copy[c].entries = object.entries
    /\ ~R!Settled(Request[c].op, copy[c].entries[Request[c].name])

IInv == TypeOK /\ \A c \in Calls : CopyOK(c)

(* The inductive invariant holds at the start, with no catalog stored.     *)
LEMMA InitInv == Init => IInv
BY CatalogConstants DEF Init, IInv, TypeOK, CopyOK, Missing, R!Status, Answers, Versions

(* What a call read and found unsettled has a type.                        *)
LEMMA TypeStep == TypeOK /\ [Next]_vars => TypeOK'
<1> SUFFICES ASSUME TypeOK, [Next]_vars PROVE TypeOK'
  BY Zenon
<1> USE CatalogConstants DEF TypeOK, Versions
<1>1. ASSUME NEW c \in Calls, Read(c) PROVE TypeOK'
  <2>1. Reply(Request[c].op, object.entries[Request[c].name]) \in Answers
    BY Zenon DEF Reply, Answers
  <2>2. UNCHANGED <<object, written, faults>>
    BY <1>1, Zenon DEF Read
  <2>3. CASE R!Settled(Request[c].op, object.entries[Request[c].name])
    <3>1. Finish(c, Reply(Request[c].op, object.entries[Request[c].name]))
      BY <1>1, <2>3, Zenon DEF Read
    <3> QED
      BY <2>1, <2>2, <3>1, Zenon DEF Finish
  <2>4. CASE ~R!Settled(Request[c].op, object.entries[Request[c].name])
    <3>1. /\ pc' = [pc EXCEPT ![c] = "write"]
          /\ copy' = [copy EXCEPT ![c] = object]
          /\ UNCHANGED answer
      BY <1>1, <2>4, Zenon DEF Read
    <3> QED
      BY <2>2, <3>1, Zenon
  <2> QED
    BY <2>3, <2>4, Zenon
<1>2. ASSUME NEW c \in Calls, Take(c) PROVE object' \in Versions /\ written' \in [Calls -> Nat]
  <2>1. R!Target(Request[c].op) \in R!Status
    BY Zenon DEF R!Target, R!Status
  <2>2. Update(c) \in [Names -> R!Status]
    BY <2>1, Zenon DEF Update
  <2> QED
    BY <1>2, <2>2 DEF Take
<1>3. ASSUME NEW c \in Calls, Write(c) PROVE TypeOK'
  <2>1. object' \in Versions /\ written' \in [Calls -> Nat]
    BY <1>2, <1>3, Zenon DEF Write
  <2> QED
    BY <1>3, <2>1, Zenon DEF Write, Finish, Answers
<1>4. ASSUME NEW c \in Calls, WriteLost(c) PROVE TypeOK'
  <2>1. object' \in Versions /\ written' \in [Calls -> Nat]
    BY <1>2, <1>4, Zenon DEF WriteLost
  <2> QED
    <3>1. faults' \in Nat
      BY <1>4 DEF WriteLost
    <3>2. /\ pc' \in [Calls -> {"read", "write", "done"}]
          /\ copy' \in [Calls -> Versions]
          /\ answer' \in [Calls -> Answers]
      BY <1>4, Zenon DEF WriteLost, Finish, Again, Answers
    <3> QED
      BY <2>1, <3>1, <3>2, Zenon
<1>5. ASSUME NEW c \in Calls, Conflict(c) PROVE TypeOK'
  BY <1>5, Zenon DEF Conflict, Again
<1>6. ASSUME NEW c \in Calls, Fail(c) PROVE TypeOK'
  BY <1>6 DEF Fail, Finish, Answers
<1>7. CASE UNCHANGED vars
  BY <1>7, Zenon DEF vars
<1> QED
  BY <1>1, <1>3, <1>4, <1>5, <1>6, <1>7, Zenon DEF Next

(* A write that takes effect makes every other pending copy an old one.    *)
LEMMA CopyStep == IInv /\ [Next]_vars => \A c \in Calls : CopyOK(c)'
<1> SUFFICES ASSUME IInv, [Next]_vars, NEW d \in Calls PROVE CopyOK(d)'
  BY Zenon
<1> USE CatalogConstants DEF IInv, TypeOK, Versions
<1> CopyOK(d)
  BY Zenon
<1>1. ASSUME NEW c \in Calls, Read(c) PROVE CopyOK(d)'
  BY <1>1 DEF Read, Finish, CopyOK
<1>2. ASSUME NEW c \in Calls, Take(c), Finish(c, "ok") \/ Finish(c, "error") \/ Again(c) PROVE CopyOK(d)'
  <2>1. object'.gen = object.gen + 1
    BY <1>2, Zenon DEF Take
  <2>2. CASE c = d
    BY <1>2, <2>2, Zenon DEF CopyOK, Finish, Again
  <2>3. CASE c # d
    <3>1. pc'[d] = pc[d] /\ copy'[d] = copy[d]
      BY <1>2, <2>3, Zenon DEF Finish, Again
    <3>2. copy[d].gen \in Nat /\ object.gen \in Nat
      BY Zenon
    <3> QED
      BY <2>1, <3>1, <3>2 DEF CopyOK
  <2> QED
    BY <2>2, <2>3, Zenon
<1>3. ASSUME NEW c \in Calls, Write(c) \/ WriteLost(c) PROVE CopyOK(d)'
  BY <1>2, <1>3, Zenon DEF Write, WriteLost
<1>4. ASSUME NEW c \in Calls, Conflict(c) \/ Fail(c) PROVE CopyOK(d)'
  BY <1>4, Zenon DEF Conflict, Fail, Again, Finish, CopyOK
<1>5. CASE UNCHANGED vars
  BY <1>5, Zenon DEF vars, CopyOK
<1> QED
  BY <1>1, <1>3, <1>4, <1>5, Zenon DEF Next

(* The inductive invariant holds in every reachable state.                 *)
THEOREM Invariance == Spec => []IInv
<1>1. IInv /\ [Next]_vars => IInv'
  BY TypeStep, CopyStep, Zenon DEF IInv
<1> QED
  BY InitInv, <1>1, PTL DEF Spec

(* A write that takes effect performs its operation on the catalog that is *)
(* stored at that moment.                                                  *)
LEMMA TakePerforms ==
  ASSUME IInv, NEW c \in Calls, Take(c)
  PROVE  /\ ~R!Settled(Request[c].op, object.entries[Request[c].name])
         /\ object'.entries = [object.entries EXCEPT ![Request[c].name] = R!Target(Request[c].op)]
<1>1. CopyOK(c) /\ pc[c] = "write" /\ copy[c].gen = object.gen
  BY Zenon DEF IInv, Take, Matches
<1>2. copy[c].entries = object.entries
  BY <1>1, Zenon DEF CopyOK
<1> QED
  BY <1>1, <1>2, Zenon DEF CopyOK, Take, Update

(* Every step takes effect or leaves the stored catalog alone.             *)
LEMMA Effects ==
  ASSUME [Next]_vars
  PROVE  UNCHANGED <<object, written>> \/ \E c \in Calls : Take(c)
BY Zenon DEF Next, vars, Read, Write, WriteLost, Conflict, Fail

(* The compare-and-swap loop implements the atomic catalog: overlapping    *)
(* operations never undo each other.                                       *)
THEOREM CatalogIsAtomic == Spec => ImplementsRoster
<1>1. Init => R!Init
  BY DEF Init, R!Init, Missing
<1>2. IInv /\ [Next]_vars => [R!Next]_(object.entries)
  <2> SUFFICES ASSUME IInv, [Next]_vars, ~UNCHANGED object PROVE R!Next
    BY Zenon
  <2>1. PICK c \in Calls : Take(c)
    BY Effects, Zenon
  <2>2. R!Perform(c)
    BY <2>1, TakePerforms, Zenon DEF R!Perform
  <2> QED
    BY <2>2, Zenon DEF R!Next
<1> QED
  BY <1>1, <1>2, Invariance, PTL DEF Spec, ImplementsRoster, R!Spec

-----------------------------------------------------------------------------
(* A name in ns.json.                                                      *)
IsSpace(n) == \E c \in Calls : Request[c].op \in {"create", "delete"} /\ Request[c].name = n

(* An entry of ns.json never goes back to absent, and a deleted one stays. *)
LEMMA NamespaceStep ==
  ASSUME IInv, [Next]_vars, NEW n \in Names, IsSpace(n)
  PROVE  /\ object.entries[n] # "absent" => object'.entries[n] # "absent"
         /\ object.entries[n] = "deleted" => object'.entries[n] = "deleted"
<1>1. CASE UNCHANGED <<object, written>>
  BY <1>1, Zenon
<1>2. ASSUME NEW c \in Calls, Take(c) PROVE /\ object.entries[n] # "absent" => object'.entries[n] # "absent"
                                            /\ object.entries[n] = "deleted" => object'.entries[n] = "deleted"
  <2>1. object.entries \in [Names -> R!Status] /\ Request[c].name \in Names
    BY CatalogConstants, Zenon DEF IInv, TypeOK, Versions
  <2>2. CASE Request[c].name # n
    <3>1. object'.entries[n] = object.entries[n]
      BY <1>2, <2>1, <2>2, TakePerforms, Zenon
    <3> QED
      BY <3>1, Zenon
  <2>3. CASE Request[c].name = n
    <3>1. Request[c].op \in {"create", "delete"}
      BY <2>3, CatalogConstants, KindsApart, Zenon DEF IsSpace
    <3> QED
      BY <1>2, <2>1, <2>3, <3>1, TakePerforms, Zenon DEF R!Target, R!Settled
  <2> QED
    BY <2>2, <2>3, Zenon
<1> QED
  BY <1>1, <1>2, Effects, Zenon

(* Only namespaces are marked as deleted.                                  *)
DeletedAreSpaces == \A n \in Names : object.entries[n] = "deleted" => IsSpace(n)

(* A deletion marks the name it was asked to.                              *)
LEMMA DeletedStep ==
  ASSUME IInv, DeletedAreSpaces, [Next]_vars
  PROVE  DeletedAreSpaces'
<1>1. CASE UNCHANGED <<object, written>>
  BY <1>1, Zenon DEF DeletedAreSpaces, IsSpace
<1>2. ASSUME NEW c \in Calls, Take(c), NEW n \in Names, object'.entries[n] = "deleted"
      PROVE  IsSpace(n)
  <2>1. object.entries \in [Names -> R!Status] /\ Request[c].name \in Names
    BY CatalogConstants, Zenon DEF IInv, TypeOK, Versions
  <2>2. CASE Request[c].name # n
    <3>1. object'.entries[n] = object.entries[n]
      BY <1>2, <2>1, <2>2, TakePerforms, Zenon
    <3> QED
      BY <1>2, <3>1, Zenon DEF DeletedAreSpaces
  <2>3. CASE Request[c].name = n
    <3>1. R!Target(Request[c].op) = "deleted"
      BY <1>2, <2>1, <2>3, TakePerforms, Zenon
    <3>2. Request[c].op = "delete"
      BY <3>1, Zenon DEF R!Target
    <3> QED
      BY <2>3, <3>2, Zenon DEF IsSpace
  <2> QED
    BY <2>2, <2>3, Zenon
<1> QED
  BY <1>1, <1>2, Effects, Zenon DEF DeletedAreSpaces, IsSpace

(* A namespace that was deleted is never live again.                       *)
THEOREM NamesAreNotReused == Spec => NeverReused
<1>1. Init => DeletedAreSpaces
  BY DEF Init, Missing, DeletedAreSpaces
<1>2. IInv /\ DeletedAreSpaces /\ [Next]_vars
        => [\A n \in Names : object.entries[n] = "deleted" => object'.entries[n] = "deleted"]_vars
  BY NamespaceStep, Zenon DEF DeletedAreSpaces
<1> QED
  BY <1>1, <1>2, DeletedStep, Invariance, PTL DEF Spec, NeverReused

(* Creations that took effect.                                             *)
Made(c) == Request[c].op = "create" /\ written[c] > 0

OneMaker ==
  /\ \A c \in Calls : Made(c) => object.entries[Request[c].name] # "absent" /\ written[c] = 1
  /\ \A c, d \in Calls : Made(c) /\ Made(d) /\ Request[c] = Request[d] => c = d

(* Only one call ever creates a given namespace, and only once.            *)
THEOREM OneCreation == Spec => []CreatedOnce
<1>1. Init => OneMaker
  BY DEF Init, OneMaker, Made
<1>2. IInv /\ OneMaker /\ [Next]_vars => OneMaker'
  <2> SUFFICES ASSUME IInv, OneMaker, [Next]_vars PROVE OneMaker'
    BY Zenon
  <2> USE CatalogConstants
  <2>1. CASE UNCHANGED <<object, written>>
    BY <2>1, Zenon DEF OneMaker, Made
  <2>2. ASSUME NEW c \in Calls, Take(c) PROVE OneMaker'
    <3>1. written' = [written EXCEPT ![c] = @ + 1] /\ written \in [Calls -> Nat]
      BY <2>2, Zenon DEF Take, IInv, TypeOK
    <3>2. object.entries \in [Names -> R!Status]
      BY Zenon DEF IInv, TypeOK, Versions
    <3>3. Request[c].op = "create" => object.entries[Request[c].name] = "absent"
      BY <2>2, TakePerforms, Zenon DEF R!Settled
    <3>4. object'.entries[Request[c].name] = R!Target(Request[c].op)
      BY <2>2, <3>2, TakePerforms, Zenon
    <3>5. Made(c)' => object'.entries[Request[c].name] # "absent"
      BY <3>4, Zenon DEF R!Target, Made
    <3>6. Made(c) => FALSE
      BY <3>3, Zenon DEF OneMaker, Made
    <3>7. \A d \in Calls : d # c => (Made(d)' <=> Made(d)) /\ written'[d] = written[d]
      BY <3>1, Zenon DEF Made
    <3>8. Made(c)' => written'[c] = 1
      BY <3>1, <3>6 DEF Made
    <3>9. \A d \in Calls : Made(d)' => object'.entries[Request[d].name] # "absent" /\ written'[d] = 1
      <4>1. ASSUME NEW d \in Calls, Made(d) PROVE object'.entries[Request[d].name] # "absent"
        <5>1. IsSpace(Request[d].name) /\ Request[d].name \in Names
          BY <4>1, Zenon DEF Made, IsSpace
        <5> QED
          BY <4>1, <5>1, NamespaceStep, Zenon DEF OneMaker
      <4> QED
        BY <3>5, <3>7, <3>8, <4>1, Zenon DEF OneMaker
    <3>10. \A d \in Calls : Made(d) /\ Made(c)' => Request[c] # Request[d]
      BY <3>3, <3>7 DEF OneMaker, Made
    <3>11. \A d, e \in Calls : Made(d)' /\ Made(e)' /\ Request[d] = Request[e] => d = e
      BY <3>6, <3>7, <3>10 DEF OneMaker
    <3> QED
      BY <3>9, <3>11, Zenon DEF OneMaker
  <2> QED
    BY <2>1, <2>2, Effects, Zenon
<1>3. IInv /\ OneMaker => CreatedOnce
  BY DEF OneMaker, Made, CreatedOnce
<1> QED
  BY <1>1, <1>2, <1>3, Invariance, PTL DEF Spec
-----------------------------------------------------------------------------
(* The cache of the catalog.                                               *)

Listing == [Spaces -> Cache!R!Status]

Version == [gen : Nat, entries : Listing]

CacheType ==
  /\ entries \in Listing
  /\ gen \in Nat
  /\ cache # Uncached => cache \in Version
  /\ cachePc \in [Cache!All -> {"idle", "read", "store"}]
  /\ DOMAIN name = Lookups /\ DOMAIN seen = Cache!All
  /\ DOMAIN lookup = Lookups /\ DOMAIN asked = Lookups
  /\ \A r \in Cache!All : cachePc[r] = "store" => seen[r] \in Version
  /\ \A r \in Lookups : cachePc[r] # "idle" => name[r] \in Spaces /\ asked[r] \in Listing

(* What is listed in old is listed in new.                                 *)
Keeps(old, new) == \A n \in Spaces : old[n] # "absent" => new[n] # "absent"

(* A lookup that goes to the store reads a catalog that still has every    *)
(* name it had when the lookup began.                                      *)
ReadIsLater ==
  \A r \in Lookups :
    /\ cachePc[r] = "read" => Keeps(asked[r], entries)
    /\ cachePc[r] = "store" => Keeps(asked[r], seen[r].entries)

CacheInv == CacheType /\ ReadIsLater /\ Cache!NothingMissed

(* A change of ns.json keeps every name that is listed: a deletion leaves  *)
(* a deleted entry, not none.                                              *)
LEMMA ChangeKeepsNames ==
  ASSUME entries \in Listing, Cache!R!Next
  PROVE  entries' \in Listing /\ Keeps(entries, entries')
<1>1. PICK c \in Changes :
        entries' = [entries EXCEPT ![ChangeOf[c].name] = Cache!R!Target(ChangeOf[c].op)]
  BY Zenon DEF Cache!R!Next, Cache!R!Perform
<1>2. Cache!R!Target(ChangeOf[c].op) \in {"live", "deleted"}
  BY CacheConstants, Zenon DEF Cache!R!Target
<1>3. ChangeOf[c].name \in Spaces
  BY CacheConstants, Zenon
<1> QED
  BY <1>1, <1>2, <1>3, Zenon DEF Listing, Cache!R!Status, Keeps

(* Only an absent name is answered with notfound.                          *)
LEMMA AnswerIsRight ==
  ASSUME NEW s \in Cache!R!Status, Cache!AnswerFor(s) = "notfound"
  PROVE  s = "absent"
BY Zenon DEF Cache!AnswerFor, Cache!R!Status

(* The cache begins empty, with nobody asking.                             *)
LEMMA CacheBegins == Cache!Init => CacheInv
<1> SUFFICES ASSUME Cache!Init PROVE CacheInv
  BY Zenon
<1>1. CacheType
  BY Zenon DEF Cache!Init, Cache!All, Cache!R!Init, CacheType, Listing, Cache!R!Status
<1>2. ReadIsLater
  BY Zenon DEF Cache!Init, ReadIsLater, Cache!All
<1>3. Cache!NothingMissed
  BY Zenon DEF Cache!Init, Cache!NothingMissed
<1> QED
  BY <1>1, <1>2, <1>3, Zenon DEF CacheInv

(* A change of ns.json under the lookups.                                  *)
LEMMA ChangeStep ==
  ASSUME CacheInv, Cache!Change
  PROVE  CacheInv'
<1>1. entries' \in Listing /\ Keeps(entries, entries')
  BY ChangeKeepsNames, Zenon DEF CacheInv, CacheType, Cache!Change
<1>2. CacheType'
  BY <1>1 DEF CacheInv, CacheType, Cache!Change
<1>3. ReadIsLater'
  BY <1>1, Zenon DEF CacheInv, ReadIsLater, Cache!Change, Keeps
<1>4. Cache!NothingMissed'
  BY Zenon DEF CacheInv, Cache!NothingMissed, Cache!Change
<1> QED
  BY <1>2, <1>3, <1>4, Zenon DEF CacheInv

(* A lookup begins: it answers from the cache only what is listed there.   *)
LEMMA LookupStep ==
  ASSUME CacheInv, NEW r \in Lookups, NEW n \in Spaces, Cache!LookupNamespace(r, n)
  PROVE  CacheInv'
<1>1. r \in Cache!All
  BY Zenon DEF Cache!All
<1>2. CASE Cache!lookupCached(n)
  <2>1. /\ lookup' = [lookup EXCEPT ![r] = Cache!AnswerFor(cache.entries[n])]
        /\ UNCHANGED <<cachePc, entries, gen, cache, seen>>
        /\ name' = [name EXCEPT ![r] = n] /\ asked' = [asked EXCEPT ![r] = entries]
        /\ cachePc[r] = "idle"
    BY <1>2, Zenon DEF Cache!LookupNamespace
  <2>2. CacheType'
    BY <2>1, Zenon DEF CacheInv, CacheType
  <2>3. ReadIsLater'
    BY <2>1, Zenon DEF CacheInv, ReadIsLater, CacheType
  <2>4. cache.entries[n] \in Cache!R!Status /\ cache.entries[n] # "absent"
    BY <1>2, Zenon DEF Cache!lookupCached, CacheInv, CacheType, Version, Listing
  <2>5. Cache!AnswerFor(cache.entries[n]) # "notfound"
    BY <2>4, AnswerIsRight, Zenon
  <2>6. Cache!NothingMissed'
    BY <2>1, <2>5, Zenon DEF CacheInv, Cache!NothingMissed, CacheType
  <2> QED
    BY <2>2, <2>3, <2>6, Zenon DEF CacheInv
<1>3. CASE ~Cache!lookupCached(n)
  <2>1. /\ lookup' = [lookup EXCEPT ![r] = "none"]
        /\ UNCHANGED <<entries, gen, cache, seen>>
        /\ cachePc' = [cachePc EXCEPT ![r] = "read"]
        /\ name' = [name EXCEPT ![r] = n] /\ asked' = [asked EXCEPT ![r] = entries]
        /\ cachePc[r] = "idle"
    BY <1>3, Zenon DEF Cache!LookupNamespace
  <2>2. CacheType'
    BY <1>1, <2>1, Zenon DEF CacheInv, CacheType, Cache!All
  <2>3. ReadIsLater'
    BY <1>1, <2>1, Zenon DEF CacheInv, ReadIsLater, CacheType, Keeps, Cache!All
  <2>4. Cache!NothingMissed'
    BY <2>1, Zenon DEF CacheInv, Cache!NothingMissed, CacheType
  <2> QED
    BY <2>2, <2>3, <2>4, Zenon DEF CacheInv
<1> QED
  BY <1>2, <1>3, Zenon

(* The ticker starts a refresh, and Invalidate empties the cache.          *)
LEMMA TickStep ==
  ASSUME CacheInv, Cache!Tick \/ Cache!Invalidate
  PROVE  CacheInv'
<1>1. CASE Cache!Tick
  <2>1. CacheType'
    BY <1>1, CacheConstants, Zenon DEF CacheInv, CacheType, Cache!Tick, Cache!All
  <2>2. ReadIsLater'
    BY <1>1, CacheConstants, Zenon DEF CacheInv, CacheType, ReadIsLater, Cache!Tick, Cache!All
  <2> QED
    BY <1>1, <2>1, <2>2, Zenon DEF CacheInv, Cache!NothingMissed, Cache!Tick
<1>2. CASE Cache!Invalidate
  BY <1>2, Zenon DEF CacheInv, CacheType, ReadIsLater, Cache!NothingMissed, Cache!Invalidate
<1> QED
  BY <1>1, <1>2, Zenon

(* A refresh reads ns.json, or cannot.                                     *)
LEMMA ReadStep ==
  ASSUME CacheInv, NEW r \in Cache!All, Cache!RefreshRead(r) \/ Cache!RefreshFails(r)
  PROVE  CacheInv'
<1>1. CASE Cache!RefreshRead(r)
  <2>1. Cache!Stored \in Version /\ Cache!Stored.entries = entries
    BY Zenon DEF CacheInv, CacheType, Cache!Stored, Version
  <2>2. CacheType'
    BY <1>1, <2>1, Zenon DEF CacheInv, CacheType, Cache!RefreshRead, Cache!All
  <2>3. ReadIsLater'
    BY <1>1, <2>1, Zenon DEF CacheInv, CacheType, ReadIsLater, Cache!RefreshRead, Cache!All
  <2> QED
    BY <1>1, <2>2, <2>3, Zenon DEF CacheInv, Cache!NothingMissed, Cache!RefreshRead
<1>2. CASE Cache!RefreshFails(r)
  <2>1. CacheType'
    BY <1>2, Zenon DEF CacheInv, CacheType, Cache!RefreshFails, Cache!All
  <2>2. ReadIsLater'
    BY <1>2, Zenon DEF CacheInv, CacheType, ReadIsLater, Cache!RefreshFails, Cache!All
  <2>3. Cache!NothingMissed'
    BY <1>2, Zenon DEF CacheInv, CacheType, Cache!NothingMissed, Cache!RefreshFails
  <2> QED
    BY <2>1, <2>2, <2>3, Zenon DEF CacheInv
<1> QED
  BY <1>1, <1>2, Zenon

(* A refresh stores what it read, and a lookup answers from that version.  *)
LEMMA StoredStep ==
  ASSUME CacheInv, NEW r \in Cache!All, Cache!RefreshStore(r)
  PROVE  CacheInv'
<1>1. /\ cachePc[r] = "store" /\ cache' = seen[r]
      /\ seen' = [seen EXCEPT ![r] = Uncached] /\ cachePc' = [cachePc EXCEPT ![r] = "idle"]
      /\ lookup' = IF r \in Lookups THEN [lookup EXCEPT ![r] = Cache!AnswerFor(seen[r].entries[name[r]])] ELSE lookup
      /\ UNCHANGED <<entries, gen, name, asked>>
  BY Zenon DEF Cache!RefreshStore, Cache!Store
<1>2. seen[r] \in Version
  BY <1>1, Zenon DEF CacheInv, CacheType
<1>3. CacheType'
  BY <1>1, <1>2, Zenon DEF CacheInv, CacheType, Cache!All
<1>4. ReadIsLater'
  BY <1>1, Zenon DEF CacheInv, CacheType, ReadIsLater, Cache!All
<1>5. ASSUME r \in Lookups, Cache!AnswerFor(seen[r].entries[name[r]]) = "notfound"
      PROVE  asked[r][name[r]] = "absent"
  <2>1. name[r] \in Spaces /\ seen[r].entries[name[r]] \in Cache!R!Status
    BY <1>1, <1>2, <1>5, Zenon DEF CacheInv, CacheType, Version, Listing
  <2>2. seen[r].entries[name[r]] = "absent"
    BY <1>5, <2>1, AnswerIsRight, Zenon
  <2> QED
    BY <1>1, <1>5, <2>1, <2>2, Zenon DEF CacheInv, ReadIsLater, Keeps
<1>6. Cache!NothingMissed'
  BY <1>1, <1>5, Zenon DEF CacheInv, CacheType, Cache!NothingMissed
<1> QED
  BY <1>3, <1>4, <1>6, Zenon DEF CacheInv

(* A lookup never reports a namespace missing that existed when it began,  *)
(* whatever refreshes, invalidations and changes overlap with it.          *)
THEOREM LookupsMissNothing == Cache!Spec => []NothingMissed
<1>1. Cache!Init => CacheInv
  BY CacheBegins, Zenon
<1>2. CacheInv /\ [Cache!Next]_(Cache!vars) => CacheInv'
  <2> SUFFICES ASSUME CacheInv, [Cache!Next]_(Cache!vars) PROVE CacheInv'
    BY Zenon
  <2>1. CASE UNCHANGED cacheVars
    BY <2>1, Zenon DEF cacheVars, CacheInv, CacheType, ReadIsLater, Cache!NothingMissed
  <2>2. CASE Cache!Next
    BY <2>2, ChangeStep, LookupStep, TickStep, ReadStep, StoredStep, Zenon DEF Cache!Next
  <2> QED
    BY <2>1, <2>2, Zenon DEF cacheVars, Cache!vars
<1>3. CacheInv => NothingMissed
  BY Zenon DEF CacheInv, NothingMissed
<1> QED
  BY <1>1, <1>2, <1>3, PTL DEF Cache!Spec
-----------------------------------------------------------------------------
(* Streams of records.                                                     *)

Frame == [at : Nat, len : Nat]

Outcome == [frame : Nat, by : {"scan", "skip"}]

RecordType ==
  /\ frames \in Seq(Frame)
  /\ accepted \in Nat /\ flushed \in Nat /\ offset \in Nat /\ sunk \in Nat
  /\ source \in Nat /\ buffered \in Nat /\ lastValidOffset \in Nat
  /\ scanned \in Seq(Outcome)

(* The frames follow each other without gaps, and so in order.             *)
Layout ==
  /\ frames # <<>> => frames[1].at = 0
  /\ \A i \in DOMAIN frames : Record!Start(i + 1) = frames[i].at + Record!FrameSize(i)
  /\ \A i, j \in DOMAIN frames : i < j => frames[i].at + Record!FrameSize(i) <= frames[j].at

(* The Writer has met an error.                                            *)
Failed == werr

(* What was flushed is in the sink.  The Writer knows where it is until it *)
(* fails, and then the end of its last frame has not reached the sink.     *)
WriterKnows ==
  /\ flushed <= accepted /\ accepted <= Len(frames)
  /\ Record!Start(flushed + 1) <= sunk /\ sunk <= Record!Total
  /\ ~Failed => accepted = Len(frames) /\ offset = Record!Total
  /\ Failed => sunk < Record!Total /\ accepted + 1 >= Len(frames)

(* The Scanner is at the beginning of the next frame until it stops, and   *)
(* its buffer ends within the stream.                                      *)
ScannerKnows ==
  /\ phase = "write" => scanned = <<>> /\ lastValidOffset = 0 /\ source = 0 /\ buffered = 0 /\ err = "nil"
  /\ Len(scanned) <= Len(frames)
  /\ \A j \in DOMAIN scanned :
       /\ scanned[j].frame = j
       /\ scanned[j].by = "scan" => Record!Intact(Record!Start(j), Record!FrameSize(j))
  /\ lastValidOffset = Record!Start(Len(scanned) + 1) /\ lastValidOffset <= sunk
  /\ err = "nil" => source = lastValidOffset + buffered /\ source <= sunk

RecordInv ==
  /\ RecordType /\ Layout /\ WriterKnows /\ ScannerKnows
  /\ Record!Verdict /\ Record!FlushedIsRead

(* Where frames begin: in order, each where the one before it ends.        *)
LEMMA Starts ==
  ASSUME RecordType, Layout
  PROVE  /\ Record!Total \in Nat /\ Record!Start(Len(frames) + 1) = Record!Total /\ Record!Start(1) = 0
         /\ \A i \in DOMAIN frames :
              /\ Record!Start(i) = frames[i].at /\ Record!Start(i) \in Nat
              /\ Record!FrameSize(i) \in Nat /\ Record!FrameSize(i) = HeaderSize + frames[i].len + FooterSize
              /\ Record!Start(i + 1) = Record!Start(i) + Record!FrameSize(i)
         /\ \A i \in 1..(Len(frames) + 1) : Record!Start(i) \in Nat /\ Record!Start(i) <= Record!Total
         /\ \A i, j \in 1..(Len(frames) + 1) : i < j => Record!Start(i) < Record!Start(j)
<1>1. Len(frames) \in Nat /\ DOMAIN frames = 1..Len(frames)
  BY DEF RecordType
<1>2. ASSUME NEW i \in DOMAIN frames
      PROVE  /\ Record!Start(i) = frames[i].at /\ frames[i].at \in Nat
             /\ Record!FrameSize(i) \in Nat /\ Record!FrameSize(i) > 0
             /\ Record!FrameSize(i) = HeaderSize + frames[i].len + FooterSize
  <2>1. frames[i] \in Frame
    BY <1>1 DEF RecordType
  <2>2. frames[i].at \in Nat /\ frames[i].len \in Nat
    BY <2>1, Zenon DEF Frame
  <2>3. Record!FrameSize(i) = HeaderSize + frames[i].len + FooterSize
    BY Zenon DEF Record!FrameSize
  <2>4. Record!Start(i) = frames[i].at
    BY Zenon DEF Record!Start
  <2> QED
    BY <2>2, <2>3, <2>4, RecordConstants
<1>3. Record!Start(Len(frames) + 1) = Record!Total
  BY <1>1 DEF Record!Start
<1>4. Record!Total \in Nat /\ Record!Start(1) = 0
  <2>1. CASE frames = <<>>
    BY <2>1, <1>1 DEF Record!Total, Record!Start
  <2>2. CASE frames # <<>>
    <3>1. Len(frames) \in DOMAIN frames /\ 1 \in DOMAIN frames
      BY <1>1, <2>2 DEF RecordType
    <3>2. Record!Total = frames[Len(frames)].at + Record!FrameSize(Len(frames))
      BY <2>2, Zenon DEF Record!Total
    <3> QED
      BY <1>2, <2>2, <3>1, <3>2 DEF Layout
  <2> QED
    BY <2>1, <2>2, Zenon
<1>5. ASSUME NEW i \in DOMAIN frames
      PROVE  Record!Start(i + 1) = Record!Start(i) + Record!FrameSize(i)
  BY <1>2, Zenon DEF Layout
<1>6. ASSUME NEW i \in DOMAIN frames
      PROVE  Record!Start(i) + Record!FrameSize(i) <= Record!Total
  <2>1. Len(frames) \in DOMAIN frames /\ i <= Len(frames)
    BY <1>1
  <2>2. Record!Total = frames[Len(frames)].at + Record!FrameSize(Len(frames))
    BY <1>2, <1>3, <1>5, <2>1, Zenon
  <2>3. CASE i = Len(frames)
    BY <1>2, <1>4, <2>2, <2>3
  <2>4. CASE i # Len(frames)
    <3>1. frames[i].at + Record!FrameSize(i) <= frames[Len(frames)].at
      BY <1>1, <2>1, <2>4 DEF Layout
    <3> QED
      BY <1>2, <2>1, <2>2, <3>1
  <2> QED
    BY <2>3, <2>4, Zenon
<1>7. ASSUME NEW i \in 1..(Len(frames) + 1)
      PROVE  Record!Start(i) \in Nat /\ Record!Start(i) <= Record!Total
  <2>1. CASE i = Len(frames) + 1
    BY <1>3, <1>4, <2>1
  <2>2. CASE i # Len(frames) + 1
    <3>1. i \in DOMAIN frames
      BY <1>1, <2>2
    <3> QED
      BY <1>2, <1>4, <1>6, <3>1
  <2> QED
    BY <2>1, <2>2, Zenon
<1>8. ASSUME NEW i \in 1..(Len(frames) + 1), NEW j \in 1..(Len(frames) + 1), i < j
      PROVE  Record!Start(i) < Record!Start(j)
  <2>1. i \in DOMAIN frames
    BY <1>1, <1>8
  <2>2. CASE j = Len(frames) + 1
    BY <1>2, <1>3, <1>4, <1>6, <2>1, <2>2
  <2>3. CASE j # Len(frames) + 1
    <3>1. j \in DOMAIN frames
      BY <1>1, <2>3
    <3>2. frames[i].at + Record!FrameSize(i) <= frames[j].at
      BY <1>8, <2>1, <3>1, Zenon DEF Layout
    <3> QED
      BY <1>2, <2>1, <3>1, <3>2
  <2> QED
    BY <2>2, <2>3, Zenon
<1> QED
  BY <1>2, <1>3, <1>4, <1>5, <1>7, <1>8, Zenon

(* A frame is begun at the end of the stream, and the others stay.         *)
LEMMA Appended ==
  ASSUME RecordType, Layout, NEW n \in Nat, frames' = Append(frames, [at |-> Record!Total, len |-> n])
  PROVE  /\ frames' \in Seq(Frame) /\ Len(frames') = Len(frames) + 1 /\ Layout'
         /\ Record!Total' = Record!Total + HeaderSize + n + FooterSize
         /\ \A i \in 1..(Len(frames) + 1) : Record!Start(i)' = Record!Start(i)
<1> DEFINE new == [at |-> Record!Total, len |-> n]
<1>1. PICK k : k = Len(frames) + 1
  BY Zenon
<1>2. new \in Frame /\ new.at = Record!Total /\ new.len = n
  BY Starts, Zenon DEF Frame
<1>3. frames' = Append(frames, new) /\ frames \in Seq(Frame) /\ Len(frames) \in Nat
  BY DEF RecordType
<1> HIDE DEF new
<1>4. /\ frames' \in Seq(Frame) /\ Len(frames') = Len(frames) + 1 /\ frames'[Len(frames) + 1] = new
      /\ \A i \in 1..Len(frames) : frames'[i] = frames[i]
  BY <1>2, <1>3
<1>5. DOMAIN frames = 1..Len(frames) /\ DOMAIN frames' = 1..(Len(frames) + 1) /\ frames' # <<>>
  BY <1>3, <1>4
<1>6. ASSUME NEW i \in DOMAIN frames
      PROVE  Record!FrameSize(i)' = Record!FrameSize(i) /\ frames'[i].at = frames[i].at
  BY <1>4, <1>5, Zenon DEF Record!FrameSize
<1>7. Record!FrameSize(k)' = HeaderSize + n + FooterSize /\ frames'[k].at = Record!Total
  BY <1>2, <1>4, <1>1, Zenon DEF Record!FrameSize
<1>8. /\ Record!Total' = Record!Total + HeaderSize + n + FooterSize
      /\ Record!Total' = frames'[k].at + Record!FrameSize(k)'
  <2>1. Record!Total' = frames'[k].at + Record!FrameSize(k)'
    BY <1>4, <1>5, <1>1, Zenon DEF Record!Total, Record!FrameSize
  <2>2. Record!Total \in Nat /\ n \in Nat /\ HeaderSize \in Nat /\ FooterSize \in Nat
    BY Starts, RecordConstants, Zenon
  <2>3. Record!Total' = Record!Total + (HeaderSize + n + FooterSize)
    BY <1>7, <2>1, Zenon
  <2>4. Record!Total + (HeaderSize + n + FooterSize) = Record!Total + HeaderSize + n + FooterSize
    BY <2>2
  <2> QED
    BY <2>1, <2>3, <2>4, Zenon
<1>9. ASSUME NEW i \in 1..(Len(frames) + 1)
      PROVE  Record!Start(i)' = Record!Start(i)
  <2>1. Record!Start(i)' = frames'[i].at
    BY <1>5, Zenon DEF Record!Start
  <2>2. CASE i \in DOMAIN frames
    BY <1>6, <2>1, <2>2, Zenon DEF Record!Start
  <2>3. CASE i \notin DOMAIN frames
    <3>1. i = k
      BY <1>3, <1>5, <1>1, <2>3
    <3> QED
      BY <1>7, <2>1, <2>3, <3>1, Zenon DEF Record!Start
  <2> QED
    BY <2>2, <2>3, Zenon
<1>10. Layout'
  <2>1. frames'[1].at = 0
    <3>1. 1 \in 1..(Len(frames) + 1) /\ 1 \in DOMAIN frames'
      BY <1>3, <1>5
    <3>2. Record!Start(1)' = 0
      BY <1>9, <3>1, Starts, Zenon
    <3> QED
      BY <3>1, <3>2, Zenon DEF Record!Start
  <2>2. ASSUME NEW i \in DOMAIN frames'
        PROVE  Record!Start(i + 1)' = frames'[i].at + Record!FrameSize(i)'
    <3>1. CASE i \in DOMAIN frames
      <4>1. i + 1 \in 1..(Len(frames) + 1)
        BY <1>3, <1>5, <3>1
      <4>2. Record!Start(i + 1)' = Record!Start(i + 1)
        BY <1>9, <4>1, Zenon
      <4> QED
        BY <1>6, <3>1, <4>2, Zenon DEF Layout
    <3>2. CASE i \notin DOMAIN frames
      <4>1. i = k /\ i + 1 \notin DOMAIN frames'
        BY <1>3, <1>5, <1>1, <3>2
      <4>2. Record!Start(i + 1)' = Record!Total'
        BY <4>1, Zenon DEF Record!Start
      <4> QED
        BY <1>8, <4>1, <4>2, Zenon
    <3> QED
      BY <3>1, <3>2, Zenon
  <2>3. ASSUME NEW i \in DOMAIN frames', NEW j \in DOMAIN frames', i < j
        PROVE  frames'[i].at + Record!FrameSize(i)' <= frames'[j].at
    <3>1. i \in DOMAIN frames
      BY <1>3, <1>5, <2>3
    <3>2. CASE j \in DOMAIN frames
      BY <1>6, <2>3, <3>1, <3>2, Zenon DEF Layout
    <3>3. CASE j \notin DOMAIN frames
      <4>1. j = k /\ i + 1 \in 1..(Len(frames) + 1)
        BY <1>3, <1>5, <1>1, <3>1, <3>3
      <4>2. frames'[j].at = Record!Total
        BY <1>7, <4>1, Zenon
      <4>3. frames[i].at + Record!FrameSize(i) = Record!Start(i + 1) /\ Record!Start(i + 1) <= Record!Total
        BY <3>1, <4>1, Starts, Zenon DEF Layout
      <4> QED
        BY <1>6, <3>1, <4>2, <4>3, Zenon
    <3> QED
      BY <3>2, <3>3, Zenon
  <2> QED
    BY <1>5, <2>1, <2>2, <2>3, Zenon DEF Layout
<1> QED
  BY <1>4, <1>8, <1>9, <1>10, Zenon

(* The stream begins empty.                                                *)
LEMMA RecordBegins == Record!Init => RecordInv
<1> SUFFICES ASSUME Record!Init PROVE RecordInv
  BY Zenon
<1>1. /\ frames = <<>> /\ scanned = <<>> /\ Len(frames) = 0 /\ Len(scanned) = 0
      /\ accepted = 0 /\ flushed = 0 /\ offset = 0 /\ sunk = 0 /\ source = 0 /\ buffered = 0
      /\ lastValidOffset = 0 /\ err = "nil" /\ phase = "write"
  BY Zenon DEF Record!Init
<1>2. RecordType
  BY <1>1 DEF RecordType
<1>3. Layout
  BY <1>1 DEF Layout
<1>4. Record!Total = 0 /\ Record!Start(1) = 0
  BY <1>1 DEF Record!Total, Record!Start
<1>5. ~Failed
  BY Zenon DEF Record!Init, Failed
<1>6. WriterKnows
  BY <1>1, <1>4, <1>5 DEF WriterKnows
<1>7. ScannerKnows
  BY <1>1, <1>4 DEF ScannerKnows
<1>8. Record!Verdict /\ Record!FlushedIsRead
  BY <1>1 DEF Record!Verdict, Record!FlushedIsRead
<1> QED
  BY <1>2, <1>3, <1>6, <1>7, <1>8, Zenon DEF RecordInv

(* While the stream is written, only the Writer matters.                   *)
LEMMA WriterOnly ==
  ASSUME RecordInv, phase = "write",
         UNCHANGED <<damaged, phase, source, buffered, lastValidOffset, err, scanned>>,
         frames' \in Seq(Frame), accepted' \in Nat, flushed' \in Nat, offset' \in Nat, sunk' \in Nat,
         Layout', WriterKnows'
  PROVE  RecordInv'
<1>1. /\ scanned' = <<>> /\ Len(scanned') = 0 /\ DOMAIN scanned' = {} /\ lastValidOffset' = 0
      /\ source' = 0 /\ buffered' = 0 /\ err' = "nil" /\ err = "nil"
  BY DEF RecordInv, ScannerKnows
<1>2. RecordType'
  BY Zenon DEF RecordInv, RecordType
<1>3. Record!Start(1)' = 0
  <2>1. CASE frames' = <<>>
    BY <2>1 DEF Record!Start, Record!Total
  <2>2. CASE frames' # <<>>
    <3>1. 1 \in DOMAIN frames'
      BY <2>2
    <3> QED
      BY <2>2, <3>1, Zenon DEF Layout, Record!Start
  <2> QED
    BY <2>1, <2>2, Zenon
<1>4. ScannerKnows'
  <2>1. Record!Start(Len(scanned) + 1)' = 0
    BY <1>1, <1>3 DEF Record!Start
  <2> QED
    BY <1>1, <2>1 DEF ScannerKnows
<1>5. Record!Verdict' /\ Record!FlushedIsRead'
  BY <1>1 DEF Record!Verdict, Record!FlushedIsRead
<1> QED
  BY <1>2, <1>4, <1>5, Zenon DEF RecordInv

(* WriteRecord, whether it succeeds or the sink fails under it.            *)
LEMMA RecordWrite ==
  ASSUME RecordInv, NEW n \in Lengths, Record!WriteRecord(n) \/ Record!WriteFails(n)
  PROVE  RecordInv'
<1>1. /\ phase = "write" /\ ~Failed
      /\ UNCHANGED <<damaged, phase, source, buffered, lastValidOffset, err, scanned>>
      /\ frames' = Append(frames, [at |-> Record!Total, len |-> n])
      /\ UNCHANGED flushed
  BY Zenon DEF Record!WriteRecord, Record!WriteFails, Record!Writing, Record!scanner, Failed
<1>2. RecordType /\ Layout /\ WriterKnows /\ n \in Nat
  BY RecordConstants, Zenon DEF RecordInv
<1>3. /\ frames' \in Seq(Frame) /\ Len(frames') = Len(frames) + 1 /\ Layout'
      /\ Record!Total' = Record!Total + HeaderSize + n + FooterSize
      /\ \A i \in 1..(Len(frames) + 1) : Record!Start(i)' = Record!Start(i)
  BY <1>1, <1>2, Appended, Zenon
<1>4. /\ Record!Total \in Nat /\ flushed \in Nat /\ accepted \in Nat /\ sunk \in Nat /\ offset \in Nat
      /\ Len(frames) \in Nat /\ accepted = Len(frames) /\ offset = Record!Total /\ flushed <= accepted
      /\ Record!Start(flushed + 1) <= sunk /\ sunk <= Record!Total
  BY <1>1, <1>2, Starts, Zenon DEF RecordType, WriterKnows
<1>5. PICK k \in 1..(Len(frames) + 1) : k = flushed + 1
  BY <1>4
<1>6. Record!Start(flushed + 1)' = Record!Start(flushed + 1) /\ Record!Start(flushed + 1) \in Nat
  <2>1. Record!Start(flushed + 1)' = Record!Start(k)' /\ Record!Start(flushed + 1) = Record!Start(k)
    BY <1>1, <1>5, Zenon DEF Record!Start
  <2> QED
    BY <1>2, <1>3, <2>1, Starts, Zenon
<1>7. CASE Record!WriteRecord(n)
  <2>1. /\ accepted' = accepted + 1 /\ offset' = offset + HeaderSize + n + FooterSize
        /\ sunk' \in sunk..(Record!Total') /\ (Failed' <=> Failed)
    BY <1>7, Zenon DEF Record!WriteRecord, Failed
  <2>2. accepted' \in Nat /\ offset' \in Nat /\ sunk' \in Nat
    BY <1>2, <1>3, <1>4, <2>1, RecordConstants
  <2>3. WriterKnows'
    BY <1>1, <1>2, <1>3, <1>4, <1>6, <2>1, <2>2, RecordConstants DEF WriterKnows
  <2> QED
    BY <1>1, <1>3, <1>4, <2>2, <2>3, WriterOnly, Zenon
<1>8. CASE Record!WriteFails(n)
  <2>1. /\ accepted' = accepted /\ offset' = offset
        /\ sunk' \in sunk..(Record!Total' - 1) /\ Failed'
    BY <1>8, Zenon DEF Record!WriteFails, Failed
  <2>2. sunk' \in Nat /\ sunk <= sunk' /\ sunk' < Record!Total'
    BY <1>2, <1>3, <1>4, <2>1, RecordConstants
  <2>3. WriterKnows'
    BY <1>1, <1>2, <1>3, <1>4, <1>6, <2>1, <2>2, RecordConstants DEF WriterKnows
  <2> QED
    BY <1>1, <1>3, <1>4, <2>1, <2>2, <2>3, WriterOnly, Zenon
<1> QED
  BY <1>7, <1>8, Zenon

(* Flush, whether it succeeds or fails, and Reset.                         *)
LEMMA RecordFlush ==
  ASSUME RecordInv, Record!Flush \/ Record!FlushFails
  PROVE  RecordInv'
<1>1. /\ phase = "write" /\ ~Failed
      /\ UNCHANGED <<damaged, phase, source, buffered, lastValidOffset, err, scanned>>
      /\ UNCHANGED <<frames, accepted, offset>>
  BY Zenon DEF Record!Flush, Record!FlushFails, Record!Writing, Record!scanner, Failed
<1>2. RecordType /\ Layout /\ WriterKnows
  BY Zenon DEF RecordInv
<1>3. Layout' /\ Record!Total' = Record!Total
  BY <1>1, <1>2, Zenon DEF Layout, Record!Start, Record!Total, Record!FrameSize
<1>4. /\ Record!Total \in Nat /\ flushed \in Nat /\ accepted \in Nat /\ sunk \in Nat /\ offset \in Nat
      /\ Len(frames) \in Nat /\ accepted = Len(frames) /\ offset = Record!Total /\ flushed <= accepted
      /\ Record!Start(flushed + 1) <= sunk /\ sunk <= Record!Total
  BY <1>1, <1>2, Starts, Zenon DEF RecordType, WriterKnows
<1>5. CASE Record!Flush
  <2>1. sunk' = Record!Total /\ flushed' = accepted /\ (Failed' <=> Failed)
    BY <1>5, Zenon DEF Record!Flush, Failed
  <2>2. Record!Start(flushed + 1)' = Record!Total
    <3>1. flushed' + 1 \notin DOMAIN frames
      BY <1>2, <1>4, <2>1 DEF RecordType
    <3> QED
      BY <1>1, <1>3, <3>1, Zenon DEF Record!Start
  <2>3. WriterKnows'
    BY <1>1, <1>3, <1>4, <2>1, <2>2 DEF WriterKnows
  <2> QED
    BY <1>1, <1>2, <1>3, <1>4, <2>1, <2>3, WriterOnly, Zenon DEF RecordType
<1>6. CASE Record!FlushFails
  <2>1. sunk' \in sunk..(Record!Total - 1) /\ flushed' = flushed /\ Failed'
    BY <1>6, Zenon DEF Record!FlushFails, Failed
  <2>2. sunk' \in Nat /\ sunk <= sunk' /\ sunk' < Record!Total
    BY <1>4, <2>1
  <2>3. Record!Start(flushed + 1)' = Record!Start(flushed + 1)
    BY <1>1, <1>3, <2>1, Zenon DEF Record!Start
  <2>4. Record!Start(flushed + 1) \in Nat
    <3>1. flushed + 1 \in 1..(Len(frames) + 1)
      BY <1>4
    <3> QED
      BY <1>2, <3>1, Starts, Zenon
  <2>5. WriterKnows'
    BY <1>1, <1>3, <1>4, <2>1, <2>2, <2>3, <2>4 DEF WriterKnows
  <2> QED
    BY <1>1, <1>2, <1>3, <1>4, <2>1, <2>2, <2>5, WriterOnly, Zenon DEF RecordType
<1> QED
  BY <1>5, <1>6, Zenon

(* Reset begins another stream.                                            *)
LEMMA RecordReset ==
  ASSUME RecordInv, Record!Reset
  PROVE  RecordInv'
<1>1. /\ phase = "write"
      /\ UNCHANGED <<damaged, phase, source, buffered, lastValidOffset, err, scanned>>
      /\ frames' = <<>> /\ Len(frames') = 0
      /\ accepted' = 0 /\ flushed' = 0 /\ offset' = 0 /\ sunk' = 0
  BY Zenon DEF Record!Reset, Record!scanner
<1>2. Layout' /\ ~Failed'
  BY <1>1 DEF Layout, Record!Reset, Failed
<1>3. Record!Total' = 0 /\ Record!Start(flushed + 1)' = 0
  BY <1>1 DEF Record!Total, Record!Start
<1>4. WriterKnows'
  BY <1>1, <1>2, <1>3 DEF WriterKnows
<1> QED
  BY <1>1, <1>2, <1>4, WriterOnly

(* The stream is closed or the writer crashes, and a Scanner opens it.     *)
LEMMA RecordOpen ==
  ASSUME RecordInv, Record!Open
  PROVE  RecordInv'
<1>1. /\ phase = "write"
      /\ UNCHANGED <<frames, accepted, flushed, offset, sunk, source, buffered, lastValidOffset, err, scanned>>
      /\ Failed' <=> Failed
  BY Zenon DEF Record!Open, Record!writer, Record!scanner, Failed
<1>2. phase' # "write"
  BY Zenon DEF Record!Open
<1>3. /\ scanned = <<>> /\ Len(scanned) = 0 /\ DOMAIN scanned = {} /\ err = "nil"
  BY <1>1 DEF RecordInv, ScannerKnows
<1>4. RecordType' /\ Layout'
  BY <1>1, Zenon DEF RecordInv, RecordType, Layout, Record!Start, Record!Total, Record!FrameSize
<1>5. Record!Total' = Record!Total /\ Record!Start(flushed + 1)' = Record!Start(flushed + 1)
      /\ Record!Start(Len(scanned) + 1)' = Record!Start(Len(scanned) + 1)
  BY <1>1, Zenon DEF Record!Start, Record!Total, Record!FrameSize
<1>6. WriterKnows'
  BY <1>1, <1>5, Zenon DEF RecordInv, WriterKnows
<1>7. ScannerKnows'
  BY <1>1, <1>2, <1>3, <1>5, Zenon DEF RecordInv, ScannerKnows
<1>8. Record!Verdict' /\ Record!FlushedIsRead'
  BY <1>1, <1>3, Zenon DEF RecordInv, Record!Verdict, Record!FlushedIsRead
<1> QED
  BY <1>4, <1>6, <1>7, <1>8, Zenon DEF RecordInv

(* Cells are intact when both parts of them are.                           *)
LEMMA IntactParts ==
  ASSUME NEW from \in Nat, NEW m \in Nat, NEW n \in Nat
  PROVE  Record!Intact(from, m + n) <=> Record!Intact(from, m) /\ Record!Intact(from + m, n)
<1>1. from..(from + (m + n) - 1) = from..(from + m - 1) \cup (from + m)..(from + m + n - 1)
  OBVIOUS
<1> QED
  BY <1>1, Zenon DEF Record!Intact

(* Where the Scanner is: at the next frame, if anything is left.           *)
LEMMA ScannerIsAt ==
  ASSUME RecordInv, err = "nil", NEW k, k = Len(scanned) + 1
  PROVE  /\ Record!Position = lastValidOffset /\ lastValidOffset = Record!Start(k)
         /\ k \in 1..(Len(frames) + 1)
         /\ lastValidOffset < sunk => k \in DOMAIN frames /\ Record!FrameAt(Record!Position) = k
<1>1. RecordType /\ Layout /\ WriterKnows /\ ScannerKnows
  BY Zenon DEF RecordInv
<1>2. source \in Nat /\ buffered \in Nat /\ lastValidOffset \in Nat /\ sunk \in Nat /\ Len(frames) \in Nat
      /\ Len(scanned) \in Nat /\ DOMAIN frames = 1..Len(frames)
  BY <1>1 DEF RecordType
<1>3. Record!Position = lastValidOffset
  BY <1>1, <1>2 DEF ScannerKnows, Record!Position
<1>4. lastValidOffset = Record!Start(k) /\ k \in 1..(Len(frames) + 1)
  BY <1>1, <1>2 DEF ScannerKnows
<1>5. ASSUME lastValidOffset < sunk
      PROVE  k \in DOMAIN frames /\ Record!FrameAt(Record!Position) = k
  <2>1. k # Len(frames) + 1
    BY <1>1, <1>2, <1>4, <1>5, Starts DEF WriterKnows
  <2>2. k \in DOMAIN frames
    BY <1>2, <1>4, <2>1
  <2>3. ASSUME NEW i \in DOMAIN frames, Record!Start(i) = Record!Start(k)
        PROVE  i = k
    <3>1. i \in 1..(Len(frames) + 1) /\ k \in 1..(Len(frames) + 1)
      BY <1>2, <2>2
    <3>2. Record!Start(i) \in Nat /\ Record!Start(k) \in Nat
      BY <1>1, <3>1, Starts, Zenon
    <3>3. (i < k => Record!Start(i) < Record!Start(k)) /\ (k < i => Record!Start(k) < Record!Start(i))
      BY <1>1, <3>1, Starts, Zenon
    <3>4. ~(Record!Start(i) < Record!Start(k)) /\ ~(Record!Start(k) < Record!Start(i))
      BY <2>3, <3>2
    <3> QED
      BY <3>1, <3>3, <3>4
  <2>4. Record!FrameAt(Record!Position) = CHOOSE i \in DOMAIN frames : Record!Start(i) = Record!Start(k)
    BY <1>3, <1>4, Zenon DEF Record!FrameAt
  <2> QED
    BY <2>2, <2>3, <2>4, Zenon
<1> QED
  BY <1>3, <1>4, <1>5, Zenon

(* The Scanner stops, and says why.                                        *)
LEMMA RecordHalts ==
  ASSUME RecordInv, phase = "read", err = "nil", NEW k, k = Len(scanned) + 1, Failed' <=> Failed,
         UNCHANGED <<frames, accepted, flushed, offset, sunk, damaged, phase>>,
         UNCHANGED <<source, buffered, lastValidOffset, scanned>>, err' # "nil",
         err' = "eof" => lastValidOffset = sunk,
         err' = "torn" => lastValidOffset < sunk /\ sunk < lastValidOffset + Record!FrameSize(k),
         err' \in {"header", "data"} => ~Record!Intact(lastValidOffset, Record!FrameSize(k))
  PROVE  RecordInv'
<1>1. RecordType /\ Layout /\ WriterKnows /\ ScannerKnows
  BY Zenon DEF RecordInv
<1>2. RecordType' /\ Layout'
  BY <1>1, Zenon DEF RecordType, Layout, Record!Start, Record!Total, Record!FrameSize
<1>3. /\ Record!Total' = Record!Total /\ Record!Start(flushed + 1)' = Record!Start(flushed + 1)
      /\ Record!Start(Len(scanned) + 1)' = Record!Start(Len(scanned) + 1)
  BY Zenon DEF Record!Start, Record!Total, Record!FrameSize
<1>4. \A j : /\ Record!Start(j)' = Record!Start(j) /\ Record!FrameSize(j)' = Record!FrameSize(j)
             /\ Record!Intact(Record!Start(j), Record!FrameSize(j))' <=> Record!Intact(Record!Start(j), Record!FrameSize(j))
  BY Zenon DEF Record!Start, Record!Total, Record!FrameSize, Record!Intact
<1>5. WriterKnows'
  BY <1>1, <1>3, Zenon DEF WriterKnows
<1>6. ScannerKnows'
  BY <1>1, <1>3, <1>4, Zenon DEF ScannerKnows
<1>7. Record!Verdict'
  <2>1. /\ Record!FrameSize(Record!Upcoming)' = Record!FrameSize(k)
        /\ Record!Intact(lastValidOffset, Record!FrameSize(Record!Upcoming))'
             <=> Record!Intact(lastValidOffset, Record!FrameSize(k))
    BY Zenon DEF Record!FrameSize, Record!Upcoming, Record!Intact
  <2> QED
    BY <2>1, Zenon DEF Record!Verdict
<1>8. Record!FlushedIsRead'
  <2>1. /\ Record!Start(k) = lastValidOffset /\ k \in 1..(Len(frames) + 1)
        /\ lastValidOffset < sunk => k \in DOMAIN frames
    BY ScannerIsAt, Zenon
  <2>2. /\ flushed \in Nat /\ accepted \in Nat /\ sunk \in Nat /\ Len(frames) \in Nat /\ Len(scanned) \in Nat
        /\ lastValidOffset \in Nat /\ flushed <= Len(frames) /\ DOMAIN frames = 1..Len(frames)
    BY <1>1 DEF RecordType, WriterKnows
  <2>3. PICK f \in 1..(Len(frames) + 1) : f = flushed + 1
    BY <2>2
  <2>4. Record!Start(f) <= sunk /\ Record!Start(f) \in Nat
    BY <1>1, <2>3, Starts, Zenon DEF WriterKnows
  <2>5. ASSUME err' \in {"eof", "torn"}
        PROVE  Len(scanned) >= flushed
    <3>1. CASE err' = "eof"
      <4>1. ~(k < f)
        <5>1. k < f => Record!Start(k) < Record!Start(f)
          BY <1>1, <2>1, Starts, Zenon
        <5> QED
          BY <2>1, <2>2, <2>4, <3>1, <5>1
      <4> QED
        BY <2>1, <2>2, <2>3, <4>1
    <3>2. CASE err' = "torn"
      <4>1. k \in DOMAIN frames /\ k + 1 \in 1..(Len(frames) + 1)
        BY <2>1, <2>2, <3>2
      <4>2. Record!Start(k + 1) = lastValidOffset + Record!FrameSize(k) /\ Record!FrameSize(k) \in Nat
        BY <1>1, <2>1, <4>1, Starts, Zenon
      <4>3. Record!Start(f) < Record!Start(k + 1)
        BY <2>2, <2>4, <3>2, <4>2
      <4>4. ~(k + 1 < f)
        <5>1. Record!Start(k + 1) \in Nat
          BY <2>2, <4>2
        <5> QED
          BY <1>1, <2>3, <2>4, <4>1, <4>3, <5>1, Starts
      <4>5. k + 1 # f
        BY <2>4, <4>3
      <4> QED
        BY <2>1, <2>2, <2>3, <4>1, <4>4, <4>5
    <3> QED
      BY <2>5, <3>1, <3>2, Zenon
  <2>6. Len(scanned) <= accepted
    BY Zenon DEF RecordInv, Record!FlushedIsRead
  <2> QED
    BY <2>5, <2>6, Zenon DEF Record!FlushedIsRead
<1> QED
  BY <1>2, <1>5, <1>6, <1>7, <1>8, Zenon DEF RecordInv

(* Between a bound and the one below it there is only the bound.           *)
LEMMA Squeeze ==
  ASSUME NEW a \in Nat, NEW i \in Nat, NEW n \in Nat, i > a, i <= n
  PROVE  a # n /\ (a + 1 >= n => i = n)
OBVIOUS

(* The Scanner moves on to the next frame.                                 *)
LEMMA RecordMoves ==
  ASSUME RecordInv, phase = "read", err = "nil", NEW k \in DOMAIN frames, k = Len(scanned) + 1, Failed' <=> Failed,
         UNCHANGED <<frames, accepted, flushed, offset, sunk, damaged, phase>>, NEW how \in {"scan", "skip"},
         lastValidOffset' = lastValidOffset + Record!FrameSize(k), err' = err,
         scanned' = Append(scanned, [frame |-> k, by |-> how]),
         buffered' \in Nat, source' = lastValidOffset + Record!FrameSize(k) + buffered', source' <= sunk,
         how = "scan" => Record!Intact(lastValidOffset, Record!FrameSize(k))
  PROVE  RecordInv'
<1> DEFINE new == [frame |-> k, by |-> how]
<1>1. RecordType /\ Layout /\ WriterKnows /\ ScannerKnows
  BY Zenon DEF RecordInv
<1>2. /\ lastValidOffset = Record!Start(k) /\ lastValidOffset \in Nat /\ k \in Nat /\ sunk \in Nat
      /\ Record!FrameSize(k) \in Nat /\ Record!Start(k + 1) = lastValidOffset + Record!FrameSize(k)
      /\ Len(frames) \in Nat /\ DOMAIN frames = 1..Len(frames) /\ k <= Len(frames)
  <2>1. k \in Nat /\ Len(frames) \in Nat /\ DOMAIN frames = 1..Len(frames) /\ lastValidOffset \in Nat /\ sunk \in Nat
    BY <1>1 DEF RecordType
  <2>2. lastValidOffset = Record!Start(k)
    BY ScannerIsAt, Zenon
  <2>3. Record!FrameSize(k) \in Nat /\ Record!Start(k + 1) = Record!Start(k) + Record!FrameSize(k)
    BY <1>1, Starts, Zenon
  <2> QED
    BY <2>1, <2>2, <2>3
<1>3. new \in Outcome /\ new.frame = k /\ new.by = how
  BY <1>2, Zenon DEF Outcome
<1>4. scanned' = Append(scanned, new) /\ scanned \in Seq(Outcome) /\ Len(scanned) \in Nat
  BY <1>1 DEF RecordType
<1> HIDE DEF new
<1>5. /\ scanned' \in Seq(Outcome) /\ Len(scanned') = k /\ scanned'[k] = new
      /\ \A j \in 1..Len(scanned) : scanned'[j] = scanned[j]
  BY <1>3, <1>4
<1>6. DOMAIN scanned' = 1..k /\ DOMAIN scanned = 1..Len(scanned)
  BY <1>4, <1>5
<1>7. RecordType'
  <2>1. lastValidOffset' \in Nat /\ source' \in Nat
    <3>1. \A a, b, c \in Nat : a + b \in Nat /\ a + b + c \in Nat
      OBVIOUS
    <3> QED
      BY <1>2, <3>1, Zenon
  <2> QED
    BY <1>1, <1>5, <2>1, Zenon DEF RecordType
<1>8. Layout'
  BY <1>1, Zenon DEF Layout, Record!Start, Record!Total, Record!FrameSize
<1>9. \A j : /\ Record!Start(j)' = Record!Start(j) /\ Record!FrameSize(j)' = Record!FrameSize(j)
             /\ Record!Intact(Record!Start(j), Record!FrameSize(j))' <=> Record!Intact(Record!Start(j), Record!FrameSize(j))
  BY Zenon DEF Record!Start, Record!Total, Record!FrameSize, Record!Intact
<1>10. Record!Total' = Record!Total /\ Record!Start(flushed + 1)' = Record!Start(flushed + 1)
  BY Zenon DEF Record!Start, Record!Total, Record!FrameSize
<1>11. WriterKnows'
  BY <1>1, <1>10, Zenon DEF WriterKnows
<1>12. ScannerKnows'
  <2>1. ASSUME NEW j \in DOMAIN scanned'
        PROVE  /\ scanned'[j].frame = j
               /\ scanned'[j].by = "scan" => Record!Intact(Record!Start(j), Record!FrameSize(j))'
    <3>1. CASE j = k
      BY <1>2, <1>3, <1>5, <1>9, <3>1, Zenon
    <3>2. CASE j # k
      <4>1. j \in DOMAIN scanned
        BY <1>4, <1>6, <3>2
      <4> QED
        BY <1>1, <1>5, <1>6, <1>9, <4>1, Zenon DEF ScannerKnows
    <3> QED
      BY <3>1, <3>2, Zenon
  <2>2. Record!Start(Len(scanned) + 1)' = Record!Start(k + 1)
    BY <1>5, Zenon DEF Record!Start, Record!Total, Record!FrameSize
  <2>3. lastValidOffset' = Record!Start(Len(scanned) + 1)' /\ lastValidOffset' <= sunk'
    BY <1>2, <2>2
  <2>4. source' = lastValidOffset' + buffered' /\ source' <= sunk' /\ phase' # "write" /\ Len(scanned') <= Len(frames')
    BY <1>2, <1>5, Zenon
  <2> QED
    BY <2>1, <2>3, <2>4, Zenon DEF ScannerKnows
<1>13. Record!Verdict'
  BY Zenon DEF Record!Verdict
<1>14. Record!FlushedIsRead'
  <2>1. ASSUME k > accepted
        PROVE  FALSE
    <3>1. accepted \in Nat /\ Failed /\ k = Len(frames)
      <4>1. accepted \in Nat
        BY <1>1, Zenon DEF RecordType
      <4>2. (~Failed => accepted = Len(frames)) /\ (Failed => accepted + 1 >= Len(frames))
        BY <1>1, Zenon DEF WriterKnows
      <4>3. accepted # Len(frames) /\ (accepted + 1 >= Len(frames) => k = Len(frames))
        <5>1. k \in Nat /\ Len(frames) \in Nat /\ k <= Len(frames) /\ k > accepted
          BY <1>2, <2>1, Zenon
        <5> QED
          BY <4>1, <5>1, Squeeze, Zenon
      <4> QED
        BY <4>1, <4>2, <4>3, Zenon
    <3>2. Record!Start(k + 1) = Record!Total /\ Record!Total \in Nat /\ sunk < Record!Total
      BY <1>1, <3>1, Starts, Zenon DEF WriterKnows
    <3> QED
      BY <1>2, <3>2
  <2>2. accepted \in Nat
    BY <1>1, Zenon DEF RecordType
  <2>3. Len(scanned') <= accepted'
    BY <1>2, <1>5, <2>1, <2>2
  <2> QED
    BY <2>3, Zenon DEF Record!FlushedIsRead
<1> QED
  BY <1>7, <1>8, <1>11, <1>12, <1>13, <1>14, Zenon DEF RecordInv

(* What readHeader says of the next frame.                                 *)
LEMMA HeaderSays ==
  ASSUME RecordInv, err = "nil", NEW k, k = Len(scanned) + 1, NEW said, said = Record!readHeader(Record!Position)
  PROVE  /\ said = "eof" => lastValidOffset = sunk
         /\ said = "torn" => lastValidOffset < sunk /\ sunk < lastValidOffset + Record!FrameSize(k)
         /\ said = "header" => ~Record!Intact(lastValidOffset, Record!FrameSize(k))
         /\ said \in {"eof", "torn", "header", "large", "ok"}
         /\ said = "ok" => /\ k \in DOMAIN frames /\ Record!FrameAt(Record!Position) = k
                           /\ lastValidOffset + HeaderSize <= sunk /\ Record!Intact(lastValidOffset, HeaderSize)
<1>1. RecordType /\ Layout /\ ScannerKnows
  BY Zenon DEF RecordInv
<1>2. /\ Record!Position = lastValidOffset /\ lastValidOffset = Record!Start(k)
      /\ lastValidOffset < sunk => k \in DOMAIN frames /\ Record!FrameAt(Record!Position) = k
  BY ScannerIsAt, Zenon
<1>3. lastValidOffset \in Nat /\ sunk \in Nat /\ HeaderSize \in Nat /\ HeaderSize > 0 /\ FooterSize \in Nat
      /\ lastValidOffset <= sunk
  BY <1>1, RecordConstants DEF RecordType, ScannerKnows
<1>4. said = IF sunk <= lastValidOffset THEN "eof"
             ELSE IF sunk < lastValidOffset + HeaderSize THEN "torn"
             ELSE IF ~Record!Intact(lastValidOffset, HeaderSize) \/ ~\E i \in DOMAIN frames : Record!Start(i) = lastValidOffset
             THEN "header"
             ELSE IF frames[Record!FrameAt(lastValidOffset)].len > MaxRecordSize THEN "large"
             ELSE "ok"
  BY <1>2, Zenon DEF Record!readHeader
<1>5. CASE sunk <= lastValidOffset
  BY <1>3, <1>4, <1>5
<1>6. CASE lastValidOffset < sunk
  <2>1. k \in DOMAIN frames /\ Record!FrameAt(Record!Position) = k
    BY <1>2, <1>6, Zenon
  <2>2. /\ frames[k].len + FooterSize \in Nat
        /\ Record!FrameSize(k) = HeaderSize + (frames[k].len + FooterSize)
    <3>1. frames[k] \in Frame
      BY <1>1, <2>1 DEF RecordType
    <3>2. frames[k].len \in Nat
      BY <3>1, Zenon DEF Frame
    <3> QED
      BY <1>3, <3>2 DEF Record!FrameSize
  <2>3. Record!Intact(lastValidOffset, Record!FrameSize(k)) => Record!Intact(lastValidOffset, HeaderSize)
    <3>1. PICK rest \in Nat : Record!FrameSize(k) = HeaderSize + rest
      BY <2>2, Zenon
    <3>2. Record!Intact(lastValidOffset, HeaderSize + rest) => Record!Intact(lastValidOffset, HeaderSize)
      BY <1>3, IntactParts, Zenon
    <3> QED
      BY <3>1, <3>2, Zenon
  <2>4. \E i \in DOMAIN frames : Record!Start(i) = lastValidOffset
    BY <1>2, <2>1, Zenon
  <2>5. CASE sunk < lastValidOffset + HeaderSize
    BY <1>3, <1>4, <1>6, <2>2, <2>5
  <2>6. CASE ~(sunk < lastValidOffset + HeaderSize)
    <3>1. said = IF ~Record!Intact(lastValidOffset, HeaderSize) THEN "header"
                 ELSE IF frames[Record!FrameAt(lastValidOffset)].len > MaxRecordSize THEN "large"
                 ELSE "ok"
      BY <1>3, <1>4, <1>6, <2>4, <2>6
    <3>2. lastValidOffset + HeaderSize <= sunk
      BY <1>3, <2>6
    <3> QED
      BY <2>1, <2>3, <3>1, <3>2, Zenon
  <2> QED
    BY <2>5, <2>6, Zenon
<1> QED
  BY <1>3, <1>5, <1>6

(* What a step of the Scanner leaves alone.                                *)
LEMMA ReadingKeeps ==
  ASSUME Record!Reading
  PROVE  /\ phase = "read" /\ err = "nil" /\ (Failed' <=> Failed)
         /\ UNCHANGED <<frames, accepted, flushed, offset, sunk, damaged, phase>>
BY Zenon DEF Record!Reading, Record!writer, Failed

(* Whatever the buffer holds afterwards, it ends within the stream.        *)
LEMMA BuffersFit ==
  ASSUME RecordInv, err = "nil", NEW n \in Nat, lastValidOffset + n <= sunk, NEW b \in Record!Buffers(n)
  PROVE  b \in Nat /\ lastValidOffset + n + b <= sunk
<1>1. /\ source \in Nat /\ buffered \in Nat /\ lastValidOffset \in Nat /\ sunk \in Nat /\ BufferSize \in Nat
      /\ source = lastValidOffset + buffered /\ source <= sunk
  BY RecordConstants, Zenon DEF RecordInv, RecordType, ScannerKnows
<1>2. Record!Position = lastValidOffset
  BY <1>1 DEF Record!Position
<1>3. CASE buffered >= n
  BY <1>1, <1>3 DEF Record!Buffers
<1>4. CASE ~(buffered >= n)
  <2>1. b \in 0..Record!Least(BufferSize, sunk - lastValidOffset - n)
    BY <1>2, <1>4, Zenon DEF Record!Buffers
  <2>2. Record!Least(BufferSize, sunk - lastValidOffset - n) <= sunk - lastValidOffset - n
    BY <1>1 DEF Record!Least
  <2>3. Record!Least(BufferSize, sunk - lastValidOffset - n) \in Int
    BY <1>1 DEF Record!Least
  <2> QED
    BY <1>1, <2>1, <2>2, <2>3
<1> QED
  BY <1>3, <1>4, Zenon

(* A header that cannot be read ends the scan with what it says.           *)
LEMMA RecordHeaderFails ==
  ASSUME RecordInv, Record!HeaderFails
  PROVE  RecordInv'
<1>1. PICK k : k = Len(scanned) + 1
  BY Zenon
<1>2. PICK said : said = Record!readHeader(Record!Position)
  BY Zenon
<1>3. Record!Reading /\ said # "ok" /\ err' = said /\ UNCHANGED <<source, buffered, lastValidOffset, scanned>>
  BY <1>2, Zenon DEF Record!HeaderFails, Record!Halt
<1>4. /\ phase = "read" /\ err = "nil" /\ (Failed' <=> Failed)
      /\ UNCHANGED <<frames, accepted, flushed, offset, sunk, damaged, phase>>
  BY <1>3, ReadingKeeps, Zenon
<1>5. /\ said = "eof" => lastValidOffset = sunk
      /\ said = "torn" => lastValidOffset < sunk /\ sunk < lastValidOffset + Record!FrameSize(k)
      /\ said = "header" => ~Record!Intact(lastValidOffset, Record!FrameSize(k))
      /\ said \in {"eof", "torn", "header", "large", "ok"}
  BY <1>1, <1>2, <1>4, HeaderSays, Zenon
<1>6. /\ err' # "nil"
      /\ err' = "eof" => lastValidOffset = sunk
      /\ err' = "torn" => lastValidOffset < sunk /\ sunk < lastValidOffset + Record!FrameSize(k)
      /\ err' \in {"header", "data"} => ~Record!Intact(lastValidOffset, Record!FrameSize(k))
  BY <1>3, <1>5, Zenon
<1> QED
  BY <1>1, <1>3, <1>4, <1>6, RecordHalts, Zenon

(* A failing source ends the scan and says nothing of the stream.          *)
LEMMA RecordReadFails ==
  ASSUME RecordInv, Record!ReadFails
  PROVE  RecordInv'
<1>1. PICK k : k = Len(scanned) + 1
  BY Zenon
<1>2. Record!Reading /\ err' = "io" /\ UNCHANGED <<source, buffered, lastValidOffset, scanned>>
  BY Zenon DEF Record!ReadFails, Record!Halt
<1>3. /\ phase = "read" /\ err = "nil" /\ (Failed' <=> Failed)
      /\ UNCHANGED <<frames, accepted, flushed, offset, sunk, damaged, phase>>
  BY <1>2, ReadingKeeps, Zenon
<1>4. err' # "nil" /\ err' # "eof" /\ err' # "torn" /\ err' \notin {"header", "data"}
  BY <1>2, Zenon
<1> QED
  BY <1>1, <1>2, <1>3, <1>4, RecordHalts, Zenon

(* The frame whose header has been read: its size, and its payload.        *)
LEMMA NextFrame ==
  ASSUME RecordInv, err = "nil", NEW k, k = Len(scanned) + 1, Record!readHeader(Record!Position) = "ok"
  PROVE  /\ k \in DOMAIN frames /\ Record!FrameAt(Record!Position) = k /\ Record!Position = lastValidOffset
         /\ lastValidOffset \in Nat /\ sunk \in Nat /\ HeaderSize \in Nat /\ FooterSize \in Nat /\ frames[k].len \in Nat
         /\ HeaderSize > 0
         /\ Record!FrameSize(k) \in Nat /\ Record!FrameSize(k) = HeaderSize + frames[k].len + FooterSize
         /\ lastValidOffset + HeaderSize <= sunk
         /\ Record!Intact(lastValidOffset, Record!FrameSize(k)) <=> Record!PayloadIntact(k)
<1>1. /\ k \in DOMAIN frames /\ Record!FrameAt(Record!Position) = k
      /\ lastValidOffset + HeaderSize <= sunk /\ Record!Intact(lastValidOffset, HeaderSize)
  BY HeaderSays, Zenon
<1>2. Record!Position = lastValidOffset
  BY ScannerIsAt, Zenon
<1>3. /\ lastValidOffset \in Nat /\ sunk \in Nat /\ HeaderSize \in Nat /\ FooterSize \in Nat /\ HeaderSize > 0
      /\ frames[k] \in Frame
  BY <1>1, RecordConstants DEF RecordInv, RecordType
<1>4. frames[k].len \in Nat
  BY <1>3, Zenon DEF Frame
<1>5. /\ Record!FrameSize(k) \in Nat /\ Record!FrameSize(k) = HeaderSize + frames[k].len + FooterSize
      /\ Record!FrameSize(k) = HeaderSize + (frames[k].len + FooterSize) /\ frames[k].len + FooterSize \in Nat
  <2>1. PICK m : m = frames[k].len
    BY Zenon
  <2>2. Record!FrameSize(k) = HeaderSize + m + FooterSize
    BY <2>1, Zenon DEF Record!FrameSize
  <2>3. m \in Nat /\ HeaderSize \in Nat /\ FooterSize \in Nat
    BY <1>3, <1>4, <2>1, Zenon
  <2>4. /\ HeaderSize + m + FooterSize \in Nat /\ m + FooterSize \in Nat
        /\ HeaderSize + m + FooterSize = HeaderSize + (m + FooterSize)
    BY <2>3
  <2> QED
    BY <2>1, <2>2, <2>4, Zenon
<1>6. Record!Intact(lastValidOffset, Record!FrameSize(k))
        <=> Record!Intact(lastValidOffset + HeaderSize, frames[k].len + FooterSize)
  <2>1. PICK m : m = frames[k].len + FooterSize
    BY Zenon
  <2>2. /\ m \in Nat /\ Record!FrameSize(k) = HeaderSize + m /\ lastValidOffset \in Nat /\ HeaderSize \in Nat
        /\ Record!Intact(lastValidOffset, HeaderSize)
    BY <1>1, <1>3, <1>5, <2>1, Zenon
  <2>3. Record!Intact(lastValidOffset, HeaderSize + m)
          <=> Record!Intact(lastValidOffset, HeaderSize) /\ Record!Intact(lastValidOffset + HeaderSize, m)
    BY <2>2, IntactParts, Zenon
  <2> QED
    BY <2>1, <2>2, <2>3, Zenon
<1>7. Record!PayloadIntact(k) <=> Record!Intact(lastValidOffset + HeaderSize, frames[k].len + FooterSize)
  BY <1>2, Zenon DEF Record!PayloadIntact
<1> QED
  BY <1>1, <1>2, <1>3, <1>4, <1>5, <1>6, <1>7, Zenon

(* Scan returns the next frame if it is whole and intact.                  *)
LEMMA RecordScan ==
  ASSUME RecordInv, Record!Scan
  PROVE  RecordInv'
<1>1. PICK k : k = Len(scanned) + 1
  BY Zenon
<1>2. Record!Reading /\ Record!readHeader(Record!Position) = "ok"
  BY Zenon DEF Record!Scan
<1>3. /\ phase = "read" /\ err = "nil" /\ (Failed' <=> Failed)
      /\ UNCHANGED <<frames, accepted, flushed, offset, sunk, damaged, phase>>
  BY <1>2, ReadingKeeps, Zenon
<1>4. /\ k \in DOMAIN frames /\ Record!FrameAt(Record!Position) = k /\ Record!Position = lastValidOffset
      /\ lastValidOffset \in Nat /\ sunk \in Nat /\ HeaderSize \in Nat /\ HeaderSize > 0 /\ Record!FrameSize(k) \in Nat
      /\ lastValidOffset + HeaderSize <= sunk
      /\ Record!Intact(lastValidOffset, Record!FrameSize(k)) <=> Record!PayloadIntact(k)
  BY <1>1, <1>2, <1>3, NextFrame, Zenon
<1>5. IF sunk < lastValidOffset + Record!FrameSize(k) THEN Record!Halt("torn")
      ELSE IF ~Record!PayloadIntact(k) THEN Record!Halt("data")
      ELSE /\ \E b \in Record!Buffers(Record!FrameSize(k)) :
                buffered' = b /\ source' = lastValidOffset + Record!FrameSize(k) + b
           /\ Record!Advance(k, "scan")
  BY <1>4, Zenon DEF Record!Scan
<1>6. CASE sunk < lastValidOffset + Record!FrameSize(k)
  <2>1. err' = "torn" /\ UNCHANGED <<source, buffered, lastValidOffset, scanned>>
    BY <1>5, <1>6, Zenon DEF Record!Halt
  <2>2. /\ err' # "nil" /\ err' # "eof" /\ err' \notin {"header", "data"}
        /\ lastValidOffset < sunk
    BY <1>4, <2>1
  <2> QED
    BY <1>1, <1>3, <1>6, <2>1, <2>2, RecordHalts, Zenon
<1>7. CASE ~(sunk < lastValidOffset + Record!FrameSize(k)) /\ ~Record!PayloadIntact(k)
  <2>1. err' = "data" /\ UNCHANGED <<source, buffered, lastValidOffset, scanned>>
    BY <1>5, <1>7, Zenon DEF Record!Halt
  <2>2. err' # "nil" /\ err' # "eof" /\ err' # "torn" /\ ~Record!Intact(lastValidOffset, Record!FrameSize(k))
    BY <1>4, <1>7, <2>1, Zenon
  <2> QED
    BY <1>1, <1>3, <2>1, <2>2, RecordHalts, Zenon
<1>8. CASE ~(sunk < lastValidOffset + Record!FrameSize(k)) /\ Record!PayloadIntact(k)
  <2>1. PICK b \in Record!Buffers(Record!FrameSize(k)) :
          buffered' = b /\ source' = lastValidOffset + Record!FrameSize(k) + b
    BY <1>5, <1>8, Zenon
  <2>2. Record!Advance(k, "scan")
    BY <1>5, <1>8, Zenon
  <2>3. lastValidOffset' = lastValidOffset + Record!FrameSize(k) /\ err' = err
        /\ scanned' = Append(scanned, [frame |-> k, by |-> "scan"])
    BY <2>2, Zenon DEF Record!Advance
  <2>4. lastValidOffset + Record!FrameSize(k) <= sunk
    BY <1>4, <1>8
  <2>5. b \in Nat /\ lastValidOffset + Record!FrameSize(k) + b <= sunk
    BY <1>3, <1>4, <2>4, BuffersFit, Zenon
  <2>6. buffered' \in Nat /\ source' = lastValidOffset + Record!FrameSize(k) + buffered' /\ source' <= sunk
    BY <2>1, <2>5, Zenon
  <2>7. Record!Intact(lastValidOffset, Record!FrameSize(k))
    BY <1>4, <1>8, Zenon
  <2> QED
    BY <1>1, <1>3, <1>4, <2>3, <2>6, <2>7, RecordMoves, Zenon
<1> QED
  BY <1>6, <1>7, <1>8, Zenon

(* Skip passes over the next frame if it is whole: whatever is buffered    *)
(* of it, the Scanner ends up where the frame ends.                        *)
LEMMA RecordSkip ==
  ASSUME RecordInv, Record!Skip
  PROVE  RecordInv'
<1>1. PICK k : k = Len(scanned) + 1
  BY Zenon
<1>2. Record!Reading /\ Record!readHeader(Record!Position) = "ok"
  BY Zenon DEF Record!Skip
<1>3. /\ phase = "read" /\ err = "nil" /\ (Failed' <=> Failed)
      /\ UNCHANGED <<frames, accepted, flushed, offset, sunk, damaged, phase>>
  BY <1>2, ReadingKeeps, Zenon
<1>4. /\ k \in DOMAIN frames /\ Record!FrameAt(Record!Position) = k /\ Record!Position = lastValidOffset
      /\ lastValidOffset \in Nat /\ sunk \in Nat /\ HeaderSize \in Nat /\ FooterSize \in Nat /\ frames[k].len \in Nat
      /\ HeaderSize > 0
      /\ Record!FrameSize(k) \in Nat /\ Record!FrameSize(k) = HeaderSize + frames[k].len + FooterSize
      /\ lastValidOffset + HeaderSize <= sunk
  BY <1>1, <1>2, <1>3, NextFrame, Zenon
<1>5. PICK b \in Record!Buffers(HeaderSize) :
        IF b >= frames[k].len + FooterSize
        THEN /\ buffered' = b - frames[k].len - FooterSize /\ source' = lastValidOffset + HeaderSize + b
             /\ Record!Advance(k, "skip")
        ELSE IF sunk < Record!SeekTo(k, b) + FooterSize THEN Record!Halt("torn")
             ELSE /\ \E c \in 0..Record!Least(BufferSize, sunk - Record!SeekTo(k, b) - FooterSize) :
                       buffered' = c /\ source' = Record!SeekTo(k, b) + FooterSize + c
                  /\ Record!Advance(k, "skip")
  BY <1>4, Zenon DEF Record!Skip
<1>6. b \in Nat /\ lastValidOffset + HeaderSize + b <= sunk
  BY <1>3, <1>4, BuffersFit, Zenon
<1>7. Record!SeekTo(k, b) + FooterSize = lastValidOffset + Record!FrameSize(k) /\ Record!SeekTo(k, b) \in Nat
  BY <1>4, <1>6 DEF Record!SeekTo
<1>8. ASSUME buffered' \in Nat, source' = lastValidOffset + Record!FrameSize(k) + buffered', source' <= sunk,
             Record!Advance(k, "skip")
      PROVE  RecordInv'
  <2>1. lastValidOffset' = lastValidOffset + Record!FrameSize(k) /\ err' = err
        /\ scanned' = Append(scanned, [frame |-> k, by |-> "skip"])
    BY <1>8, Zenon DEF Record!Advance
  <2>2. "skip" \in {"scan", "skip"} /\ "skip" # "scan"
    BY Zenon
  <2> QED
    BY <1>1, <1>3, <1>4, <1>8, <2>1, <2>2, RecordMoves, Zenon
<1>9. CASE b >= frames[k].len + FooterSize
  <2>1. /\ buffered' = b - frames[k].len - FooterSize /\ source' = lastValidOffset + HeaderSize + b
        /\ Record!Advance(k, "skip")
    BY <1>5, <1>9, Zenon
  <2>2. buffered' \in Nat /\ source' = lastValidOffset + Record!FrameSize(k) + buffered' /\ source' <= sunk
    BY <1>4, <1>6, <1>9, <2>1
  <2> QED
    BY <1>8, <2>1, <2>2, Zenon
<1>10. CASE ~(b >= frames[k].len + FooterSize) /\ sunk < Record!SeekTo(k, b) + FooterSize
  <2>1. err' = "torn" /\ UNCHANGED <<source, buffered, lastValidOffset, scanned>>
    BY <1>5, <1>10, Zenon DEF Record!Halt
  <2>2. /\ err' # "nil" /\ err' # "eof" /\ err' \notin {"header", "data"}
        /\ lastValidOffset < sunk /\ sunk < lastValidOffset + Record!FrameSize(k)
    BY <1>4, <1>7, <1>10, <2>1
  <2> QED
    BY <1>1, <1>3, <2>1, <2>2, RecordHalts, Zenon
<1>11. CASE ~(b >= frames[k].len + FooterSize) /\ ~(sunk < Record!SeekTo(k, b) + FooterSize)
  <2>1. PICK c \in 0..Record!Least(BufferSize, sunk - Record!SeekTo(k, b) - FooterSize) :
          buffered' = c /\ source' = Record!SeekTo(k, b) + FooterSize + c
    BY <1>5, <1>11, Zenon
  <2>2. Record!Advance(k, "skip")
    BY <1>5, <1>11, Zenon
  <2>3. /\ Record!Least(BufferSize, sunk - Record!SeekTo(k, b) - FooterSize) <= sunk - Record!SeekTo(k, b) - FooterSize
        /\ Record!Least(BufferSize, sunk - Record!SeekTo(k, b) - FooterSize) \in Int
    BY <1>4, <1>7, RecordConstants DEF Record!Least
  <2>4. c \in Nat /\ c <= sunk - Record!SeekTo(k, b) - FooterSize
    BY <1>4, <1>7, <2>1, <2>3
  <2>5. buffered' \in Nat /\ source' = lastValidOffset + Record!FrameSize(k) + buffered' /\ source' <= sunk
    BY <1>4, <1>7, <2>1, <2>4
  <2> QED
    BY <1>8, <2>2, <2>5, Zenon
<1> QED
  BY <1>9, <1>10, <1>11, Zenon

(* A step of the Writer or the Scanner keeps the invariant.                *)
LEMMA RecordKeeps ==
  ASSUME RecordInv, UNCHANGED recordVars \/ Record!Next
  PROVE  RecordInv'
<1>1. CASE UNCHANGED recordVars
  <2>1. /\ UNCHANGED <<frames, accepted, flushed, offset, sunk, damaged, phase>> /\ (Failed' <=> Failed)
        /\ UNCHANGED <<source, buffered, lastValidOffset, err, scanned>>
    BY <1>1, Zenon DEF recordVars, Failed
  <2>2. RecordType' /\ Layout'
    BY <2>1, Zenon DEF RecordInv, RecordType, Layout, Record!Start, Record!Total, Record!FrameSize
  <2>3. WriterKnows'
    BY <2>1, Zenon DEF RecordInv, WriterKnows, Record!Start, Record!Total, Record!FrameSize
  <2>4. ScannerKnows'
    BY <2>1, Zenon DEF RecordInv, ScannerKnows, Record!Start, Record!Total, Record!FrameSize, Record!Intact
  <2>5. Record!Verdict' /\ Record!FlushedIsRead'
    BY <2>1, Zenon DEF RecordInv, Record!Verdict, Record!FlushedIsRead, Record!Upcoming, Record!FrameSize, Record!Intact
  <2> QED
    BY <2>2, <2>3, <2>4, <2>5, Zenon DEF RecordInv
<1>2. CASE Record!Next
  <2>1. CASE \E n \in Lengths : Record!WriteRecord(n) \/ Record!WriteFails(n)
    BY <2>1, RecordWrite, Zenon
  <2>2. CASE Record!Flush \/ Record!FlushFails
    BY <2>2, RecordFlush, Zenon
  <2>3. CASE Record!HeaderFails \/ Record!Scan \/ Record!Skip \/ Record!ReadFails
    BY <2>3, RecordHeaderFails, RecordScan, RecordSkip, RecordReadFails, Zenon
  <2> QED
    BY <1>2, <2>1, <2>2, <2>3, RecordReset, RecordOpen, Zenon DEF Record!Next
<1> QED
  BY <1>1, <1>2, Zenon

(* The invariant says what is promised about a stream.                     *)
LEMMA RecordPromises ==
  ASSUME RecordInv
  PROVE  Record!InOrder /\ Record!Verdict /\ Record!FlushedIsRead
<1>1. RecordType /\ Layout /\ WriterKnows /\ ScannerKnows
  BY Zenon DEF RecordInv
<1>2. ~werr => offset = Record!Total
  BY <1>1, Zenon DEF WriterKnows, Failed
<1>3. \A j \in DOMAIN scanned :
        scanned[j].frame = j /\ (scanned[j].by = "scan" => Record!Intact(Record!Start(j), Record!FrameSize(j)))
  BY <1>1, Zenon DEF ScannerKnows
<1>4. lastValidOffset = Record!Start(Record!Upcoming)
  BY <1>1, Zenon DEF ScannerKnows, Record!Upcoming
<1>5. err = "nil" => Record!Position = lastValidOffset
  BY ScannerIsAt, Zenon
<1> QED
  BY <1>2, <1>3, <1>4, <1>5, Zenon DEF RecordInv, Record!InOrder

(* Records are returned in order and undamaged, the end of a scan tells    *)
(* what became of the stream, and nothing that was flushed is missing at   *)
(* the end of an undamaged stream, for streams and payloads of any length, *)
(* any sizes of header, footer and buffer, and any damage to one cell.     *)
THEOREM RecordsAreSafe == Record!Spec => []RecordsSurvive
<1>1. Record!Init => RecordInv
  BY RecordBegins, Zenon
<1>2. RecordInv /\ [Record!Next]_(Record!vars) => RecordInv'
  BY RecordKeeps, Zenon DEF Record!vars, Record!writer, Record!scanner, recordVars
<1>3. RecordInv => RecordsSurvive
  BY RecordPromises, Zenon DEF RecordsSurvive
<1> QED
  BY <1>1, <1>2, <1>3, PTL DEF Record!Spec
=============================================================================
