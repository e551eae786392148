------------------------------ MODULE Listing ------------------------------
(***************************************************************************)
(* List, while objects come and go: the iterator of the GCS store over a   *)
(* bucket shared by tenants, and the walk of the local store over its      *)
(* directory.  The memory store lists in one step, which is a walk nobody  *)
(* disturbs.                                                               *)
(*                                                                         *)
(* A name is a sequence of characters, and 0 is the slash, the least of    *)
(* them.  External: a bucket answers in order, with objects that exist     *)
(* when they are returned, from StartOffset on and that included.          *)
(***************************************************************************)
EXTENDS Naturals, SequencesExt

CONSTANTS
  Universe,     \* the names of objects that may exist in the bucket
  Tenant,       \* the prefix of this store; empty for a store of its own
  Under, Starts, Limits,      \* the arguments of List
  MaxChanges    \* bound: objects created or deleted during a List

VARIABLES
  bucket,   \* the objects that exist
  query,    \* the arguments
  kind,     \* "gcs" or "local"
  at,       \* gcs: what the iterator has passed; local: what the walk has visited
  out,      \* the keys found so far
  done,
  always, ever,  \* ghost: what existed all the time, and at some time
  changes

vars == <<bucket, query, kind, at, out, done, always, ever, changes>>

Slash == <<0>>

Less(s, t) ==
  \/ IsStrictPrefix(s, t)
  \/ \E i \in DOMAIN s \cap DOMAIN t :
       s[i] < t[i] /\ SubSeq(s, 1, i - 1) = SubSeq(t, 1, i - 1)

Least(S) == CHOOSE s \in S : \A t \in S : s = t \/ Less(s, t)

resolveKey(key) ==
  IF Tenant = <<>> THEN key ELSE IF key = <<>> THEN Tenant ELSE Tenant \o Slash \o key

Trim(s, prefix) == IF IsPrefix(prefix, s) THEN SubSeq(s, Len(prefix) + 1, Len(s)) ELSE s

trimKey(name) == IF Tenant = <<>> THEN name ELSE Trim(Trim(name, Tenant), Slash)

(* The objects of this tenant.                                             *)
Own == {n \in Universe : Tenant = <<>> \/ IsPrefix(Tenant \o Slash, n)}

(* The keys of this store among the names.                                 *)
Mine(names) == {trimKey(n) : n \in names \cap Own}

Init ==
  /\ bucket \in SUBSET Universe
  /\ query \in [prefix : Under, startAfter : Starts, limit : Limits]
  /\ kind \in {"gcs", "local"}
  /\ at = {} /\ out = <<>> /\ done = FALSE
  /\ always = bucket /\ ever = bucket /\ changes = 0

Change(n) ==
  /\ ~done /\ changes < MaxChanges /\ changes' = changes + 1
  /\ bucket' = IF n \in bucket THEN bucket \ {n} ELSE bucket \cup {n}
  /\ always' = always \cap bucket' /\ ever' = ever \cup bucket'
  /\ UNCHANGED <<query, kind, at, out, done>>

Return == done' = TRUE /\ UNCHANGED <<bucket, query, kind, at, out, always, ever, changes>>

(* All the answers of List: the key is in the range asked for.             *)
Wanted(key) == IsPrefix(query.prefix, key) /\ Less(query.startAfter, key)
-----------------------------------------------------------------------------
(* gcsStore.List.                                                          *)

resolvedPrefix ==
  IF Tenant # <<>> /\ query.prefix = <<>> THEN Tenant \o Slash ELSE resolveKey(query.prefix)

(* What the iterator has still to return.                                  *)
Rest ==
  {n \in bucket : /\ IsPrefix(resolvedPrefix, n)
                  /\ query.startAfter # <<>> => ~Less(n, resolveKey(query.startAfter))
                  /\ \A m \in at : Less(m, n)}

Full == query.limit > 0 /\ Len(out) = query.limit

(* One turn of the loop; an error of the iterator ends it without a list.  *)
NextAttrs ==
  /\ kind = "gcs" /\ ~done /\ ~Full /\ Rest # {}
  /\ LET n == Least(Rest)
         name == trimKey(n)
     IN /\ at' = {n}
        /\ out' = IF query.startAfter # <<>> /\ (name = query.startAfter \/ Less(name, query.startAfter))
                  THEN out ELSE Append(out, name)
  /\ UNCHANGED <<bucket, query, kind, done, always, ever, changes>>

ListReturns == kind = "gcs" /\ ~done /\ (Full \/ Rest = {}) /\ Return
-----------------------------------------------------------------------------
(* localStore.List: files are visited in any order, each seen or not as it *)
(* is then; the result is sorted and cut.                                  *)

Visit(n) ==
  /\ kind = "local" /\ ~done /\ n \in Own \ at
  /\ at' = at \cup {n}
  /\ out' = IF n \in bucket /\ Wanted(trimKey(n)) THEN Append(out, trimKey(n)) ELSE out
  /\ UNCHANGED <<bucket, query, kind, done, always, ever, changes>>

Cut(keys) == IF query.limit > 0 /\ Len(keys) > query.limit THEN SubSeq(keys, 1, query.limit) ELSE keys

CutAndSort == SetToSortSeq(ToSet(Cut(out)), Less)

SortAndCut == Cut(SetToSortSeq(ToSet(out), Less))

WalkEnds ==
  /\ kind = "local" /\ ~done /\ at = Own
  /\ out' = SortAndCut /\ done' = TRUE
  /\ UNCHANGED <<bucket, query, kind, at, always, ever, changes>>
-----------------------------------------------------------------------------
Next ==
  \/ \E n \in Universe : Change(n) \/ Visit(n)
  \/ NextAttrs \/ ListReturns \/ WalkEnds

Spec == Init /\ [][Next]_vars
-----------------------------------------------------------------------------
(* A List, whatever changes under it, returns keys of its own tenant in    *)
(* order, in the range asked for and at most limit of them; each existed   *)
(* while it ran.                                                           *)
ListIsSound ==
  done =>
    /\ \A i \in DOMAIN out : Wanted(out[i]) /\ out[i] \in Mine(ever)
    /\ \A i, j \in DOMAIN out : i < j => Less(out[i], out[j])
    /\ query.limit > 0 => Len(out) <= query.limit

(* It misses nothing that existed all the time: such a key in the range is *)
(* returned, unless the limit was reached by keys before it.  The log      *)
(* finds its end by this.                                                  *)
ListIsComplete ==
  done =>
    \A k \in Mine(always) :
      Wanted(k) =>
        \/ \E i \in DOMAIN out : out[i] = k
        \/ Full /\ Less(out[Len(out)], k)
=============================================================================
