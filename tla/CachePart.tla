----------------------------- MODULE CachePart ------------------------------
(***************************************************************************)
(* The cache of the namespace catalog, as a part of Stores.                *)
(***************************************************************************)
EXTENDS Integers

CONSTANTS Spaces, Changes, ChangeOf, Lookups, Ticker, Uncached

ASSUME CacheConstants ==
  /\ ChangeOf \in [Changes -> [op : {"create", "delete", "add"}, name : Spaces]]
  /\ Ticker \notin Lookups
  /\ Uncached \notin [gen : Nat, entries : [Spaces -> {"absent", "live", "deleted"}]]

VARIABLES entries, gen, cache, cachePc, name, seen, lookup, asked

cacheVars == <<entries, gen, cache, cachePc, name, seen, lookup, asked>>

Cache == INSTANCE CatalogCache WITH
  pc <- cachePc, answer <- lookup, Names <- Spaces, Calls <- Changes, Request <- ChangeOf,
  Readers <- Lookups, None <- Uncached
-----------------------------------------------------------------------------
(* A lookup in the catalog cache never misses a namespace that existed     *)
(* when it began, however many refreshes overlap: a miss is settled by the *)
(* version the lookup itself has read.                                     *)
NothingMissed == Cache!NothingMissed
=============================================================================
