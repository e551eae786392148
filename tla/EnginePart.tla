----------------------------- MODULE EnginePart -----------------------------
(***************************************************************************)
(* The query engine, as a part of Services.                                *)
(***************************************************************************)
EXTENDS Defaults, Integers, Sequences

CONSTANTS QueryNamespaces, Branches, Segments, Contents, Storable(_), Passes, MaxWrites, MaxFaults

ASSUME EngineConstants ==
  /\ \A s \in Segments : Contents[s] \in Seq({Contents[s][i] : i \in DOMAIN Contents[s]})
  /\ DefaultNamespace \in QueryNamespaces /\ DefaultBranch \in Branches

VARIABLES
  registered, listed, manifest, writes, loaders, pass, faults, history, reborn

engineVars == <<registered, listed, manifest, writes, loaders, pass, faults, history, reborn>>

Engine == INSTANCE Engine WITH Namespaces <- QueryNamespaces
-----------------------------------------------------------------------------
(* What a loader shows is the start of its branch's history: the segments  *)
(* it counts as applied and a first part of the next one.  No interleaving *)
(* of passes, no failure half way through a segment and no second          *)
(* application of it makes Sync skip, repeat visibly or mix mutations, as  *)
(* long as the branch's manifest is not made a second time.                *)
PublishedIsPrefix == Engine!PublishedIsPrefix

(* What docs/design/query.md says of Sync and the code does not do: the    *)
(* new table is published once all new segments are applied, so a query    *)
(* never sees a part of one.                                               *)
PublishedInWhole == Engine!PublishedInWhole

(* The generation a loader remembers vouches for its table: when Sync      *)
(* would skip the manifest as unchanged, all of it has been applied.       *)
SkipIsSafe == Engine!SkipIsSafe

(* Successive queries never see a branch go back: a pass that works from   *)
(* an older manifest, or fails, leaves what was published.                 *)
NoRetreat == Engine!NoRetreat
=============================================================================
