----------------------------- MODULE Snapshots -----------------------------
(***************************************************************************)
(* Query tables in memory: a loader clones the published table, changes    *)
(* the clone in place and swaps the published pointer, while readers       *)
(* search the table they loaded before.                                    *)
(*                                                                         *)
(* A Table holds its row count by value and the rest by reference.  Here a *)
(* table is its row count and, for each other part, the block of memory    *)
(* that holds it: what Clone does not copy stays shared, and a change made *)
(* through one table shows in the other.                                   *)
(***************************************************************************)
EXTENDS Search

CONSTANTS
  Mutations,   \* the puts and deletes a segment may hold
  Searches,    \* the searches readers make
  Readers,     \* searches that may run at the same time
  MaxChanges,  \* bound: changes made in a behaviour
  None         \* no private copy, no snapshot

VARIABLES
  memory,     \* the parts in each block
  published,  \* the table the atomic pointer names
  work,       \* the loader's clone, or None
  held,       \* the table each reader loaded, or None
  changes     \* how many changes were made

vars == <<memory, published, work, held, changes>>

Parts == {"docIDs", "index", "tombstones", "vectors", "attrs"}

(* Enough blocks for every table in use and one more.                      *)
Blocks == 1 .. Cardinality(Readers) + 3

InUse == {published, work} \cup {held[r] : r \in Readers}

Free(b) == \A t \in InUse \ {None} : \A p \in Parts : t.at[p] # b

(* The value of a table.                                                   *)
Value(t) == [p \in Parts \cup {"numRows"} |-> IF p = "numRows" THEN t.numRows ELSE memory[t.at[p]][p]]

(* Write new, a changed value of t, back through its references.           *)
Store(t, new) ==
  memory' = [b \in Blocks |-> [p \in Parts |-> IF b = t.at[p] THEN new[p] ELSE memory[b][p]]]

Init ==
  /\ memory = [b \in Blocks |-> [p \in Parts |-> NewTable[p]]]
  /\ published = [numRows |-> 0, at |-> [p \in Parts |-> 1]]
  /\ work = None
  /\ held = [r \in Readers |-> None]
  /\ changes = 0

CloneInto(b, copied) ==
  /\ work = None
  /\ Free(b) /\ \A c \in Blocks : Free(c) => b <= c
  /\ work' = [numRows |-> published.numRows,
              at |-> [p \in Parts |-> IF p \in copied THEN b ELSE published.at[p]]]
  /\ memory' = [memory EXCEPT ![b] = [p \in Parts |-> memory[published.at[p]][p]]]
  /\ UNCHANGED <<published, held, changes>>

CloneSharesVectors(b) == CloneInto(b, Parts \ {"vectors"})

Clone(b) == CloneInto(b, Parts)

Changed(t, m) ==
  IF m.op = "put" THEN Upsert(t, m.id, m.vectors, m.attrs) ELSE Delete(t, m.id)

(* UpsertRecord or Delete on the clone.                                    *)
Change(m) ==
  /\ work # None /\ changes < MaxChanges
  /\ LET new == Changed(Value(work), m)
     IN Store(work, new) /\ work' = [work EXCEPT !.numRows = new.numRows]
  /\ changes' = changes + 1
  /\ UNCHANGED <<published, held>>

Publish ==
  /\ work # None
  /\ published' = work /\ work' = None
  /\ UNCHANGED <<memory, held, changes>>

(* The first segment of a pass failed: the clone is dropped.               *)
Abandon ==
  /\ work # None
  /\ work' = None
  /\ UNCHANGED <<memory, published, held, changes>>

Load(r) ==
  /\ held[r] = None
  /\ held' = [held EXCEPT ![r] = published]
  /\ UNCHANGED <<memory, published, work, changes>>

Done(r) ==
  /\ held[r] # None
  /\ held' = [held EXCEPT ![r] = None]
  /\ UNCHANGED <<memory, published, work, changes>>

Next ==
  \/ \E b \in Blocks : Clone(b)
  \/ \E m \in Mutations : Change(m)
  \/ Publish \/ Abandon
  \/ \E r \in Readers : Load(r) \/ Done(r)

Spec == Init /\ [][Next]_vars
-----------------------------------------------------------------------------
(* The columns of a table stay parallel: as many identifiers, tombstones,  *)
(* flags, norms and attribute values as rows, dim components for each row  *)
(* of a vector column, index the inverse of docIDs, and a norm stored for  *)
(* exactly the vector the row holds.  Upsert keeps this over every column, *)
(* also one that appears when rows exist, and over deleted rows.           *)
Parallel(t) ==
  /\ Len(t.docIDs) = t.numRows /\ Len(t.tombstones) = t.numRows
  /\ DOMAIN t.index = {t.docIDs[r] : r \in 1..t.numRows}
  /\ \A r \in 1..t.numRows : t.index[t.docIDs[r]] = r
  /\ \A k \in DOMAIN t.attrs : Len(t.attrs[k]) = t.numRows
  /\ \A c \in DOMAIN t.vectors :
       LET col == t.vectors[c]
       IN /\ Len(col.data) = t.numRows * col.dim
          /\ Len(col.hasVec) = t.numRows /\ Len(col.invNorms) = t.numRows
          /\ \A r \in 1..t.numRows :
               col.invNorms[r] = IF col.hasVec[r] THEN vectorInvNorm(recordAt(t, r).vectors[c]) ELSE 0

Aligned == \A t \in InUse \ {None} : Parallel(Value(t))

(* Search returns the best topK of all rows that qualify, best first: the  *)
(* pruning test, the bounded heap and the final sort lose no hit and keep  *)
(* no worse one, ties are broken by identifier, and a NaN score spoils the *)
(* rank of no other hit.                                                   *)
TopK(t, s) ==
  LET hits == Answer(t, s)
      all  == {Hit(t, s, r) : r \in {r \in 1..t.numRows : Candidate(t, s, r)}}
      got  == {hits[i] : i \in DOMAIN hits}
  IN IF Empty(t, s) \/ Faulty(t, s) \/ ~(DOMAIN s.filter \subseteq DOMAIN t.attrs) THEN hits = << >>
     ELSE /\ got \subseteq all
          /\ Len(hits) = Cardinality(got)
          /\ Len(hits) = IF s.topK < Cardinality(all) THEN s.topK ELSE Cardinality(all)
          /\ \A i, j \in DOMAIN hits : i < j => Cmp(s.metric, hits[i], hits[j]) <= 0
          /\ \A h \in all \ got, g \in got : Cmp(s.metric, g, h) <= 0

SearchIsTopK == \A s \in Searches : TopK(Value(published), s)

(* The documents a table shows: the dimension of each column, and the      *)
(* record of each row that is not deleted.                                 *)
DocumentsOf(t) ==
  IF t = None THEN None
  ELSE LET v == Value(t)
       IN [dims |-> [c \in DOMAIN v.vectors |-> v.vectors[c].dim],
           docs |-> [id \in {id \in DOMAIN v.index : ~v.tombstones[v.index[id]]} |-> recordAt(v, v.index[id])]]

Abstract == INSTANCE Documents WITH
  shown <- DocumentsOf(published), work <- DocumentsOf(work),
  seen <- [r \in Readers |-> DocumentsOf(held[r])],
  Storable <- LAMBDA v : Half => EncodeFP16(v)

(* Flat columns, tombstones, reused rows and clones behave like a map from *)
(* document to record that changes privately and is shown at once: what a  *)
(* reader holds never changes under it, a refused put leaves no trace, and *)
(* nothing of a deleted document comes back with a later one.              *)
ImplementsDocuments == Abstract!Spec
=============================================================================
