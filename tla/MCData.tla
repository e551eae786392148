------------------------------- MODULE MCData -------------------------------
(***************************************************************************)
(* How data is kept, on small instances: the object stores, record files,  *)
(* the catalogs and their cache, and the tables that queries search.       *)
(* These parts share no state; a behaviour is about one of them, and the   *)
(* others stay as they begin.                                              *)
(***************************************************************************)
EXTENDS Catalog, Stores, TLC

CONSTANTS Nil, NaN, Overflow, NonFinite, r1, c1, c2, c3, c4, c5, p1, p2, a1, a2, a3

VARIABLES
  bucket, query, kind, at, out, done, always, ever, changes,
  memory, published, clone, loaded, mutated,
  x, half, back

Asks(op, n) == [op |-> op, name |-> n]

(* A namespace a is created twice and deleted, a branch b added and        *)
(* removed.  The loop is the same, so they may share an object: it only    *)
(* adds conflicts.                                                         *)
MCCalls   == {c1, c2, c3, c4, c5}
MCRequest == c1 :> Asks("create", "a") @@ c2 :> Asks("create", "a") @@ c3 :> Asks("delete", "a")
               @@ c4 :> Asks("add", "b") @@ c5 :> Asks("remove", "b")

MCChanges == {c1, c2, c3}
MCChange  == c1 :> Asks("create", "a") @@ c2 :> Asks("delete", "a") @@ c3 :> Asks("create", "b")

(* Two processes, one with two threads, on one directory.                  *)
MCProcesses == {p1, p2}
MCThreads   == {a1, a2, a3}
MCHome      == a1 :> p1 @@ a2 :> p1 @@ a3 :> p2

MCCallers   == {a1, a2}

(* The characters are the separator 0, 1 and 2; tenant 1 shares its bucket with tenant 12,  *)
(* whose name begins like its own.                                         *)
List == INSTANCE Listing WITH
  Tenant <- <<1>>, Universe <- {<<1, 0, 1>>, <<1, 0, 2>>, <<1, 0, 1, 0, 2>>, <<1, 2, 0, 1>>},
  Under <- {<<>>, <<1>>, <<1, 0>>}, Starts <- {<<>>, <<1>>, <<1, 0>>}, Limits <- 0..2, MaxChanges <- 2

Vec(c, v)  == [k \in {c} |-> v]
Attr(k, a) == [j \in {k} |-> a]
Upserted(id, vectors, attrs) == [op |-> "put", id |-> id, vectors |-> vectors, attrs |-> attrs]
Deleted(id) == [op |-> "delete", id |-> id, vectors |-> << >>, attrs |-> << >>]

(* Two documents, two columns of which one is fought over with two         *)
(* dimensions, an attribute that comes and goes, an empty vector, and a    *)
(* component too large for half precision.  One reader keeps a table while *)
(* the loader goes on to change its clones.                                *)
MCMutations ==
  {Upserted(1, Vec("v", <<1, 2>>), << >>), Upserted(1, Vec("w", <<2>>), Attr("k", 1)),
   Upserted(2, Vec("v", <<2>>) , Attr("k", 2)), Upserted(2, Vec("w", << >>), << >>),
   Upserted(2, Vec("v", <<2, 1>>) @@ Vec("w", <<3>>), << >>),
   Upserted(1, Vec("v", <<1, 1>>) @@ Vec("w", <<9>>), << >>),
   Deleted(1), Deleted(2)}

Tables == INSTANCE Snapshots WITH
  work <- clone, held <- loaded, changes <- mutated, Half <- TRUE, MaxHalf <- 4, Readers <- {r1}, Mutations <- MCMutations, Searches <- {},
  MaxChanges <- 3

(* Three documents at the same or at different distances, one without      *)
(* direction and one with a component that is not a number.                *)
MCHits ==
  {Upserted(1, Vec("v", <<1, 0>>), Attr("k", 1)), Upserted(2, Vec("v", <<1, 0>>), Attr("k", 2)),
   Upserted(3, Vec("v", <<0, 1>>), Attr("k", 1)), Upserted(1, Vec("v", <<2, 1>>), << >>),
   Upserted(3, Vec("v", <<0, 0>>), << >>), Upserted(2, Vec("v", <<NaN, 1>>), << >>), Deleted(2)}

MCSearches ==
  [col : {"v"}, query : {<<1, 1>>, <<-1, 0>>, <<0, 0>>, <<1>>}, topK : 0..2,
   metric : {"cosine", "euclidean", "dot"}, filter : {<< >>, Attr("k", 1), Attr("j", 1)}]

Ranked == INSTANCE Snapshots WITH
  work <- clone, held <- loaded, changes <- mutated, Half <- FALSE, MaxHalf <- 4, Readers <- {}, Mutations <- MCHits, Searches <- MCSearches,
  MaxChanges <- 4

(* Every exponent with the mantissas at which rounding turns.              *)
Steps == {k * 2^bit + d : k \in 0..3, bit \in 0..22, d \in -1..1}

Fp16 == INSTANCE Half WITH Mantissas <- (Steps \cup {2^23 - s : s \in Steps}) \cap 0..(2^23 - 1)
-----------------------------------------------------------------------------
DataInit ==
  /\ part \in {"catalog", "cache", "local", "memory", "list", "record", "tables", "searches", "half"}
  /\ Init /\ StoresInit
  /\ IF part = "searches" THEN Ranked!Init ELSE Tables!Init
  /\ IF part = "list" THEN List!Init
     ELSE /\ bucket = {} /\ query = None /\ kind = None /\ at = {} /\ out = <<>> /\ done = FALSE
          /\ always = {} /\ ever = {} /\ changes = 0
  /\ IF part = "half" THEN Fp16!Init ELSE x = None /\ half = None /\ back = None

listVars   == <<bucket, query, kind, at, out, done, always, ever, changes>>
tableVars  == <<memory, published, clone, loaded, mutated>>
halfVars   == <<x, half, back>>

DataNext ==
  \/ StoresNext /\ UNCHANGED <<vars, listVars, tableVars, halfVars>>
  \/ part = "catalog" /\ Next /\ UNCHANGED <<stores, listVars, tableVars, halfVars>>
  \/ part = "list" /\ List!Next /\ UNCHANGED <<stores, vars, tableVars, halfVars>>
  \/ part = "tables" /\ Tables!Next /\ UNCHANGED <<stores, vars, listVars, halfVars>>
  \/ part = "searches" /\ Ranked!Next /\ UNCHANGED <<stores, vars, listVars, halfVars>>
  \/ part = "half" /\ Fp16!Next /\ UNCHANGED <<stores, vars, listVars, tableVars>>

data == <<stores, vars, listVars, tableVars, halfVars>>

DataSpec == DataInit /\ [][DataNext]_data

Symmetry == Permutations({a1, a2})
-----------------------------------------------------------------------------
(* A List, whatever changes under it, returns keys of its own tenant in    *)
(* order, in the range asked for and at most limit of them, each of which  *)
(* existed while it ran; and it misses no key in the range that existed    *)
(* all the time, unless the limit was reached by keys before it.  The log  *)
(* finds its end by this.                                                  *)
ListIsExact == part = "list" => List!ListIsSound /\ List!ListIsComplete

(* Flat columns, tombstones, reused rows and clones behave like a map from *)
(* document to record that changes privately and is shown at once: what a  *)
(* reader holds never changes under it, a refused put leaves no trace, and *)
(* nothing of a deleted document comes back with a later one.  The columns *)
(* stay parallel all the while, index the inverse of docIDs and a norm for *)
(* exactly the vector the row holds, over every column Upsert adds when    *)
(* rows exist and over deleted rows.                                       *)
ImplementsDocuments ==
  /\ part = "tables" => Tables!Abstract!Init
  /\ [][part = "tables" => [Tables!Abstract!Next]_(Tables!Abstract!docVars)]_data
  /\ [](part = "tables" => Tables!Aligned)

(* Search returns the best topK of all rows that qualify, best first: the  *)
(* pruning test, the bounded heap and the final sort lose no hit and keep  *)
(* no worse one, ties are broken by identifier, and a NaN score spoils the *)
(* rank of no other hit.                                                   *)
SearchIsTopK == part = "searches" => Ranked!SearchIsTopK

(* EncodeFP16 stores every component up to 65504 as the half nearest to    *)
(* it, also among the subnormal ones and where rounding carries into the   *)
(* exponent, zero only up to 2^-25, and refuses all from 2^16 on; and what *)
(* the kernels read back is stored as the same half, so a table that is    *)
(* written again from what was read does not drift.                        *)
HalfIsNearest == part = "half" => Fp16!NearestEven /\ Fp16!RoundTrip
=============================================================================
