------------------------------ MODULE Records ------------------------------
(***************************************************************************)
(* What a put and a delete mean for a set of documents.                    *)
(*                                                                         *)
(* A document is two maps, from column to vector and from attribute to     *)
(* value.  A put on a document that exists keeps the columns it does not   *)
(* mention, a put on a deleted one starts afresh, and an empty vector is   *)
(* no vector.  The first vector of a column fixes the dimension of the     *)
(* column for good; a put with a vector of another dimension, or one that  *)
(* cannot be stored, changes nothing.                                      *)
(***************************************************************************)
EXTENDS Integers, Sequences

CONSTANT Storable(_)   \* the vectors the configured row format can hold

NoDocuments == [dims |-> << >>, docs |-> << >>]

(* f with the values of g wherever g has one.                              *)
Override(f, g) == [x \in DOMAIN f \cup DOMAIN g |-> IF x \in DOMAIN g THEN g[x] ELSE f[x]]

Only(f, S) == [x \in DOMAIN f \cap S |-> f[x]]

Given(vectors) == Only(vectors, {c \in DOMAIN vectors : vectors[c] # << >>})

Fits(db, vectors) ==
  \A c \in DOMAIN Given(vectors) :
    /\ c \in DOMAIN db.dims => Len(vectors[c]) = db.dims[c]
    /\ Storable(vectors[c])

Blank == [vectors |-> << >>, attrs |-> << >>]

Put(db, m) ==
  LET old == IF m.id \in DOMAIN db.docs THEN db.docs[m.id] ELSE Blank
      new == [vectors |-> Override(old.vectors, Given(m.vectors)),
              attrs   |-> Override(old.attrs, m.attrs)]
  IN IF ~Fits(db, m.vectors) THEN db
     ELSE [dims |-> Override([c \in DOMAIN Given(m.vectors) |-> Len(m.vectors[c])], db.dims),
           docs |-> Override(db.docs, [id \in {m.id} |-> new])]

Forget(db, m) == [db EXCEPT !.docs = Only(@, DOMAIN @ \ {m.id})]

(* Binding db to d makes TLC evaluate it once in long runs of mutations.   *)
Apply(db, m) ==
  CHOOSE new \in {IF m.op = "put" THEN Put(d, m) ELSE Forget(d, m) : d \in {db}} : TRUE
=============================================================================
