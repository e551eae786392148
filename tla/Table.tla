------------------------------- MODULE Table -------------------------------
(***************************************************************************)
(* query.Table: rows in flat columns.  A table is a record of parallel     *)
(* sequences indexed by row; a vector column keeps the vectors of all rows *)
(* in one sequence, row r at (r - 1) * dim + 1.  Rows count from 1 where   *)
(* the code counts from 0.                                                 *)
(*                                                                         *)
(* A component of a vector is a small integer or NaN.  Sums and products   *)
(* are exact: what float32 rounds away is not modelled.  Integers up to    *)
(* 2048 are exact in half precision too, so with Half a stored component   *)
(* reads back unchanged or was refused.  The squared norm stands for its   *)
(* inverse root in invNorms: zero exactly when that is.                    *)
(***************************************************************************)
EXTENDS Integers, Sequences, SequencesExt, Functions, FiniteSets

CONSTANTS
  Half,     \* the fp16 variant is configured
  MaxHalf,  \* the largest component half precision can hold
  NaN,      \* not a number
  Nil       \* an attribute a row does not have

Total(s) == FoldLeft(LAMBDA a, b : a + b, 0, s)

(* A component that is NaN makes every sum it enters NaN.                  *)
Defined(v) == \A i \in DOMAIN v : v[i] # NaN

vectorInvNorm(v) == IF Defined(v) THEN Total([i \in DOMAIN v |-> v[i] * v[i]]) ELSE NaN

EncodeFP16(v) == \A i \in DOMAIN v : v[i] # NaN /\ v[i] <= MaxHalf

NewTable ==
  [numRows |-> 0, docIDs |-> << >>, index |-> << >>, tombstones |-> << >>,
   vectors |-> << >>, attrs |-> << >>]
-----------------------------------------------------------------------------
(* Upsert.  Every vector is checked before anything changes.               *)
staged(vectors) == {c \in DOMAIN vectors : vectors[c] # << >>}

Refused(t, vectors) ==
  \E c \in staged(vectors) :
    \/ c \in DOMAIN t.vectors /\ Len(vectors[c]) # t.vectors[c].dim
    \/ Half /\ ~EncodeFP16(vectors[c])

Zeros(n) == [i \in 1..n |-> 0]

NewColumn(rows, dim) ==
  [dim |-> dim, data |-> Zeros(rows * dim),
   hasVec |-> [r \in 1..rows |-> FALSE], invNorms |-> Zeros(rows)]

(* The columns a put needs, each as long as the table has rows.            *)
WithColumns(t, vectors, attrs) ==
  [t EXCEPT
    !.vectors = [c \in DOMAIN t.vectors \cup staged(vectors) |->
                   IF c \in DOMAIN t.vectors THEN t.vectors[c]
                   ELSE NewColumn(t.numRows, Len(vectors[c]))],
    !.attrs = [k \in DOMAIN t.attrs \cup {k \in DOMAIN attrs : attrs[k] # Nil} |->
                 IF k \in DOMAIN t.attrs THEN t.attrs[k] ELSE [r \in 1..t.numRows |-> Nil]]]

SetAt(s, row, x) == [r \in DOMAIN s |-> IF r = row THEN x ELSE s[r]]

SetVector(col, row, v) ==
  LET offset == (row - 1) * col.dim
  IN [col EXCEPT
       !.data = [i \in DOMAIN col.data |->
                   IF i - offset \in 1..col.dim THEN v[i - offset] ELSE col.data[i]],
       !.hasVec = SetAt(@, row, TRUE),
       !.invNorms = SetAt(@, row, vectorInvNorm(v))]

ClearVector(col, row) ==
  [col EXCEPT !.hasVec = SetAt(@, row, FALSE), !.invNorms = SetAt(@, row, 0)]

(* A row that exists: a deleted one first loses what the put leaves out.   *)
UpdateRow(t, row, vectors, attrs) ==
  [t EXCEPT
    !.tombstones = SetAt(@, row, FALSE),
    !.vectors = [c \in DOMAIN t.vectors |->
                   IF c \in staged(vectors) THEN SetVector(t.vectors[c], row, vectors[c])
                   ELSE IF t.tombstones[row] THEN ClearVector(t.vectors[c], row)
                   ELSE t.vectors[c]],
    !.attrs = [k \in DOMAIN t.attrs |->
                 IF k \in DOMAIN attrs /\ attrs[k] # Nil THEN SetAt(t.attrs[k], row, attrs[k])
                 ELSE IF t.tombstones[row] /\ k \notin DOMAIN attrs THEN SetAt(t.attrs[k], row, Nil)
                 ELSE t.attrs[k]]]

(* A new row: every column grows by one.                                   *)
AppendVector(col, given, v) ==
  [col EXCEPT !.data = @ \o (IF given THEN v ELSE Zeros(col.dim)),
              !.hasVec = Append(@, given),
              !.invNorms = Append(@, IF given THEN vectorInvNorm(v) ELSE 0)]

AppendRow(t, id, vectors, attrs) ==
  [t EXCEPT
    !.numRows = @ + 1,
    !.docIDs = Append(@, id),
    !.tombstones = Append(@, FALSE),
    !.index = [i \in DOMAIN t.index \cup {id} |-> IF i = id THEN t.numRows + 1 ELSE t.index[i]],
    !.vectors = [c \in DOMAIN t.vectors |->
                   AppendVector(t.vectors[c], c \in staged(vectors),
                                IF c \in DOMAIN vectors THEN vectors[c] ELSE << >>)],
    !.attrs = [k \in DOMAIN t.attrs |->
                 Append(t.attrs[k], IF k \in DOMAIN attrs THEN attrs[k] ELSE Nil)]]

Upsert(t, id, vectors, attrs) ==
  LET wide == WithColumns(t, vectors, attrs)
  IN IF Refused(t, vectors) THEN t
     ELSE IF id \in DOMAIN t.index THEN UpdateRow(wide, t.index[id], vectors, attrs)
     ELSE AppendRow(wide, id, vectors, attrs)

Delete(t, id) ==
  IF id \in DOMAIN t.index THEN [t EXCEPT !.tombstones = SetAt(@, t.index[id], TRUE)] ELSE t
-----------------------------------------------------------------------------
(* recordAt: the columns of one row.                                       *)
recordAt(t, row) ==
  [vectors |-> [c \in {c \in DOMAIN t.vectors : t.vectors[c].hasVec[row]} |->
                  LET dim == t.vectors[c].dim
                  IN SubSeq(t.vectors[c].data, (row - 1) * dim + 1, row * dim)],
   attrs   |-> [k \in {k \in DOMAIN t.attrs : t.attrs[k][row] # Nil} |-> t.attrs[k][row]]]
=============================================================================
