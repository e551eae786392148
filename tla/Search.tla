------------------------------- MODULE Search -------------------------------
(***************************************************************************)
(* Table.Search: one scan over the rows that keeps the topK best hits in a *)
(* heap whose root is the worst of them.  The heap (container/heap) is a   *)
(* set of hits and its root a worst element; only hits with NaN scores can *)
(* be equally bad, and then any of them may be the root.                   *)
(*                                                                         *)
(* A score is a fraction num/den, so that scores compare exactly.  Cosine  *)
(* distances compare like minus the signed square of the similarity, from  *)
(* which the norm of the query drops out.                                  *)
(***************************************************************************)
EXTENDS Table

Score(num, den) == [nan |-> FALSE, num |-> num, den |-> den]
Undefined == [nan |-> TRUE, num |-> 0, den |-> 1]

Dot(a, b) == Total([i \in DOMAIN a |-> a[i] * b[i]])
L2(a, b) == Total([i \in DOMAIN a |-> (a[i] - b[i]) * (a[i] - b[i])])
SignedSquare(x) == IF x < 0 THEN -x * x ELSE x * x

ScoreOf(metric, q, v) ==
  IF ~Defined(q) \/ ~Defined(v) THEN Undefined
  ELSE CASE metric = "cosine"    -> Score(-SignedSquare(Dot(q, v)), vectorInvNorm(v))
         [] metric = "euclidean" -> Score(L2(q, v), 1)
         [] metric = "dot"       -> Score(Dot(q, v), 1)

(* The operators ==, > and cmp.Compare of Go on scores: NaN is unequal to  *)
(* everything, greater than nothing, and sorts before every number.        *)
Same(a, b) == ~a.nan /\ ~b.nan /\ a.num * b.den = b.num * a.den
Above(a, b) == ~a.nan /\ ~b.nan /\ a.num * b.den > b.num * a.den
Compare(a, b) ==
  IF (a.nan /\ ~b.nan) \/ Above(b, a) THEN -1 ELSE IF (b.nan /\ ~a.nan) \/ Above(a, b) THEN 1 ELSE 0

cmpAsc(a, b)  == IF Same(a.score, b.score) THEN a.id - b.id ELSE Compare(a.score, b.score)
cmpDesc(a, b) == IF Same(a.score, b.score) THEN a.id - b.id ELSE Compare(b.score, a.score)

Cmp(metric, a, b) == IF metric = "dot" THEN cmpDesc(a, b) ELSE cmpAsc(a, b)
-----------------------------------------------------------------------------
(* A search: col, query, topK, metric and filter, where the filter is an   *)
(* attribute with the value it must have, or empty.                        *)
Candidate(t, s, row) ==
  /\ ~t.tombstones[row]
  /\ t.vectors[s.col].hasVec[row]
  /\ \A k \in DOMAIN s.filter : t.attrs[k][row] = s.filter[k]
  /\ s.metric = "cosine" => t.vectors[s.col].invNorms[row] # 0

Hit(t, s, row) ==
  [row |-> row, id |-> t.docIDs[row],
   score |-> ScoreOf(s.metric, s.query, recordAt(t, row).vectors[s.col])]

Root(s, hits) == CHOOSE h \in hits : \A g \in hits : Cmp(s.metric, h, g) >= 0

PrunedOnTies(s, hits, score) ==
  /\ Cardinality(hits) = s.topK
  /\ IF s.metric = "dot" THEN ~Above(score, Root(s, hits).score) ELSE ~Above(Root(s, hits).score, score)

(* The cheap test against the root, before the hit is built.               *)
Pruned(s, hits, score) ==
  /\ Cardinality(hits) = s.topK
  /\ IF s.metric = "dot" THEN Above(Root(s, hits).score, score) ELSE Above(score, Root(s, hits).score)

Scan(t, s, hits, row) ==
  IF ~Candidate(t, s, row) \/ Pruned(s, hits, Hit(t, s, row).score) THEN hits
  ELSE IF Cardinality(hits) < s.topK THEN hits \cup {Hit(t, s, row)}
  ELSE IF Cmp(s.metric, Hit(t, s, row), Root(s, hits)) < 0
       THEN (hits \ {Root(s, hits)}) \cup {Hit(t, s, row)}
  ELSE hits

(* The guards, in their order.                                             *)
Empty(t, s) == s.topK <= 0 \/ s.col \notin DOMAIN t.vectors \/ t.numRows = 0

Faulty(t, s) ==
  \/ Len(s.query) # t.vectors[s.col].dim
  \/ s.metric = "cosine" /\ vectorInvNorm(s.query) = 0

Answer(t, s) ==
  IF Empty(t, s) THEN << >>
  ELSE IF Faulty(t, s) \/ ~(DOMAIN s.filter \subseteq DOMAIN t.attrs) THEN << >>
  ELSE SetToSortSeq(FoldLeft(LAMBDA hits, row : Scan(t, s, hits, row), {}, [r \in 1..t.numRows |-> r]),
                    LAMBDA a, b : Cmp(s.metric, a, b) < 0)
=============================================================================
