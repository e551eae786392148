----------------------------- MODULE MCServices -----------------------------
(* A small instance of Services.                                           *)
EXTENDS Services, TLC

CONSTANTS t1, t2, n1, odd, a1, a2

MCPair == {a1, a2}

Vec(c, v)  == [k \in {c} |-> v]
Attr(k, a) == [j \in {k} |-> a]
Upserted(id, vectors, attrs) == [op |-> "put", id |-> id, vectors |-> vectors, attrs |-> attrs]
Deleted(id) == [op |-> "delete", id |-> id, vectors |-> << >>, attrs |-> << >>]

(* Two passes overlap on a branch and its fork.  Segment a writes two      *)
(* documents, b deletes one and writes it again.                           *)
MCContents ==
  "a" :> <<Upserted(1, Vec("v", <<1, 2>>), Attr("k", 1)), Upserted(2, Vec("v", <<3, 3>>), Attr("k", 2))>>
  @@ "b" :> <<Deleted(1), Upserted(1, Vec("w", <<1>>), Attr("j", 1))>>

MCStorable(v) == TRUE

Symmetry == Permutations(MCPair)
=============================================================================
