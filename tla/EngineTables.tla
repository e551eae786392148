---------------------------- MODULE EngineTables ----------------------------
(***************************************************************************)
(* What a sequence of mutations does to a table, and why a segment that    *)
(* was applied in part may be applied again, for every value of the        *)
(* constants.                                                              *)
(***************************************************************************)
EXTENDS EnginePart, TLAPS, WellFoundedInduction, SequenceTheorems

(* Induction over the naturals, for a set of them.                         *)
LEMMA SetInduction ==
  ASSUME NEW S, 0 \in S, \A n \in Nat : n \in S => n + 1 \in S
  PROVE  \A n \in Nat : n \in S
<1> SUFFICES ASSUME NEW m \in Nat, m \notin S PROVE FALSE
  BY Zenon
<1> DEFINE T == {n \in Nat : n \notin S}
<1>1. T \subseteq Nat /\ T # {}
  BY Zenon
<1>2. \E x \in T : \A y \in T : ~(<<y, x>> \in OpToRel(<, Nat))
  <2> HIDE DEF T
  <2> QED
    BY <1>1, NatLessThanWellFounded, WFMin, Zenon
<1>3. PICK x \in T : \A y \in T : ~(y < x)
  BY <1>2, Zenon DEF OpToRel
<1>4. x \in Nat /\ x \notin S /\ x # 0
  BY Zenon
<1>5. x - 1 \in Nat /\ x - 1 < x /\ (x - 1) + 1 = x
  BY <1>4
<1>6. x - 1 \in S
  BY <1>3, <1>5, Zenon
<1> QED
  BY <1>4, <1>5, <1>6, Zenon

(* The elements of a sequence after the first j, up to the k-th.           *)
LEMMA Slice ==
  ASSUME NEW S, NEW s \in Seq(S), NEW j \in 0..Len(s), NEW k \in j..Len(s)
  PROVE  /\ SubSeq(s, j + 1, k) \in Seq(S) /\ Len(SubSeq(s, j + 1, k)) = k - j
         /\ \A i \in 1..(k - j) : SubSeq(s, j + 1, k)[i] = s[j + i]
<1>1. j \in Int /\ k \in Int /\ j + 1 \in Int /\ j <= k /\ Len(s) \in Nat
  OBVIOUS
<1>2. \A i \in (j + 1)..k : s[i] \in S
  OBVIOUS
<1>3. PICK a \in Int : a = j + 1
  BY <1>1, Zenon
<1>4. \A i \in a..k : s[i] \in S
  BY <1>2, <1>3, Zenon
<1>5. /\ SubSeq(s, a, k) \in Seq(S)
      /\ Len(SubSeq(s, a, k)) = IF a <= k THEN k - a + 1 ELSE 0
      /\ \A i \in 1..(k - a + 1) : SubSeq(s, a, k)[i] = s[a + i - 1]
  BY <1>1, <1>4, SubSeqProperties
<1>6. k - a + 1 = k - j /\ (~(a <= k) => k - j = 0) /\ \A i \in 1..(k - j) : a + i - 1 = j + i
  BY <1>1, <1>3
<1> QED
  BY <1>3, <1>5, <1>6, Zenon

(* A sequence begins with the first of the two it is joined from.          *)
LEMMA Joined ==
  ASSUME NEW S, NEW a \in Seq(S), NEW b \in Seq(S)
  PROVE  /\ Len(a \o b) = Len(a) + Len(b) /\ Len(b) \in Nat
         /\ \A i \in 1..Len(a) : (a \o b)[i] = a[i]
  OBVIOUS

(* The first elements of a sequence.                                       *)
LEMMA Prefix ==
  ASSUME NEW S, NEW s \in Seq(S), NEW k \in 0..Len(s)
  PROVE  /\ SubSeq(s, 1, k) \in Seq(S) /\ Len(SubSeq(s, 1, k)) = k
         /\ \A i \in 1..k : SubSeq(s, 1, k)[i] = s[i]
<1>1. 0 \in 0..Len(s) /\ 0 + 1 = 1 /\ k - 0 = k /\ \A i \in 1..k : 0 + i = i
  OBVIOUS
<1> QED
  BY <1>1, Slice

(* A sequence is its first element and the others.                         *)
LEMMA FirstAndOthers ==
  ASSUME NEW S, NEW s \in Seq(S), Len(s) >= 1
  PROVE  /\ <<s[1]>> \in Seq(S) /\ SubSeq(s, 2, Len(s)) \in Seq(S)
         /\ s = <<s[1]>> \o SubSeq(s, 2, Len(s))
<1> DEFINE z == SubSeq(s, 2, Len(s))
<1>1. Len(s) \in Nat /\ 1 \in 0..Len(s) /\ Len(s) \in 1..Len(s) /\ 1 + 1 = 2
  OBVIOUS
<1>2. z \in Seq(S) /\ Len(z) = Len(s) - 1 /\ \A i \in 1..(Len(s) - 1) : z[i] = s[1 + i]
  <2>1. /\ SubSeq(s, 1 + 1, Len(s)) \in Seq(S) /\ Len(SubSeq(s, 1 + 1, Len(s))) = Len(s) - 1
        /\ \A i \in 1..(Len(s) - 1) : SubSeq(s, 1 + 1, Len(s))[i] = s[1 + i]
    BY <1>1, Slice, Zenon
  <2> QED
    BY <1>1, <2>1, Zenon
<1>3. PICK o : o = <<s[1]>>
  BY Zenon
<1>4. o \in Seq(S) /\ Len(o) = 1 /\ o[1] = s[1]
  <2>1. s[1] \in S
    BY <1>1
  <2> QED
    BY <1>3, <2>1
<1> HIDE DEF z
<1>5. /\ o \o z \in Seq(S) /\ Len(o \o z) = Len(s)
      /\ \A i \in 1..Len(s) : (o \o z)[i] = IF i <= 1 THEN o[i] ELSE z[i - 1]
  <2>1. /\ o \o z \in Seq(S) /\ Len(o \o z) = Len(o) + Len(z)
        /\ \A i \in 1..(Len(o) + Len(z)) : (o \o z)[i] = IF i <= Len(o) THEN o[i] ELSE z[i - Len(o)]
    <3>1. o \in Seq(S) /\ z \in Seq(S)
      BY <1>2, <1>4, Zenon
    <3> QED
      BY <3>1, ConcatProperties, Zenon
  <2>2. Len(o) + Len(z) = Len(s) /\ Len(o) = 1
    BY <1>1, <1>2, <1>4
  <2> QED
    BY <2>1, <2>2, Zenon
<1>6. ASSUME NEW i \in 1..Len(s) PROVE s[i] = (o \o z)[i]
  <2>1. CASE i = 1
    BY <2>1, <1>4, <1>5
  <2>2. CASE i # 1
    <3>1. i - 1 \in 1..(Len(s) - 1) /\ 1 + (i - 1) = i /\ ~(i <= 1)
      BY <2>2, <1>1
    <3> QED
      BY <3>1, <1>2, <1>5, Zenon
  <2> QED
    BY <2>1, <2>2, Zenon
<1>7. s = o \o z
  BY <1>5, <1>6, SeqEqual, Zenon
<1> QED
  BY <1>2, <1>3, <1>4, <1>7, Zenon DEF z
-----------------------------------------------------------------------------
(* A run of mutations: the tables it goes through.                         *)

IsRun(f, db, ms, n) ==
  /\ f[0] = db
  /\ \A i \in 1..n : f[i] = Engine!Apply(f[i - 1], ms[i])

(* Every sequence of mutations has a run.                                  *)
LEMMA RunExists ==
  ASSUME NEW db, NEW ms
  PROVE  \A n \in Nat : \E f : IsRun(f, db, ms, n)
<1> DEFINE S == {n \in Nat : \E f : IsRun(f, db, ms, n)}
<1>1. 0 \in S
  <2>1. IsRun([i \in 0..0 |-> db], db, ms, 0)
    BY DEF IsRun
  <2> QED
    BY <2>1, Zenon
<1>2. ASSUME NEW n \in Nat, n \in S PROVE n + 1 \in S
  <2>1. PICK f : IsRun(f, db, ms, n)
    BY <1>2, Zenon
  <2> DEFINE g == [i \in 0..(n + 1) |-> IF i = n + 1 THEN Engine!Apply(f[n], ms[n + 1]) ELSE f[i]]
  <2>2. g[0] = db
    BY <2>1 DEF IsRun
  <2>3. ASSUME NEW i \in 1..(n + 1) PROVE g[i] = Engine!Apply(g[i - 1], ms[i])
    <3>1. CASE i = n + 1
      BY <3>1
    <3>2. CASE i # n + 1
      BY <3>2, <2>1 DEF IsRun
    <3> QED
      BY <3>1, <3>2, Zenon
  <2>4. IsRun(g, db, ms, n + 1)
    BY <2>2, <2>3, Zenon DEF IsRun
  <2> QED
    BY <2>4
<1>3. \A n \in Nat : n \in S
  <2> HIDE DEF S
  <2> QED
    BY <1>1, <1>2, SetInduction, Zenon
<1> QED
  BY <1>3, Zenon

(* And only one: runs that begin alike go alike.                           *)
LEMMA RunUnique ==
  ASSUME NEW db, NEW f, NEW g, NEW ms, NEW ns, NEW n \in Nat, NEW m \in Nat,
         n <= m, IsRun(f, db, ms, n), IsRun(g, db, ns, m),
         \A i \in 1..n : ms[i] = ns[i]
  PROVE  \A i \in 0..n : f[i] = g[i]
<1> DEFINE S == {i \in Nat : i <= n => f[i] = g[i]}
<1>1. 0 \in S
  BY Zenon DEF IsRun
<1>2. ASSUME NEW i \in Nat, i \in S PROVE i + 1 \in S
  <2> SUFFICES ASSUME i + 1 <= n PROVE f[i + 1] = g[i + 1]
    OBVIOUS
  <2>1. i + 1 \in 1..n /\ i + 1 \in 1..m /\ (i + 1) - 1 = i /\ f[i] = g[i]
    BY <1>2
  <2> QED
    BY <2>1, Zenon DEF IsRun
<1>3. \A i \in Nat : i \in S
  <2> HIDE DEF S
  <2> QED
    BY <1>1, <1>2, SetInduction, Zenon
<1> QED
  BY <1>3

(* State is where the run ends.                                            *)
LEMMA StateIsRun ==
  ASSUME NEW db, NEW ms, Len(ms) \in Nat
  PROVE  \E f : IsRun(f, db, ms, Len(ms)) /\ Engine!State(db, ms) = f[Len(ms)]
<1> DEFINE n == Len(ms)
           F(f) == [i \in 0..n |-> IF i = 0 THEN db ELSE Engine!Apply(f[i - 1], ms[i])]
<1> HIDE DEF n
<1>0. n \in Nat
  BY Zenon DEF n
<1>1. PICK r : IsRun(r, db, ms, n)
  BY <1>0, RunExists, Zenon
<1> DEFINE g == [i \in 0..n |-> r[i]]
<1>2. g = F(g)
  <2>1. ASSUME NEW i \in 0..n
        PROVE  r[i] = IF i = 0 THEN db ELSE Engine!Apply(g[i - 1], ms[i])
    <3>1. CASE i = 0
      BY <3>1, <1>1, Zenon DEF IsRun
    <3>2. CASE i # 0
      <4>1. i \in 1..n /\ i - 1 \in 0..n
        BY <3>2, <1>0
      <4> QED
        BY <3>2, <4>1, <1>1, Zenon DEF IsRun
    <3> QED
      BY <3>1, <3>2, Zenon
  <2> QED
    BY <2>1, Zenon
<1> DEFINE a == CHOOSE f : f = F(f)
<1>3. a = F(a)
  <2> HIDE DEF g, F
  <2> QED
    BY <1>2, Zenon
<1>4. Engine!State(db, ms) = a[n]
  BY Zenon DEF Engine!State, n
<1>5. IsRun(a, db, ms, n)
  <2> HIDE DEF a
  <2> QED
    BY <1>3, <1>0 DEF IsRun
<1> QED
  BY <1>4, <1>5, Zenon DEF n

(* The state after some of the mutations of a run.                         *)
LEMMA StateOnRun ==
  ASSUME NEW db, NEW f, NEW ms, NEW ns, NEW n \in Nat, IsRun(f, db, ms, n),
         Len(ns) \in Nat, Len(ns) <= n, \A i \in 1..Len(ns) : ns[i] = ms[i]
  PROVE  Engine!State(db, ns) = f[Len(ns)]
<1>1. PICK g : IsRun(g, db, ns, Len(ns)) /\ Engine!State(db, ns) = g[Len(ns)]
  BY StateIsRun, Zenon
<1>2. \A i \in 0..Len(ns) : g[i] = f[i]
  <2> DEFINE m == Len(ns)
  <2>1. m \in Nat /\ m <= n /\ IsRun(g, db, ns, m) /\ \A i \in 1..m : ns[i] = ms[i]
    BY <1>1, Zenon
  <2> HIDE DEF m
  <2>2. \A i \in 0..m : g[i] = f[i]
    BY <2>1, RunUnique
  <2> QED
    BY <2>2, Zenon DEF m
<1> QED
  BY <1>1, <1>2

(* A run is clean when no table on the way refuses the next mutation.      *)
LEMMA CleanOnRun ==
  ASSUME NEW M, NEW ms \in Seq(M), NEW db, NEW f, IsRun(f, db, ms, Len(ms))
  PROVE  /\ \A i \in 0..Len(ms) : Engine!State(db, SubSeq(ms, 1, i)) = f[i]
         /\ Engine!State(db, ms) = f[Len(ms)]
         /\ Engine!Clean(db, ms) <=> \A i \in 1..Len(ms) : ~Engine!Refuses(f[i - 1], ms[i])
<1>1. ASSUME NEW i \in 0..Len(ms) PROVE Engine!State(db, SubSeq(ms, 1, i)) = f[i]
  <2> DEFINE ns == SubSeq(ms, 1, i)
  <2>1. Len(ns) = i /\ \A j \in 1..i : ns[j] = ms[j]
    OBVIOUS
  <2>2. i \in Nat /\ i <= Len(ms) /\ Len(ms) \in Nat
    OBVIOUS
  <2> HIDE DEF ns
  <2>3. Engine!State(db, ns) = f[i]
    BY <2>1, <2>2, StateOnRun
  <2> QED
    BY <2>3, Zenon DEF ns
<1>2. Engine!State(db, ms) = f[Len(ms)]
  BY StateOnRun
<1>3. ASSUME NEW i \in 1..Len(ms) PROVE Engine!State(db, SubSeq(ms, 1, i - 1)) = f[i - 1]
  BY <1>1
<1>4. DOMAIN ms = 1..Len(ms)
  OBVIOUS
<1> QED
  BY <1>1, <1>2, <1>3, <1>4, Zenon DEF Engine!Clean

(* Two sequences of mutations in a row.                                    *)
LEMMA StateConcat ==
  ASSUME NEW M, NEW a \in Seq(M), NEW b \in Seq(M), NEW db
  PROVE  /\ Engine!State(db, a \o b) = Engine!State(Engine!State(db, a), b)
         /\ Engine!Clean(db, a \o b) <=> Engine!Clean(db, a) /\ Engine!Clean(Engine!State(db, a), b)
<1> DEFINE c == a \o b
           n == Len(a)
           m == Len(b)
<1>1. /\ n \in Nat /\ m \in Nat /\ c \in Seq(M) /\ Len(c) = n + m
      /\ \A i \in 1..n : c[i] = a[i]
      /\ \A i \in 1..m : c[n + i] = b[i]
  OBVIOUS
<1>2. PICK f : IsRun(f, db, c, n + m)
  <2>1. n + m \in Nat
    BY <1>1
  <2> HIDE DEF c, n, m
  <2> QED
    BY <2>1, RunExists, Zenon
<1> DEFINE g == [i \in 0..m |-> f[n + i]]
<1> HIDE DEF c, n, m
<1>3. Engine!State(db, a) = f[n]
  <2>1. Len(a) = n /\ n <= n + m
    BY <1>1 DEF n
  <2>2. n + m \in Nat /\ Len(a) \in Nat /\ Len(a) <= n + m
    BY <1>1, <2>1
  <2>3. \A i \in 1..Len(a) : a[i] = c[i]
    BY <1>1, <2>1, Zenon
  <2>4. Engine!State(db, a) = f[Len(a)]
    BY <2>2, <2>3, <1>2, StateOnRun
  <2> QED
    BY <2>1, <2>4, Zenon
<1>4. IsRun(g, f[n], b, m)
  <2>1. ASSUME NEW i \in 1..m PROVE g[i] = Engine!Apply(g[i - 1], b[i])
    <3>1. /\ n + i \in 1..(n + m) /\ (n + i) - 1 = n + (i - 1) /\ i \in 0..m /\ i - 1 \in 0..m
          /\ c[n + i] = b[i]
      BY <1>1
    <3>2. f[n + i] = Engine!Apply(f[(n + i) - 1], c[n + i])
      BY <3>1, <1>2, Zenon DEF IsRun
    <3> QED
      BY <3>1, <3>2, Zenon
  <2>2. g[0] = f[n]
    <3>1. 0 \in 0..m /\ n + 0 = n
      BY <1>1
    <3> QED
      BY <3>1, Zenon
  <2> QED
    BY <2>1, <2>2, Zenon DEF IsRun
<1>5. IsRun(f, db, a, n)
  <2>1. ASSUME NEW i \in 1..n PROVE f[i] = Engine!Apply(f[i - 1], a[i])
    BY <1>1, <1>2 DEF IsRun
  <2> QED
    BY <2>1, <1>2, Zenon DEF IsRun
<1>6. /\ Engine!State(db, c) = f[n + m]
      /\ Engine!Clean(db, c) <=> \A i \in 1..(n + m) : ~Engine!Refuses(f[i - 1], c[i])
  <2>1. IsRun(f, db, c, Len(c))
    BY <1>1, <1>2, Zenon
  <2>2. /\ Engine!State(db, c) = f[Len(c)]
        /\ Engine!Clean(db, c) <=> \A i \in 1..Len(c) : ~Engine!Refuses(f[i - 1], c[i])
    BY <1>1, <2>1, CleanOnRun, Zenon
  <2> QED
    BY <1>1, <2>2, Zenon
<1>7. Engine!Clean(db, a) <=> \A i \in 1..n : ~Engine!Refuses(f[i - 1], a[i])
  BY <1>5, CleanOnRun, Zenon DEF n
<1>8. /\ Engine!State(f[n], b) = g[m]
      /\ Engine!Clean(f[n], b) <=> \A i \in 1..m : ~Engine!Refuses(g[i - 1], b[i])
  BY <1>4, CleanOnRun, Zenon DEF m
<1>9. g[m] = f[n + m] /\ \A i \in 1..m : g[i - 1] = f[(n + i) - 1]
  <2>1. m \in 0..m /\ \A i \in 1..m : i - 1 \in 0..m /\ n + (i - 1) = (n + i) - 1
    BY <1>1
  <2>2. \A i \in 0..m : g[i] = f[n + i]
    BY Zenon
  <2> HIDE DEF g
  <2> QED
    BY <2>1, <2>2, Zenon
<1>10. (\A i \in 1..(n + m) : ~Engine!Refuses(f[i - 1], c[i])) <=>
         /\ \A i \in 1..n : ~Engine!Refuses(f[i - 1], a[i])
         /\ \A i \in 1..m : ~Engine!Refuses(g[i - 1], b[i])
  <2> HIDE DEF g
  <2>1. \A i \in 1..n : i \in 1..(n + m)
    BY <1>1
  <2>2. \A i \in 1..m : n + i \in 1..(n + m)
    BY <1>1
  <2>3. \A i \in 1..(n + m) : i \in 1..n \/ (i - n \in 1..m /\ n + (i - n) = i)
    BY <1>1
  <2>4. ASSUME \A i \in 1..(n + m) : ~Engine!Refuses(f[i - 1], c[i])
        PROVE  /\ \A i \in 1..n : ~Engine!Refuses(f[i - 1], a[i])
               /\ \A i \in 1..m : ~Engine!Refuses(g[i - 1], b[i])
    <3>1. ASSUME NEW i \in 1..n PROVE ~Engine!Refuses(f[i - 1], a[i])
      <4>1. c[i] = a[i]
        BY <1>1, Zenon
      <4> QED
        BY <4>1, <2>1, <2>4, Zenon
    <3>2. ASSUME NEW i \in 1..m PROVE ~Engine!Refuses(g[i - 1], b[i])
      <4>1. c[n + i] = b[i] /\ g[i - 1] = f[(n + i) - 1]
        BY <1>1, <1>9, Zenon
      <4> QED
        BY <4>1, <2>2, <2>4, Zenon
    <3> QED
      BY <3>1, <3>2, Zenon
  <2>5. ASSUME \A i \in 1..n : ~Engine!Refuses(f[i - 1], a[i]),
               \A i \in 1..m : ~Engine!Refuses(g[i - 1], b[i]),
               NEW i \in 1..(n + m)
        PROVE  ~Engine!Refuses(f[i - 1], c[i])
    <3>1. CASE i \in 1..n
      <4>1. c[i] = a[i]
        BY <3>1, <1>1, Zenon
      <4> QED
        BY <4>1, <3>1, <2>5, Zenon
    <3>2. CASE i - n \in 1..m /\ n + (i - n) = i
      <4>1. c[i] = b[i - n] /\ g[(i - n) - 1] = f[i - 1]
        BY <3>2, <1>1, <1>9, Zenon
      <4> QED
        BY <4>1, <3>2, <2>5, Zenon
    <3> QED
      BY <3>1, <3>2, <2>3, Zenon
  <2> QED
    BY <2>4, <2>5, Zenon
<1> QED
  BY <1>3, <1>6, <1>7, <1>8, <1>9, <1>10, Zenon DEF c
-----------------------------------------------------------------------------
(* A table cell by cell: that a document is there, and the value of each   *)
(* of its columns and attributes.                                          *)

IsFcn(f) == f = [x \in DOMAIN f |-> f[x]]

IsDoc(d) == d = [vectors |-> d.vectors, attrs |-> d.attrs] /\ IsFcn(d.vectors) /\ IsFcn(d.attrs)

IsTable(db) ==
  /\ db = [dims |-> db.dims, docs |-> db.docs]
  /\ IsFcn(db.dims) /\ IsFcn(db.docs)
  /\ \A id \in DOMAIN db.docs : IsDoc(db.docs[id])

Holds(db, kind, id, x, v) ==
  /\ id \in DOMAIN db.docs
  /\ \/ kind = "doc"
     \/ kind = "vector" /\ x \in DOMAIN db.docs[id].vectors /\ db.docs[id].vectors[x] = v
     \/ kind = "attr" /\ x \in DOMAIN db.docs[id].attrs /\ db.docs[id].attrs[x] = v

Columns(m) == DOMAIN Engine!Given(m.vectors)

(* A mutation gives a cell its value, or takes away what it had.           *)
Gives(m, kind, id, x, v) ==
  /\ m.op = "put" /\ m.id = id
  /\ \/ kind = "doc"
     \/ kind = "vector" /\ x \in Columns(m) /\ Engine!Given(m.vectors)[x] = v
     \/ kind = "attr" /\ x \in DOMAIN m.attrs /\ m.attrs[x] = v

Erases(m, kind, id, x) ==
  /\ m.id = id
  /\ \/ m.op # "put"
     \/ kind = "doc"
     \/ kind = "vector" /\ x \in Columns(m)
     \/ kind = "attr" /\ x \in DOMAIN m.attrs

(* Tables with the same cells and dimensions are the same.                 *)
LEMMA TablesEqual ==
  ASSUME NEW db, NEW eb, IsTable(db), IsTable(eb), db.dims = eb.dims,
         \A kind, id, x, v : Holds(db, kind, id, x, v) <=> Holds(eb, kind, id, x, v)
  PROVE  db = eb
<1>1. DOMAIN db.docs = DOMAIN eb.docs
  <2>1. \A id : Holds(db, "doc", id, 0, 0) <=> id \in DOMAIN db.docs
    BY Zenon DEF Holds
  <2>2. \A id : Holds(eb, "doc", id, 0, 0) <=> id \in DOMAIN eb.docs
    BY Zenon DEF Holds
  <2> QED
    BY <2>1, <2>2, Zenon
<1>2. ASSUME NEW id \in DOMAIN db.docs PROVE db.docs[id] = eb.docs[id]
  <2> DEFINE d == db.docs[id]
             e == eb.docs[id]
  <2>1. \A x, v : Holds(db, "vector", id, x, v) <=> x \in DOMAIN d.vectors /\ d.vectors[x] = v
    BY Zenon DEF Holds
  <2>2. \A x, v : Holds(eb, "vector", id, x, v) <=> x \in DOMAIN e.vectors /\ e.vectors[x] = v
    BY <1>1, Zenon DEF Holds
  <2>3. \A x, v : Holds(db, "attr", id, x, v) <=> x \in DOMAIN d.attrs /\ d.attrs[x] = v
    BY Zenon DEF Holds
  <2>4. \A x, v : Holds(eb, "attr", id, x, v) <=> x \in DOMAIN e.attrs /\ e.attrs[x] = v
    BY <1>1, Zenon DEF Holds
  <2>5. IsDoc(d) /\ IsDoc(e)
    BY <1>1, Zenon DEF IsTable
  <2> HIDE DEF d, e
  <2>6. \A x, v : (x \in DOMAIN d.vectors /\ d.vectors[x] = v) <=> (x \in DOMAIN e.vectors /\ e.vectors[x] = v)
    BY <2>1, <2>2, Zenon
  <2>7. DOMAIN d.vectors = DOMAIN e.vectors /\ \A x \in DOMAIN d.vectors : d.vectors[x] = e.vectors[x]
    BY <2>6, Zenon
  <2>8. \A x, v : (x \in DOMAIN d.attrs /\ d.attrs[x] = v) <=> (x \in DOMAIN e.attrs /\ e.attrs[x] = v)
    BY <2>3, <2>4, Zenon
  <2>9. DOMAIN d.attrs = DOMAIN e.attrs /\ \A x \in DOMAIN d.attrs : d.attrs[x] = e.attrs[x]
    BY <2>8, Zenon
  <2>10. d.vectors = e.vectors
    BY <2>5, <2>7, Zenon DEF IsDoc, IsFcn
  <2>11. d.attrs = e.attrs
    BY <2>5, <2>9, Zenon DEF IsDoc, IsFcn
  <2>12. d = e
    BY <2>5, <2>10, <2>11, Zenon DEF IsDoc
  <2> QED
    BY <2>12, Zenon DEF d, e
<1>3. db.docs = eb.docs
  BY <1>1, <1>2, Zenon DEF IsTable, IsFcn
<1> QED
  BY <1>3, Zenon DEF IsTable

(* What an accepted put makes of a table.                                  *)
PutEffect(new, db, m) ==
  /\ IsTable(new)
  /\ DOMAIN new.docs = DOMAIN db.docs \cup {m.id}
  /\ \A id \in DOMAIN db.docs \ {m.id} : new.docs[id] = db.docs[id]
  /\ \A x, v :
       /\ (x \in DOMAIN new.docs[m.id].vectors /\ new.docs[m.id].vectors[x] = v) <=>
            \/ x \in Columns(m) /\ Engine!Given(m.vectors)[x] = v
            \/ /\ x \notin Columns(m)
               /\ m.id \in DOMAIN db.docs
               /\ x \in DOMAIN db.docs[m.id].vectors /\ db.docs[m.id].vectors[x] = v
       /\ (x \in DOMAIN new.docs[m.id].attrs /\ new.docs[m.id].attrs[x] = v) <=>
            \/ x \in DOMAIN m.attrs /\ m.attrs[x] = v
            \/ /\ x \notin DOMAIN m.attrs
               /\ m.id \in DOMAIN db.docs
               /\ x \in DOMAIN db.docs[m.id].attrs /\ db.docs[m.id].attrs[x] = v
  /\ DOMAIN new.dims = DOMAIN db.dims \cup Columns(m)
  /\ \A c \in DOMAIN new.dims :
       new.dims[c] = IF c \in DOMAIN db.dims THEN db.dims[c] ELSE Len(m.vectors[c])

(* Put has that effect.                                                    *)
LEMMA PutIs ==
  ASSUME NEW db, NEW m, IsTable(db), Engine!Fits(db, m.vectors)
  PROVE  PutEffect(Engine!Put(db, m), db, m)
<1> DEFINE new  == Engine!Put(db, m)
           old  == IF m.id \in DOMAIN db.docs THEN db.docs[m.id] ELSE Engine!Blank
           doc  == [vectors |-> Engine!Override(old.vectors, Engine!Given(m.vectors)),
                    attrs   |-> Engine!Override(old.attrs, m.attrs)]
           lens == [c \in DOMAIN Engine!Given(m.vectors) |-> Len(m.vectors[c])]
           one  == [id \in {m.id} |-> doc]
<1>1. /\ new.dims = Engine!Override(lens, db.dims)
      /\ new.docs = Engine!Override(db.docs, one)
      /\ new = [dims |-> new.dims, docs |-> new.docs]
  BY Zenon DEF Engine!Put
<1>2. DOMAIN one = {m.id} /\ one[m.id] = doc
  BY Zenon
<1>3. DOMAIN lens = Columns(m) /\ \A c \in DOMAIN lens : lens[c] = Len(m.vectors[c])
  BY Zenon DEF Columns
<1>4. /\ doc.vectors = Engine!Override(old.vectors, Engine!Given(m.vectors))
      /\ doc.attrs = Engine!Override(old.attrs, m.attrs)
      /\ doc = [vectors |-> doc.vectors, attrs |-> doc.attrs]
  BY Zenon
<1>5. \/ m.id \in DOMAIN db.docs /\ old = db.docs[m.id]
      \/ m.id \notin DOMAIN db.docs /\ DOMAIN old.vectors = {} /\ DOMAIN old.attrs = {}
  BY DEF Engine!Blank
<1> HIDE DEF new, old, doc, lens, one
<1>6. /\ DOMAIN new.docs = DOMAIN db.docs \cup {m.id}
      /\ \A id \in DOMAIN db.docs \ {m.id} : new.docs[id] = db.docs[id]
      /\ new.docs[m.id] = doc
      /\ IsFcn(new.docs)
  BY <1>1, <1>2, Zenon DEF Engine!Override, IsFcn
<1>7. /\ DOMAIN new.dims = DOMAIN db.dims \cup Columns(m)
      /\ \A c \in DOMAIN new.dims :
           new.dims[c] = IF c \in DOMAIN db.dims THEN db.dims[c] ELSE Len(m.vectors[c])
      /\ IsFcn(new.dims)
  BY <1>1, <1>3, Zenon DEF Engine!Override, IsFcn
<1>8. IsDoc(doc)
  BY <1>4, Zenon DEF IsDoc, Engine!Override, IsFcn
<1>9. IsTable(new)
  BY <1>1, <1>6, <1>7, <1>8, Zenon DEF IsTable
<1>10. ASSUME NEW x, NEW v
       PROVE  (x \in DOMAIN doc.vectors /\ doc.vectors[x] = v) <=>
                \/ x \in Columns(m) /\ Engine!Given(m.vectors)[x] = v
                \/ /\ x \notin Columns(m)
                   /\ m.id \in DOMAIN db.docs
                   /\ x \in DOMAIN db.docs[m.id].vectors /\ db.docs[m.id].vectors[x] = v
  BY <1>4, <1>5 DEF Columns, Engine!Override
<1>11. ASSUME NEW x, NEW v
       PROVE  (x \in DOMAIN doc.attrs /\ doc.attrs[x] = v) <=>
                \/ x \in DOMAIN m.attrs /\ m.attrs[x] = v
                \/ /\ x \notin DOMAIN m.attrs
                   /\ m.id \in DOMAIN db.docs
                   /\ x \in DOMAIN db.docs[m.id].attrs /\ db.docs[m.id].attrs[x] = v
  BY <1>4, <1>5 DEF Engine!Override
<1>12. ASSUME NEW x, NEW v
       PROVE  /\ (x \in DOMAIN new.docs[m.id].vectors /\ new.docs[m.id].vectors[x] = v) <=>
                   \/ x \in Columns(m) /\ Engine!Given(m.vectors)[x] = v
                   \/ /\ x \notin Columns(m)
                      /\ m.id \in DOMAIN db.docs
                      /\ x \in DOMAIN db.docs[m.id].vectors /\ db.docs[m.id].vectors[x] = v
              /\ (x \in DOMAIN new.docs[m.id].attrs /\ new.docs[m.id].attrs[x] = v) <=>
                   \/ x \in DOMAIN m.attrs /\ m.attrs[x] = v
                   \/ /\ x \notin DOMAIN m.attrs
                      /\ m.id \in DOMAIN db.docs
                      /\ x \in DOMAIN db.docs[m.id].attrs /\ db.docs[m.id].attrs[x] = v
  <2>1. new.docs[m.id] = doc
    BY <1>6, Zenon
  <2> QED
    BY <2>1, <1>10, <1>11
<1>13. PutEffect(new, db, m)
  <2>1. IsTable(new)
    BY <1>9, Zenon
  <2>2. /\ DOMAIN new.docs = DOMAIN db.docs \cup {m.id}
        /\ \A id \in DOMAIN db.docs \ {m.id} : new.docs[id] = db.docs[id]
    BY <1>6, Zenon
  <2>3. /\ DOMAIN new.dims = DOMAIN db.dims \cup Columns(m)
        /\ \A c \in DOMAIN new.dims :
             new.dims[c] = IF c \in DOMAIN db.dims THEN db.dims[c] ELSE Len(m.vectors[c])
    BY <1>7, Zenon
  <2> QED
    BY <2>1, <2>2, <2>3, <1>12, Zenon, Zenon DEF PutEffect
<1> QED
  BY <1>13, Zenon DEF new

(* What a delete does.                                                     *)
LEMMA ForgetIs ==
  ASSUME NEW db, NEW m, IsTable(db)
  PROVE  LET new == Engine!Forget(db, m)
         IN /\ IsTable(new) /\ new.dims = db.dims
            /\ DOMAIN new.docs = DOMAIN db.docs \ {m.id}
            /\ \A id \in DOMAIN db.docs \ {m.id} : new.docs[id] = db.docs[id]
<1> DEFINE new == Engine!Forget(db, m)
<1>1. db = [dims |-> db.dims, docs |-> db.docs]
  BY Zenon DEF IsTable
<1>2. new = [dims |-> db.dims, docs |-> Engine!Only(db.docs, DOMAIN db.docs \ {m.id})]
  BY <1>1 DEF Engine!Forget
<1>3. /\ DOMAIN Engine!Only(db.docs, DOMAIN db.docs \ {m.id}) = DOMAIN db.docs \ {m.id}
      /\ \A id \in DOMAIN db.docs \ {m.id} : Engine!Only(db.docs, DOMAIN db.docs \ {m.id})[id] = db.docs[id]
      /\ IsFcn(Engine!Only(db.docs, DOMAIN db.docs \ {m.id}))
  BY Zenon DEF Engine!Only, IsFcn
<1> HIDE DEF new
<1>4. IsTable(new)
  BY <1>2, <1>3, Zenon DEF IsTable
<1> QED
  BY <1>2, <1>3, <1>4 DEF new

(* A mutation is a put or one of the ways to forget.                       *)
LEMMA ApplyMeans ==
  ASSUME NEW db, NEW m
  PROVE  Engine!Apply(db, m) = IF m.op = "put" THEN Engine!Put(db, m) ELSE Engine!Forget(db, m)
<1> DEFINE new == IF m.op = "put" THEN Engine!Put(db, m) ELSE Engine!Forget(db, m)
           news == {IF m.op = "put" THEN Engine!Put(d, m) ELSE Engine!Forget(d, m) : d \in {db}}
<1>1. \A x : x \in news <=> x = new
  BY Zenon
<1>2. Engine!Apply(db, m) = CHOOSE x \in news : TRUE
  BY Zenon DEF Engine!Apply
<1> HIDE DEF new, news
<1>3. (CHOOSE x \in news : TRUE) \in news
  BY <1>1, Zenon
<1> QED
  BY <1>1, <1>2, <1>3, Zenon DEF new

(* A mutation that is not refused, cell by cell.                           *)
LEMMA ApplyIs ==
  ASSUME NEW db, NEW m, IsTable(db), ~Engine!Refuses(db, m)
  PROVE  LET new == Engine!Apply(db, m)
             cols == IF m.op = "put" THEN Columns(m) ELSE {}
         IN /\ IsTable(new)
            /\ DOMAIN new.dims = DOMAIN db.dims \cup cols
            /\ \A c \in DOMAIN new.dims :
                 new.dims[c] = IF c \in DOMAIN db.dims THEN db.dims[c] ELSE Len(m.vectors[c])
            /\ \A kind, id, x, v :
                 Holds(new, kind, id, x, v) <=>
                   \/ Gives(m, kind, id, x, v)
                   \/ ~Erases(m, kind, id, x) /\ Holds(db, kind, id, x, v)
<1> DEFINE new == Engine!Apply(db, m)
<1>1. CASE m.op = "put"
  <2>1. new = Engine!Put(db, m) /\ Engine!Fits(db, m.vectors)
    BY <1>1, ApplyMeans, Zenon DEF Engine!Refuses
  <2>2. ASSUME NEW kind, NEW id, NEW x, NEW v
        PROVE  Holds(new, kind, id, x, v) <=>
                 \/ Gives(m, kind, id, x, v)
                 \/ ~Erases(m, kind, id, x) /\ Holds(db, kind, id, x, v)
    <3> HIDE DEF new
    <3>1. CASE id = m.id
      <4>1. /\ id \in DOMAIN new.docs
            /\ (x \in DOMAIN new.docs[id].vectors /\ new.docs[id].vectors[x] = v) <=>
                 \/ x \in Columns(m) /\ Engine!Given(m.vectors)[x] = v
                 \/ /\ x \notin Columns(m)
                    /\ id \in DOMAIN db.docs
                    /\ x \in DOMAIN db.docs[id].vectors /\ db.docs[id].vectors[x] = v
            /\ (x \in DOMAIN new.docs[id].attrs /\ new.docs[id].attrs[x] = v) <=>
                 \/ x \in DOMAIN m.attrs /\ m.attrs[x] = v
                 \/ /\ x \notin DOMAIN m.attrs
                    /\ id \in DOMAIN db.docs
                    /\ x \in DOMAIN db.docs[id].attrs /\ db.docs[id].attrs[x] = v
        BY <2>1, <3>1, PutIs DEF PutEffect
      <4> QED
        BY <1>1, <3>1, <4>1, Zenon DEF Holds, Gives, Erases
    <3>2. CASE id # m.id
      BY <1>1, <2>1, <3>2, PutIs DEF PutEffect, Holds, Gives, Erases
    <3> QED
      BY <3>1, <3>2, Zenon
  <2> QED
    BY <1>1, <2>1, <2>2, PutIs DEF PutEffect
<1>2. CASE m.op # "put"
  <2>1. new = Engine!Forget(db, m)
    BY <1>2, ApplyMeans, Zenon
  <2>2. ASSUME NEW kind, NEW id, NEW x, NEW v
        PROVE  Holds(new, kind, id, x, v) <=>
                 \/ Gives(m, kind, id, x, v)
                 \/ ~Erases(m, kind, id, x) /\ Holds(db, kind, id, x, v)
    <3> HIDE DEF new
    <3> QED
      BY <1>2, <2>1, ForgetIs DEF Holds, Gives, Erases
  <2> QED
    BY <1>2, <2>1, <2>2, ForgetIs
<1> QED
  BY <1>1, <1>2, Zenon
-----------------------------------------------------------------------------
(* Applying a segment again.                                               *)

DimsIn(d, e) == DOMAIN d \subseteq DOMAIN e /\ \A c \in DOMAIN d : d[c] = e[c]

CleanRun(f, ms, n) == \A i \in 1..n : ~Engine!Refuses(f[i - 1], ms[i])

(* A table with fewer columns refuses less.                                *)
LEMMA FewerRefusals ==
  ASSUME NEW db, NEW eb, NEW m, DimsIn(db.dims, eb.dims), ~Engine!Refuses(eb, m)
  PROVE  ~Engine!Refuses(db, m)
BY Zenon DEF DimsIn, Engine!Refuses, Engine!Fits

(* A clean run keeps the columns it finds, has every column of a put, and  *)
(* leaves alone the cells that no mutation touches.                        *)
LEMMA RunKeeps ==
  ASSUME NEW db, NEW ms, NEW n \in Nat, NEW f, IsTable(db), IsRun(f, db, ms, n), CleanRun(f, ms, n)
  PROVE  \A i \in 0..n :
           /\ IsTable(f[i]) /\ DimsIn(db.dims, f[i].dims)
           /\ \A l \in 1..i : ms[l].op = "put" => Columns(ms[l]) \subseteq DOMAIN f[i].dims
           /\ \A kind, id, x, v :
                (\A l \in 1..i : ~Erases(ms[l], kind, id, x))
                  => (Holds(f[i], kind, id, x, v) <=> Holds(db, kind, id, x, v))
<1> DEFINE P(i) == /\ IsTable(f[i]) /\ DimsIn(db.dims, f[i].dims)
                   /\ \A l \in 1..i : ms[l].op = "put" => Columns(ms[l]) \subseteq DOMAIN f[i].dims
                   /\ \A kind, id, x, v :
                        (\A l \in 1..i : ~Erases(ms[l], kind, id, x))
                          => (Holds(f[i], kind, id, x, v) <=> Holds(db, kind, id, x, v))
           S == {i \in Nat : i <= n => P(i)}
<1>1. 0 \in S
  <2>1. f[0] = db
    BY Zenon DEF IsRun
  <2>2. DimsIn(db.dims, db.dims)
    BY Zenon DEF DimsIn
  <2> QED
    BY <2>1, <2>2
<1>2. ASSUME NEW i \in Nat, i \in S PROVE i + 1 \in S
  <2> SUFFICES ASSUME i + 1 <= n PROVE P(i + 1)
    OBVIOUS
  <2>1. P(i)
    BY <1>2
  <2>2. i + 1 \in 1..n /\ (i + 1) - 1 = i
    OBVIOUS
  <2> DEFINE old == f[i]
             new == f[i + 1]
             m == ms[i + 1]
  <2>3. new = Engine!Apply(old, m) /\ ~Engine!Refuses(old, m) /\ IsTable(old)
    BY <2>1, <2>2, Zenon DEF IsRun, CleanRun
  <2>4. IsTable(new) /\ DimsIn(old.dims, new.dims)
        /\ (m.op = "put" => Columns(m) \subseteq DOMAIN new.dims)
    <3> HIDE DEF old, new, m, P
    <3> QED
      BY <2>3, ApplyIs DEF DimsIn
  <2>5. DimsIn(db.dims, new.dims)
    BY <2>1, <2>4, Zenon DEF DimsIn
  <2>6. ASSUME NEW l \in 1..(i + 1), ms[l].op = "put" PROVE Columns(ms[l]) \subseteq DOMAIN new.dims
    <3>1. CASE l = i + 1
      BY <3>1, <2>4, <2>6, Zenon
    <3>2. CASE l # i + 1
      <4>1. l \in 1..i
        BY <3>2
      <4>2. Columns(ms[l]) \subseteq DOMAIN old.dims
        BY <4>1, <2>1, <2>6, Zenon
      <4> QED
        BY <4>2, <2>4, Zenon DEF DimsIn
    <3> QED
      BY <3>1, <3>2, Zenon
  <2>7. ASSUME NEW kind, NEW id, NEW x, NEW v, \A l \in 1..(i + 1) : ~Erases(ms[l], kind, id, x)
        PROVE  Holds(new, kind, id, x, v) <=> Holds(db, kind, id, x, v)
    <3>1. ~Erases(m, kind, id, x) /\ \A l \in 1..i : ~Erases(ms[l], kind, id, x)
      BY <2>7
    <3>2. ~Gives(m, kind, id, x, v)
      BY <3>1, Zenon DEF Gives, Erases
    <3>3. Holds(old, kind, id, x, v) <=> Holds(db, kind, id, x, v)
      BY <3>1, <2>1, Zenon
    <3>4. Holds(new, kind, id, x, v) <=> Holds(old, kind, id, x, v)
      <4> HIDE DEF old, new, m, P
      <4> QED
        BY <2>3, <3>1, <3>2, ApplyIs, Zenon
    <3> QED
      BY <3>3, <3>4, Zenon
  <2> QED
    BY <2>4, <2>5, <2>6, <2>7, Zenon
<1>3. \A i \in Nat : i \in S
  <2> HIDE DEF S
  <2> QED
    BY <1>1, <1>2, SetInduction, Zenon
<1> QED
  BY <1>3

(* A step of two runs, the second of which has the columns of the first.   *)
LEMMA DimsStep ==
  ASSUME NEW a, NEW b, NEW m, IsTable(a), IsTable(b), DimsIn(a.dims, b.dims), ~Engine!Refuses(b, m)
  PROVE  /\ DimsIn(Engine!Apply(a, m).dims, Engine!Apply(b, m).dims)
         /\ DimsIn(b.dims, Engine!Apply(b, m).dims)
<1> DEFINE aa == Engine!Apply(a, m)
           bb == Engine!Apply(b, m)
           cols == IF m.op = "put" THEN Columns(m) ELSE {}
<1>1. ~Engine!Refuses(a, m)
  BY FewerRefusals, Zenon
<1>2. /\ DOMAIN aa.dims = DOMAIN a.dims \cup cols
      /\ \A c \in DOMAIN aa.dims : aa.dims[c] = IF c \in DOMAIN a.dims THEN a.dims[c] ELSE Len(m.vectors[c])
  BY <1>1, ApplyIs, Zenon
<1>3. /\ DOMAIN bb.dims = DOMAIN b.dims \cup cols
      /\ \A c \in DOMAIN bb.dims : bb.dims[c] = IF c \in DOMAIN b.dims THEN b.dims[c] ELSE Len(m.vectors[c])
  BY ApplyIs, Zenon
<1>4. \A c \in cols : c \in DOMAIN b.dims => b.dims[c] = Len(m.vectors[c])
  BY Zenon DEF Engine!Refuses, Engine!Fits, Columns
<1> HIDE DEF aa, bb, cols
<1>5. DimsIn(aa.dims, bb.dims) /\ DimsIn(b.dims, bb.dims)
  BY <1>2, <1>3, <1>4, Zenon DEF DimsIn
<1> QED
  BY <1>5, Zenon DEF aa, bb

(* A segment applied in part, and then again from its beginning, leaves    *)
(* what applying it once leaves.                                           *)
LEMMA Replay ==
  ASSUME NEW db, NEW ms, NEW n \in Nat, NEW j \in 0..n, NEW f, NEW g, IsTable(db),
         IsRun(f, db, ms, n), CleanRun(f, ms, j),
         IsRun(g, f[j], ms, n), CleanRun(g, ms, n)
  PROVE  f[n] = g[n] /\ CleanRun(f, ms, n)
<1>1. IsRun(f, db, ms, j) /\ j \in Nat /\ j <= n
  BY DEF IsRun
<1>2. /\ IsTable(f[j]) /\ DimsIn(db.dims, f[j].dims)
      /\ \A l \in 1..j : ms[l].op = "put" => Columns(ms[l]) \subseteq DOMAIN f[j].dims
      /\ \A kind, id, x, v :
           (\A l \in 1..j : ~Erases(ms[l], kind, id, x))
             => (Holds(f[j], kind, id, x, v) <=> Holds(db, kind, id, x, v))
  BY <1>1, RunKeeps
<1> DEFINE Pending(i, kind, id, x) == \E l \in (i + 1)..j : Erases(ms[l], kind, id, x)
           P(i) == /\ IsTable(f[i]) /\ IsTable(g[i])
                   /\ DimsIn(f[i].dims, g[i].dims)
                   /\ \A l \in 1..i : ~Engine!Refuses(f[l - 1], ms[l])
                   /\ i <= j => g[i].dims = f[j].dims
                   /\ i <= j => \A kind, id, x, v :
                        \/ Pending(i, kind, id, x)
                        \/ Holds(f[i], kind, id, x, v) <=> Holds(g[i], kind, id, x, v)
                   /\ i >= j => f[i] = g[i]
           S == {i \in Nat : i <= n => P(i)}
<1>3. 0 \in S
  <2>1. f[0] = db /\ g[0] = f[j]
    BY Zenon DEF IsRun
  <2>2. \A kind, id, x, v :
          \/ Pending(0, kind, id, x)
          \/ Holds(f[0], kind, id, x, v) <=> Holds(g[0], kind, id, x, v)
    BY <1>2, <2>1
  <2>3. 0 >= j => f[0] = g[0]
    BY <1>1, <2>1
  <2>4. g[0].dims = f[j].dims
    BY <2>1, Zenon
  <2>5. IsTable(f[0]) /\ IsTable(g[0]) /\ DimsIn(f[0].dims, g[0].dims)
    BY <1>2, <2>1, Zenon
  <2>6. \A l \in 1..0 : ~Engine!Refuses(f[l - 1], ms[l])
    OBVIOUS
  <2> HIDE DEF Pending
  <2> QED
    BY <2>2, <2>3, <2>4, <2>5, <2>6, Zenon
<1>4. ASSUME NEW i \in Nat, i \in S PROVE i + 1 \in S
  <2> SUFFICES ASSUME i + 1 <= n PROVE P(i + 1)
    OBVIOUS
  <2> DEFINE m == ms[i + 1]
  <2>1. P(i)
    BY <1>4
  <2>2. i + 1 \in 1..n /\ (i + 1) - 1 = i
    OBVIOUS
  <2>3. f[i + 1] = Engine!Apply(f[i], m) /\ g[i + 1] = Engine!Apply(g[i], m) /\ ~Engine!Refuses(g[i], m)
    BY <2>2, Zenon DEF IsRun, CleanRun
  <2>4. IsTable(f[i]) /\ IsTable(g[i]) /\ DimsIn(f[i].dims, g[i].dims)
    BY <2>1, Zenon
  <2> HIDE DEF P
  <2>5. ~Engine!Refuses(f[i], m)
    BY <2>3, <2>4, FewerRefusals, Zenon
  <2>6. IsTable(f[i + 1]) /\ IsTable(g[i + 1])
    BY <2>3, <2>4, <2>5, ApplyIs
  <2>7. DimsIn(f[i + 1].dims, g[i + 1].dims) /\ DimsIn(g[i].dims, g[i + 1].dims)
    BY <2>3, <2>4, DimsStep, Zenon
  <2>8. \A l \in 1..(i + 1) : ~Engine!Refuses(f[l - 1], ms[l])
    <3> SUFFICES ASSUME NEW l \in 1..(i + 1) PROVE ~Engine!Refuses(f[l - 1], ms[l])
      BY Zenon
    <3>1. CASE l = i + 1
      BY <3>1, <2>2, <2>5, Zenon
    <3>2. CASE l # i + 1
      <4>1. l \in 1..i
        BY <3>2
      <4> QED
        BY <4>1, <2>1, Zenon DEF P
    <3> QED
      BY <3>1, <3>2, Zenon
  <2>9. ASSUME i + 1 <= j PROVE g[i + 1].dims = f[j].dims
    <3>1. g[i].dims = f[j].dims /\ i + 1 \in 1..j
      BY <2>1, <2>9, <1>1 DEF P
    <3>2. m.op = "put" => Columns(m) \subseteq DOMAIN g[i].dims
      BY <3>1, <1>2, Zenon
    <3>3. DOMAIN g[i + 1].dims = DOMAIN g[i].dims
      <4>1. DOMAIN g[i + 1].dims = DOMAIN g[i].dims \cup (IF m.op = "put" THEN Columns(m) ELSE {})
        <5> HIDE DEF m
        <5> QED
          BY <2>3, <2>4, ApplyIs
      <4> QED
        BY <4>1, <3>2, Zenon
    <3>4. IsFcn(g[i].dims) /\ IsFcn(g[i + 1].dims)
      BY <2>4, <2>6, Zenon DEF IsTable
    <3> QED
      BY <3>1, <3>3, <3>4, <2>7, Zenon DEF DimsIn, IsFcn
  <2>10. ASSUME i + 1 <= j, NEW kind, NEW id, NEW x, NEW v, ~Pending(i + 1, kind, id, x)
         PROVE  Holds(f[i + 1], kind, id, x, v) <=> Holds(g[i + 1], kind, id, x, v)
    <3>1. /\ Holds(f[i + 1], kind, id, x, v) <=>
               \/ Gives(m, kind, id, x, v)
               \/ ~Erases(m, kind, id, x) /\ Holds(f[i], kind, id, x, v)
          /\ Holds(g[i + 1], kind, id, x, v) <=>
               \/ Gives(m, kind, id, x, v)
               \/ ~Erases(m, kind, id, x) /\ Holds(g[i], kind, id, x, v)
      BY <2>3, <2>4, <2>5, ApplyIs
    <3>2. CASE Erases(m, kind, id, x)
      BY <3>1, <3>2, Zenon
    <3>3. CASE ~Erases(m, kind, id, x)
      <4>1. ~Pending(i, kind, id, x)
        <5> SUFFICES ASSUME NEW l \in (i + 1)..j PROVE ~Erases(ms[l], kind, id, x)
          BY Zenon
        <5>1. l = i + 1 \/ l \in ((i + 1) + 1)..j
          BY <1>1
        <5> QED
          BY <5>1, <3>3, <2>10, Zenon
      <4>2. i <= j
        BY <2>10, <1>1
      <4>3. Holds(f[i], kind, id, x, v) <=> Holds(g[i], kind, id, x, v)
        <5> HIDE DEF Pending
        <5> QED
          BY <4>1, <4>2, <2>1, Zenon DEF P
      <4> QED
        BY <3>1, <4>3, Zenon
    <3> QED
      BY <3>2, <3>3, Zenon
  <2>11. ASSUME i + 1 >= j PROVE f[i + 1] = g[i + 1]
    <3>1. CASE i >= j
      <4>1. f[i] = g[i]
        BY <2>1, <3>1, Zenon DEF P
      <4> QED
        BY <4>1, <2>3, Zenon
    <3>2. CASE i + 1 = j
      <4>1. \A kind, id, x : ~Pending(i + 1, kind, id, x)
        BY <3>2, <1>1
      <4>2. \A kind, id, x, v : Holds(f[i + 1], kind, id, x, v) <=> Holds(g[i + 1], kind, id, x, v)
        BY <4>1, <3>2, <2>10
      <4>3. f[i + 1].dims = g[i + 1].dims
        BY <3>2, <2>9
      <4> QED
        BY <4>2, <4>3, <2>6, TablesEqual, Zenon
    <3> QED
      BY <3>1, <3>2, <2>11, <1>1
  <2> HIDE DEF Pending
  <2> QED
    BY <2>6, <2>7, <2>8, <2>9, <2>10, <2>11, Zenon DEF P
<1>5. \A i \in Nat : i \in S
  <2> HIDE DEF S
  <2> QED
    BY <1>3, <1>4, SetInduction, Zenon
<1>6. n \in S /\ n >= j
  BY <1>5, <1>1, Zenon
<1> QED
  BY <1>6 DEF CleanRun

(* The same for State and Clean: the state reached by a first part of the  *)
(* mutations, and then by all of them.                                     *)
LEMMA ReplayState ==
  ASSUME NEW M, NEW ms \in Seq(M), NEW j \in 0..Len(ms), NEW db, IsTable(db),
         Engine!Clean(db, SubSeq(ms, 1, j)),
         Engine!Clean(Engine!State(db, SubSeq(ms, 1, j)), ms)
  PROVE  /\ Engine!State(Engine!State(db, SubSeq(ms, 1, j)), ms) = Engine!State(db, ms)
         /\ Engine!Clean(db, ms)
<1> DEFINE n == Len(ms)
           a == SubSeq(ms, 1, j)
<1>1. n \in Nat /\ a \in Seq(M) /\ Len(a) = j /\ \A i \in 1..j : a[i] = ms[i]
  OBVIOUS
<1>2. PICK f : IsRun(f, db, ms, n)
  <2> HIDE DEF n
  <2> QED
    BY <1>1, RunExists, Zenon
<1>3. /\ Engine!State(db, a) = f[j] /\ Engine!State(db, ms) = f[n]
      /\ Engine!Clean(db, ms) <=> \A i \in 1..n : ~Engine!Refuses(f[i - 1], ms[i])
  BY <1>2, CleanOnRun, Zenon
<1>4. PICK g : IsRun(g, f[j], ms, n)
  <2> HIDE DEF n
  <2> QED
    BY <1>1, RunExists, Zenon
<1>5. /\ Engine!State(f[j], ms) = g[n]
      /\ Engine!Clean(f[j], ms) <=> \A i \in 1..n : ~Engine!Refuses(g[i - 1], ms[i])
  BY <1>4, CleanOnRun, Zenon
<1> HIDE DEF n, a
<1>6. IsRun(f, db, a, Len(a))
  <2>1. ASSUME NEW i \in 1..j PROVE f[i] = Engine!Apply(f[i - 1], a[i])
    <3>1. i \in 1..n
      BY DEF n
    <3> QED
      BY <1>1, <1>2, <3>1, Zenon DEF IsRun
  <2> QED
    BY <2>1, <1>1, <1>2, Zenon DEF IsRun
<1>7. CleanRun(f, ms, j)
  <2>1. Engine!Clean(db, a) <=> \A i \in 1..Len(a) : ~Engine!Refuses(f[i - 1], a[i])
    BY <1>1, <1>6, CleanOnRun, Zenon
  <2>2. Engine!Clean(db, a)
    BY Zenon DEF a
  <2> QED
    BY <2>1, <2>2, <1>1, Zenon DEF CleanRun
<1>8. CleanRun(g, ms, n)
  <2>1. Engine!Clean(f[j], ms)
    BY <1>3, Zenon DEF a
  <2> QED
    BY <2>1, <1>5, Zenon DEF CleanRun
<1>9. j \in 0..n
  BY Zenon DEF n
<1>10. f[n] = g[n] /\ CleanRun(f, ms, n)
  BY <1>1, <1>2, <1>4, <1>7, <1>8, <1>9, Replay, Zenon
<1> QED
  BY <1>3, <1>5, <1>10, Zenon DEF a, CleanRun

(* A table that was reached cleanly is a table.                            *)
LEMMA CleanIsTable ==
  ASSUME NEW M, NEW ms \in Seq(M), NEW db, IsTable(db), Engine!Clean(db, ms)
  PROVE  IsTable(Engine!State(db, ms))
<1> DEFINE n == Len(ms)
<1>1. n \in Nat
  OBVIOUS
<1>2. PICK f : IsRun(f, db, ms, n)
  <2> HIDE DEF n
  <2> QED
    BY <1>1, RunExists, Zenon
<1>3. Engine!State(db, ms) = f[n] /\ CleanRun(f, ms, n)
  BY <1>2, CleanOnRun, Zenon DEF CleanRun
<1> HIDE DEF n
<1>4. n \in 0..n
  BY <1>1
<1> QED
  BY <1>1, <1>2, <1>3, <1>4, RunKeeps, Zenon
-----------------------------------------------------------------------------
(* The mutations of a sequence of segments.                                *)

Mutations == UNION {{Contents[s][i] : i \in DOMAIN Contents[s]} : s \in Segments}

(* A segment holds mutations.                                              *)
LEMMA ContentsType == \A s \in Segments : Contents[s] \in Seq(Mutations)
<1> SUFFICES ASSUME NEW s \in Segments PROVE Contents[s] \in Seq(Mutations)
  BY Zenon
<1>1. Contents[s] \in Seq({Contents[s][i] : i \in DOMAIN Contents[s]})
  BY EngineConstants, Zenon
<1>2. {Contents[s][i] : i \in DOMAIN Contents[s]} \subseteq Mutations
  BY Zenon DEF Mutations
<1> QED
  BY <1>1, <1>2

(* Concatenation, kept folded where only equality matters.                 *)
Cat(s, t) == s \o t

(* Mutations joined in either order are the same.                          *)
LEMMA CatAssociative ==
  ASSUME NEW S, NEW a \in Seq(S), NEW b \in Seq(S), NEW c \in Seq(S)
  PROVE  Cat(Cat(a, b), c) = Cat(a, Cat(b, c))
BY ConcatAssociative DEF Cat

(* What joining two sequences of mutations gives.                          *)
LEMMA CatIs ==
  ASSUME NEW S, NEW a \in Seq(S), NEW b \in Seq(S)
  PROVE  /\ Cat(a, b) \in Seq(S) /\ Len(Cat(a, b)) = Len(a) + Len(b)
         /\ \A i \in 1..Len(a) : Cat(a, b)[i] = a[i]
         /\ \A i \in 1..Len(b) : Cat(a, b)[Len(a) + i] = b[i]
BY DEF Cat

(* Where the second of two joined sequences is found.                      *)
LEMMA CatSecond ==
  ASSUME NEW S, NEW a \in Seq(S), NEW b \in Seq(S), NEW i \in 1..Len(b)
  PROVE  Cat(a, b)[Len(a) + i] = b[i]
BY CatIs

IsFlat(f, segments, n) ==
  f[0] = << >> /\ \A i \in 1..n : f[i] = Cat(f[i - 1], Contents[segments[i]])

(* The mutations of the first n segments can be joined, for every n.       *)
LEMMA FlatExists ==
  ASSUME NEW ss
  PROVE  \A n \in Nat : \E f : IsFlat(f, ss, n)
<1> DEFINE S == {n \in Nat : \E f : IsFlat(f, ss, n)}
<1>1. 0 \in S
  <2>1. IsFlat([i \in 0..0 |-> << >>], ss, 0)
    BY DEF IsFlat
  <2> QED
    BY <2>1, Zenon
<1>2. ASSUME NEW n \in Nat, n \in S PROVE n + 1 \in S
  <2>1. PICK f : IsFlat(f, ss, n)
    BY <1>2, Zenon
  <2> DEFINE g == [i \in 0..(n + 1) |-> IF i = n + 1 THEN Cat(f[n], Contents[ss[n + 1]]) ELSE f[i]]
  <2>2. g[0] = << >>
    BY <2>1 DEF IsFlat
  <2>3. ASSUME NEW i \in 1..(n + 1) PROVE g[i] = Cat(g[i - 1], Contents[ss[i]])
    <3>1. CASE i = n + 1
      <4>1. i - 1 = n /\ g[i - 1] = f[n] /\ g[i] = Cat(f[n], Contents[ss[n + 1]])
        BY <3>1
      <4> QED
        BY <3>1, <4>1, Zenon
    <3>2. CASE i # n + 1
      BY <3>2, <2>1 DEF IsFlat
    <3> QED
      BY <3>1, <3>2, Zenon
  <2>4. IsFlat(g, ss, n + 1)
    BY <2>2, <2>3, Zenon DEF IsFlat
  <2> QED
    BY <2>4
<1>3. \A n \in Nat : n \in S
  <2> HIDE DEF S
  <2> QED
    BY <1>1, <1>2, SetInduction, Zenon
<1> QED
  BY <1>3, Zenon

(* Equal segments join to equal mutations, whatever follows them.          *)
LEMMA FlatUnique ==
  ASSUME NEW f, NEW g, NEW ss, NEW ts, NEW n \in Nat, NEW m \in Nat,
         n <= m, IsFlat(f, ss, n), IsFlat(g, ts, m), \A i \in 1..n : ss[i] = ts[i]
  PROVE  \A i \in 0..n : f[i] = g[i]
<1> DEFINE S == {i \in Nat : i <= n => f[i] = g[i]}
<1>1. 0 \in S
  BY Zenon DEF IsFlat
<1>2. ASSUME NEW i \in Nat, i \in S PROVE i + 1 \in S
  <2> SUFFICES ASSUME i + 1 <= n PROVE f[i + 1] = g[i + 1]
    OBVIOUS
  <2>1. i + 1 \in 1..n /\ i + 1 \in 1..m /\ (i + 1) - 1 = i /\ f[i] = g[i]
    BY <1>2
  <2> QED
    BY <2>1, Zenon DEF IsFlat
<1>3. \A i \in Nat : i \in S
  <2> HIDE DEF S
  <2> QED
    BY <1>1, <1>2, SetInduction, Zenon
<1> QED
  BY <1>3

(* Flat is where that ends.                                                *)
LEMMA FlatIs ==
  ASSUME NEW ss, Len(ss) \in Nat
  PROVE  \E f : IsFlat(f, ss, Len(ss)) /\ Engine!Flat(ss) = f[Len(ss)]
<1> DEFINE n == Len(ss)
           F(f) == [i \in 0..n |-> IF i = 0 THEN << >> ELSE Cat(f[i - 1], Contents[ss[i]])]
<1> HIDE DEF n
<1>0. n \in Nat
  BY Zenon DEF n
<1>1. PICK r : IsFlat(r, ss, n)
  BY <1>0, FlatExists, Zenon
<1> DEFINE g == [i \in 0..n |-> r[i]]
<1>2. g = F(g)
  <2>1. ASSUME NEW i \in 0..n
        PROVE  r[i] = IF i = 0 THEN << >> ELSE Cat(g[i - 1], Contents[ss[i]])
    <3>1. CASE i = 0
      BY <3>1, <1>1, Zenon DEF IsFlat
    <3>2. CASE i # 0
      <4>1. i \in 1..n /\ i - 1 \in 0..n
        BY <3>2, <1>0
      <4> QED
        BY <3>2, <4>1, <1>1, Zenon DEF IsFlat
    <3> QED
      BY <3>1, <3>2, Zenon
  <2> QED
    BY <2>1, Zenon
<1> DEFINE a == CHOOSE f : f = F(f)
<1>3. a = F(a)
  <2> HIDE DEF g, F
  <2> QED
    BY <1>2, Zenon
<1>4. Engine!Flat(ss) = a[n]
  BY Zenon DEF Engine!Flat, n, Cat
<1>5. IsFlat(a, ss, n)
  <2> HIDE DEF a
  <2> QED
    BY <1>3, <1>0 DEF IsFlat
<1> QED
  BY <1>4, <1>5, Zenon DEF n

(* Flat of a first part of the segments.                                   *)
LEMMA FlatOnRun ==
  ASSUME NEW f, NEW ss, NEW ts, NEW n \in Nat, IsFlat(f, ss, n),
         Len(ts) \in Nat, Len(ts) <= n, \A i \in 1..Len(ts) : ts[i] = ss[i]
  PROVE  Engine!Flat(ts) = f[Len(ts)]
<1>1. PICK g : IsFlat(g, ts, Len(ts)) /\ Engine!Flat(ts) = g[Len(ts)]
  BY FlatIs, Zenon
<1> DEFINE m == Len(ts)
<1>2. m \in Nat /\ m <= n /\ IsFlat(g, ts, m) /\ \A i \in 1..m : ts[i] = ss[i]
  BY <1>1, Zenon
<1> HIDE DEF m
<1>3. \A i \in 0..m : g[i] = f[i]
  BY <1>2, FlatUnique
<1>4. g[m] = f[m]
  BY <1>2, <1>3
<1> QED
  BY <1>1, <1>4, Zenon DEF m

(* The mutations of two sequences of segments in a row.                    *)
LEMMA FlatConcat ==
  ASSUME NEW a \in Seq(Segments), NEW b \in Seq(Segments)
  PROVE  /\ Engine!Flat(a) \in Seq(Mutations)
         /\ Engine!Flat(a \o b) = Engine!Flat(a) \o Engine!Flat(b)
<1> DEFINE c == a \o b
           n == Len(a)
           m == Len(b)
<1>1. /\ n \in Nat /\ m \in Nat /\ c \in Seq(Segments) /\ Len(c) = n + m
      /\ \A i \in 1..n : c[i] = a[i] /\ a[i] \in Segments
      /\ \A i \in 1..m : c[n + i] = b[i] /\ b[i] \in Segments
  OBVIOUS
<1>2. PICK f : IsFlat(f, c, n + m)
  <2>1. n + m \in Nat
    BY <1>1
  <2> HIDE DEF c, n, m
  <2> QED
    BY <2>1, FlatExists, Zenon
<1>3. PICK g : IsFlat(g, b, m)
  <2> HIDE DEF c, n, m
  <2> QED
    BY <1>1, FlatExists, Zenon
<1>4. Engine!Flat(a) = f[n]
  <2>1. Len(a) \in Nat /\ Len(a) <= n + m /\ \A i \in 1..Len(a) : a[i] = c[i]
    BY <1>1
  <2>2. n + m \in Nat
    BY <1>1
  <2> HIDE DEF c, m
  <2> QED
    BY <2>1, <2>2, <1>2, FlatOnRun, Zenon
<1>5. Engine!Flat(b) = g[m]
  <2>1. Len(b) \in Nat /\ Len(b) <= m
    BY <1>1
  <2> QED
    BY <2>1, <1>3, FlatOnRun, Zenon
<1>6. Engine!Flat(c) = f[n + m]
  <2>1. Len(c) = n + m /\ n + m \in Nat
    BY <1>1
  <2> HIDE DEF c, n, m
  <2>2. Len(c) \in Nat /\ Len(c) <= n + m
    BY <2>1
  <2>3. Engine!Flat(c) = f[Len(c)]
    BY <2>1, <2>2, <1>2, FlatOnRun, Zenon
  <2> QED
    BY <2>1, <2>3, Zenon
<1> HIDE DEF c, n, m
<1>7. ASSUME NEW h, NEW ss, NEW k \in Nat, IsFlat(h, ss, k), \A i \in 1..k : ss[i] \in Segments
      PROVE  \A i \in 0..k : h[i] \in Seq(Mutations)
  <2> DEFINE S == {i \in Nat : i <= k => h[i] \in Seq(Mutations)}
  <2>1. 0 \in S
    <3>1. h[0] = << >>
      BY <1>7, Zenon DEF IsFlat
    <3>2. << >> \in Seq(Mutations)
      BY EmptySeq, Zenon
    <3> QED
      BY <3>1, <3>2, Zenon
  <2>2. ASSUME NEW i \in Nat, i \in S PROVE i + 1 \in S
    <3> SUFFICES ASSUME i + 1 <= k PROVE h[i + 1] \in Seq(Mutations)
      OBVIOUS
    <3>1. i + 1 \in 1..k /\ (i + 1) - 1 = i /\ h[i] \in Seq(Mutations)
      BY <2>2, <1>7
    <3>2. h[i + 1] = Cat(h[i], Contents[ss[i + 1]]) /\ Contents[ss[i + 1]] \in Seq(Mutations)
      BY <3>1, <1>7, ContentsType, Zenon DEF IsFlat
    <3>3. Cat(h[i], Contents[ss[i + 1]]) \in Seq(Mutations)
      BY <3>1, <3>2, ConcatProperties, Zenon DEF Cat
    <3> QED
      BY <3>2, <3>3, Zenon
  <2>3. \A i \in Nat : i \in S
    <3> HIDE DEF S
    <3> QED
      BY <2>1, <2>2, SetInduction, Zenon
  <2> QED
    BY <2>3
<1>8. /\ \A i \in 0..m : g[i] \in Seq(Mutations)
      /\ f[n] \in Seq(Mutations)
  <2>1. \A i \in 1..(n + m) : c[i] \in Segments
    BY <1>1
  <2>2. n + m \in Nat /\ n \in 0..(n + m)
    BY <1>1
  <2>3. \A i \in 0..(n + m) : f[i] \in Seq(Mutations)
    BY <1>2, <1>7, <2>1, <2>2, Zenon
  <2>4. \A i \in 0..m : g[i] \in Seq(Mutations)
    BY <1>1, <1>3, <1>7, Zenon
  <2> QED
    BY <2>2, <2>3, <2>4, Zenon
<1> DEFINE T == {i \in Nat : i <= m => f[n + i] = Cat(f[n], g[i])}
<1>9. 0 \in T
  <2>1. n + 0 = n /\ g[0] = << >>
    BY <1>1, <1>3 DEF IsFlat
  <2>2. Cat(f[n], << >>) = f[n]
    BY <1>8, ConcatEmptySeq, Zenon DEF Cat
  <2> QED
    BY <2>1, <2>2, Zenon
<1>10. ASSUME NEW i \in Nat, i \in T PROVE i + 1 \in T
  <2> SUFFICES ASSUME i + 1 <= m PROVE f[n + (i + 1)] = Cat(f[n], g[i + 1])
    OBVIOUS
  <2>1. /\ i + 1 \in 1..m /\ (i + 1) - 1 = i /\ i \in 0..m
        /\ n + (i + 1) \in 1..(n + m) /\ (n + (i + 1)) - 1 = n + i
        /\ f[n + i] = Cat(f[n], g[i])
    BY <1>1, <1>10
  <2> DEFINE s == Contents[b[i + 1]]
  <2>2. c[n + (i + 1)] = b[i + 1] /\ s \in Seq(Mutations)
    BY <1>1, <2>1, ContentsType, Zenon
  <2>3. f[n + (i + 1)] = Cat(f[n + i], s)
    BY <2>1, <2>2, <1>2, Zenon DEF IsFlat
  <2>4. g[i + 1] = Cat(g[i], s)
    BY <2>1, <1>3, Zenon DEF IsFlat
  <2> HIDE DEF s
  <2>5. Cat(Cat(f[n], g[i]), s) = Cat(f[n], Cat(g[i], s))
    <3>1. f[n] \in Seq(Mutations) /\ g[i] \in Seq(Mutations)
      BY <1>8, <2>1, Zenon
    <3> QED
      BY <3>1, <2>2, CatAssociative
  <2> QED
    BY <2>1, <2>3, <2>4, <2>5, Zenon
<1>11. \A i \in Nat : i \in T
  <2> HIDE DEF T
  <2> QED
    BY <1>9, <1>10, SetInduction, Zenon
<1>12. f[n + m] = Cat(f[n], g[m])
  BY <1>1, <1>11
<1> QED
  BY <1>4, <1>5, <1>6, <1>8, <1>12, Zenon DEF c, Cat
-----------------------------------------------------------------------------
(* What a loader shows of the segments H: n of them and a first part, of j *)
(* mutations, of the next one.                                             *)

Part(H, n, j) ==
  Engine!Flat(SubSeq(H, 1, n)) \o (IF j = 0 THEN << >> ELSE SubSeq(Contents[H[n + 1]], 1, j))

ShowsPart(table, H, n, j) ==
  /\ n <= Len(H)
  /\ j > 0 => n < Len(H) /\ j <= Len(Contents[H[n + 1]])
  /\ table = Engine!State(Engine!NoDocuments, Part(H, n, j))
  /\ Engine!Clean(Engine!NoDocuments, Part(H, n, j))

Shows(table, H, n) == \E j \in Nat : ShowsPart(table, H, n, j)

IsPre(a, b) == Len(a) <= Len(b) /\ \A i \in 1..Len(a) : a[i] = b[i]

(* The empty table, and what it takes to show nothing.                     *)
LEMMA NoDocumentsIsTable == IsTable(Engine!NoDocuments)
BY DEF IsTable, IsFcn, Engine!NoDocuments

(* A new loader shows none of its history.                                 *)
LEMMA ShowsNothing ==
  ASSUME NEW H \in Seq(Segments)
  PROVE  Shows(Engine!NoDocuments, H, 0)
<1> DEFINE e == SubSeq(H, 1, 0)
<1>1. e = << >>
  BY SubSeqEmpty
<1>2. Len(<< >>) = 0 /\ << >> \in Seq(Segments) /\ << >> \in Seq(Mutations)
  OBVIOUS
<1>3. Engine!Flat(<< >>) = << >>
  <2>1. PICK f : IsFlat(f, << >>, Len(<< >>)) /\ Engine!Flat(<< >>) = f[Len(<< >>)]
    BY <1>2, FlatIs, Zenon
  <2> QED
    BY <2>1, <1>2, Zenon DEF IsFlat
<1>4. Part(H, 0, 0) = << >>
  <2>1. Part(H, 0, 0) = Engine!Flat(e) \o << >>
    BY Zenon DEF Part
  <2>2. << >> \o << >> = << >>
    BY <1>2, ConcatEmptySeq, Zenon
  <2> QED
    BY <2>1, <2>2, <1>1, <1>3, Zenon
<1>5. PICK f : IsRun(f, Engine!NoDocuments, << >>, Len(<< >>)) /\ Engine!State(Engine!NoDocuments, << >>) = f[Len(<< >>)]
  BY <1>2, StateIsRun, Zenon
<1>6. Engine!State(Engine!NoDocuments, << >>) = Engine!NoDocuments
  BY <1>5, <1>2, Zenon DEF IsRun
<1>7. Engine!Clean(Engine!NoDocuments, << >>)
  BY DEF Engine!Clean
<1>8. ShowsPart(Engine!NoDocuments, H, 0, 0)
  BY <1>4, <1>6, <1>7 DEF ShowsPart
<1> QED
  BY <1>8, Zenon DEF Shows

(* More segments change nothing of what was shown.                         *)
LEMMA ShowsMore ==
  ASSUME NEW table, NEW H \in Seq(Segments), NEW I \in Seq(Segments), NEW n \in Nat,
         IsPre(H, I), Shows(table, H, n)
  PROVE  Shows(table, I, n)
<1>1. PICK j \in Nat : ShowsPart(table, H, n, j)
  BY Zenon DEF Shows
<1>2. n <= Len(H) /\ (j > 0 => n < Len(H) /\ j <= Len(Contents[H[n + 1]]))
  BY <1>1, Zenon DEF ShowsPart
<1>3. Len(H) \in Nat /\ Len(I) \in Nat /\ Len(H) <= Len(I) /\ \A i \in 1..Len(H) : H[i] = I[i]
  BY DEF IsPre
<1>4. SubSeq(H, 1, n) = SubSeq(I, 1, n)
  <2>1. /\ SubSeq(H, 1, n) \in Seq(Segments) /\ SubSeq(I, 1, n) \in Seq(Segments)
        /\ Len(SubSeq(H, 1, n)) = n /\ Len(SubSeq(I, 1, n)) = n
        /\ \A i \in 1..n : SubSeq(H, 1, n)[i] = H[i] /\ SubSeq(I, 1, n)[i] = I[i]
    BY <1>2, <1>3
  <2>2. \A i \in 1..n : H[i] = I[i]
    BY <1>2, <1>3
  <2> QED
    BY <2>1, <2>2, SeqEqual, Zenon
<1>5. j > 0 => H[n + 1] = I[n + 1]
  <2>1. j > 0 => n + 1 \in 1..Len(H)
    BY <1>2, <1>3
  <2> QED
    BY <2>1, <1>3, Zenon
<1>6. Part(H, n, j) = Part(I, n, j)
  <2>1. CASE j = 0
    BY <2>1, <1>4, Zenon DEF Part
  <2>2. CASE j > 0
    BY <2>2, <1>4, <1>5, Zenon DEF Part
  <2> QED
    BY <2>1, <2>2
<1>7. n <= Len(I) /\ (j > 0 => n < Len(I) /\ j <= Len(Contents[I[n + 1]]))
  BY <1>2, <1>3, <1>5
<1>8. ShowsPart(table, I, n, j)
  BY <1>1, <1>6, <1>7, Zenon DEF ShowsPart
<1> QED
  BY <1>8, Zenon DEF Shows

(* The mutations of one segment.                                           *)
LEMMA FlatOne ==
  ASSUME NEW s \in Segments
  PROVE  Engine!Flat(<<s>>) = Contents[s]
<1>1. Len(<<s>>) = 1 /\ <<s>>[1] = s /\ Contents[s] \in Seq(Mutations)
  BY ContentsType, Zenon
<1>2. PICK f : IsFlat(f, <<s>>, Len(<<s>>)) /\ Engine!Flat(<<s>>) = f[Len(<<s>>)]
  BY <1>1, FlatIs, Zenon
<1>3. f[0] = << >> /\ f[1] = Cat(f[0], Contents[s])
  <2>1. 1 \in 1..Len(<<s>>) /\ 1 - 1 = 0
    BY <1>1
  <2> QED
    BY <2>1, <1>1, <1>2, Zenon DEF IsFlat
<1>4. Cat(<< >>, Contents[s]) = Contents[s]
  BY <1>1, ConcatEmptySeq, Zenon DEF Cat
<1> QED
  BY <1>1, <1>2, <1>3, <1>4, Zenon

(* u is what t has from n on.                                              *)
Follows(t, n, u) ==
  n + Len(u) <= Len(t) /\ \A i \in 1..Len(u) : u[i] = t[n + i]

(* The first n + Len(u) elements are the first n, and u.                   *)
LEMMA FirstPart ==
  ASSUME NEW S, NEW t \in Seq(S), NEW n \in Nat, NEW u \in Seq(S), Follows(t, n, u)
  PROVE  SubSeq(t, 1, n + Len(u)) = Cat(SubSeq(t, 1, n), u)
<1> DEFINE m == Len(u)
<1>0. m \in Nat /\ Len(u) = m /\ n + m <= Len(t) /\ \A i \in 1..m : u[i] = t[n + i]
  BY DEF Follows
<1> HIDE DEF m
<1> DEFINE h == SubSeq(t, 1, n)
           l == SubSeq(t, 1, n + m)
<1>1. Len(t) \in Nat /\ n + m \in Nat /\ n <= Len(t)
  BY <1>0
<1>2. h \in Seq(S) /\ Len(h) = n /\ \A i \in 1..n : h[i] = t[i]
  BY <1>0, <1>1
<1>3. l \in Seq(S) /\ Len(l) = n + m /\ \A i \in 1..(n + m) : l[i] = t[i]
  BY <1>0, <1>1
<1> HIDE DEF h, l
<1>4. /\ Cat(h, u) \in Seq(S) /\ Len(Cat(h, u)) = n + m
      /\ \A i \in 1..n : Cat(h, u)[i] = h[i]
      /\ \A i \in 1..m : Cat(h, u)[n + i] = u[i]
  <2>1. h \in Seq(S) /\ Len(h) = n /\ Len(u) = m
    BY <1>0, <1>2, Zenon
  <2>2. Cat(h, u) \in Seq(S)
    BY <2>1, CatIs, Zenon
  <2>3. Len(Cat(h, u)) = Len(h) + Len(u)
    BY <2>1, CatIs, Zenon
  <2>4. \A i \in 1..Len(h) : Cat(h, u)[i] = h[i]
    BY <2>1, CatIs, Zenon
  <2>5. ASSUME NEW i \in 1..Len(u) PROVE Cat(h, u)[Len(h) + i] = u[i]
    BY <2>1, CatSecond, Zenon
  <2> QED
    BY <2>1, <2>2, <2>3, <2>4, <2>5, Zenon
<1>5. ASSUME NEW i \in 1..(n + m) PROVE l[i] = Cat(h, u)[i]
  <2>1. CASE i <= n
    <3>1. i \in 1..n
      BY <2>1, <1>0
    <3> QED
      BY <3>1, <1>2, <1>3, <1>4, Zenon
  <2>2. CASE ~(i <= n)
    <3>1. i - n \in 1..m /\ n + (i - n) = i
      BY <1>0, <2>2
    <3>2. u[i - n] = t[n + (i - n)] /\ Cat(h, u)[n + (i - n)] = u[i - n]
      BY <3>1, <1>0, <1>4, Zenon
    <3> QED
      BY <3>1, <3>2, <1>3, Zenon
  <2> QED
    BY <2>1, <2>2, Zenon
<1>6. l = Cat(h, u)
  BY <1>0, <1>3, <1>4, <1>5, SeqEqual, Zenon
<1> QED
  BY <1>6, Zenon DEF h, l, m

(* Sync applies m more segments and a first part of the next one to what   *)
(* it shows: the part that was applied before is applied again, and what   *)
(* it shows then is again the beginning of H.                              *)
LEMMA Advance ==
  ASSUME NEW table, NEW H \in Seq(Segments), NEW n \in Nat, Shows(table, H, n),
         NEW seen \in Seq(Segments), IsPre(seen, H), n <= Len(seen),
         NEW rest, rest = SubSeq(seen, n + 1, Len(seen)),
         NEW m \in 1..Len(rest), NEW k \in Nat,
         k > 0 => m < Len(rest) /\ k <= Len(Contents[rest[m + 1]]),
         Engine!Clean(table, Part(rest, m, k))
  PROVE  ShowsPart(Engine!State(table, Part(rest, m, k)), H, n + m, k)
<1>1. PICK j \in Nat : ShowsPart(table, H, n, j)
  BY Zenon DEF Shows
<1>2. /\ Len(H) \in Nat /\ Len(seen) \in Nat /\ Len(seen) <= Len(H)
      /\ \A i \in 1..Len(seen) : seen[i] = H[i]
  BY DEF IsPre
<1>3. /\ rest \in Seq(Segments) /\ Len(rest) = Len(seen) - n
      /\ \A i \in 1..Len(rest) : rest[i] = seen[n + i]
  <2>1. n \in 0..Len(seen) /\ Len(seen) \in n..Len(seen)
    BY <1>2
  <2> QED
    BY <2>1, Slice
<1>4. m \in Nat /\ m >= 1 /\ m <= Len(rest) /\ Len(rest) \in Nat /\ n + m <= Len(H) /\ n + m <= Len(seen)
  BY <1>2, <1>3
<1>5. \A i \in 1..Len(rest) : rest[i] = H[n + i] /\ H[n + i] \in Segments
  <2> SUFFICES ASSUME NEW i \in 1..Len(rest) PROVE rest[i] = H[n + i] /\ H[n + i] \in Segments
    BY Zenon
  <2>1. n + i \in 1..Len(seen) /\ n + i \in 1..Len(H)
    BY <1>2, <1>3
  <2> QED
    BY <2>1, <1>2, <1>3
<1> DEFINE h == SubSeq(H, 1, n)
           r == SubSeq(rest, 1, m)
           p == Engine!Flat(h)
           c == Contents[rest[1]]
           x == IF j = 0 THEN << >> ELSE SubSeq(Contents[H[n + 1]], 1, j)
           y == IF k = 0 THEN << >> ELSE SubSeq(Contents[rest[m + 1]], 1, k)
           q == Engine!Flat(r) \o y
<1>6. h \in Seq(Segments) /\ Len(h) = n /\ \A i \in 1..n : h[i] = H[i]
  <2>1. n \in 0..Len(H)
    BY <1>2, <1>4
  <2> QED
    BY <2>1, Prefix, Zenon
<1>7. r \in Seq(Segments) /\ Len(r) = m /\ \A i \in 1..m : r[i] = rest[i]
  <2>1. m \in 0..Len(rest)
    BY <1>4
  <2> QED
    BY <2>1, <1>3, Prefix, Zenon
<1>8. p \in Seq(Mutations) /\ Engine!Flat(r) \in Seq(Mutations)
  <2> HIDE DEF h, r
  <2> QED
    BY <1>6, <1>7, FlatConcat, Zenon
<1>9. rest[1] = H[n + 1] /\ rest[1] \in Segments /\ c \in Seq(Mutations)
  <2>1. 1 \in 1..Len(rest)
    BY <1>4
  <2> QED
    BY <2>1, <1>5, ContentsType, Zenon
<1>10. j \in 0..Len(c) /\ Len(c) \in Nat /\ x = SubSeq(c, 1, j) /\ x \in Seq(Mutations)
  <2>1. j > 0 => j <= Len(c)
    BY <1>1, <1>9, Zenon DEF ShowsPart
  <2>2. Len(c) \in Nat
    BY <1>9
  <2>3. j \in 0..Len(c)
    BY <2>1, <2>2
  <2>4. SubSeq(c, 1, 0) = << >>
    BY <1>9, SubSeqEmpty
  <2>5. x = SubSeq(c, 1, j)
    BY <2>4, <1>9, Zenon
  <2>6. SubSeq(c, 1, j) \in Seq(Mutations)
    BY <1>9, <2>3, Prefix, Zenon
  <2> QED
    BY <2>2, <2>3, <2>5, <2>6, Zenon
<1>11. y \in Seq(Mutations)
  <2>1. CASE k = 0
    BY <2>1
  <2>2. CASE k # 0
    <3>1. m + 1 \in 1..Len(rest)
      BY <2>2, <1>4
    <3>2. Contents[rest[m + 1]] \in Seq(Mutations) /\ k \in 1..Len(Contents[rest[m + 1]])
      <4>1. rest[m + 1] \in Segments
        BY <3>1, <1>5, Zenon
      <4>2. Contents[rest[m + 1]] \in Seq(Mutations)
        BY <4>1, ContentsType, Zenon
      <4>3. Len(Contents[rest[m + 1]]) \in Nat
        BY <4>2
      <4> QED
        BY <2>2, <4>2, <4>3
    <3>3. k \in 0..Len(Contents[rest[m + 1]])
      BY <3>2
    <3>4. SubSeq(Contents[rest[m + 1]], 1, k) \in Seq(Mutations)
      BY <3>2, <3>3, Prefix, Zenon
    <3> QED
      BY <2>2, <3>4, Zenon
  <2> QED
    BY <2>1, <2>2, Zenon
<1>12. q \in Seq(Mutations)
  <2> HIDE DEF r, y
  <2> QED
    BY <1>8, <1>11, ConcatProperties, Zenon
<1>13. Part(H, n, j) = p \o x /\ Part(rest, m, k) = q
  BY Zenon DEF Part
<1>14. x = SubSeq(q, 1, j) /\ j \in 0..Len(q)
  <2> DEFINE z == SubSeq(r, 2, m)
  <2>1. z \in Seq(Segments) /\ r = <<rest[1]>> \o z
    <3>1. Len(r) = m /\ Len(r) >= 1 /\ r[1] = rest[1]
      BY <1>4, <1>7
    <3> HIDE DEF r
    <3> QED
      BY <3>1, <1>7, FirstAndOthers, Zenon
  <2> HIDE DEF z
  <2>2. Engine!Flat(r) = c \o Engine!Flat(z) /\ Engine!Flat(z) \in Seq(Mutations)
    <3>1. <<rest[1]>> \in Seq(Segments)
      BY <1>9
    <3> HIDE DEF r
    <3> QED
      BY <2>1, <3>1, <1>9, FlatConcat, FlatOne, Zenon
  <2> DEFINE w == Engine!Flat(z)
  <2>3. q = (c \o w) \o y
    BY <2>2, Zenon
  <2> HIDE DEF w, y, c, q, x
  <2>4. c \o w \in Seq(Mutations) /\ Len(c \o w) = Len(c) + Len(w) /\ Len(w) \in Nat
        /\ \A i \in 1..Len(c) : (c \o w)[i] = c[i]
    BY <2>2, <1>9, <1>10 DEF w
  <2>5. Len(q) = Len(c) + Len(w) + Len(y) /\ Len(y) \in Nat /\ \A i \in 1..Len(c) : q[i] = c[i]
    <3>1. y \in Seq(Mutations) /\ Len(c) \in Nat
      BY <1>10, <1>11
    <3> DEFINE e == c \o w
    <3>2. q = e \o y /\ e \in Seq(Mutations) /\ Len(e) = Len(c) + Len(w) /\ \A i \in 1..Len(c) : e[i] = c[i]
      BY <2>3, <2>4, Zenon
    <3> HIDE DEF e
    <3>3. Len(q) = Len(e) + Len(y) /\ Len(y) \in Nat /\ \A i \in 1..Len(e) : q[i] = e[i]
      BY <3>1, <3>2, Joined, Zenon
    <3>4. \A i \in 1..Len(c) : i \in 1..Len(e)
      BY <3>1, <3>2, <2>4
    <3> QED
      BY <3>2, <3>3, <3>4, Zenon
  <2>6. j \in 0..Len(q) /\ Len(q) \in Nat
    BY <2>4, <2>5, <1>10
  <2>7. /\ SubSeq(q, 1, j) \in Seq(Mutations) /\ Len(SubSeq(q, 1, j)) = j
        /\ \A i \in 1..j : SubSeq(q, 1, j)[i] = q[i]
    BY <2>6, <1>12
  <2>8. Len(SubSeq(c, 1, j)) = j /\ \A i \in 1..j : SubSeq(c, 1, j)[i] = c[i]
    BY <1>9, <1>10
  <2>9. \A i \in 1..j : q[i] = c[i]
    <3>1. \A i \in 1..j : i \in 1..Len(c)
      BY <1>10
    <3> QED
      BY <3>1, <2>5, Zenon
  <2> QED
    BY <2>6, <2>7, <2>8, <2>9, <1>10, SeqEqual
<1> DEFINE b == Engine!State(Engine!NoDocuments, p)
<1> HIDE DEF h, r, p, c, x, y, q
<1>15. /\ Engine!Clean(Engine!NoDocuments, p) /\ Engine!Clean(b, x) /\ table = Engine!State(b, x)
       /\ IsTable(b)
  <2>1. table = Engine!State(Engine!NoDocuments, p \o x) /\ Engine!Clean(Engine!NoDocuments, p \o x)
    BY <1>1, <1>13, Zenon DEF ShowsPart
  <2>2. Engine!Clean(Engine!NoDocuments, p) /\ Engine!Clean(b, x) /\ table = Engine!State(b, x)
    BY <2>1, <1>8, <1>10, StateConcat, Zenon
  <2> QED
    BY <2>2, <1>8, NoDocumentsIsTable, CleanIsTable, Zenon
<1>16. Engine!State(table, q) = Engine!State(b, q) /\ Engine!Clean(b, q)
  <2> HIDE DEF b
  <2>1. Engine!Clean(table, q)
    BY <1>13, Zenon
  <2> QED
    BY <2>1, <1>12, <1>14, <1>15, ReplayState, Zenon
<1>17. /\ Engine!State(table, q) = Engine!State(Engine!NoDocuments, p \o q)
       /\ Engine!Clean(Engine!NoDocuments, p \o q)
  BY <1>8, <1>12, <1>15, <1>16, StateConcat
<1>18. k > 0 => H[(n + m) + 1] = rest[m + 1] /\ n + m < Len(H)
  <2> SUFFICES ASSUME k > 0 PROVE H[(n + m) + 1] = rest[m + 1] /\ n + m < Len(H)
    BY Zenon
  <2>1. m + 1 \in 1..Len(rest) /\ n + (m + 1) = (n + m) + 1
    BY <1>4
  <2>2. rest[m + 1] = H[n + (m + 1)]
    BY <2>1, <1>5, Zenon
  <2>3. n + m < Len(H)
    BY <2>1, <1>2, <1>3, <1>4
  <2> QED
    BY <2>1, <2>2, <2>3, Zenon
<1>19. SubSeq(H, 1, n + m) = h \o r
  <2>1. \A i \in 1..m : r[i] = H[n + i]
    <3>1. \A i \in 1..m : i \in 1..Len(rest)
      BY <1>4
    <3> QED
      BY <3>1, <1>5, <1>7, Zenon
  <2>2. m \in Nat /\ n \in Nat /\ n + m <= Len(H) /\ r \in Seq(Segments) /\ Len(r) = m
    BY <1>2, <1>3, <1>4, <1>7, Zenon
  <2>3. Follows(H, n, r)
    BY <2>1, <2>2, Zenon DEF Follows
  <2> HIDE DEF r
  <2>4. SubSeq(H, 1, n + Len(r)) = Cat(SubSeq(H, 1, n), r)
    BY <2>2, <2>3, FirstPart
  <2> QED
    BY <2>2, <2>4, Zenon DEF h, Cat
<1>20. p \o q = Part(H, n + m, k)
  <2>1. Part(H, n + m, k) = Engine!Flat(h \o r) \o y
    <3>1. CASE k = 0
      BY <3>1, <1>19, Zenon DEF Part, y
    <3>2. CASE k > 0
      BY <3>2, <1>18, <1>19, Zenon DEF Part, y
    <3> QED
      BY <3>1, <3>2
  <2>2. Engine!Flat(h \o r) = p \o Engine!Flat(r)
    BY <1>6, <1>7, FlatConcat, Zenon DEF p
  <2>3. q = Engine!Flat(r) \o y
    BY Zenon DEF q
  <2> QED
    <3>1. Cat(Cat(p, Engine!Flat(r)), y) = Cat(p, Cat(Engine!Flat(r), y))
      BY <1>8, <1>11, CatAssociative
    <3> QED
      BY <3>1, <2>1, <2>2, <2>3, Zenon DEF Cat
<1>21. k > 0 => n + m < Len(H) /\ k <= Len(Contents[H[(n + m) + 1]])
  BY <1>18, Zenon
<1> QED
  BY <1>4, <1>13, <1>17, <1>20, <1>21 DEF ShowsPart
=============================================================================
