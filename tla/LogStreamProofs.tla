-------------------------- MODULE LogStreamProofs --------------------------
(***************************************************************************)
(* Proofs about LogStream, for any set of calls and nodes, any list limit  *)
(* and any width of the sequence numbers.                                  *)
(*                                                                         *)
(* Contiguous is not inductive: it depends on every number a call may      *)
(* write next to being next to an existing entry.  LogInv says so for each *)
(* place such a number comes from: the hint of a node, the number a call   *)
(* is about to try, and the lower end of a search.                         *)
(***************************************************************************)
EXTENDS LogStream, FiniteSetTheorems, SequenceTheorems, TLAPS

Stored(s) == s = 0 \/ objects[s] # None

HintsStored == \A n \in Nodes : Stored(lastKnown[n])

(* What a call knows at each of its steps.                                 *)
CallKnows(a) ==
  /\ pc[a] \in {"idle", "next"} => seq[a] = 0
  /\ pc[a] = "put" => seq[a] = 0 \/ Stored(seq[a] - 1)
  /\ pc[a] \in {"won", "done"} => objects[seq[a]] = a
  /\ pc[a] \in Search => Stored(seq[a])
  /\ snap[a] \subseteq Existing
  /\ pc[a] \in {"probe", "grow", "bisect", "headed"} => Stored(low[a])
  /\ pc[a] = "grow" => high[a] = low[a] /\ low[a] # 0
  /\ pc[a] = "bisect" => \A s \in snap[a] : s < high[a]
  /\ pc[a] = "headed" => \A s \in snap[a] : s <= low[a]

(* A call that has neither written nor lost an answer is not in the log.   *)
NotYetWritten ==
  \A a \in Appends, s \in Seqs :
    ~lost[a] /\ objects[s] = a => pc[a] \in {"won", "done", "failed"}

LogInv ==
  /\ TypeOK
  /\ Contiguous
  /\ HintsStored
  /\ \A a \in Appends : CallKnows(a)
  /\ NotYetWritten
  /\ OnceUnlessLost

(* The empty or preloaded log that New finds satisfies the invariant.      *)
LEMMA InitInv == Init => LogInv
<1> SUFFICES ASSUME Init PROVE LogInv
  BY Zenon
<1> USE ConstantsOK
<1> PICK k \in Preloads :
      objects = [s \in Seqs |-> IF s \in 1..k THEN "old" ELSE None]
  BY Zenon DEF Init
<1>0. k \in 0..MaxEntries
  BY Zenon DEF ConstantsOK
<1>1. TypeOK
  BY <1>0 DEF Init, TypeOK, Seqs, Entries, PCs
<1>2. Contiguous
  BY <1>0 DEF Contiguous, Seqs
<1>3. HintsStored
  BY Zenon DEF Init, HintsStored, Stored
<1>4. \A a \in Appends : CallKnows(a)
  BY Zenon DEF Init, CallKnows, Search
<1>5. NotYetWritten /\ OnceUnlessLost
  BY Zenon DEF NotYetWritten, OnceUnlessLost
<1> QED
  BY <1>1, <1>2, <1>3, <1>4, <1>5, Zenon DEF LogInv

(* A step that creates no object and moves no hint or call but a's keeps   *)
(* everything but what a itself knows.                                     *)
LEMMA LocalStep ==
  ASSUME LogInv, NEW a \in Appends, UNCHANGED <<objects, lost>>,
         TypeOK', HintsStored', CallKnows(a)',
         pc[a] \in {"won", "done", "failed"} => pc'[a] \in {"won", "done", "failed"},
         \A b \in Appends \ {a} :
           /\ pc'[b] = pc[b] /\ seq'[b] = seq[b] /\ low'[b] = low[b]
           /\ high'[b] = high[b] /\ snap'[b] = snap[b]
  PROVE  LogInv'
<1>1. Contiguous' /\ OnceUnlessLost'
  BY Zenon DEF LogInv, Contiguous, OnceUnlessLost
<1>2. NotYetWritten'
  BY Zenon DEF LogInv, NotYetWritten
<1>3. ASSUME NEW b \in Appends PROVE CallKnows(b)'
  <2>1. CASE b = a
    BY <2>1, Zenon
  <2>2. CASE b # a
    <3>1. Existing' = Existing /\ CallKnows(b)
      BY Zenon DEF LogInv, Existing
    <3> QED
      BY <2>2, <3>1, Zenon DEF CallKnows, Stored
  <2> QED
    BY <2>1, <2>2, Zenon
<1> QED
  BY <1>1, <1>2, <1>3, Zenon DEF LogInv

(* Beginning a call of Append preserves the invariant: it only chooses     *)
(* between the hint and a search.                                          *)
LEMMA StartStep == ASSUME LogInv, NEW a \in Appends, Start(a) PROVE LogInv'
<1> USE DEF searchVars, Seqs
<1>1. TypeOK'
  BY Zenon DEF LogInv, TypeOK, Start, Goto, PCs, Waiting, Search
<1>2. HintsStored' /\ Existing' = Existing
  BY Zenon DEF LogInv, HintsStored, Start, Stored, Existing
<1>3. CallKnows(a)'
  BY <1>2, Zenon DEF LogInv, TypeOK, CallKnows, Start, Goto, Stored, Search
<1> QED
  BY <1>1, <1>2, <1>3, LocalStep, Zenon DEF LogInv, TypeOK, Start, Goto

(* Taking the number after the hint preserves the invariant, because the   *)
(* hint's entry exists.                                                    *)
LEMMA AimStep == ASSUME LogInv, NEW a \in Appends, Aim(a) PROVE LogInv'
<1> USE ConstantsOK DEF searchVars, Seqs, ConstantsOK
<1>0. /\ NodeOf[a] \in Nodes /\ lastKnown[NodeOf[a]] \in Seqs
      /\ After(lastKnown[NodeOf[a]]) \in Seqs
  BY DEF LogInv, TypeOK, After
<1>1. TypeOK'
  BY <1>0, Zenon DEF LogInv, TypeOK, Aim, Goto, PCs, Waiting
<1>2. HintsStored' /\ Existing' = Existing
  BY Zenon DEF LogInv, HintsStored, Aim, Stored, Existing
<1>3. /\ seq'[a] = After(lastKnown[NodeOf[a]]) /\ pc'[a] = "put"
      /\ objects' = objects /\ snap'[a] = snap[a]
  BY Zenon DEF LogInv, TypeOK, Aim, Goto
<1>4. seq'[a] = 0 \/ Stored(seq[a] - 1)'
  BY <1>0, <1>3 DEF LogInv, HintsStored, Stored, After
<1>5. CallKnows(a)'
  BY <1>2, <1>3, <1>4, Zenon DEF LogInv, CallKnows, Search
<1> QED
  BY <1>1, <1>2, <1>5, LocalStep, Zenon DEF LogInv, TypeOK, Aim, Goto

(* A failed precondition preserves the invariant: the number it met        *)
(* exists, so the search may start there.                                  *)
LEMMA CollideStep == ASSUME LogInv, NEW a \in Appends, PutCollides(a) PROVE LogInv'
<1> USE DEF searchVars, Seqs
<1>1. TypeOK'
  BY Zenon DEF LogInv, TypeOK, PutCollides, Goto, PCs, Waiting, Search
<1>2. HintsStored' /\ Existing' = Existing
  BY Zenon DEF LogInv, HintsStored, PutCollides, Stored, Existing
<1>3. CallKnows(a)'
  BY <1>2, Zenon DEF LogInv, TypeOK, CallKnows, PutCollides, Goto, Stored, Search
<1> QED
  BY <1>1, <1>2, <1>3, LocalStep, Zenon DEF LogInv, TypeOK, PutCollides, Goto

(* Raising the hint to the number just written preserves the invariant.    *)
LEMMA ReturnStep == ASSUME LogInv, NEW a \in Appends, Return(a) PROVE LogInv'
<1> USE ConstantsOK DEF searchVars, Seqs, ConstantsOK
<1>1. TypeOK'
  BY Zenon DEF LogInv, TypeOK, Return, Goto, PCs, Ended, Larger
<1>2. HintsStored' /\ Existing' = Existing
  BY DEF LogInv, TypeOK, HintsStored, Return, Goto, Stored, Existing, Larger, CallKnows
<1>3. CallKnows(a)'
  BY <1>2, Zenon DEF LogInv, TypeOK, CallKnows, Return, Goto, Stored, Search
<1> QED
  BY <1>1, <1>2, <1>3, LocalStep, Zenon DEF LogInv, TypeOK, Return, Goto

(* A call that ends with an error preserves the invariant.                 *)
LEMMA ErrorStep == ASSUME LogInv, NEW a \in Appends, StoreError(a) PROVE LogInv'
<1> USE ConstantsOK DEF searchVars, Seqs, ConstantsOK
<1>1. TypeOK'
  BY DEF LogInv, TypeOK, StoreError, PCs, Ended, Drop
<1>2. HintsStored' /\ Existing' = Existing
  BY Zenon DEF LogInv, HintsStored, StoreError, Stored, Existing
<1>3. CallKnows(a)'
  BY <1>2, Zenon DEF LogInv, TypeOK, CallKnows, StoreError, Stored, Search, Drop
<1> QED
  BY <1>1, <1>2, <1>3, LocalStep, Zenon DEF LogInv, TypeOK, StoreError, Drop

(* Beginning to list preserves the invariant: what is noted exists.        *)
LEMMA ListBeginStep == ASSUME LogInv, NEW a \in Appends, ListBegin(a) PROVE LogInv'
<1> USE DEF jumpVars, Seqs
<1>1. TypeOK'
  BY Zenon DEF LogInv, TypeOK, ListBegin, Goto, PCs, Waiting, Search, Existing
<1>2. HintsStored' /\ Existing' = Existing
  BY Zenon DEF LogInv, HintsStored, ListBegin, Stored, Existing
<1>3. CallKnows(a)'
  BY <1>2, Zenon DEF LogInv, TypeOK, CallKnows, ListBegin, Goto, Stored, Search
<1> QED
  BY <1>1, <1>2, <1>3, LocalStep, Zenon DEF LogInv, TypeOK, ListBegin, Goto

(* However the listing was filled, its last key is an entry that exists,   *)
(* and on a short page nothing the listing had to hold is beyond it.       *)
LEMMA ListEndStep == ASSUME LogInv, NEW a \in Appends, ListEnd(a) PROVE LogInv'
<1> USE DEF Seqs
<1> PICK extra \in SUBSET (Existing \ snap[a]) :
      \/ /\ Following(a, extra) = {}
         /\ Goto(a, "listing", "headed")
         /\ low' = [low EXCEPT ![a] = seq[a]]
      \/ /\ Goto(a, "listing", "headed")
         /\ \E last \in Following(a, extra) :
              /\ \A s \in Following(a, extra) : s <= last
              /\ low' = [low EXCEPT ![a] = last]
      \/ /\ Goto(a, "listing", "probe")
         /\ \E last \in Following(a, extra) : low' = [low EXCEPT ![a] = last]
  BY Zenon DEF ListEnd
<1>0. /\ pc[a] = "listing" /\ snap[a] \subseteq Existing /\ Stored(seq[a])
      /\ Existing \subseteq Seqs /\ \A s \in Existing : objects[s] # None
      /\ seq[a] \in Seqs
  BY Zenon DEF LogInv, TypeOK, CallKnows, Goto, Search, Existing
<1>n. seq[a] \in Nat /\ \A s \in Seqs : s \in Nat
  BY <1>0
<1>1. /\ Following(a, extra) \subseteq Existing
      /\ \A s \in Following(a, extra) : s > seq[a]
      /\ \A s \in snap[a] : s <= seq[a] \/ s \in Following(a, extra)
  <2>1. ASSUME NEW s \in snap[a], s \notin Following(a, extra) PROVE s <= seq[a]
    <3>1. s \in Nat
      BY <1>0, <1>n, Zenon
    <3> QED
      BY <1>n, <2>1, <3>1 DEF Following
  <2> QED
    BY <1>0, <2>1, Zenon DEF Following
<1>2. PICK last \in Seqs, to \in {"headed", "probe"} :
        /\ low' = [low EXCEPT ![a] = last] /\ pc' = [pc EXCEPT ![a] = to]
        /\ Stored(last)
        /\ to = "headed" => \A s \in snap[a] : s <= last
  <2>1. CASE /\ Following(a, extra) = {}
             /\ Goto(a, "listing", "headed") /\ low' = [low EXCEPT ![a] = seq[a]]
    <3>1. \A s \in snap[a] : s <= seq[a]
      BY <2>1, <1>1, Zenon
    <3> QED
      BY <2>1, <3>1, <1>0, Zenon DEF Goto
  <2>2. CASE /\ Goto(a, "listing", "headed")
             /\ \E last \in Following(a, extra) :
                  /\ \A s \in Following(a, extra) : s <= last
                  /\ low' = [low EXCEPT ![a] = last]
    <3> PICK last \in Following(a, extra) :
               /\ \A s \in Following(a, extra) : s <= last
               /\ low' = [low EXCEPT ![a] = last]
      BY <2>2, Zenon
    <3>1. last \in Seqs /\ objects[last] # None /\ seq[a] < last
      BY <1>0, <1>1, Zenon
    <3>2. ASSUME NEW s \in snap[a] PROVE s <= last
      <4>1. s \in Nat /\ last \in Nat
        BY <1>0, <1>n, <3>1, Zenon
      <4> QED
        BY <1>1, <1>n, <3>1, <4>1
    <3> QED
      BY <2>2, <3>1, <3>2, Zenon DEF Goto, Stored
  <2>3. CASE /\ Goto(a, "listing", "probe")
             /\ \E last \in Following(a, extra) : low' = [low EXCEPT ![a] = last]
    BY <2>3, <1>0, <1>1, Zenon DEF Goto, Stored
  <2> QED
    BY <2>1, <2>2, <2>3, Zenon
<1>3. TypeOK'
  BY <1>2, Zenon DEF LogInv, TypeOK, ListEnd, PCs, Waiting, Search
<1>4. HintsStored' /\ Existing' = Existing
  BY Zenon DEF LogInv, HintsStored, ListEnd, Stored, Existing
<1>5. CallKnows(a)'
  BY <1>0, <1>2, <1>4, Zenon DEF LogInv, TypeOK, CallKnows, ListEnd, Stored, Search
<1> QED
  BY <1>0, <1>2, <1>3, <1>4, <1>5, LocalStep, Zenon DEF LogInv, TypeOK, ListEnd

(* If the number after low is free, nothing seen is beyond low.            *)
LEMMA FreeBounds ==
  ASSUME LogInv, NEW a \in Appends, NEW h \in 1..MaxSeq, objects[h] = None
  PROVE  \A s \in snap[a] : s < h
<1> USE ConstantsOK DEF Seqs
<1> SUFFICES ASSUME NEW s \in snap[a], ~(s < h) PROVE FALSE
  BY Zenon
<1>1. s \in Seqs /\ objects[s] # None
  BY Zenon DEF LogInv, CallKnows, Existing
<1>2. s = h \/ h < s
  BY <1>1
<1> QED
  BY <1>1, <1>2 DEF LogInv, Contiguous

(* The first probe of jump preserves the invariant: when it finds nothing, *)
(* nothing noted lies beyond.                                              *)
LEMMA ProbeStep == ASSUME LogInv, NEW a \in Appends, ProbeNext(a) PROVE LogInv'
<1> USE ConstantsOK DEF Seqs
<1>0. /\ low[a] \in Seqs /\ pc[a] = "probe" /\ Stored(low[a]) /\ Stored(seq[a])
      /\ snap[a] \subseteq Seqs /\ objects' = objects
  BY Zenon DEF LogInv, TypeOK, ProbeNext, Goto, CallKnows, Search
<1>1. HintsStored' /\ Existing' = Existing
  BY <1>0, Zenon DEF LogInv, HintsStored, ProbeNext, Stored, Existing
<1>2. CASE /\ low[a] = MaxSeq \/ objects[After(low[a])] = None
           /\ Goto(a, "probe", "headed")
           /\ UNCHANGED jumpVars
  <2>1. \A s \in snap[a] : s <= low[a]
    <3>1. CASE low[a] = MaxSeq
      BY <3>1, <1>0
    <3>2. CASE low[a] # MaxSeq
      <4>1. low[a] + 1 \in 1..MaxSeq /\ objects[low[a] + 1] = None
        BY <1>0, <1>2, <3>2 DEF After
      <4>2. \A s \in snap[a] : s < low[a] + 1
        BY <4>1, FreeBounds, Zenon
      <4> QED
        BY <1>0, <4>2
    <3> QED
      BY <3>1, <3>2, Zenon
  <2>2. TypeOK'
    BY <1>2, Zenon DEF LogInv, TypeOK, ProbeNext, Goto, jumpVars, PCs
  <2>3. CallKnows(a)'
    BY <1>0, <1>1, <1>2, <2>1, Zenon
       DEF LogInv, TypeOK, CallKnows, ProbeNext, Goto, jumpVars, Search, Stored
  <2> QED
    BY <1>0, <1>1, <1>2, <2>2, <2>3, LocalStep, Zenon
       DEF LogInv, TypeOK, ProbeNext, Goto, jumpVars
<1>3. CASE /\ low[a] # MaxSeq /\ objects[After(low[a])] # None
           /\ Goto(a, "probe", "grow")
           /\ low'  = [low  EXCEPT ![a] = @ + 1]
           /\ high' = [high EXCEPT ![a] = low[a] + 1]
           /\ step' = [step EXCEPT ![a] = 1]
  <2>1. low[a] + 1 \in Seqs /\ 1 \in Seqs /\ objects[low[a] + 1] # None
    BY <1>0, <1>3 DEF After
  <2>2. TypeOK'
    BY <1>3, <2>1, Zenon DEF LogInv, TypeOK, ProbeNext, Goto, PCs, Waiting, Search
  <2>3. low'[a] = low[a] + 1 /\ high'[a] = low[a] + 1 /\ pc'[a] = "grow"
        /\ snap' = snap /\ seq' = seq /\ low[a] + 1 # 0
    BY <1>0, <1>3 DEF LogInv, TypeOK, ProbeNext, Goto
  <2>4. CallKnows(a)'
    BY <1>0, <1>1, <2>1, <2>3, Zenon DEF LogInv, CallKnows, Search, Stored
  <2> QED
    BY <1>0, <1>1, <1>3, <2>2, <2>4, LocalStep, Zenon DEF LogInv, TypeOK, ProbeNext, Goto
<1> QED
  BY <1>2, <1>3, Zenon DEF ProbeNext

(* The strides of jump stay within the sequence numbers: clamping avoids   *)
(* the overflow.                                                           *)
LEMMA NextHighInRange ==
  ASSUME NEW h \in Seqs, NEW st \in Seqs
  PROVE  NextHigh(h, st) \in Seqs /\ NextStep(h, st) \in Seqs
BY ConstantsOK DEF Seqs, NextHigh, NextStep

(* A stride of jump preserves the invariant: low exists, and past a miss   *)
(* nothing noted lies beyond high.                                         *)
LEMMA GrowStep == ASSUME LogInv, NEW a \in Appends, Grow(a) PROVE LogInv'
<1> USE ConstantsOK
<1> DEFINE h == NextHigh(high[a], step[a])
<1>0. /\ low[a] \in Seqs /\ high[a] \in Seqs /\ step[a] \in Seqs
      /\ pc[a] = "grow" /\ Stored(low[a]) /\ Stored(seq[a])
      /\ snap[a] \subseteq Seqs /\ objects' = objects /\ seq' = seq /\ snap' = snap
  BY Zenon DEF LogInv, TypeOK, Grow, Goto, CallKnows, Search
<1>1. HintsStored' /\ Existing' = Existing
  BY <1>0, Zenon DEF LogInv, HintsStored, Grow, Stored, Existing
<1>2. h \in Seqs /\ NextStep(high[a], step[a]) \in Seqs
  BY <1>0, NextHighInRange, Zenon
<1>3. TypeOK'
  BY <1>2 DEF LogInv, TypeOK, Grow, Goto, PCs, Waiting, Search
<1>4. high'[a] = h
  BY Zenon DEF LogInv, TypeOK, Grow
<1>6. h # 0
  <2>1. high[a] # 0
    BY <1>0, Zenon DEF LogInv, CallKnows
  <2> QED
    BY <1>0, <2>1 DEF NextHigh, Seqs
<1>5. CallKnows(a)'
  <2>1. CASE objects[h] = None /\ Goto(a, "grow", "bisect") /\ UNCHANGED low
    <3>1. \A s \in snap[a] : s < h
      BY <1>2, <1>6, <2>1, FreeBounds DEF Seqs
    <3>2. pc'[a] = "bisect" /\ low' = low
      BY <2>1, Zenon DEF LogInv, TypeOK, Goto
    <3> QED
      BY <1>0, <1>1, <1>4, <3>1, <3>2, Zenon DEF LogInv, CallKnows, Search, Stored
  <2>2. CASE /\ objects[h] # None
             /\ Goto(a, "grow", IF h = MaxSeq THEN "headed" ELSE "grow")
             /\ low' = [low EXCEPT ![a] = h]
    <3>1. low'[a] = h /\ pc'[a] = IF h = MaxSeq THEN "headed" ELSE "grow"
      BY <2>2, Zenon DEF LogInv, TypeOK, Goto
    <3>2. h = MaxSeq => \A s \in snap[a] : s <= h
      BY <1>0 DEF Seqs
    <3> QED
      BY <1>0, <1>1, <1>4, <1>6, <2>2, <3>1, <3>2, Zenon DEF LogInv, CallKnows, Search, Stored
  <2> QED
    BY <2>1, <2>2, Zenon DEF Grow
<1> QED
  BY <1>0, <1>1, <1>3, <1>5, LocalStep, Zenon DEF LogInv, TypeOK, Grow, Goto

(* A probe between low and high preserves the invariant on both sides.     *)
LEMMA BisectStep == ASSUME LogInv, NEW a \in Appends, Bisect(a) PROVE LogInv'
<1> USE ConstantsOK
<1> DEFINE mid == Middle(low[a], high[a])
<1>0. /\ low[a] \in Seqs /\ high[a] \in Seqs /\ low[a] + 1 < high[a]
      /\ pc[a] = "bisect" /\ pc'[a] = "bisect" /\ Stored(low[a]) /\ Stored(seq[a])
      /\ objects' = objects /\ seq' = seq /\ snap' = snap
      /\ \A s \in snap[a] : s < high[a]
  BY Zenon DEF LogInv, TypeOK, Bisect, Goto, CallKnows, Search
<1>1. HintsStored' /\ Existing' = Existing
  BY <1>0, Zenon DEF LogInv, HintsStored, Bisect, Stored, Existing
<1>2. mid \in Seqs /\ mid # 0
  BY <1>0 DEF Middle, Seqs
<1>3. TypeOK'
  BY <1>2 DEF LogInv, TypeOK, Bisect, Goto
<1>4. CallKnows(a)'
  <2>1. CASE objects[mid] # None /\ low' = [low EXCEPT ![a] = mid] /\ UNCHANGED high
    <3>1. low'[a] = mid
      BY <2>1, Zenon DEF LogInv, TypeOK
    <3> QED
      BY <1>0, <1>1, <2>1, <3>1, Zenon DEF LogInv, CallKnows, Search, Stored
  <2>2. CASE objects[mid] = None /\ high' = [high EXCEPT ![a] = mid] /\ UNCHANGED low
    <3>1. \A s \in snap[a] : s < mid
      BY <1>2, <2>2, FreeBounds DEF Seqs
    <3>2. high'[a] = mid
      BY <2>2, Zenon DEF LogInv, TypeOK
    <3> QED
      BY <1>0, <1>1, <2>2, <3>1, <3>2, Zenon DEF LogInv, CallKnows, Search, Stored
  <2> QED
    BY <2>1, <2>2, Zenon DEF Bisect
<1> QED
  BY <1>0, <1>1, <1>3, <1>4, LocalStep, Zenon DEF LogInv, TypeOK, Bisect, Goto

(* When low and high meet, nothing noted lies beyond low.                  *)
LEMMA BisectEndsStep == ASSUME LogInv, NEW a \in Appends, BisectEnds(a) PROVE LogInv'
<1> USE DEF searchVars
<1>0. /\ low[a] \in Seqs /\ high[a] \in Seqs /\ snap[a] \subseteq Seqs
      /\ low[a] + 1 >= high[a] /\ pc[a] = "bisect" /\ pc'[a] = "headed"
      /\ Stored(low[a]) /\ \A s \in snap[a] : s < high[a]
      /\ UNCHANGED <<objects, seq, low, snap>>
  BY Zenon DEF LogInv, TypeOK, BisectEnds, Goto, CallKnows
<1>1. HintsStored' /\ Existing' = Existing
  BY <1>0, Zenon DEF LogInv, HintsStored, BisectEnds, Stored, Existing
<1>2. TypeOK'
  BY Zenon DEF LogInv, TypeOK, BisectEnds, Goto, PCs
<1>3. \A s \in snap[a] : s <= low[a]
  BY <1>0 DEF Seqs
<1>4. CallKnows(a)'
  BY <1>0, <1>1, <1>3, Zenon DEF LogInv, CallKnows, Search, Stored
<1> QED
  BY <1>0, <1>1, <1>2, <1>4, LocalStep, Zenon DEF LogInv, TypeOK, BisectEnds, Goto

(* What head returns exists, so the hint may be raised to it and the       *)
(* number after it tried.                                                  *)
LEMMA HeadReturnsStep == ASSUME LogInv, NEW a \in Appends, HeadReturns(a) PROVE LogInv'
<1> USE ConstantsOK
<1>0. /\ low[a] \in Seqs /\ seq[a] \in Seqs /\ NodeOf[a] \in Nodes
      /\ lastKnown[NodeOf[a]] \in Seqs /\ Stored(low[a]) /\ pc[a] = "headed"
      /\ After(low[a]) \in Seqs /\ Larger(lastKnown[NodeOf[a]], low[a]) \in Seqs
      /\ Stored(Larger(lastKnown[NodeOf[a]], low[a]))
      /\ objects' = objects /\ lost' = lost
  BY DEF LogInv, TypeOK, HeadReturns, Goto, CallKnows, Seqs, After, Larger, HintsStored
<1>1. /\ snap'[a] = {}
      /\ \A b \in Appends \ {a} : /\ low'[b] = low[b] /\ high'[b] = high[b]
                                   /\ snap'[b] = snap[b]
  BY Zenon DEF HeadReturns, Drop
<1>2. TypeOK'
  <2>0. 0 \in Seqs
    BY DEF Seqs
  <2>1. /\ low' \in [Appends -> Seqs] /\ high' \in [Appends -> Seqs]
        /\ step' \in [Appends -> Seqs] /\ snap' \in [Appends -> SUBSET Seqs]
    BY <2>0, Zenon DEF LogInv, TypeOK, HeadReturns, Drop
  <2>2. pc' \in [Appends -> PCs]
    <3>1. pc' = [pc EXCEPT ![a] = "next"] \/ pc' = [pc EXCEPT ![a] = "put"]
      BY Zenon DEF HeadReturns, Goto
    <3>2. "next" \in PCs /\ "put" \in PCs
      BY Zenon DEF PCs, Waiting
    <3> QED
      BY <3>1, <3>2, Zenon DEF LogInv, TypeOK
  <2>3. seq' \in [Appends -> Seqs] /\ lastKnown' \in [Nodes -> Seqs]
    BY <1>0 DEF LogInv, TypeOK, HeadReturns
  <2> QED
    BY <1>0, <2>1, <2>2, <2>3, Zenon DEF LogInv, TypeOK
<1>3. HintsStored'
  <2> SUFFICES ASSUME NEW n \in Nodes PROVE Stored(lastKnown[n])'
    BY Zenon DEF HintsStored
  <2>1. \/ lastKnown'[n] = lastKnown[n]
        \/ lastKnown'[n] = Larger(lastKnown[NodeOf[a]], low[a])
    BY Zenon DEF LogInv, TypeOK, HeadReturns
  <2>2. Stored(lastKnown[n])
    BY Zenon DEF LogInv, HintsStored
  <2> QED
    BY <1>0, <2>1, <2>2, Zenon DEF Stored
<1>4. CallKnows(a)'
  <2>1. CASE seq[a] = 0
    BY <1>1, <2>1 DEF LogInv, TypeOK, HeadReturns, Goto, CallKnows, Search
  <2>2. CASE seq[a] # 0
    <3>1. pc'[a] = "put" /\ seq'[a] = After(low[a])
      BY <2>2, Zenon DEF LogInv, TypeOK, HeadReturns, Goto
    <3>2. seq'[a] = 0 \/ Stored(seq[a] - 1)'
      BY <1>0, <3>1 DEF After, Stored, Seqs
    <3> QED
      BY <1>1, <3>1, <3>2, Zenon DEF CallKnows, Search
  <2> QED
    BY <2>1, <2>2, Zenon
<1>5. pc[a] = "headed" /\ UNCHANGED <<objects, lost>>
      /\ \A b \in Appends \ {a} : pc'[b] = pc[b] /\ seq'[b] = seq[b]
  BY Zenon DEF LogInv, TypeOK, HeadReturns, Goto
<1>6. "headed" \notin {"won", "done", "failed"}
  OBVIOUS
<1> QED
  BY <1>0, <1>1, <1>2, <1>3, <1>4, <1>5, <1>6, LocalStep, Zenon

(* The one step that creates an object.  Its number follows a stored one,  *)
(* so the log stays contiguous, and what others know only becomes truer.   *)
LEMMA CreateStep == ASSUME LogInv, NEW a \in Appends, PutCreates(a) PROVE LogInv'
<1> USE ConstantsOK
<1> DEFINE k == seq[a]
<1>0. /\ k \in 1..MaxEntries /\ k \in Seqs /\ objects[k] = None /\ pc[a] = "put"
      /\ Stored(k - 1) /\ a # None /\ a \in Entries
      /\ objects' = [objects EXCEPT ![k] = a]
      /\ UNCHANGED <<lastKnown, low, high, step, snap>>
  BY DEF LogInv, TypeOK, CallKnows, PutCreates, Goto, searchVars, Seqs, Entries
<1>1. /\ objects'[k] = a
      /\ \A s \in Seqs : s # k => objects'[s] = objects[s]
      /\ \A s \in Seqs : Stored(s) => Stored(s)'
      /\ Existing \subseteq Existing'
  BY <1>0, Zenon DEF LogInv, TypeOK, Stored, Existing
<1>2. /\ \/ pc'[a] = "won" /\ seq' = seq /\ lost' = lost
         \/ /\ pc'[a] = "failed" \/ (pc'[a] = "list" /\ seq' = seq)
            /\ lost'[a] = TRUE
      /\ \A b \in Appends \ {a} :
           pc'[b] = pc[b] /\ seq'[b] = seq[b] /\ lost'[b] = lost[b]
  BY Zenon DEF LogInv, TypeOK, PutCreates, Goto
<1>3. TypeOK'
  <2>1. objects' \in [Seqs -> Entries \cup {None}]
    BY <1>0, Zenon DEF LogInv, TypeOK
  <2>2. pc' \in [Appends -> PCs]
    BY Zenon DEF LogInv, TypeOK, PutCreates, Goto, PCs, Waiting, Search, Ended
  <2>3. seq' \in [Appends -> Seqs]
    <3>1. 0 \in Seqs /\ (seq' = seq \/ seq' = [seq EXCEPT ![a] = 0])
      BY DEF PutCreates, Seqs
    <3> QED
      BY <3>1, Zenon DEF LogInv, TypeOK
  <2>4. lost' \in [Appends -> BOOLEAN]
    BY Zenon DEF LogInv, TypeOK, PutCreates
  <2> QED
    BY <1>0, <2>1, <2>2, <2>3, <2>4, Zenon DEF LogInv, TypeOK
<1>4. Contiguous'
  <2> SUFFICES ASSUME NEW s \in 1..MaxSeq, NEW t \in 1..MaxSeq, s < t,
                      objects'[t] # None
               PROVE  objects'[s] # None
    BY <1>0, <1>1 DEF Contiguous, LogInv, Seqs
  <2>1. CASE t = k
    <3>1. s = k - 1 \/ s < k - 1
      BY <1>0, <2>1
    <3>2. objects[s] # None
      BY <1>0, <2>1, <3>1 DEF LogInv, Contiguous, Stored
    <3> QED
      BY <1>0, <1>1, <2>1, <3>2 DEF Seqs
  <2>2. CASE t # k
    <3>1. objects[s] # None
      BY <1>1, <2>2 DEF LogInv, Contiguous, Seqs
    <3> QED
      BY <1>0, <1>1, <3>1 DEF Seqs
  <2> QED
    BY <2>1, <2>2, Zenon
<1>5. HintsStored'
  BY <1>0, <1>1, Zenon DEF LogInv, TypeOK, HintsStored
<1>6. ASSUME NEW b \in Appends PROVE CallKnows(b)'
  <2>0. /\ CallKnows(b) /\ seq[b] \in Seqs /\ low[b] \in Seqs
        /\ pc[b] = "put" /\ seq[b] # 0 => seq[b] - 1 \in Seqs
    BY DEF LogInv, TypeOK, Seqs
  <2>1. CASE b = a
    BY <1>0, <1>1, <1>2, <2>0, <2>1, Zenon DEF CallKnows, Search, Stored
  <2>2. CASE b # a
    <3>1. /\ pc'[b] = pc[b] /\ seq'[b] = seq[b] /\ low'[b] = low[b]
          /\ high'[b] = high[b] /\ snap'[b] = snap[b]
      BY <1>0, <1>2, <2>2, Zenon
    <3>2. pc[b] \in {"won", "done"} => objects'[seq[b]] = b
      BY <1>0, <1>1, <2>0, Zenon DEF CallKnows, ConstantsOK
    <3>3. /\ pc[b] = "put" => seq[b] = 0 \/ Stored(seq[b] - 1)'
          /\ pc[b] \in Search => Stored(seq[b])'
          /\ pc[b] \in {"probe", "grow", "bisect", "headed"} => Stored(low[b])'
      <4>1. pc[b] = "put" /\ seq[b] # 0 => Stored(seq[b] - 1)'
        BY <1>1, <2>0, <3>1, Zenon DEF CallKnows, Stored
      <4>2. pc[b] \in Search => Stored(seq[b])'
        BY <1>1, <2>0, <3>1, Zenon DEF CallKnows, Stored
      <4>3. pc[b] \in {"probe", "grow", "bisect", "headed"} => Stored(low[b])'
        BY <1>1, <2>0, <3>1, Zenon DEF CallKnows, Stored
      <4> QED
        BY <4>1, <4>2, <4>3, Zenon
    <3> QED
      BY <1>1, <2>0, <3>1, <3>2, <3>3, Zenon DEF CallKnows
  <2> QED
    BY <2>1, <2>2, Zenon
<1>7. NotYetWritten'
  <2> SUFFICES ASSUME NEW b \in Appends, NEW s \in Seqs, ~lost'[b], objects'[s] = b
               PROVE  pc'[b] \in {"won", "done", "failed"}
    BY Zenon DEF NotYetWritten
  <2>1. CASE b = a
    BY <1>2, <2>1, Zenon
  <2>2. CASE b # a
    BY <1>1, <1>2, <2>2, Zenon DEF LogInv, NotYetWritten
  <2> QED
    BY <2>1, <2>2, Zenon
<1>8. OnceUnlessLost'
  <2> SUFFICES ASSUME NEW b \in Appends, NEW s \in Seqs, NEW t \in Seqs,
                      ~lost'[b], objects'[s] = b, objects'[t] = b
               PROVE  s = t
    BY Zenon DEF OnceUnlessLost
  <2>1. CASE b = a
    <3>1. ~lost[a]
      BY <1>2, <2>1, Zenon
    <3>2. \A r \in Seqs : objects[r] # a
      BY <1>0, <3>1, Zenon DEF LogInv, NotYetWritten
    <3> QED
      BY <1>1, <2>1, <3>2, Zenon
  <2>2. CASE b # a
    BY <1>1, <1>2, <2>2 DEF LogInv, OnceUnlessLost
  <2> QED
    BY <2>1, <2>2, Zenon
<1> QED
  BY <1>3, <1>4, <1>5, <1>6, <1>7, <1>8, Zenon DEF LogInv

(* A node that stops and starts again with no hint preserves the           *)
(* invariant.                                                              *)
LEMMA CrashStep == ASSUME LogInv, NEW n \in Nodes, Crash(n) PROVE LogInv'
<1> USE ConstantsOK
<1>0. UNCHANGED <<objects, lost>> /\ Existing' = Existing
  BY Zenon DEF Crash, Existing
<1>1. ASSUME NEW b \in Appends
      PROVE  \/ /\ pc'[b] = pc[b] /\ seq'[b] = seq[b] /\ low'[b] = low[b]
                /\ high'[b] = high[b] /\ step'[b] = step[b] /\ snap'[b] = snap[b]
             \/ /\ pc'[b] = "failed" /\ seq'[b] = 0 /\ low'[b] = 0
                /\ high'[b] = 0 /\ step'[b] = 0 /\ snap'[b] = {}
  BY <1>0, Zenon DEF Crash, Drop
<1>2. /\ pc' \in [Appends -> PCs] /\ seq' \in [Appends -> Seqs]
      /\ low' \in [Appends -> Seqs] /\ high' \in [Appends -> Seqs]
      /\ step' \in [Appends -> Seqs] /\ snap' \in [Appends -> SUBSET Seqs]
      /\ lastKnown' \in [Nodes -> Seqs]
  BY DEF LogInv, TypeOK, Crash, Drop, PCs, Ended, Seqs
<1>3. TypeOK'
  BY <1>0, <1>2, Zenon DEF LogInv, TypeOK
<1>4. HintsStored'
  BY <1>0, Zenon DEF LogInv, TypeOK, HintsStored, Crash, Stored
<1>5. ASSUME NEW b \in Appends PROVE CallKnows(b)'
  BY <1>0, <1>1, <1>5, Zenon DEF LogInv, CallKnows, Stored, Search
<1>6. Contiguous' /\ OnceUnlessLost'
  BY <1>0, Zenon DEF LogInv, Contiguous, OnceUnlessLost
<1>7. NotYetWritten'
  BY <1>0, <1>1, Zenon DEF LogInv, NotYetWritten
<1> QED
  BY <1>3, <1>4, <1>5, <1>6, <1>7, Zenon DEF LogInv

(* Every step preserves the invariant.                                     *)
LEMMA NextInv == LogInv /\ [Next]_vars => LogInv'
<1> SUFFICES ASSUME LogInv, [Next]_vars PROVE LogInv'
  BY Zenon
<1>1. CASE UNCHANGED vars
  <2>1. UNCHANGED <<objects, lastKnown, pc, seq, low, high, step, snap, lost>>
    BY <1>1, Zenon DEF vars
  <2>2. TypeOK' /\ Contiguous' /\ OnceUnlessLost'
    BY <2>1, Zenon DEF LogInv, TypeOK, Contiguous, OnceUnlessLost
  <2>3. HintsStored' /\ NotYetWritten'
    BY <2>1, Zenon DEF LogInv, HintsStored, NotYetWritten, Stored
  <2>4. \A a \in Appends : CallKnows(a)'
    BY <2>1, Zenon DEF LogInv, CallKnows, Stored, Existing
  <2> QED
    BY <2>2, <2>3, <2>4, Zenon DEF LogInv
<1>2. ASSUME NEW a \in Appends, Advance(a) \/ StoreError(a) PROVE LogInv'
  BY <1>2, StartStep, AimStep, CreateStep, CollideStep, ReturnStep, ErrorStep,
     ListBeginStep, ListEndStep, ProbeStep, GrowStep, BisectStep, BisectEndsStep,
     HeadReturnsStep, Zenon DEF Advance, SearchStep
<1>3. ASSUME NEW n \in Nodes, Crash(n) PROVE LogInv'
  BY <1>3, CrashStep, Zenon
<1> QED
  BY <1>1, <1>2, <1>3, Zenon DEF Next
-----------------------------------------------------------------------------
(* LogInv holds in every state that calls of Append, errors and crashes    *)
(* can reach.                                                              *)
THEOREM LogInvariant == Spec => []LogInv
BY InitInv, NextInv, PTL DEF Spec

(* The variables of log.go's Append, head and jump keep their types: no    *)
(* stride of jump leaves the range of the sequence numbers.                *)
THEOREM TypeCorrect == Spec => []TypeOK
<1>1. LogInv => TypeOK
  BY Zenon DEF LogInv
<1> QED
  BY <1>1, LogInvariant, PTL

(* However many nodes append, collide, crash and lose answers, the numbers *)
(* of the entries are 1..N without a gap.                                  *)
THEOREM LogIsContiguous == Spec => []Contiguous
<1>1. LogInv => Contiguous
  BY Zenon DEF LogInv
<1> QED
  BY <1>1, LogInvariant, PTL

(* An acknowledged entry is in the log, under the number Append returned.  *)
THEOREM AcknowledgedStays == Spec => []AcknowledgedIsDurable
<1>1. LogInv => AcknowledgedIsDurable
  BY Zenon DEF LogInv, CallKnows, AcknowledgedIsDurable
<1> QED
  BY <1>1, LogInvariant, PTL

(* Append writes its batch once, unless the answer to a write is lost.     *)
THEOREM WrittenOnce == Spec => []OnceUnlessLost
<1>1. LogInv => OnceUnlessLost
  BY Zenon DEF LogInv
<1> QED
  BY <1>1, LogInvariant, PTL

(* The exponential and binary search of jump is right although the log     *)
(* grows under it: head returns a length the log had during the call.      *)
THEOREM HeadIsCurrent == Spec => []HeadWasCurrent
<1>1. LogInv => HeadWasCurrent
  BY Zenon DEF LogInv, CallKnows, HeadWasCurrent, Stored
<1> QED
  BY <1>1, LogInvariant, PTL

(* The object that a conditional write creates is the one behind the last: *)
(* Append has seen its predecessor, and its own number is free.            *)
LEMMA CreatesAtEnd ==
  ASSUME LogInv, NEW a \in Appends, PutCreates(a)
  PROVE  seq[a] \in 1..MaxSeq /\ objects[seq[a]] = None /\ Existing = 1..(seq[a] - 1)
<1> DEFINE s == seq[a]
<1>1. MaxSeq \in Nat /\ 1..MaxEntries \subseteq 1..MaxSeq
  BY ConstantsOK
<1>2. objects[s] = None /\ s \in 1..MaxSeq /\ Stored(s - 1)
  <2>1. objects[s] = None /\ s \in 1..MaxEntries
    BY Zenon DEF PutCreates
  <2>2. s = 0 \/ Stored(s - 1)
    BY Zenon DEF LogInv, CallKnows, PutCreates, Goto
  <2> QED
    BY <1>1, <2>1, <2>2
<1> HIDE DEF s
<1>3. ASSUME NEW t \in Seqs PROVE objects[t] # None <=> t \in 1..(s - 1)
  <2>1. CASE t = 0 \/ t = s
    BY <1>1, <1>2, <2>1 DEF LogInv, Contiguous
  <2>2. CASE t > s
    BY <1>1, <1>2, <2>2 DEF LogInv, Contiguous, Seqs
  <2>3. CASE t \in 1..(s - 1)
    <3>1. t = s - 1 \/ (t < s - 1 /\ s - 1 \in 1..MaxSeq /\ t \in 1..MaxSeq)
      BY <1>1, <1>2, <2>3
    <3> QED
      BY <1>1, <1>2, <2>3, <3>1 DEF LogInv, Contiguous, Stored
  <2> QED
    BY <1>1, <1>2, <2>1, <2>2, <2>3 DEF Seqs
<1>4. 1..(s - 1) \subseteq Seqs
  BY <1>1, <1>2 DEF Seqs
<1>5. Existing = 1..(s - 1)
  BY <1>3, <1>4, Zenon DEF Existing
<1> QED
  BY <1>2, <1>5, Zenon DEF s

(* Only a conditional write changes the objects.                           *)
LEMMA OnlyPutWrites ==
  ASSUME [Next]_vars, objects' # objects
  PROVE  \E a \in Appends : PutCreates(a)
<1>1. (\E a \in Appends : Advance(a) \/ StoreError(a)) \/ (\E n \in Nodes : Crash(n))
  BY Zenon DEF Next, vars
<1>2. ASSUME NEW n \in Nodes PROVE ~Crash(n)
  BY Zenon DEF Crash
<1>3. PICK a \in Appends : Advance(a) \/ StoreError(a)
  BY <1>1, <1>2, Zenon
<1>4. ~Start(a) /\ ~Aim(a) /\ ~PutCollides(a) /\ ~Return(a) /\ ~StoreError(a)
  BY Zenon DEF Start, Aim, PutCollides, Return, StoreError
<1>5. ~SearchStep(a)
  BY Zenon DEF SearchStep, ListBegin, ListEnd, ProbeNext, Grow, Bisect, BisectEnds, HeadReturns
<1> QED
  BY <1>3, <1>4, <1>5, Zenon DEF Advance

(* Every step leaves the entries alone or adds one behind the last.        *)
THEOREM StepsAppendOnly == Spec => AppendOnly
<1> DEFINE Adds == \A s \in Seqs :
                     objects'[s] # objects[s] =>
                       objects[s] = None /\ Existing = 1..(s - 1)
<1>1. ASSUME LogInv, [Next]_vars PROVE [Adds]_objects
  <2> SUFFICES ASSUME objects' # objects, NEW s \in Seqs, objects'[s] # objects[s]
               PROVE  objects[s] = None /\ Existing = 1..(s - 1)
    BY Zenon
  <2>1. PICK a \in Appends : PutCreates(a)
    BY <1>1, OnlyPutWrites, Zenon
  <2>2. s = seq[a]
    BY <1>1, <2>1, Zenon DEF LogInv, TypeOK, PutCreates
  <2> QED
    BY <1>1, <2>1, <2>2, CreatesAtEnd, Zenon
<1> QED
  BY <1>1, LogInvariant, PTL DEF Spec, AppendOnly

(* Racing Appends leave no gap in the log and write each batch once, and   *)
(* the length that head returns is one the log had during the call.        *)
THEOREM RacesAreSafe == Spec => []RaceIsSafe
<1>1. Contiguous /\ OnceUnlessLost /\ HeadWasCurrent => RaceIsSafe
  BY Zenon DEF RaceIsSafe
<1> QED
  BY <1>1, LogIsContiguous, WrittenOnce, HeadIsCurrent, PTL
-----------------------------------------------------------------------------
(* LogStream implements Wal.  The log of Wal is the entries 1..N.  That    *)
(* they are an interval with a last number, and not only without a gap, is *)
(* what Packed adds to LogInv; a conditional write is then Append on       *)
(* sequences.                                                              *)
Packed == \E k \in Nat : Existing = 1..k

RefineInv == LogInv /\ Packed

(* The length of a packed log is its last number.                          *)
LEMMA LengthIs ==
  ASSUME NEW k \in Nat, Existing = 1..k
  PROVE  LogLength = k /\ logView = [s \in 1..k |-> objects[s]]
<1>1. Cardinality(1..k) = k
  BY FS_Interval, k \in Int, 1 \in Int
<1> QED
  BY <1>1, Zenon DEF LogLength, logView

(* The same, one state later.                                              *)
LEMMA LengthIsNext ==
  ASSUME NEW k \in Nat, Existing' = 1..k
  PROVE  logView' = [s \in 1..k |-> objects'[s]]
<1>1. Cardinality(1..k) = k
  BY FS_Interval, k \in Int, 1 \in Int
<1> QED
  BY <1>1, Zenon DEF LogLength, logView

(* A conditional write that succeeds appends the caller's batch.           *)
LEMMA CreateAppends ==
  ASSUME RefineInv, NEW a \in Appends, PutCreates(a)
  PROVE  Packed' /\ logView' = Append(logView, a)
<1> USE ConstantsOK
<1> DEFINE k == seq[a]
<1>1. k \in 1..MaxSeq /\ MaxSeq \in Nat /\ objects[k] = None /\ Existing = 1..(k - 1)
  BY CreatesAtEnd, Zenon DEF RefineInv
<1>2. /\ objects \in [Seqs -> Entries \cup {None}]
      /\ objects' = [objects EXCEPT ![k] = a] /\ a # None
  BY Zenon DEF RefineInv, LogInv, TypeOK, PutCreates
<1> HIDE DEF k
<1>3. k \in Seqs /\ k \in Nat /\ k - 1 \in Nat
  BY <1>1 DEF Seqs
<1>4. Existing' = 1..k
  <2>1. Existing' = Existing \cup {k}
    BY <1>2, <1>3, Zenon DEF Existing
  <2> QED
    BY <1>1, <1>3, <2>1
<1>5. logView = [s \in 1..(k - 1) |-> objects[s]]
  BY <1>1, <1>3, LengthIs, Zenon
<1>6. logView' = [s \in 1..k |-> objects'[s]]
  BY <1>3, <1>4, LengthIsNext, Zenon
<1>7. \A s \in 1..(k - 1) : objects'[s] = objects[s] /\ objects[s] \in Entries
  BY <1>1, <1>2, <1>3, Zenon DEF Existing, Seqs
<1>8. objects'[k] = a
  BY <1>2, <1>3, Zenon
<1>9. logView \in Seq(Entries) /\ Len(logView) = k - 1
  BY <1>3, <1>5, <1>7
<1>10. /\ Append(logView, a) \in Seq(Entries)
       /\ Len(Append(logView, a)) = k
       /\ \A s \in 1..(k - 1) : Append(logView, a)[s] = logView[s]
       /\ Append(logView, a)[k] = a
  BY <1>3, <1>9, AppendProperties DEF Entries
<1>11. logView' \in Seq(Entries) /\ Len(logView') = k
  <2>1. \A s \in 1..k : objects'[s] \in Entries
    BY <1>3, <1>7, <1>8 DEF Entries
  <2> QED
    BY <1>3, <1>6, <2>1
<1>12. \A s \in 1..k : logView'[s] = Append(logView, a)[s]
  BY <1>3, <1>5, <1>6, <1>7, <1>8, <1>10
<1>13. logView' = Append(logView, a)
  BY <1>10, <1>11, <1>12, SeqEqual, Zenon
<1> QED
  BY <1>3, <1>4, <1>13, Zenon DEF Packed

(* A step that creates no object leaves the log as its users see it.       *)
LEMMA SameLog ==
  ASSUME RefineInv, UNCHANGED objects
  PROVE  Packed' /\ UNCHANGED logView
BY Zenon DEF RefineInv, Packed, Existing, LogLength, logView

(* What a caller is told depends only on where its call is.                *)
LEMMA StatusIs ==
  /\ statusView = [a \in Appends |-> IF pc[a] = "done" THEN "acknowledged"
                                     ELSE IF pc[a] = "failed" THEN "failed" ELSE "pending"]
  /\ statusView' = [a \in Appends |-> IF pc'[a] = "done" THEN "acknowledged"
                                      ELSE IF pc'[a] = "failed" THEN "failed" ELSE "pending"]
BY Zenon DEF statusView

(* The entries that New finds are a log nobody has been told about.        *)
LEMMA InitMaps == Init => Packed /\ W!WalInit
<1> SUFFICES ASSUME Init PROVE Packed /\ W!WalInit
  BY Zenon
<1> USE ConstantsOK
<1> PICK k \in Preloads :
      objects = [s \in Seqs |-> IF s \in 1..k THEN "old" ELSE None]
  BY Zenon DEF Init
<1>1. k \in Nat /\ 1..k \subseteq Seqs
  BY DEF Seqs
<1>2. Existing = 1..k
  BY <1>1, Zenon DEF Existing
<1>3. logView = [s \in 1..k |-> "old"]
  BY <1>1, <1>2, LengthIs, Zenon
<1>4. logView \in Seq(Appends \cup {"old"})
  BY <1>1, <1>3
<1>5. statusView = [a \in Appends |-> "pending"] /\ atView = [a \in Appends |-> 0]
  BY StatusIs, Zenon DEF Init, atView
<1> QED
  BY <1>1, <1>2, <1>4, <1>5, Zenon DEF Packed, W!WalInit

(* A write extends the log; when its answer is lost and the caller sees an *)
(* error, it extends the log and fails.                                    *)
LEMMA CreateMaps ==
  ASSUME RefineInv, NEW a \in Appends, PutCreates(a)
  PROVE  W!WalNext
<1>1. logView' = Append(logView, a)
  BY CreateAppends, Zenon
<1>2. /\ pc \in [Appends -> PCs] /\ seq \in [Appends -> Seqs] /\ pc[a] = "put"
      /\ \/ pc' = [pc EXCEPT ![a] = "won"] /\ UNCHANGED seq
         \/ pc' = [pc EXCEPT ![a] = "list"] /\ UNCHANGED seq
         \/ pc' = [pc EXCEPT ![a] = "failed"] /\ seq' = [seq EXCEPT ![a] = 0]
  BY Zenon DEF RefineInv, LogInv, TypeOK, PutCreates, Goto
<1>3. statusView[a] = "pending"
  BY <1>2, StatusIs, Zenon
<1>4. atView' = atView
  BY <1>2, Zenon DEF atView
<1>5. CASE pc' = [pc EXCEPT ![a] = "won"] \/ pc' = [pc EXCEPT ![a] = "list"]
  <2>1. statusView' = statusView
    BY <1>2, <1>5, StatusIs, Zenon
  <2>2. W!Extend(a)
    BY <1>1, <1>3, <1>4, <2>1, Zenon DEF W!Extend
  <2> QED
    BY <2>2, Zenon DEF W!WalNext
<1>6. CASE pc' = [pc EXCEPT ![a] = "failed"]
  <2>1. statusView' = [statusView EXCEPT ![a] = "failed"]
    BY <1>2, <1>6, StatusIs, Zenon
  <2>2. W!ExtendAndFail(a)
    BY <1>1, <1>3, <1>4, <2>1, Zenon DEF W!ExtendAndFail
  <2> QED
    BY <2>2, Zenon DEF W!WalNext
<1> QED
  BY <1>2, <1>5, <1>6, Zenon

(* Append returns the number of an entry that is its own.                  *)
LEMMA ReturnMaps ==
  ASSUME RefineInv, NEW a \in Appends, Return(a)
  PROVE  W!WalNext
<1>1. /\ pc \in [Appends -> PCs] /\ pc[a] = "won" /\ pc' = [pc EXCEPT ![a] = "done"]
      /\ UNCHANGED <<objects, seq>> /\ seq[a] \in Seqs /\ objects[seq[a]] = a
  BY Zenon DEF RefineInv, LogInv, TypeOK, CallKnows, Return, Goto
<1>2. UNCHANGED logView
  BY <1>1, SameLog, Zenon
<1>3. seq[a] \in DOMAIN logView /\ logView[seq[a]] = a
  <2>1. seq[a] \in Existing
    BY <1>1, ConstantsOK, Zenon DEF Existing
  <2>2. PICK k \in Nat : Existing = 1..k
    BY Zenon DEF RefineInv, Packed
  <2> QED
    BY <1>1, <2>1, <2>2, LengthIs, Zenon
<1>4. statusView[a] = "pending" /\ statusView' = [statusView EXCEPT ![a] = "acknowledged"]
  BY <1>1, StatusIs, Zenon
<1>5. atView' = [atView EXCEPT ![a] = seq[a]]
  BY <1>1, Zenon DEF atView
<1>6. W!Acknowledge(a)
  BY <1>2, <1>3, <1>4, <1>5, Zenon DEF W!Acknowledge
<1> QED
  BY <1>6, Zenon DEF W!WalNext

(* Calls that an error or the end of their node cuts off fail together.    *)
LEMMA CutMaps ==
  ASSUME RefineInv, NEW A \in SUBSET Appends, UNCHANGED objects,
         \A a \in A : pc[a] \notin Ended,
         pc' = [a \in Appends |-> IF a \in A THEN "failed" ELSE pc[a]],
         \A a \in Appends \ A : seq'[a] = seq[a]
  PROVE  W!WalNext
<1>1. UNCHANGED logView
  BY SameLog, Zenon
<1>2. \A a \in A : statusView[a] = "pending"
  BY StatusIs, Zenon DEF Ended
<1>3. statusView' = [a \in Appends |-> IF a \in A THEN "failed" ELSE statusView[a]]
  BY StatusIs, Zenon
<1>4. atView' = atView
  BY Zenon DEF atView, Ended
<1>5. W!Fail(A)
  BY <1>1, <1>2, <1>3, <1>4, Zenon DEF W!Fail
<1> QED
  BY <1>5, Zenon DEF W!WalNext

(* Every other step of a call is invisible: it stays pending.              *)
LEMMA SilentMaps ==
  ASSUME RefineInv, NEW a \in Appends, UNCHANGED objects, pc[a] \notin Ended, pc'[a] \notin Ended,
         \A b \in Appends \ {a} : pc'[b] = pc[b] /\ seq'[b] = seq[b]
  PROVE  UNCHANGED <<logView, statusView, atView>>
<1>1. statusView' = statusView
  BY StatusIs, Zenon DEF Ended
<1>2. atView' = atView
  BY Zenon DEF atView, Ended
<1> QED
  BY <1>1, <1>2, SameLog, Zenon

(* The steps of a call that neither write nor return nor fail.             *)
LEMMA StepsAreSilent ==
  ASSUME RefineInv, NEW a \in Appends, Start(a) \/ Aim(a) \/ PutCollides(a) \/ SearchStep(a)
  PROVE  UNCHANGED <<logView, statusView, atView>>
<1> USE DEF Ended
<1>1. pc \in [Appends -> PCs] /\ seq \in [Appends -> Seqs]
  BY Zenon DEF RefineInv, LogInv, TypeOK
<1>2. CASE Start(a) \/ Aim(a) \/ PutCollides(a)
  BY <1>1, <1>2, SilentMaps, Zenon DEF Start, Aim, PutCollides, Goto
<1>3. CASE ListBegin(a) \/ ListEnd(a) \/ ProbeNext(a)
  BY <1>1, <1>3, SilentMaps, Zenon DEF ListBegin, ListEnd, ProbeNext, Goto
<1>4. CASE Grow(a) \/ Bisect(a) \/ BisectEnds(a)
  BY <1>1, <1>4, SilentMaps, Zenon DEF Grow, Bisect, BisectEnds, Goto
<1>5. CASE HeadReturns(a)
  BY <1>1, <1>5, SilentMaps, Zenon DEF HeadReturns, Goto
<1> QED
  BY <1>2, <1>3, <1>4, <1>5, Zenon DEF SearchStep

(* Every step of log.go's Append, and every crash, is a step of Wal or     *)
(* none.                                                                   *)
LEMMA StepMaps == RefineInv /\ [Next]_vars => [W!WalNext]_(W!walVars)
<1> SUFFICES ASSUME RefineInv, [Next]_vars
             PROVE  W!WalNext \/ UNCHANGED <<logView, statusView, atView>>
  BY Zenon DEF W!walVars
<1>1. CASE UNCHANGED vars
  <2>1. UNCHANGED <<objects, pc, seq>>
    BY <1>1, Zenon DEF vars
  <2> QED
    BY <2>1, SameLog, Zenon DEF statusView, atView
<1>2. ASSUME NEW a \in Appends, Advance(a) PROVE W!WalNext \/ UNCHANGED <<logView, statusView, atView>>
  BY <1>2, CreateMaps, ReturnMaps, StepsAreSilent, Zenon DEF Advance
<1>3. ASSUME NEW a \in Appends, StoreError(a) PROVE W!WalNext
  <2>1. pc \in [Appends -> PCs] /\ seq \in [Appends -> Seqs]
    BY Zenon DEF RefineInv, LogInv, TypeOK
  <2>2. /\ UNCHANGED objects /\ {a} \in SUBSET Appends
        /\ \A b \in {a} : pc[b] \notin Ended
        /\ pc' = [b \in Appends |-> IF b \in {a} THEN "failed" ELSE pc[b]]
        /\ \A b \in Appends \ {a} : seq'[b] = seq[b]
    BY <1>3, <2>1, Zenon DEF StoreError, Waiting, Search, Ended
  <2> QED
    BY <2>2, CutMaps, Zenon
<1>4. ASSUME NEW n \in Nodes, Crash(n) PROVE W!WalNext
  <2> DEFINE cut == {a \in Appends : NodeOf[a] = n /\ pc[a] \notin Ended \cup {"idle"}}
  <2>1. /\ UNCHANGED objects /\ cut \in SUBSET Appends
        /\ \A b \in cut : pc[b] \notin Ended
        /\ pc' = [b \in Appends |-> IF b \in cut THEN "failed" ELSE pc[b]]
        /\ \A b \in Appends \ cut : seq'[b] = seq[b]
    BY <1>4, Zenon DEF Crash
  <2> HIDE DEF cut
  <2> QED
    BY <2>1, CutMaps, Zenon
<1> QED
  BY <1>1, <1>2, <1>3, <1>4, Zenon DEF Next

(* The log stays packed.                                                   *)
LEMMA PackedStep == RefineInv /\ [Next]_vars => Packed'
BY OnlyPutWrites, CreateAppends, SameLog, Zenon

(* Appends over the object store, with stale hints, collisions, searches,  *)
(* lost answers and crashes, look to their callers like one growing        *)
(* sequence to which each adds its batch atomically.                       *)
THEOREM LogRefinesWal == Spec => ImplementsWal
<1>1. Init => RefineInv
  BY InitInv, InitMaps, Zenon DEF RefineInv
<1>2. RefineInv /\ [Next]_vars => RefineInv'
  BY NextInv, PackedStep, Zenon DEF RefineInv
<1>3. Init => W!WalInit
  BY InitMaps, Zenon
<1> QED
  BY <1>1, <1>2, <1>3, StepMaps, PTL DEF Spec, ImplementsWal, W!WalSpec
=============================================================================
