----------------------------- MODULE LogStream -----------------------------
(***************************************************************************)
(* The write-ahead log of one namespace, as logstream/log.go keeps it on   *)
(* an object store: entry s is the object with key s, written with the     *)
(* condition that no such object exists.  There is no leader.  Any number  *)
(* of nodes append; each keeps one Log with a hint, lastKnown, that only   *)
(* says where to try first, and a node that loses the race for a number    *)
(* searches for the head of the log and tries the number after it.         *)
(*                                                                         *)
(* A process of this model is one call of Append.  The store answers each  *)
(* request atomically except List, which a directory walk (local.go) does  *)
(* not: a listing holds every object present when it began, and possibly   *)
(* some of those created while it ran.                                     *)
(***************************************************************************)
EXTENDS Naturals, FiniteSets

CONSTANTS
  Appends,     \* the calls of Append; a call stands for the batch it writes
  Nodes,       \* the processes that hold a Log for this prefix
  NodeOf,      \* the node on which a call runs
  MaxSeq,      \* math.MaxUint64, scaled down
  ListLimit,   \* headListLimit
  MaxEntries,  \* bound: the store refuses to hold an entry beyond this one
  Preloads,    \* bound: how many entries there may be before the calls begin
  None         \* there is no object under this key

ASSUME ConstantsOK ==
  /\ MaxSeq \in Nat /\ MaxEntries \in 1..MaxSeq /\ Preloads \subseteq 0..MaxEntries
  /\ ListLimit \in Nat \ {0}
  /\ NodeOf \in [Appends -> Nodes]
  /\ None \notin Appends /\ "old" \notin Appends /\ None # "old"

VARIABLES
  objects,    \* objects[s]: the entry stored under number s, or None
  lastKnown,  \* lastKnown[n]: the hint of node n's Log
  pc,         \* where each call is
  seq,        \* the number the call tries; 0 until it has one
  low, high, step,  \* the locals of jump; low is also head's result
  snap,       \* the entries present when the call's last List began
  lost        \* history: an answer to one of the call's writes was lost

vars == <<objects, lastKnown, pc, seq, low, high, step, snap, lost>>

Seqs     == 0..MaxSeq
Entries  == Appends \cup {"old"}
Existing == {s \in Seqs : objects[s] # None}
Search   == {"list", "listing", "probe", "grow", "bisect"}
Waiting  == Search \cup {"put"}          \* awaiting an answer of the store
Ended    == {"done", "failed"}
PCs      == Waiting \cup Ended \cup {"idle", "next", "won", "headed"}

Larger(x, y) == IF x < y THEN y ELSE x
After(s)     == IF s = MaxSeq THEN 0 ELSE s + 1   \* uint64 addition wraps

Init ==
  /\ \E k \in Preloads :
       objects = [s \in Seqs |-> IF s \in 1..k THEN "old" ELSE None]
  /\ lastKnown = [n \in Nodes |-> 0]
  /\ pc   = [a \in Appends |-> "idle"]
  /\ seq  = [a \in Appends |-> 0]
  /\ low  = [a \in Appends |-> 0]
  /\ high = [a \in Appends |-> 0]
  /\ step = [a \in Appends |-> 0]
  /\ snap = [a \in Appends |-> {}]
  /\ lost = [a \in Appends |-> FALSE]

Goto(a, from, to) == pc[a] = from /\ pc' = [pc EXCEPT ![a] = to]

jumpVars   == <<low, high, step>>
searchVars == <<low, high, step, snap>>

(* The locals of head and jump go with the search that held them.          *)
Drop(A) ==
  /\ low'  = [a \in Appends |-> IF a \in A THEN 0 ELSE low[a]]
  /\ high' = [a \in Appends |-> IF a \in A THEN 0 ELSE high[a]]
  /\ step' = [a \in Appends |-> IF a \in A THEN 0 ELSE step[a]]
  /\ snap' = [a \in Appends |-> IF a \in A THEN {} ELSE snap[a]]
-----------------------------------------------------------------------------
(* Append, up to its first attempt.  A Log without a hint asks for the     *)
(* tail first, which is head(0): the search is the one a collision starts. *)
Start(a) ==
  /\ Goto(a, "idle", IF lastKnown[NodeOf[a]] = 0 THEN "list" ELSE "next")
  /\ UNCHANGED <<objects, lastKnown, seq, searchVars, lost>>

Aim(a) ==
  /\ Goto(a, "next", "put")
  /\ seq' = [seq EXCEPT ![a] = After(lastKnown[NodeOf[a]])]
  /\ UNCHANGED <<objects, lastKnown, searchVars, lost>>

(* Mutants: the write is not conditional; a success is taken for a         *)
(* collision.                                                              *)
PutOverwrites(a) ==
  /\ seq[a] \in 1..MaxEntries
  /\ objects' = [objects EXCEPT ![seq[a]] = a]
  /\ Goto(a, "put", "won")
  /\ UNCHANGED <<lastKnown, seq, searchVars, lost>>

PutTriesAgain(a) ==
  /\ seq[a] \in 1..MaxEntries
  /\ objects[seq[a]] = None
  /\ objects' = [objects EXCEPT ![seq[a]] = a]
  /\ Goto(a, "put", "list")
  /\ UNCHANGED <<lastKnown, seq, searchVars, lost>>

(* The conditional write.  When the answer of a write that took effect is  *)
(* lost, the caller sees an error, or its store client retries and reports *)
(* the failed precondition that its own first attempt caused.              *)
PutCreates(a) ==
  /\ seq[a] \in 1..MaxEntries
  /\ objects[seq[a]] = None
  /\ objects' = [objects EXCEPT ![seq[a]] = a]
  /\ \/ Goto(a, "put", "won") /\ UNCHANGED <<seq, lost>>
     \/ /\ \/ Goto(a, "put", "failed") /\ seq' = [seq EXCEPT ![a] = 0]
           \/ Goto(a, "put", "list")   /\ UNCHANGED seq
        /\ lost' = [lost EXCEPT ![a] = TRUE]
  /\ UNCHANGED <<lastKnown, searchVars>>

(* Mutant: a collision is taken for the success of an earlier attempt.     *)
CollisionWins(a) ==
  /\ objects[seq[a]] # None
  /\ Goto(a, "put", "won")
  /\ UNCHANGED <<objects, lastKnown, seq, searchVars, lost>>

PutCollides(a) ==
  /\ objects[seq[a]] # None
  /\ Goto(a, "put", "list")
  /\ UNCHANGED <<objects, lastKnown, seq, searchVars, lost>>

(* Mutant: the hint is the next number instead of the last.                *)
ReturnHintsNext(a) ==
  /\ Goto(a, "won", "done")
  /\ lastKnown' = [lastKnown EXCEPT ![NodeOf[a]] = Larger(@, seq[a] + 1)]
  /\ UNCHANGED <<objects, seq, searchVars, lost>>

(* The hint is raised to the number just written, never lowered.           *)
Return(a) ==
  /\ Goto(a, "won", "done")
  /\ lastKnown' = [lastKnown EXCEPT ![NodeOf[a]] = Larger(@, seq[a])]
  /\ UNCHANGED <<objects, seq, searchVars, lost>>

(* Any request may fail for a reason that is not the precondition.         *)
StoreError(a) ==
  /\ pc[a] \in Waiting
  /\ pc' = [pc EXCEPT ![a] = "failed"]
  /\ seq' = [seq EXCEPT ![a] = 0]
  /\ Drop({a})
  /\ UNCHANGED <<objects, lastKnown, lost>>
-----------------------------------------------------------------------------
(* head(lo), where lo is seq[a]: list what follows lo, at most ListLimit   *)
(* keys, in key order, which is numeric order.                             *)
ListBegin(a) ==
  /\ Goto(a, "list", "listing")
  /\ snap' = [snap EXCEPT ![a] = Existing]
  /\ UNCHANGED <<objects, lastKnown, seq, jumpVars, lost>>

(* A short page ends at the head; an empty one leaves lo; a full page says *)
(* only that the head is not before its last key, and jump takes over.     *)
Following(a, extra) == {s \in snap[a] \cup extra : s > seq[a]}

(* Mutants: a full page is taken for the whole log; the first key of the   *)
(* page is taken instead of the last.                                      *)
FullPageIsAll(a) ==
  /\ \E extra \in SUBSET (Existing \ snap[a]) :
       \E last \in Following(a, extra) \cup {seq[a]} :
         /\ Cardinality({s \in Following(a, extra) : s <= last}) =
              Larger(0, IF Cardinality(Following(a, extra)) < ListLimit
                        THEN Cardinality(Following(a, extra)) ELSE ListLimit)
         /\ low' = [low EXCEPT ![a] = last]
  /\ Goto(a, "listing", "headed")
  /\ UNCHANGED <<objects, lastKnown, seq, high, step, snap, lost>>

FirstOfPage(a) ==
  /\ \E first \in IF Following(a, {}) = {} THEN {seq[a]} ELSE Following(a, {}) :
       /\ \A s \in Following(a, {}) : first <= s
       /\ low' = [low EXCEPT ![a] = first]
  /\ Goto(a, "listing", "headed")
  /\ UNCHANGED <<objects, lastKnown, seq, high, step, snap, lost>>

ListEnd(a) ==
  /\ \E extra \in SUBSET (Existing \ snap[a]) :
       LET following == Following(a, extra) IN
       \/ /\ following = {}
          /\ Goto(a, "listing", "headed")
          /\ low' = [low EXCEPT ![a] = seq[a]]
       \/ /\ Cardinality(following) < ListLimit
          /\ Goto(a, "listing", "headed")
          /\ \E last \in following :
               /\ \A s \in following : s <= last
               /\ low' = [low EXCEPT ![a] = last]
       \/ /\ Cardinality(following) >= ListLimit
          /\ Goto(a, "listing", "probe")
          /\ \E last \in following :
               /\ Cardinality({s \in following : s <= last}) = ListLimit
               /\ low' = [low EXCEPT ![a] = last]
  /\ UNCHANGED <<objects, lastKnown, seq, high, step, snap, lost>>

(* jump(lo): is there anything after lo at all?                            *)
ProbeNext(a) ==
  /\ \/ /\ low[a] = MaxSeq \/ objects[After(low[a])] = None
        /\ Goto(a, "probe", "headed")
        /\ UNCHANGED jumpVars
     \/ /\ low[a] # MaxSeq /\ objects[After(low[a])] # None
        /\ Goto(a, "probe", "grow")
        /\ low'  = [low  EXCEPT ![a] = @ + 1]
        /\ high' = [high EXCEPT ![a] = low[a] + 1]
        /\ step' = [step EXCEPT ![a] = 1]
  /\ UNCHANGED <<objects, lastKnown, seq, snap, lost>>

(* Strides that double until one lands past the head, or on the last       *)
(* number there is.                                                        *)
NextHigh(h, st) == IF st > (MaxSeq - h) \div 2 THEN MaxSeq ELSE h + st * 2
NextStep(h, st) == IF st > (MaxSeq - h) \div 2 THEN st ELSE st * 2

Grow(a) ==
  LET h == NextHigh(high[a], step[a]) IN
  /\ high' = [high EXCEPT ![a] = h]
  /\ step' = [step EXCEPT ![a] = NextStep(high[a], @)]
  /\ \/ /\ objects[h] = None
        /\ Goto(a, "grow", "bisect")
        /\ UNCHANGED low
     \/ /\ objects[h] # None
        /\ Goto(a, "grow", IF h = MaxSeq THEN "headed" ELSE "grow")
        /\ low' = [low EXCEPT ![a] = h]
  /\ UNCHANGED <<objects, lastKnown, seq, snap, lost>>

Middle(l, h) == l + (h - l) \div 2

Bisect(a) ==
  LET mid == Middle(low[a], high[a]) IN
  /\ low[a] + 1 < high[a]
  /\ Goto(a, "bisect", "bisect")
  /\ \/ objects[mid] # None /\ low'  = [low  EXCEPT ![a] = mid] /\ UNCHANGED high
     \/ objects[mid] = None /\ high' = [high EXCEPT ![a] = mid] /\ UNCHANGED low
  /\ UNCHANGED <<objects, lastKnown, seq, step, snap, lost>>

(* Mutant: the first number known to be free is returned as the head.      *)
BisectReturnsHigh(a) ==
  /\ low[a] + 1 >= high[a]
  /\ Goto(a, "bisect", "headed")
  /\ low' = [low EXCEPT ![a] = high[a]]
  /\ UNCHANGED <<objects, lastKnown, seq, high, step, snap, lost>>

BisectEnds(a) ==
  /\ low[a] + 1 >= high[a]
  /\ Goto(a, "bisect", "headed")
  /\ UNCHANGED <<objects, lastKnown, seq, searchVars, lost>>

(* Mutant: the next try is at the head instead of after it.                *)
HeadAgain(a) ==
  /\ Goto(a, "headed", "put")
  /\ seq' = [seq EXCEPT ![a] = Larger(low[a], 1)]
  /\ Drop({a})
  /\ UNCHANGED <<objects, lastKnown, lost>>

(* head returns low.  The first search of a call raises the hint; a later  *)
(* one names the next number to try.                                       *)
HeadReturns(a) ==
  /\ IF seq[a] = 0
     THEN /\ Goto(a, "headed", "next")
          /\ lastKnown' = [lastKnown EXCEPT ![NodeOf[a]] = Larger(@, low[a])]
          /\ UNCHANGED seq
     ELSE /\ Goto(a, "headed", "put")
          /\ seq' = [seq EXCEPT ![a] = After(low[a])]
          /\ UNCHANGED lastKnown
  /\ Drop({a})
  /\ UNCHANGED <<objects, lost>>
-----------------------------------------------------------------------------
(* A node stops and starts again: its calls are gone, its Log is new.      *)
Crash(n) ==
  LET cut == {a \in Appends : NodeOf[a] = n /\ pc[a] \notin Ended \cup {"idle"}} IN
  /\ pc' = [a \in Appends |-> IF a \in cut THEN "failed" ELSE pc[a]]
  /\ lastKnown' = [lastKnown EXCEPT ![n] = 0]
  /\ seq' = [a \in Appends |-> IF a \in cut THEN 0 ELSE seq[a]]
  /\ Drop(cut)
  /\ UNCHANGED <<objects, lost>>

SearchStep(a) == \/ ListBegin(a) \/ ListEnd(a) \/ ProbeNext(a) \/ Grow(a)
                 \/ Bisect(a) \/ BisectEnds(a) \/ HeadReturns(a)
Advance(a) == \/ Start(a) \/ Aim(a) \/ PutCreates(a) \/ PutCollides(a)
              \/ Return(a) \/ SearchStep(a)

Next == \/ \E a \in Appends : Advance(a) \/ StoreError(a)
        \/ \E n \in Nodes : Crash(n)

Spec == Init /\ [][Next]_vars

(* Once begun, a call runs on and the store answers its requests, if only  *)
(* with an error when it is full.  Nothing obliges a client to call.       *)
FairSpec ==
  /\ Spec
  /\ \A a \in Appends : WF_vars(pc[a] # "idle" /\ (Advance(a) \/ StoreError(a)))
-----------------------------------------------------------------------------
TypeOK ==
  /\ objects   \in [Seqs -> Entries \cup {None}]
  /\ lastKnown \in [Nodes -> Seqs]
  /\ pc   \in [Appends -> PCs]
  /\ seq  \in [Appends -> Seqs]
  /\ low  \in [Appends -> Seqs]
  /\ high \in [Appends -> Seqs]
  /\ step \in [Appends -> Seqs]
  /\ snap \in [Appends -> SUBSET Seqs]
  /\ lost \in [Appends -> BOOLEAN]

(* The entries are numbered 1, 2, ..., with no gap (ingestion.md, "zero    *)
(* gaps"): whatever stale hint or listing a node started from, it only     *)
(* creates an object next to one it has seen.                              *)
Contiguous ==
  /\ objects[0] = None
  /\ \A s, t \in 1..MaxSeq : s < t /\ objects[t] # None => objects[s] # None

(* A call that returned a number owns the entry under it.                  *)
AcknowledgedIsDurable ==
  \A a \in Appends : pc[a] = "done" => objects[seq[a]] = a

(* A batch is in the log at most once, unless the answer to a write of it  *)
(* was lost: searching and colliding never write it again.                 *)
OnceUnlessLost ==
  \A a \in Appends, s, t \in Seqs :
    ~lost[a] /\ objects[s] = a /\ objects[t] = a => s = t

(* head returns the length the log had at some moment of the call, however *)
(* fast other writers extend it meanwhile: nothing present when it began   *)
(* is beyond the result, and the result is present.                        *)
HeadWasCurrent ==
  \A a \in Appends : pc[a] = "headed" =>
    /\ low[a] # 0 => objects[low[a]] # None
    /\ \A s \in snap[a] : s <= low[a]

(* Entries are immutable, and one is created only at the end of the log:   *)
(* the order of the numbers is the order of the commits.                   *)
AppendOnly ==
  [][\A s \in Seqs :
       objects'[s] # objects[s] =>
         objects[s] = None /\ Existing = 1..(s - 1)]_objects

(* The log as its users see it.                                            *)
LogLength == Cardinality(Existing)
logView == [s \in 1..LogLength |-> objects[s]]
statusView == [a \in Appends |-> CASE pc[a] = "done"   -> "acknowledged"
                                   [] pc[a] = "failed" -> "failed"
                                   [] OTHER            -> "pending"]
atView  == [a \in Appends |-> IF pc[a] = "done" THEN seq[a] ELSE 0]

W == INSTANCE Wal WITH log <- logView, status <- statusView, at <- atView

(* What this module implements: an atomic, at-least-once append-only log.  *)
ImplementsWal == W!WalSpec

(* Contention cannot starve a call for ever: every call that began ends.   *)
CallsEnd == \A a \in Appends : pc[a] # "idle" ~> pc[a] \in Ended

(* However Appends race, also those that share a hint, the log has no gap, *)
(* no batch is in it twice unless the answer to a write was lost, and head *)
(* returns a length the log had at some moment of the call.                *)
RaceIsSafe == Contiguous /\ OnceUnlessLost /\ HeadWasCurrent
=============================================================================
