------------------------------ MODULE MemStore ------------------------------
(***************************************************************************)
(* The object store in memory: every call holds one mutex, so each is one  *)
(* step.  A generation is the number of the Put in the whole store and the *)
(* size of the object; numbers are not given out again after a Delete.     *)
(***************************************************************************)
EXTENDS Naturals

CONSTANTS
  Keys, Callers,
  Missing,   \* no object
  Sizes,     \* sizes of objects
  MaxPuts    \* bound: Puts that take effect

VARIABLES
  objects,  \* each key: its generation, and which Put of this key wrote it
  genSeq,   \* memStore.genSeq
  puts,     \* ghost: how many Puts of each key took effect
  held      \* what each caller read last of each key

vars == <<objects, genSeq, puts, held>>

Nothing == [version |-> Missing, gen |-> <<0, 0>>]

Init ==
  /\ objects = [k \in Keys |-> Nothing]
  /\ genSeq = 0
  /\ puts = [k \in Keys |-> 0]
  /\ held = [k \in Keys |-> [c \in Callers |-> Nothing]]

Get(k, c) ==
  /\ held' = [held EXCEPT ![k][c] = objects[k]] /\ held' # held
  /\ UNCHANGED <<objects, genSeq, puts>>

Store(k, seq) ==
  \E s \in Sizes :
    /\ objects' = [objects EXCEPT ![k] = [version |-> puts[k] + 1, gen |-> <<seq, s>>]]
    /\ puts' = [puts EXCEPT ![k] = @ + 1]
    /\ UNCHANGED held

(* The condition of a Put: that the object is missing, or its generation.  *)
Allowed(k, c) ==
  \/ objects[k] = Nothing
  \/ held[k][c] # Nothing /\ objects[k].gen = held[k][c].gen

Put(k, c) ==
  Allowed(k, c) /\ genSeq < MaxPuts /\ genSeq' = genSeq + 1 /\ Store(k, genSeq')

Delete(k) ==
  /\ objects[k] # Nothing
  /\ objects' = [objects EXCEPT ![k] = Nothing]
  /\ UNCHANGED <<genSeq, puts, held>>

Next == \E k \in Keys : Delete(k) \/ \E c \in Callers : Get(k, c) \/ Put(k, c)

Spec == Init /\ [][Next]_vars
-----------------------------------------------------------------------------
O(k) == INSTANCE Objects WITH
          version <- objects[k].version, puts <- puts[k],
          held <- [c \in Callers |-> held[k][c].version]

(* Each key keeps the promise of a store: a Put creates what is missing or *)
(* replaces exactly the version its caller read, also after the object was *)
(* deleted and created again.                                              *)
ImplementsObjects ==
  /\ \A k \in Keys : O(k)!Init
  /\ [][\A k \in Keys : O(k)!Next \/ UNCHANGED <<objects[k], puts[k], held[k]>>]_vars
=============================================================================
