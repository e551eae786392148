----------------------------- MODULE LocalStore -----------------------------
(***************************************************************************)
(* The object store on a local directory, shared by processes: one object, *)
(* which is a file, and the system calls of Put, Delete and Get on it.     *)
(*                                                                         *)
(* A generation is the file's modification time and its size.  Each        *)
(* process hands out times from lastLocalModTime, and the clock may show   *)
(* anything.  A creation (Condition{Absent}) links a temporary file and    *)
(* takes no lock; every other Put and Delete hold a mutex of the process   *)
(* and an flock on the directory, except that an flock that fails is       *)
(* ignored.                                                                *)
(*                                                                         *)
(* The directory is shared by processes that crash, or one process has it  *)
(* alone; then objects are deleted too, and flock may fail.                *)
(*                                                                         *)
(* External: link and rename are atomic, flock excludes other processes    *)
(* and ends with its process.                                              *)
(***************************************************************************)
EXTENDS Naturals

CONSTANTS
  Processes, Threads,
  Home,         \* the process of each thread
  Solo,         \* the process that may have the directory alone
  Missing,      \* no file
  Free,         \* nobody holds a lock
  Clock,        \* what time.Now() may return
  Sizes,        \* sizes of objects
  MaxPuts,      \* bound: calls of Put
  MaxCrashes    \* bound: crashes of processes

VARIABLES
  shared,    \* whether processes share the directory
  file,      \* the file: modification time, size, and which Put wrote it
  puts,      \* how many Puts took effect
  last,      \* lastLocalModTime of each process
  mutex,     \* diskLock.mu of each process: its holder
  flock,     \* the holder of the lock on the directory
  pc,        \* where each thread is
  cond,      \* the condition of its Put: Absent, or the generation it must match
  time,      \* the modification time it has chosen
  held,      \* what it read last: the version and its generation
  returned,  \* what its last Put returned, and the version that Put wrote
  tries,     \* how many Puts were called
  crashes

locks == <<mutex, flock>>
disk == <<file, puts>>
calls == <<cond, time>>
vars == <<shared, disk, last, locks, pc, calls, held, returned, tries, crashes>>

Nothing == [version |-> Missing, gen |-> <<0, 0>>]

localGeneration(f) == <<f.mtime, f.size>>

Init ==
  /\ shared \in BOOLEAN
  /\ file = Missing /\ puts = 0
  /\ last = [p \in Processes |-> 0]
  /\ mutex = [p \in Processes |-> Free] /\ flock = Free
  /\ pc = [t \in Threads |-> "idle"]
  /\ cond = [t \in Threads |-> "absent"]
  /\ time = [t \in Threads |-> 0]
  /\ held = [t \in Threads |-> Nothing] /\ returned = [t \in Threads |-> Nothing]
  /\ tries = 0 /\ crashes = 0

Go(t, where) == pc' = [pc EXCEPT ![t] = where]

Higher(a, b) == IF a > b THEN a ELSE b

(* nextLocalModTime after advanceLocalModTime(seen).                       *)
nextLocalModTime(t, seen) ==
  \E now \in Clock :
    LET before == Higher(last[Home[t]], seen)
        next == IF now <= before THEN before + 1 ELSE now
    IN time' = [time EXCEPT ![t] = next] /\ last' = [last EXCEPT ![Home[t]] = next]
-----------------------------------------------------------------------------
(* diskLock.lock and the function it returns.                              *)
Lock(t) ==
  /\ pc[t] \in {"lock put", "lock delete"} /\ mutex[Home[t]] = Free
  /\ mutex' = [mutex EXCEPT ![Home[t]] = t]
  /\ \/ flock = Free /\ flock' = t
     \/ ~shared /\ UNCHANGED flock
  /\ Go(t, IF pc[t] = "lock put" THEN "check" ELSE "remove")
  /\ UNCHANGED <<disk, last, calls, held, returned, tries, crashes>>

Unlock(t) ==
  /\ mutex' = [mutex EXCEPT ![Home[t]] = Free]
  /\ flock' = IF flock = t THEN Free ELSE flock
-----------------------------------------------------------------------------
(* Get: the open file and its own generation, whatever the name means next.*)
Get(t) ==
  /\ pc[t] = "idle"
  /\ held' = [held EXCEPT ![t] = IF file = Missing THEN Nothing
                                 ELSE [version |-> file.version, gen |-> localGeneration(file)]]
  /\ held' # held
  /\ UNCHANGED <<disk, last, locks, pc, calls, returned, tries, crashes>>

(* Put up to the temporary file.  Nobody calls it without a condition.     *)
Put(t) ==
  /\ pc[t] = "idle" /\ tries < MaxPuts /\ tries' = tries + 1
  /\ \/ cond' = [cond EXCEPT ![t] = "absent"] /\ Go(t, "choose")
     \/ /\ held[t] # Nothing
        /\ cond' = [cond EXCEPT ![t] = "match"] /\ Go(t, "lock put")
  /\ returned' = [returned EXCEPT ![t] = Nothing]
  /\ UNCHANGED <<disk, last, locks, time, held, crashes>>

ChooseTime(t) ==
  /\ pc[t] = "choose" /\ Go(t, "link") /\ nextLocalModTime(t, 0)
  /\ UNCHANGED <<disk, locks, cond, held, returned, tries, crashes>>

Become(t) ==
  /\ puts' = puts + 1
  /\ \E s \in Sizes : file' = [mtime |-> time[t], size |-> s, version |-> puts']
  /\ time' = [time EXCEPT ![t] = 0]
  /\ returned' = [returned EXCEPT ![t] = [version |-> puts', gen |-> <<0, 0>>]]
  /\ Go(t, "stat")

Link(t) ==
  /\ pc[t] = "link"
  /\ IF file = Missing
     THEN Become(t)
     ELSE /\ Go(t, "idle") /\ UNCHANGED <<disk, returned>>
          /\ time' = [time EXCEPT ![t] = 0]
  /\ UNCHANGED <<last, locks, cond, held, tries, crashes>>

Matches(t) == file # Missing /\ localGeneration(file) = held[t].gen

CheckUnordered(t) ==
  /\ pc[t] = "check"
  /\ IF Matches(t)
     THEN Go(t, "rename") /\ nextLocalModTime(t, 0) /\ UNCHANGED locks
     ELSE Go(t, "idle") /\ Unlock(t) /\ UNCHANGED <<time, last>>
  /\ UNCHANGED <<disk, cond, held, returned, tries, crashes>>

(* The locked part of Put: compare, choose a time after the file's.        *)
Check(t) ==
  /\ pc[t] = "check"
  /\ IF Matches(t)
     THEN Go(t, "rename") /\ nextLocalModTime(t, file.mtime) /\ UNCHANGED locks
     ELSE /\ Go(t, "idle") /\ Unlock(t) /\ UNCHANGED time
          /\ last' = IF file = Missing THEN last
                     ELSE [last EXCEPT ![Home[t]] = Higher(@, file.mtime)]
  /\ UNCHANGED <<disk, cond, held, returned, tries, crashes>>

Rename(t) ==
  /\ pc[t] = "rename" /\ Become(t)
  /\ UNCHANGED <<last, locks, cond, held, tries, crashes>>

(* The Stat after link and rename, whose generation Put returns.           *)
Stat(t) ==
  /\ pc[t] = "stat" /\ Go(t, "idle")
  /\ returned' = [returned EXCEPT ![t] = IF file = Missing THEN Nothing
                                         ELSE [version |-> @.version, gen |-> localGeneration(file)]]
  /\ IF mutex[Home[t]] = t THEN Unlock(t) ELSE UNCHANGED locks
  /\ UNCHANGED <<disk, last, calls, held, tries, crashes>>

Delete(t) ==
  /\ ~shared /\ pc[t] = "idle" /\ Go(t, "lock delete")
  /\ UNCHANGED <<disk, last, locks, calls, held, returned, tries, crashes>>

Remove(t) ==
  /\ pc[t] = "remove"
  /\ IF file = Missing
     THEN Go(t, "idle") /\ Unlock(t) /\ UNCHANGED <<disk, time>>
     ELSE /\ file' = Missing /\ UNCHANGED <<puts, locks>>
          /\ time' = [time EXCEPT ![t] = file.mtime] /\ Go(t, "advance")
  /\ UNCHANGED <<last, cond, held, returned, tries, crashes>>

(* advanceLocalModTime, after the file is gone.                            *)
Advance(t) ==
  /\ pc[t] = "advance" /\ Go(t, "idle") /\ Unlock(t)
  /\ last' = [last EXCEPT ![Home[t]] = Higher(@, time[t])] /\ time' = [time EXCEPT ![t] = 0]
  /\ UNCHANGED <<disk, cond, held, returned, tries, crashes>>

FailKeepsLock(t) ==
  /\ pc[t] \in {"link", "check", "rename", "stat", "remove"} /\ Go(t, "idle")
  /\ time' = [time EXCEPT ![t] = 0] /\ returned' = [returned EXCEPT ![t] = Nothing]
  /\ UNCHANGED <<disk, last, locks, cond, held, tries, crashes>>

(* A system call fails: stat, chtimes, link, rename or remove, or the stat *)
(* after a file was linked or renamed.  The call returns the error, and    *)
(* the deferred unlock runs.                                               *)
Fail(t) ==
  /\ pc[t] \in {"link", "check", "rename", "stat", "remove"} /\ Go(t, "idle")
  /\ time' = [time EXCEPT ![t] = 0] /\ returned' = [returned EXCEPT ![t] = Nothing]
  /\ IF mutex[Home[t]] = t THEN Unlock(t) ELSE UNCHANGED locks
  /\ UNCHANGED <<disk, last, cond, held, tries, crashes>>
-----------------------------------------------------------------------------
(* A process ends and starts again; its locks end with it.                 *)
Crash(p) ==
  LET gone == {t \in Threads : Home[t] = p}
  IN /\ pc' = [t \in Threads |-> IF t \in gone THEN "idle" ELSE pc[t]]
     /\ time' = [t \in Threads |-> IF t \in gone THEN 0 ELSE time[t]]
     /\ held' = [t \in Threads |-> IF t \in gone THEN Nothing ELSE held[t]]
     /\ returned' = [t \in Threads |-> IF t \in gone THEN Nothing ELSE returned[t]]
     /\ last' = [last EXCEPT ![p] = 0]
     /\ mutex' = [mutex EXCEPT ![p] = Free]
     /\ flock' = IF flock \in gone THEN Free ELSE flock
     /\ shared /\ crashes < MaxCrashes /\ crashes' = crashes + 1 /\ UNCHANGED <<disk, cond, tries>>
-----------------------------------------------------------------------------
Step(t) ==
  Lock(t) \/ ChooseTime(t) \/ Link(t) \/ Check(t) \/ Rename(t) \/ Stat(t) \/ Remove(t) \/ Advance(t)

Present(t) == shared \/ Home[t] = Solo

Next ==
  /\ \/ \E t \in Threads : Present(t) /\ (Get(t) \/ Put(t) \/ Delete(t) \/ Step(t) \/ Fail(t))
     \/ \E p \in Processes : Crash(p)
  /\ UNCHANGED shared

Spec == Init /\ [][Next]_vars
-----------------------------------------------------------------------------
Version == IF file = Missing THEN Missing ELSE file.version

O == INSTANCE Objects WITH
       Callers <- Threads, version <- Version, held <- [t \in Threads |-> held[t].version]

(* The store keeps its promise although a generation is only a time and a  *)
(* size, creations take no lock and processes do not know of each other's  *)
(* clocks: a Put creates what is missing, or replaces exactly the version  *)
(* its caller read.                                                        *)
ImplementsObjects == O!Spec

(* A Put that replaces returns the generation of the file it wrote itself, *)
(* because nobody can replace it between the rename and the Stat.          *)
OwnGeneration ==
  \A t \in Threads :
    /\ pc[t] = "idle" /\ cond[t] = "match" /\ returned[t] # Nothing
    /\ file # Missing /\ returned[t].gen = localGeneration(file)
    => returned[t].version = file.version
=============================================================================
