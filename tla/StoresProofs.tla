---------------------------- MODULE StoresProofs ----------------------------
(***************************************************************************)
(* The stores on a directory and in memory implement Objects, for any      *)
(* processes, threads, clocks, keys, callers and sizes.                    *)
(***************************************************************************)
EXTENDS StoragePart, TLAPS

(* The store on a directory.                                               *)

(* Processes share the directory.                                          *)
Together == shared

(* The part of Put and Delete that holds the lock on the directory.        *)
InLock(t) ==
  \/ localPc[t] \in {"check", "rename", "remove", "advance"}
  \/ localPc[t] = "stat" /\ cond[t] = "match"

(* A time was chosen for a file that is not there yet.                     *)
Pending(t) == localPc[t] \in {"link", "rename"}

Places == {"idle", "choose", "link", "lock put", "lock delete", "check", "rename", "stat", "remove", "advance"}

Files == [mtime : Nat, size : Sizes, version : Nat]

(* What a caller knows of a file, or of what it has just written.          *)
Notes == {Local!Nothing} \cup [version : Nat, gen : Nat \X (Sizes \cup {0})]

LocalType ==
  /\ file # None => file \in Files
  /\ puts \in Nat
  /\ last \in [Processes -> Nat]
  /\ mutex \in [Processes -> Threads \cup {Nobody}]
  /\ flock \in Threads \cup {Nobody}
  /\ localPc \in [Threads -> Places]
  /\ cond \in [Threads -> {"absent", "match"}]
  /\ time \in [Threads -> Nat]
  /\ held \in [Threads -> Notes] /\ returned \in [Threads -> Notes]

(* Who is in the locked part has the mutex of its process, and the flock   *)
(* where the directory is shared; where it is not, nobody of another       *)
(* process is there.                                                       *)
MutexHolds == \A t \in Threads : InLock(t) <=> mutex[Home[t]] = t

FlockHolds == Together => \A t \in Threads : InLock(t) <=> flock = t

SoloIsAlone ==
  ~Together => \A t \in Threads :
    Home[t] # Solo => localPc[t] = "idle" /\ held[t] = Local!Nothing /\ returned[t] = Local!Nothing

LocksHold == MutexHolds /\ FlockHolds /\ SoloIsAlone

(* The condition a Put waits or works with; and nobody deletes what is     *)
(* shared.                                                                 *)
CallsAre ==
  \A t \in Threads :
    /\ localPc[t] \in {"lock put", "check", "rename"} => cond[t] = "match" /\ held[t] # Local!Nothing
    /\ localPc[t] \in {"choose", "link"} => cond[t] = "absent"
    /\ localPc[t] \in {"lock delete", "remove"} => ~Together

(* A generation that matches the file's is about the file's version, and   *)
(* who is about to rename, or has just renamed, is not overtaken.          *)
VersionsMatch ==
  \A t \in Threads :
    /\ file # None /\ held[t] # Local!Nothing /\ held[t].gen = Local!localGeneration(file)
         => held[t].version = file.version
    /\ cond[t] = "match" /\ localPc[t] # "stat" /\ returned[t] # Local!Nothing
         => (file # None /\ returned[t].gen = Local!localGeneration(file) => returned[t].version = file.version)
    /\ localPc[t] = "rename" => file # None /\ held[t].version = file.version
    /\ localPc[t] = "stat" => returned[t] # Local!Nothing
    /\ localPc[t] = "stat" /\ cond[t] = "match" => file # None /\ returned[t].version = file.version

(* Where processes share the directory, the file has the latest time that  *)
(* anybody knows, and what is about to replace it a later one.             *)
SharedTimes ==
  Together => \A t \in Threads :
    /\ \A r \in {held[t], returned[t]} : r # Local!Nothing => file # None /\ r.gen[1] <= file.mtime
    /\ localPc[t] = "rename" => time[t] > file.mtime

(* Where one process has it alone, no time is after the last it has given  *)
(* out, and one that was given out and not used yet is nobody else's.      *)
SoloTimes ==
  ~Together =>
    /\ file # None => file.mtime <= last[Solo]
    /\ \A t \in Threads : \A r \in {held[t], returned[t]} : r # Local!Nothing => r.gen[1] <= last[Solo]
    /\ \A t \in Threads : Pending(t) =>
         /\ time[t] > 0 /\ time[t] <= last[Solo]
         /\ file # None => file.mtime # time[t]
         /\ \A u \in Threads : u # t /\ Pending(u) => time[u] # time[t]
         /\ \A u \in Threads : \A r \in {held[u], returned[u]} : r # Local!Nothing => r.gen[1] # time[t]

LocalInv == LocalType /\ LocksHold /\ CallsAre /\ VersionsMatch /\ SharedTimes /\ SoloTimes

(* What a caller knows is nothing, or a version and its generation.        *)
LEMMA NoteFields ==
  ASSUME NEW r \in Notes
  PROVE  /\ (r = Local!Nothing) <=> (r.version = None)
         /\ r # Local!Nothing => r.version \in Nat /\ r.gen[1] \in Nat
<1>1. CASE r = Local!Nothing
  BY <1>1, Zenon DEF Local!Nothing
<1>2. CASE r # Local!Nothing
  <2>1. r \in [version : Nat, gen : Nat \X (Sizes \cup {0})]
    BY <1>2, Zenon DEF Notes
  <2>2. r.version \in Nat /\ r.gen \in Nat \X (Sizes \cup {0})
    BY <2>1, Zenon
  <2>3. r.gen[1] \in Nat
    BY <2>2, Zenon
  <2> QED
    BY <1>2, <2>2, <2>3, StorageConstants, Zenon
<1> QED
  BY <1>1, <1>2, Zenon

(* What Get and Stat make of a file.                                       *)
LEMMA NoteOfFile ==
  ASSUME NEW v \in Nat, NEW f \in Files
  PROVE  LET r == [version |-> v, gen |-> Local!localGeneration(f)]
         IN /\ r \in Notes /\ r # Local!Nothing
            /\ r.version = v /\ r.gen = Local!localGeneration(f) /\ r.gen[1] = f.mtime
<1> DEFINE r == [version |-> v, gen |-> Local!localGeneration(f)]
<1>1. f.mtime \in Nat /\ f.size \in Sizes
  BY Zenon DEF Files
<1>2. Local!localGeneration(f) = <<f.mtime, f.size>>
  BY Zenon DEF Local!localGeneration
<1>3. Local!localGeneration(f) \in Nat \X (Sizes \cup {0}) /\ Local!localGeneration(f)[1] = f.mtime
  BY <1>1, <1>2
<1>4. r.version = v /\ r.gen = Local!localGeneration(f)
  BY Zenon
<1>5. r \in [version : Nat, gen : Nat \X (Sizes \cup {0})]
  BY <1>3, Zenon
<1>6. r # Local!Nothing
  BY <1>4, StorageConstants, Zenon DEF Local!Nothing
<1> QED
  BY <1>3, <1>4, <1>5, <1>6, Zenon DEF Notes

(* No two threads are in the locked part.                                  *)
LEMMA OneInLock ==
  ASSUME LocalType, LocksHold, NEW t \in Threads, NEW u \in Threads, InLock(t), InLock(u)
  PROVE  t = u
<1>1. CASE Together
  BY <1>1, Zenon DEF LocksHold, MutexHolds, FlockHolds, SoloIsAlone
<1>2. CASE ~Together
  <2>1. Home[t] = Solo /\ Home[u] = Solo
    BY <1>2, Zenon DEF LocksHold, MutexHolds, FlockHolds, SoloIsAlone, InLock
  <2> QED
    BY <2>1, Zenon DEF LocksHold, MutexHolds, FlockHolds, SoloIsAlone
<1> QED
  BY <1>1, <1>2, Zenon

(* The directory begins without a file.                                    *)
LEMMA LocalBegins == Local!Init => LocalInv
<1> SUFFICES ASSUME Local!Init PROVE LocalInv
  BY Zenon
<1>1. LocalType
  <2>1. Local!Nothing \in Notes
    BY Zenon DEF Notes
  <2> QED
    BY <2>1, Zenon DEF Local!Init, LocalType, Places
<1>2. LocksHold /\ CallsAre
  BY StorageConstants, Zenon DEF Local!Init, LocksHold, MutexHolds, FlockHolds, SoloIsAlone, InLock, CallsAre
<1>3. VersionsMatch /\ SharedTimes
  BY Zenon DEF Local!Init, VersionsMatch, SharedTimes
<1>4. SoloTimes
  BY Zenon DEF Local!Init, SoloTimes, Pending
<1> QED
  BY <1>1, <1>2, <1>3, <1>4, Zenon DEF LocalInv

(* Get: what it reads is the file as it is.                                *)
LEMMA LocalGet ==
  ASSUME LocalInv, NEW t \in Threads, Local!Present(t), Local!Get(t), Together' <=> Together
  PROVE  LocalInv'
<1> DEFINE new == IF file = None THEN Local!Nothing
                  ELSE [version |-> file.version, gen |-> Local!localGeneration(file)]
<1>1. /\ localPc[t] = "idle" /\ held' = [held EXCEPT ![t] = new]
      /\ UNCHANGED <<file, puts, last, mutex, flock, localPc, cond, time, returned>>
  BY Zenon DEF Local!Get, Local!disk, Local!locks, Local!calls
<1>2. /\ new \in Notes
      /\ file = None => new = Local!Nothing
      /\ file # None => /\ new # Local!Nothing /\ new.version = file.version
                        /\ new.gen = Local!localGeneration(file) /\ new.gen[1] = file.mtime
  <2>1. CASE file = None
    BY <2>1, Zenon DEF Notes
  <2>2. CASE file # None
    BY <2>2, NoteOfFile, Zenon DEF LocalInv, LocalType, Files
  <2> QED
    BY <2>1, <2>2, Zenon
<1> HIDE DEF new
<1>3. LocalType'
  BY <1>1, <1>2, Zenon DEF LocalInv, LocalType
<1>4. ASSUME NEW u \in Threads
      PROVE  held'[u] = IF u = t THEN new ELSE held[u]
  BY <1>1, Zenon DEF LocalInv, LocalType
<1>5. LocksHold'
  BY <1>1, <1>4 DEF LocalInv, LocksHold, MutexHolds, FlockHolds, SoloIsAlone, InLock, Local!Present, Together
<1>6. CallsAre' /\ VersionsMatch'
  <2>1. CallsAre'
    BY <1>1, <1>2, <1>4, Zenon DEF LocalInv, CallsAre
  <2>2. VersionsMatch'
    BY <1>1, <1>2, <1>4 DEF LocalInv, VersionsMatch, Local!localGeneration
  <2> QED
    BY <2>1, <2>2, Zenon
<1>7. SharedTimes'
  BY <1>1, <1>2, <1>4 DEF LocalInv, LocalType, Files, SharedTimes
<1>8. SoloTimes'
  BY <1>1, <1>2, <1>4 DEF LocalInv, SoloTimes, Pending
<1> QED
  BY <1>3, <1>5, <1>6, <1>7, <1>8, Zenon DEF LocalInv

(* Put begins: it forgets what its last Put returned.                      *)
LEMMA LocalPut ==
  ASSUME LocalInv, NEW t \in Threads, Local!Present(t), Local!Put(t), Together' <=> Together
  PROVE  LocalInv'
<1>1. PICK c \in {"absent", "match"} :
        /\ localPc[t] = "idle" /\ (c = "match" => held[t] # Local!Nothing)
        /\ UNCHANGED <<file, puts, last, mutex, flock, time, held>>
        /\ cond' = [cond EXCEPT ![t] = c]
        /\ localPc' = [localPc EXCEPT ![t] = IF c = "absent" THEN "choose" ELSE "lock put"]
        /\ returned' = [returned EXCEPT ![t] = Local!Nothing]
  BY Zenon DEF Local!Put, Local!Go, Local!disk, Local!locks
<1>2. LocalType'
  <2>1. Local!Nothing \in Notes
    BY Zenon DEF Notes
  <2> QED
    BY <1>1, <2>1, Zenon DEF LocalInv, LocalType, Places
<1>3. ASSUME NEW u \in Threads
      PROVE  /\ cond'[u] = IF u = t THEN c ELSE cond[u]
             /\ localPc'[u] = IF u = t THEN IF c = "absent" THEN "choose" ELSE "lock put" ELSE localPc[u]
  BY <1>1, Zenon DEF LocalInv, LocalType
<1>4. ASSUME NEW u \in Threads
      PROVE  returned'[u] = IF u = t THEN Local!Nothing ELSE returned[u]
  BY <1>1, Zenon DEF LocalInv, LocalType
<1>5. localPc[t] = "idle" /\ (c = "match" => held[t] # Local!Nothing)
  BY <1>1, Zenon
<1>6. UNCHANGED <<file, puts, last, mutex, flock, time, held>>
  BY <1>1, Zenon
<1>7. LocksHold'
  <2>1. ASSUME NEW u \in Threads
        PROVE  InLock(u)' <=> InLock(u)
    BY <1>3, <1>5, Zenon DEF InLock
  <2>2. ~Together /\ Home[t] # Solo => FALSE
    BY Zenon DEF Local!Present, Together
  <2> QED
    BY <1>3, <1>5, <1>4, <1>6, <2>1, <2>2, Zenon DEF LocalInv, LocksHold, MutexHolds, FlockHolds, SoloIsAlone
<1>8. CallsAre'
  BY <1>3, <1>5, <1>6, Zenon DEF LocalInv, CallsAre
<1>9. VersionsMatch'
  BY <1>3, <1>5, <1>4, <1>6, Zenon DEF LocalInv, VersionsMatch, Local!localGeneration
<1>10. SharedTimes'
  BY <1>3, <1>4, <1>6, Zenon DEF LocalInv, SharedTimes
<1>11. SoloTimes'
  <2>1. ASSUME NEW u \in Threads
        PROVE  Pending(u)' <=> Pending(u)
    BY <1>3, <1>5, Zenon DEF Pending
  <2> QED
    BY <1>4, <1>6, <2>1 DEF LocalInv, SoloTimes
<1> QED
  BY <1>2, <1>7, <1>8, <1>9, <1>10, <1>11, Zenon DEF LocalInv

(* Delete begins.                                                          *)
LEMMA LocalDelete ==
  ASSUME LocalInv, NEW t \in Threads, Local!Present(t), Local!Delete(t), Together' <=> Together
  PROVE  LocalInv'
<1>1. /\ localPc[t] = "idle" /\ localPc' = [localPc EXCEPT ![t] = "lock delete"]
      /\ UNCHANGED <<file, puts, last, mutex, flock, cond, time, held, returned>>
  BY Zenon DEF Local!Delete, Local!Go, Local!disk, Local!locks, Local!calls
<1>2. LocalType'
  BY <1>1, Zenon DEF LocalInv, LocalType, Places
<1>3. ASSUME NEW u \in Threads
      PROVE  localPc'[u] = IF u = t THEN "lock delete" ELSE localPc[u]
  BY <1>1, Zenon DEF LocalInv, LocalType
<1>4. ~Together
  BY Zenon DEF Local!Delete, Together
<1>5. localPc[t] = "idle" /\ UNCHANGED <<file, puts, last, mutex, flock, cond, time, held, returned>>
  BY <1>1, Zenon
<1>6. LocksHold'
  <2>1. ASSUME NEW u \in Threads
        PROVE  InLock(u)' <=> InLock(u)
    BY <1>3, <1>5, Zenon DEF InLock
  <2>2. ~Together /\ Home[t] # Solo => FALSE
    BY Zenon DEF Local!Present, Together
  <2> QED
    BY <1>3, <1>5, <2>1, <2>2, Zenon DEF LocalInv, LocksHold, MutexHolds, FlockHolds, SoloIsAlone
<1>7. CallsAre'
  BY <1>3, <1>4, <1>5, Zenon DEF LocalInv, CallsAre
<1>8. VersionsMatch'
  BY <1>3, <1>5, Zenon DEF LocalInv, VersionsMatch, Local!localGeneration
<1>9. SharedTimes'
  BY <1>3, <1>5, Zenon DEF LocalInv, SharedTimes
<1>10. SoloTimes'
  BY <1>3, <1>5, Zenon DEF LocalInv, SoloTimes, Pending
<1> QED
  BY <1>2, <1>6, <1>7, <1>8, <1>9, <1>10, Zenon DEF LocalInv

(* The locks are taken: the mutex, and the flock unless it fails.          *)
LEMMA LocalLock ==
  ASSUME LocalInv, NEW t \in Threads, Local!Present(t), Local!Lock(t), Together' <=> Together
  PROVE  LocalInv'
<1> DEFINE next == IF localPc[t] = "lock put" THEN "check" ELSE "remove"
<1>1. /\ localPc[t] \in {"lock put", "lock delete"} /\ mutex[Home[t]] = Nobody
      /\ mutex' = [mutex EXCEPT ![Home[t]] = t]
      /\ (flock = Nobody /\ flock' = t) \/ (~Together /\ flock' = flock)
      /\ localPc' = [localPc EXCEPT ![t] = next]
      /\ UNCHANGED <<file, puts, last, cond, time, held, returned>>
  BY Zenon DEF Local!Lock, Local!Go, Local!disk, Local!calls, Together
<1>2. Home[t] \in Processes /\ Nobody \notin Threads /\ next \in Places
  BY StorageConstants, Zenon DEF Places
<1>3. LocalType'
  <2> HIDE DEF next
  <2>1. mutex' \in [Processes -> Threads \cup {Nobody}] /\ flock' \in Threads \cup {Nobody}
    BY <1>1, <1>2, Zenon DEF LocalInv, LocalType
  <2>2. localPc' \in [Threads -> Places]
    BY <1>1, <1>2, Zenon DEF LocalInv, LocalType
  <2> QED
    BY <1>1, <2>1, <2>2, Zenon DEF LocalInv, LocalType
<1>4. ASSUME NEW u \in Threads
      PROVE  localPc'[u] = IF u = t THEN next ELSE localPc[u]
  BY <1>1, Zenon DEF LocalInv, LocalType
<1>5. ASSUME NEW u \in Threads
      PROVE  mutex'[Home[u]] = IF Home[u] = Home[t] THEN t ELSE mutex[Home[u]]
  BY <1>1, StorageConstants, Zenon DEF LocalInv, LocalType
<1>6. /\ localPc[t] \in {"lock put", "lock delete"} /\ mutex[Home[t]] = Nobody
      /\ (flock = Nobody /\ flock' = t) \/ (~Together /\ flock' = flock)
      /\ UNCHANGED <<file, puts, last, cond, time, held, returned>>
  BY <1>1, Zenon
<1>7. LocksHold'
  <2>1. ASSUME NEW u \in Threads
        PROVE  InLock(u)' <=> (u = t \/ InLock(u))
    BY <1>4, <1>6, Zenon DEF InLock
  <2>2. ~Together /\ Home[t] # Solo => FALSE
    BY Zenon DEF Local!Present, Together
  <2>3. ASSUME NEW u \in Threads
        PROVE  localPc[u] = "idle" => localPc'[u] = "idle"
    BY <1>4, <1>6, Zenon
  <2>4. /\ mutex[Home[t]] = Nobody /\ UNCHANGED <<held, returned>>
        /\ (flock = Nobody /\ flock' = t) \/ (~Together /\ flock' = flock)
    BY <1>6, Zenon
  <2>5. MutexHolds'
    BY <1>2, <1>5, <2>1, <2>4, Zenon DEF LocalInv, LocksHold, MutexHolds
  <2>6. FlockHolds'
    BY <1>2, <2>1, <2>4, Zenon DEF LocalInv, LocksHold, FlockHolds
  <2>7. SoloIsAlone'
    BY <2>2, <2>3, <2>4, Zenon DEF LocalInv, LocksHold, SoloIsAlone
  <2> QED
    BY <2>5, <2>6, <2>7, Zenon DEF LocksHold
<1>8. CallsAre'
  BY <1>4, <1>6, Zenon DEF LocalInv, CallsAre
<1>9. VersionsMatch'
  BY <1>4, <1>6, Zenon DEF LocalInv, VersionsMatch, Local!localGeneration
<1>10. SharedTimes'
  BY <1>4, <1>6, Zenon DEF LocalInv, SharedTimes
<1>11. SoloTimes'
  BY <1>4, <1>6, Zenon DEF LocalInv, SoloTimes, Pending
<1> QED
  BY <1>3, <1>7, <1>8, <1>9, <1>10, <1>11, Zenon DEF LocalInv

(* The time that is handed out is after every time seen or handed out.     *)
LEMMA TimeIsNew ==
  ASSUME LocalType, NEW t \in Threads, NEW after \in Nat, Local!nextLocalModTime(t, after)
  PROVE  \E n \in Nat :
           /\ n > last[Home[t]] /\ n > after
           /\ time' = [time EXCEPT ![t] = n] /\ last' = [last EXCEPT ![Home[t]] = n]
<1>1. PICK now \in Clock :
        LET before == Local!Higher(last[Home[t]], after)
            next == IF now <= before THEN before + 1 ELSE now
        IN time' = [time EXCEPT ![t] = next] /\ last' = [last EXCEPT ![Home[t]] = next]
  BY Zenon DEF Local!nextLocalModTime
<1> DEFINE before == Local!Higher(last[Home[t]], after)
           next == IF now <= before THEN before + 1 ELSE now
<1>2. now \in Nat /\ last[Home[t]] \in Nat
  BY StorageConstants, Zenon DEF LocalType
<1>3. before \in Nat /\ before >= last[Home[t]] /\ before >= after
  BY <1>2 DEF Local!Higher
<1>4. next \in Nat /\ next > before
  <2> HIDE DEF before
  <2> QED
    BY <1>2, <1>3
<1>5. time' = [time EXCEPT ![t] = next] /\ last' = [last EXCEPT ![Home[t]] = next]
  BY <1>1, Zenon
<1> HIDE DEF next, before
<1>6. next > last[Home[t]] /\ next > after
  BY <1>2, <1>3, <1>4
<1> QED
  BY <1>4, <1>5, <1>6, Zenon

(* A step of t leaves the calls of the other threads alone.                *)
OthersStay(t) ==
  \A u \in Threads : u # t =>
    /\ localPc'[u] = localPc[u] /\ cond'[u] = cond[u] /\ time'[u] = time[u]
    /\ held'[u] = held[u] /\ returned'[u] = returned[u]

(* A step with the locks as they were.                                     *)
LEMMA LocksStay ==
  ASSUME LocalInv, Together' <=> Together, UNCHANGED <<mutex, flock>>,
         \A u \in Threads : InLock(u)' <=> InLock(u)
  PROVE  MutexHolds' /\ FlockHolds'
BY Zenon DEF LocalInv, LocksHold, MutexHolds, FlockHolds

(* A step that unlocks.                                                    *)
LEMMA LocksEnd ==
  ASSUME LocalInv, Together' <=> Together, NEW t \in Threads, InLock(t), Local!Unlock(t),
         \A u \in Threads : InLock(u)' <=> InLock(u) /\ u # t
  PROVE  /\ MutexHolds' /\ FlockHolds'
         /\ mutex' \in [Processes -> Threads \cup {Nobody}] /\ flock' \in Threads \cup {Nobody}
<1>1. /\ mutex' = [mutex EXCEPT ![Home[t]] = Nobody]
      /\ flock' = IF flock = t THEN Nobody ELSE flock
  BY Zenon DEF Local!Unlock
<1>2. mutex' \in [Processes -> Threads \cup {Nobody}] /\ flock' \in Threads \cup {Nobody}
  BY <1>1, Zenon DEF LocalInv, LocalType
<1>3. ASSUME NEW u \in Threads
      PROVE  mutex'[Home[u]] = IF Home[u] = Home[t] THEN Nobody ELSE mutex[Home[u]]
  BY <1>1, StorageConstants, Zenon DEF LocalInv, LocalType
<1>4. MutexHolds'
  BY <1>3, StorageConstants DEF LocalInv, LocksHold, MutexHolds
<1>5. FlockHolds'
  <2>1. flock' = IF flock = t THEN Nobody ELSE flock
    BY <1>1, Zenon
  <2> QED
    BY <2>1, StorageConstants, Zenon DEF LocalInv, LocksHold, FlockHolds
<1> QED
  BY <1>2, <1>4, <1>5, Zenon

(* Only a thread that is there makes a step.                               *)
LEMMA AloneStays ==
  ASSUME LocalInv, Together' <=> Together, NEW t \in Threads, Local!Present(t), OthersStay(t)
  PROVE  SoloIsAlone'
<1>1. ~Together => Home[t] = Solo
  BY Zenon DEF Local!Present, Together
<1>2. ASSUME NEW u \in Threads, u # t
      PROVE  localPc'[u] = localPc[u] /\ held'[u] = held[u] /\ returned'[u] = returned[u]
  BY <1>2, Zenon DEF OthersStay
<1> QED
  BY <1>1, <1>2, Zenon DEF LocalInv, LocksHold, SoloIsAlone

(* A step to where the condition of a Put does not matter.                 *)
LEMMA CallsStay ==
  ASSUME LocalInv, Together' <=> Together, NEW t \in Threads, OthersStay(t),
         localPc'[t] \in {"idle", "stat", "advance"}
  PROVE  CallsAre'
<1>1. ASSUME NEW u \in Threads, u # t
      PROVE  localPc'[u] = localPc[u] /\ cond'[u] = cond[u] /\ held'[u] = held[u]
  BY <1>1, Zenon DEF OthersStay
<1> QED
  BY <1>1, Zenon DEF LocalInv, CallsAre

(* A step that leaves the file and what is known of it alone.              *)
LEMMA VersionsStay ==
  ASSUME LocalInv, NEW t \in Threads, OthersStay(t), file' = file,
         cond'[t] = cond[t], held'[t] = held[t], returned'[t] = returned[t],
         localPc[t] # "stat", localPc'[t] \notin {"rename", "stat"}
  PROVE  VersionsMatch'
<1>1. ASSUME NEW u \in Threads
      PROVE  cond'[u] = cond[u] /\ held'[u] = held[u] /\ returned'[u] = returned[u]
  BY Zenon DEF OthersStay
<1>2. ASSUME NEW u \in Threads
      PROVE  /\ localPc'[u] = "rename" => localPc[u] = "rename"
             /\ (localPc'[u] = "stat") <=> (localPc[u] = "stat")
  BY Zenon DEF OthersStay
<1> QED
  BY <1>1, <1>2 DEF LocalInv, VersionsMatch, Local!localGeneration

(* A step that chooses no time, and leaves the file and what is known of   *)
(* it alone.                                                               *)
LEMMA TimesStay ==
  ASSUME LocalInv, LocalType', Together' <=> Together, NEW t \in Threads, Local!Present(t), OthersStay(t), file' = file,
         held'[t] = held[t], returned'[t] = returned[t], localPc'[t] \notin {"link", "rename"},
         last'[Home[t]] >= last[Home[t]]
  PROVE  SharedTimes' /\ SoloTimes'
<1>1. ASSUME NEW u \in Threads
      PROVE  held'[u] = held[u] /\ returned'[u] = returned[u]
  BY Zenon DEF OthersStay
<1>2. ASSUME NEW u \in Threads
      PROVE  /\ localPc'[u] = "rename" => localPc[u] = "rename" /\ time'[u] = time[u]
             /\ Pending(u)' => Pending(u) /\ time'[u] = time[u]
  BY Zenon DEF OthersStay, Pending
<1>3. SharedTimes'
  BY <1>1, <1>2 DEF LocalInv, SharedTimes
<1>4. ASSUME ~Together
      PROVE  SoloTimes'
  <2>1. Home[t] = Solo /\ Solo \in Processes
    BY <1>4, StorageConstants, Zenon DEF Local!Present, Together
  <2>2. last[Solo] \in Nat /\ last'[Solo] \in Nat /\ last'[Solo] >= last[Solo]
    BY <2>1, Zenon DEF LocalInv, LocalType
  <2>3. ASSUME NEW m \in Nat, m <= last[Solo]
        PROVE  m <= last'[Solo]
    BY <2>2, <2>3
  <2>4. file' # None => file'.mtime <= last'[Solo]
    BY <1>4, <2>3, Zenon DEF LocalInv, LocalType, Files, SoloTimes
  <2>5. ASSUME NEW u \in Threads, NEW r \in {held'[u], returned'[u]}, r # Local!Nothing
        PROVE  r.gen[1] <= last'[Solo]
    <3>1. r \in {held[u], returned[u]} /\ r \in Notes
      BY <1>1 DEF LocalInv, LocalType
    <3>2. r.gen[1] \in Nat /\ r.gen[1] <= last[Solo]
      BY <1>4, <2>5, <3>1, NoteFields, Zenon DEF LocalInv, SoloTimes
    <3> QED
      BY <3>2, <2>3, Zenon
  <2>6. ASSUME NEW u \in Threads, Pending(u)'
        PROVE  /\ time'[u] > 0 /\ time'[u] <= last'[Solo]
               /\ file' # None => file'.mtime # time'[u]
               /\ \A v \in Threads : v # u /\ Pending(v)' => time'[v] # time'[u]
               /\ \A v \in Threads : \A r \in {held'[v], returned'[v]} : r # Local!Nothing => r.gen[1] # time'[u]
    <3>1. Pending(u) /\ time'[u] = time[u] /\ time[u] \in Nat
      BY <1>2, <2>6, Zenon DEF LocalInv, LocalType
    <3>2. time[u] > 0 /\ time[u] <= last'[Solo]
      BY <1>4, <3>1, <2>3, Zenon DEF LocalInv, SoloTimes
    <3> QED
      BY <1>1, <1>2, <1>4, <3>1, <3>2 DEF LocalInv, SoloTimes
  <2> QED
    BY <2>4, <2>5, <2>6, Zenon DEF SoloTimes
<1> QED
  BY <1>3, <1>4, Zenon DEF SoloTimes

(* A time is chosen, after every time that the process has given out and   *)
(* after the file's where the directory is shared.                         *)
LEMMA TimeChosen ==
  ASSUME LocalInv, LocalType', Together' <=> Together, NEW t \in Threads, Local!Present(t), OthersStay(t), file' = file,
         held'[t] = held[t], returned'[t] = returned[t],
         last'[Home[t]] = time'[t], time'[t] > last[Home[t]],
         localPc'[t] = "rename" => time'[t] > file.mtime
  PROVE  SharedTimes' /\ SoloTimes'
<1>1. ASSUME NEW u \in Threads
      PROVE  held'[u] = held[u] /\ returned'[u] = returned[u]
  BY Zenon DEF OthersStay
<1>2. ASSUME NEW u \in Threads, u # t
      PROVE  /\ localPc'[u] = "rename" => localPc[u] = "rename"
             /\ (Pending(u)' => Pending(u)) /\ time'[u] = time[u]
  BY <1>2, Zenon DEF OthersStay, Pending
<1>3. SharedTimes'
  BY <1>1, <1>2 DEF LocalInv, SharedTimes
<1>4. ASSUME ~Together
      PROVE  SoloTimes'
  <2>1. Home[t] = Solo /\ Solo \in Processes
    BY <1>4, StorageConstants, Zenon DEF Local!Present, Together
  <2>2. /\ last[Solo] \in Nat /\ last'[Solo] \in Nat /\ last'[Solo] > last[Solo] /\ time'[t] = last'[Solo]
    BY <2>1, Zenon DEF LocalInv, LocalType
  <2>3. ASSUME NEW m \in Nat, m <= last[Solo]
        PROVE  m <= last'[Solo] /\ m # time'[t]
    BY <2>2, <2>3
  <2>4. file' # None => file'.mtime <= last'[Solo] /\ file'.mtime # time'[t]
    BY <1>4, <2>3, Zenon DEF LocalInv, LocalType, Files, SoloTimes
  <2>5. ASSUME NEW u \in Threads, NEW r \in {held'[u], returned'[u]}, r # Local!Nothing
        PROVE  r.gen[1] <= last'[Solo] /\ r.gen[1] # time'[t]
    <3>1. r \in {held[u], returned[u]} /\ r \in Notes
      BY <1>1, Zenon DEF LocalInv, LocalType
    <3>2. r.gen[1] \in Nat /\ r.gen[1] <= last[Solo]
      BY <1>4, <2>5, <3>1, NoteFields, Zenon DEF LocalInv, SoloTimes
    <3> QED
      BY <3>2, <2>3, Zenon
  <2>6. ASSUME NEW u \in Threads, u # t, Pending(u)'
        PROVE  /\ time'[u] > 0 /\ time'[u] <= last'[Solo] /\ time'[u] # time'[t]
               /\ file' # None => file'.mtime # time'[u]
               /\ \A v \in Threads : v # u /\ v # t /\ Pending(v)' => time'[v] # time'[u]
               /\ \A v \in Threads : \A r \in {held'[v], returned'[v]} : r # Local!Nothing => r.gen[1] # time'[u]
    <3>1. Pending(u) /\ time'[u] = time[u] /\ time[u] \in Nat
      BY <1>2, <2>6, Zenon DEF LocalInv, LocalType
    <3>2. time[u] > 0 /\ time[u] <= last'[Solo] /\ time[u] # time'[t]
      BY <1>4, <3>1, <2>3, Zenon DEF LocalInv, SoloTimes
    <3> QED
      BY <1>1, <1>2, <1>4, <3>1, <3>2 DEF LocalInv, SoloTimes
  <2>7. time'[t] > 0 /\ time'[t] <= last'[Solo]
    BY <2>2
  <2>8. ASSUME NEW u \in Threads, Pending(u)'
        PROVE  /\ time'[u] > 0 /\ time'[u] <= last'[Solo]
               /\ file' # None => file'.mtime # time'[u]
               /\ \A v \in Threads : v # u /\ Pending(v)' => time'[v] # time'[u]
               /\ \A v \in Threads : \A r \in {held'[v], returned'[v]} : r # Local!Nothing => r.gen[1] # time'[u]
    <3>1. CASE u = t
      BY <2>4, <2>5, <2>6, <2>7, <3>1, Zenon
    <3>2. CASE u # t
      BY <2>6, <2>8, <3>2, Zenon
    <3> QED
      BY <3>1, <3>2, Zenon
  <2> QED
    BY <2>4, <2>5, <2>8, Zenon DEF SoloTimes
<1> QED
  BY <1>3, <1>4, Zenon DEF SoloTimes

(* A creation chooses its time, before it links and without a lock.        *)
LEMMA LocalChoose ==
  ASSUME LocalInv, NEW t \in Threads, Local!Present(t), Local!ChooseTime(t), Together' <=> Together
  PROVE  LocalInv'
<1>1. /\ localPc[t] = "choose" /\ localPc' = [localPc EXCEPT ![t] = "link"] /\ Local!nextLocalModTime(t, 0)
      /\ UNCHANGED <<file, puts, mutex, flock, cond, held, returned>>
  BY Zenon DEF Local!ChooseTime, Local!Go, Local!disk, Local!locks
<1>2. PICK n \in Nat : /\ n > last[Home[t]]
                       /\ time' = [time EXCEPT ![t] = n] /\ last' = [last EXCEPT ![Home[t]] = n]
  BY <1>1, TimeIsNew, Zenon DEF LocalInv
<1>3. LocalType'
  BY <1>1, <1>2, Zenon DEF LocalInv, LocalType, Places
<1>4. OthersStay(t) /\ localPc'[t] = "link"
  BY <1>1, <1>2, Zenon DEF LocalInv, LocalType, OthersStay
<1>5. last'[Home[t]] = time'[t] /\ time'[t] > last[Home[t]]
  BY <1>2, StorageConstants, Zenon DEF LocalInv, LocalType
<1>6. localPc[t] = "choose" /\ UNCHANGED <<file, puts, mutex, flock, cond, held, returned>>
  BY <1>1, Zenon
<1>7. LocksHold'
  <2>1. ASSUME NEW u \in Threads
        PROVE  InLock(u)' <=> InLock(u)
    BY <1>4, <1>6, Zenon DEF InLock, OthersStay
  <2> QED
    BY <1>4, <1>6, <2>1, LocksStay, AloneStays, Zenon DEF LocksHold
<1>8. CallsAre'
  BY <1>4, <1>6, Zenon DEF LocalInv, CallsAre, OthersStay
<1>9. VersionsMatch'
  BY <1>4, <1>6, VersionsStay, Zenon
<1>10. SharedTimes' /\ SoloTimes'
  BY <1>3, <1>4, <1>5, <1>6, TimeChosen, Zenon
<1> QED
  BY <1>3, <1>7, <1>8, <1>9, <1>10, Zenon DEF LocalInv

(* A new file: its time is nobody else's, it is not before what is known   *)
(* where the directory is shared, and nobody else is about to rename or    *)
(* has just renamed.                                                       *)
LEMMA LocalBecome ==
  ASSUME LocalInv, NEW t \in Threads, Local!Present(t), Local!Become(t), Together' <=> Together,
         Pending(t), InLock(t) <=> cond[t] = "match",
         UNCHANGED <<last, mutex, flock, cond, held>>,
         \A u \in Threads : u # t => ~(localPc[u] = "rename") /\ ~(localPc[u] = "stat" /\ cond[u] = "match"),
         \A u \in Threads : \A r \in {held[u], returned[u]} : r # Local!Nothing => r.gen[1] # time[t],
         Together => \A u \in Threads : \A r \in {held[u], returned[u]} : r # Local!Nothing => r.gen[1] <= time[t]
  PROVE  LocalInv'
<1> DEFINE own == [version |-> puts + 1, gen |-> <<0, 0>>]
<1>1. PICK s \in Sizes :
        /\ puts' = puts + 1 /\ file' = [mtime |-> time[t], size |-> s, version |-> puts + 1]
        /\ time' = [time EXCEPT ![t] = 0] /\ returned' = [returned EXCEPT ![t] = own]
        /\ localPc' = [localPc EXCEPT ![t] = "stat"]
  BY Zenon DEF Local!Become, Local!Go
<1>2. time[t] \in Nat /\ puts \in Nat
  BY Zenon DEF LocalInv, LocalType
<1>3. file' \in Files /\ file' # None /\ file'.mtime = time[t] /\ file'.version = puts + 1
  BY <1>1, <1>2, StorageConstants DEF Files
<1>4. own \in Notes /\ own # Local!Nothing /\ own.gen[1] = 0 /\ own.version = puts + 1
  <2>1. own \in [version : Nat, gen : Nat \X (Sizes \cup {0})]
    BY <1>2
  <2>2. own.version = puts + 1 /\ own.gen[1] = 0
    BY Zenon
  <2>3. own # Local!Nothing
    BY <1>2, <2>2, StorageConstants DEF Local!Nothing
  <2> QED
    BY <2>1, <2>2, <2>3, Zenon DEF Notes
<1> HIDE DEF own
<1>5. LocalType'
  <2>1. returned' \in [Threads -> Notes]
    BY <1>1, <1>4, Zenon DEF LocalInv, LocalType
  <2>2. time' \in [Threads -> Nat]
    BY <1>1, Zenon DEF LocalInv, LocalType
  <2>3. localPc' \in [Threads -> Places]
    BY <1>1, Zenon DEF LocalInv, LocalType, Places
  <2>4. puts' \in Nat
    BY <1>1, <1>2
  <2> QED
    BY <1>3, <2>1, <2>2, <2>3, <2>4, Zenon DEF LocalInv, LocalType
<1>6. /\ OthersStay(t)
      /\ localPc'[t] = "stat" /\ time'[t] = 0 /\ returned'[t] = own /\ held'[t] = held[t] /\ cond'[t] = cond[t]
  BY <1>1, Zenon DEF LocalInv, LocalType, OthersStay
<1>7. LocksHold'
  <2>1. ASSUME NEW u \in Threads
        PROVE  InLock(u)' <=> InLock(u)
    BY <1>6, Zenon DEF InLock, OthersStay
  <2> QED
    BY <1>6, <2>1, LocksStay, AloneStays, Zenon DEF LocksHold
<1>8. CallsAre'
  BY <1>6, CallsStay, Zenon
<1>9. ASSUME NEW r, r # Local!Nothing, r.gen[1] # time[t]
      PROVE  r.gen # Local!localGeneration(file)'
  <2>1. Local!localGeneration(file)' = <<file'.mtime, file'.size>>
    BY Zenon DEF Local!localGeneration
  <2> QED
    BY <1>3, <1>9, <2>1
<1>10. VersionsMatch'
  <2>1. ASSUME NEW u \in Threads, held[u] # Local!Nothing
        PROVE  held[u].gen # Local!localGeneration(file)'
    BY <1>9, <2>1, Zenon
  <2>2. ASSUME NEW u \in Threads, u # t, returned'[u] # Local!Nothing
        PROVE  returned'[u].gen # Local!localGeneration(file)'
    BY <1>6, <1>9, <2>2 DEF OthersStay
  <2>3. ASSUME NEW u \in Threads, u # t
        PROVE  ~(localPc'[u] = "rename") /\ ~(localPc'[u] = "stat" /\ cond'[u] = "match")
    BY <1>6, <2>3, Zenon DEF OthersStay
  <2>4. returned'[t] # Local!Nothing /\ returned'[t].version = file'.version
    BY <1>3, <1>4, <1>6, Zenon
  <2>5. ASSUME NEW u \in Threads
        PROVE  /\ file' # None /\ held'[u] # Local!Nothing /\ held'[u].gen = Local!localGeneration(file)'
                    => held'[u].version = file'.version
               /\ cond'[u] = "match" /\ localPc'[u] # "stat" /\ returned'[u] # Local!Nothing
                    => (file' # None /\ returned'[u].gen = Local!localGeneration(file)' => returned'[u].version = file'.version)
               /\ localPc'[u] = "rename" => file' # None /\ held'[u].version = file'.version
               /\ localPc'[u] = "stat" => returned'[u] # Local!Nothing
               /\ localPc'[u] = "stat" /\ cond'[u] = "match" => file' # None /\ returned'[u].version = file'.version
    <3>1. localPc'[u] = "stat" => returned'[u] # Local!Nothing
      BY <1>6, <2>4, Zenon DEF OthersStay, LocalInv, VersionsMatch
    <3> QED
      BY <1>3, <1>6, <2>1, <2>2, <2>3, <2>4, <3>1, Zenon
  <2> QED
    BY <2>5, Zenon DEF VersionsMatch
<1>11. ASSUME NEW u \in Threads, NEW r \in {held'[u], returned'[u]}, r # Local!Nothing
       PROVE  r \in {held[u], returned[u]} \/ r.gen[1] = 0
  BY <1>4, <1>6, Zenon DEF OthersStay
<1>12. SharedTimes'
  <2>1. ASSUME NEW u \in Threads
        PROVE  localPc'[u] # "rename"
    BY <1>6, Zenon DEF OthersStay
  <2>2. ASSUME Together, NEW u \in Threads, NEW r \in {held'[u], returned'[u]}, r # Local!Nothing
        PROVE  r.gen[1] <= file'.mtime
    BY <1>2, <1>3, <1>11, <2>2
  <2> QED
    BY <1>3, <2>1, <2>2, Zenon DEF SharedTimes
<1>13. ASSUME ~Together
       PROVE  SoloTimes'
  <2>1. Home[t] = Solo /\ Solo \in Processes
    BY <1>13, StorageConstants, Zenon DEF Local!Present, Together
  <2>2. last[Solo] \in Nat /\ time[t] <= last[Solo]
    BY <1>13, <2>1, Zenon DEF LocalInv, LocalType, SoloTimes
  <2>3. ASSUME NEW u \in Threads, Pending(u)'
        PROVE  u # t /\ Pending(u) /\ time'[u] = time[u] /\ time[u] \in Nat
    BY <1>6, <2>3, Zenon DEF Pending, OthersStay, LocalInv, LocalType
  <2>4. ASSUME NEW u \in Threads, NEW r \in {held'[u], returned'[u]}, r # Local!Nothing
        PROVE  r.gen[1] <= last[Solo]
    <3>1. CASE r \in {held[u], returned[u]}
      BY <1>13, <2>4, <3>1, Zenon DEF LocalInv, SoloTimes
    <3>2. CASE r.gen[1] = 0
      BY <2>2, <3>2
    <3> QED
      BY <1>11, <2>4, <3>1, <3>2, Zenon
  <2>5. ASSUME NEW u \in Threads, Pending(u)', NEW v \in Threads, NEW r \in {held'[v], returned'[v]}, r # Local!Nothing
        PROVE  r.gen[1] # time'[u]
    <3>1. time[u] > 0 /\ Pending(u) /\ time'[u] = time[u] /\ time[u] \in Nat
      BY <1>13, <2>3, <2>5, Zenon DEF LocalInv, SoloTimes
    <3> QED
      BY <1>11, <1>13, <2>5, <3>1 DEF LocalInv, SoloTimes
  <2>6. ASSUME NEW u \in Threads, Pending(u)'
        PROVE  /\ time'[u] > 0 /\ time'[u] <= last[Solo] /\ file'.mtime # time'[u]
               /\ \A v \in Threads : v # u /\ Pending(v)' => time'[v] # time'[u]
    BY <1>3, <1>13, <2>3, <2>6 DEF LocalInv, SoloTimes
  <2> QED
    BY <1>3, <2>2, <2>4, <2>5, <2>6, Zenon DEF SoloTimes
<1> QED
  BY <1>5, <1>7, <1>8, <1>10, <1>12, <1>13, Zenon DEF LocalInv, SoloTimes

(* link makes the file, or finds one.                                      *)
LEMMA LocalLink ==
  ASSUME LocalInv, NEW t \in Threads, Local!Present(t), Local!Link(t), Together' <=> Together
  PROVE  LocalInv'
<1>1. localPc[t] = "link" /\ UNCHANGED <<last, mutex, flock, cond, held>>
  BY Zenon DEF Local!Link, Local!locks
<1>2. CASE file = None
  <2>1. Local!Become(t)
    BY <1>2, Zenon DEF Local!Link
  <2>2. Pending(t) /\ cond[t] = "absent" /\ ~InLock(t)
    BY <1>1, Zenon DEF Pending, InLock, LocalInv, CallsAre
  <2>3. ASSUME NEW u \in Threads
        PROVE  ~(localPc[u] = "rename") /\ ~(localPc[u] = "stat" /\ cond[u] = "match")
    BY <1>2, Zenon DEF LocalInv, VersionsMatch
  <2>4. ASSUME Together, NEW u \in Threads, NEW r \in {held[u], returned[u]}
        PROVE  r = Local!Nothing
    BY <1>2, <2>4, Zenon DEF LocalInv, SharedTimes
  <2>5. ASSUME NEW u \in Threads, NEW r \in {held[u], returned[u]}, r # Local!Nothing
        PROVE  r.gen[1] # time[t]
    BY <2>2, <2>4, <2>5, Zenon DEF LocalInv, SoloTimes
  <2> QED
    BY <1>1, <2>1, <2>2, <2>3, <2>4, <2>5, LocalBecome, Zenon
<1>3. CASE file # None
  <2>1. /\ localPc' = [localPc EXCEPT ![t] = "idle"] /\ time' = [time EXCEPT ![t] = 0]
        /\ UNCHANGED <<file, puts, returned>>
    BY <1>3, Zenon DEF Local!Link, Local!Go, Local!disk
  <2>2. LocalType'
    BY <1>1, <2>1, Zenon DEF LocalInv, LocalType, Places
  <2>3. OthersStay(t) /\ localPc'[t] = "idle"
    BY <1>1, <2>1, Zenon DEF LocalInv, LocalType, OthersStay
  <2>4. UNCHANGED <<file, returned>>
    BY <2>1, Zenon
  <2>5. LocksHold'
    <3>1. ASSUME NEW u \in Threads
          PROVE  InLock(u)' <=> InLock(u)
      BY <1>1, <2>3, Zenon DEF InLock, OthersStay
    <3> QED
      BY <1>1, <2>3, <3>1, LocksStay, AloneStays, Zenon DEF LocksHold
  <2>6. CallsAre' /\ VersionsMatch'
    BY <1>1, <2>3, <2>4, CallsStay, VersionsStay, Zenon
  <2>7. last'[Home[t]] >= last[Home[t]]
    BY <1>1, StorageConstants DEF LocalInv, LocalType
  <2>8. SharedTimes' /\ SoloTimes'
    BY <1>1, <2>2, <2>3, <2>4, <2>7, TimesStay, Zenon
  <2> QED
    BY <2>2, <2>5, <2>6, <2>8, Zenon DEF LocalInv
<1> QED
  BY <1>2, <1>3, Zenon

(* The condition of a Put holds, and a time is chosen for its file.        *)
LEMMA LocalMatch ==
  ASSUME LocalInv, NEW t \in Threads, Local!Present(t), Local!Check(t), Local!Matches(t), Together' <=> Together
  PROVE  LocalInv'
<1>1. /\ localPc[t] = "check" /\ localPc' = [localPc EXCEPT ![t] = "rename"]
      /\ Local!nextLocalModTime(t, file.mtime)
      /\ UNCHANGED <<file, puts, mutex, flock, cond, held, returned>>
  BY Zenon DEF Local!Check, Local!Go, Local!disk, Local!locks
<1>2. file # None /\ Local!localGeneration(file) = held[t].gen
  BY Zenon DEF Local!Matches
<1>3. file.mtime \in Nat
  BY <1>2, Zenon DEF LocalInv, LocalType, Files
<1>4. PICK n \in Nat : /\ n > last[Home[t]] /\ n > file.mtime
                       /\ time' = [time EXCEPT ![t] = n] /\ last' = [last EXCEPT ![Home[t]] = n]
  BY <1>1, <1>3, TimeIsNew, Zenon DEF LocalInv
<1>5. LocalType'
  BY <1>1, <1>4, Zenon DEF LocalInv, LocalType, Places
<1>6. OthersStay(t) /\ localPc'[t] = "rename"
  BY <1>1, <1>4, Zenon DEF LocalInv, LocalType, OthersStay
<1>7. last'[Home[t]] = time'[t] /\ time'[t] > last[Home[t]] /\ time'[t] > file.mtime
  BY <1>4, StorageConstants, Zenon DEF LocalInv, LocalType
<1>8. localPc[t] = "check" /\ UNCHANGED <<file, puts, mutex, flock, cond, held, returned>>
  BY <1>1, Zenon
<1>9. LocksHold'
  <2>1. ASSUME NEW u \in Threads
        PROVE  InLock(u)' <=> InLock(u)
    BY <1>6, <1>8, Zenon DEF InLock, OthersStay
  <2> QED
    BY <1>6, <1>8, <2>1, LocksStay, AloneStays, Zenon DEF LocksHold
<1>10. CallsAre'
  BY <1>6, <1>8, Zenon DEF LocalInv, CallsAre, OthersStay
<1>11. VersionsMatch'
  <2>1. held[t] # Local!Nothing /\ cond[t] = "match"
    BY <1>8, Zenon DEF LocalInv, CallsAre
  <2>2. held[t].version = file.version
    BY <1>2, <2>1, Zenon DEF LocalInv, VersionsMatch
  <2>3. ASSUME NEW u \in Threads
        PROVE  /\ localPc'[u] = "rename" => localPc[u] = "rename" \/ u = t
               /\ (localPc'[u] = "stat") <=> (localPc[u] = "stat")
    BY <1>6, <1>8, Zenon DEF OthersStay
  <2> QED
    BY <1>2, <1>8, <2>2, <2>3, Zenon DEF LocalInv, VersionsMatch, Local!localGeneration
<1>12. SharedTimes' /\ SoloTimes'
  BY <1>5, <1>6, <1>7, <1>8, TimeChosen, Zenon
<1> QED
  BY <1>5, <1>9, <1>10, <1>11, <1>12, Zenon DEF LocalInv

(* Time never goes back in a process.                                      *)
LEMMA LastRises ==
  ASSUME LocalType, NEW t \in Threads, NEW m \in Nat,
         last' = [last EXCEPT ![Home[t]] = Local!Higher(@, m)]
  PROVE  last' \in [Processes -> Nat] /\ last'[Home[t]] >= last[Home[t]]
<1>1. Home[t] \in Processes /\ last \in [Processes -> Nat] /\ last[Home[t]] \in Nat
  BY StorageConstants, Zenon DEF LocalType
<1>2. Local!Higher(last[Home[t]], m) \in Nat /\ Local!Higher(last[Home[t]], m) >= last[Home[t]]
  BY <1>1 DEF Local!Higher
<1> QED
  BY <1>1, <1>2, Zenon

(* A call ends and unlocks, and leaves the file and what is known alone.   *)
LEMMA LocalEnds ==
  ASSUME LocalInv, NEW t \in Threads, Local!Present(t), Together' <=> Together,
         localPc[t] \in {"check", "remove", "advance"}, localPc' = [localPc EXCEPT ![t] = "idle"],
         Local!Unlock(t), UNCHANGED <<file, puts, cond, held, returned>>,
         NEW n \in Nat, time' = [time EXCEPT ![t] = n],
         last' \in [Processes -> Nat], last'[Home[t]] >= last[Home[t]]
  PROVE  LocalInv'
<1>1. OthersStay(t) /\ localPc'[t] = "idle" /\ InLock(t)
  BY Zenon DEF LocalInv, LocalType, OthersStay, InLock
<1>2. ASSUME NEW u \in Threads
      PROVE  InLock(u)' <=> InLock(u) /\ u # t
  BY <1>1, Zenon DEF InLock, OthersStay
<1>3. /\ MutexHolds' /\ FlockHolds' /\ SoloIsAlone'
      /\ mutex' \in [Processes -> Threads \cup {Nobody}] /\ flock' \in Threads \cup {Nobody}
  BY <1>1, <1>2, LocksEnd, AloneStays, Zenon
<1>4. LocalType'
  BY <1>3, Zenon DEF LocalInv, LocalType, Places
<1>5. CallsAre' /\ VersionsMatch'
  BY <1>1, CallsStay, VersionsStay, Zenon
<1>6. SharedTimes' /\ SoloTimes'
  BY <1>1, <1>4, TimesStay, Zenon
<1> QED
  BY <1>3, <1>4, <1>5, <1>6, Zenon DEF LocalInv, LocksHold

(* The locked part of a Put compares.                                      *)
LEMMA LocalCheck ==
  ASSUME LocalInv, NEW t \in Threads, Local!Present(t), Local!Check(t), Together' <=> Together
  PROVE  LocalInv'
<1>1. CASE Local!Matches(t)
  BY <1>1, LocalMatch, Zenon
<1>2. CASE ~Local!Matches(t)
  <2>1. /\ localPc[t] = "check" /\ localPc' = [localPc EXCEPT ![t] = "idle"] /\ Local!Unlock(t)
        /\ last' = IF file = None THEN last ELSE [last EXCEPT ![Home[t]] = Local!Higher(@, file.mtime)]
        /\ UNCHANGED <<file, puts, cond, held, returned, time>>
    BY <1>2, Zenon DEF Local!Check, Local!Go, Local!disk
  <2>2. last' \in [Processes -> Nat] /\ last'[Home[t]] >= last[Home[t]]
    <3>1. CASE file = None
      <4>1. last' = last
        BY <2>1, <3>1, Zenon
      <4>2. last \in [Processes -> Nat] /\ last[Home[t]] \in Nat
        BY StorageConstants, Zenon DEF LocalInv, LocalType
      <4> QED
        BY <4>1, <4>2
    <3>2. CASE file # None
      <4>1. file.mtime \in Nat
        BY <3>2, Zenon DEF LocalInv, LocalType, Files
      <4> QED
        BY <2>1, <3>2, <4>1, LastRises, Zenon DEF LocalInv
    <3> QED
      BY <3>1, <3>2, Zenon
  <2>3. time[t] \in Nat /\ time' = [time EXCEPT ![t] = time[t]]
    BY <2>1, Zenon DEF LocalInv, LocalType
  <2> QED
    BY <2>1, <2>2, <2>3, LocalEnds, Zenon
<1> QED
  BY <1>1, <1>2, Zenon

(* advanceLocalModTime, after the file is gone.                            *)
LEMMA LocalAdvance ==
  ASSUME LocalInv, NEW t \in Threads, Local!Present(t), Local!Advance(t), Together' <=> Together
  PROVE  LocalInv'
<1>1. /\ localPc[t] = "advance" /\ localPc' = [localPc EXCEPT ![t] = "idle"] /\ Local!Unlock(t)
      /\ last' = [last EXCEPT ![Home[t]] = Local!Higher(@, time[t])] /\ time' = [time EXCEPT ![t] = 0]
      /\ UNCHANGED <<file, puts, cond, held, returned>>
  BY Zenon DEF Local!Advance, Local!Go, Local!disk
<1>2. last' \in [Processes -> Nat] /\ last'[Home[t]] >= last[Home[t]]
  BY <1>1, LastRises, Zenon DEF LocalInv, LocalType
<1> QED
  BY <1>1, <1>2, LocalEnds, Zenon

(* rename replaces the file that the condition held of.                    *)
LEMMA LocalRename ==
  ASSUME LocalInv, NEW t \in Threads, Local!Present(t), Local!Rename(t), Together' <=> Together
  PROVE  LocalInv'
<1>1. localPc[t] = "rename" /\ Local!Become(t) /\ UNCHANGED <<last, mutex, flock, cond, held>>
  BY Zenon DEF Local!Rename, Local!locks
<1>2. Pending(t) /\ cond[t] = "match" /\ InLock(t)
  BY <1>1, Zenon DEF Pending, InLock, LocalInv, CallsAre
<1>3. ASSUME NEW u \in Threads, u # t
      PROVE  ~(localPc[u] = "rename") /\ ~(localPc[u] = "stat" /\ cond[u] = "match")
  <2>1. ~InLock(u)
    BY <1>2, <1>3, OneInLock, Zenon DEF LocalInv
  <2> QED
    BY <2>1, Zenon DEF InLock
<1>4. ASSUME Together, NEW u \in Threads, NEW r \in {held[u], returned[u]}, r # Local!Nothing
      PROVE  r.gen[1] <= time[t] /\ r.gen[1] # time[t]
  <2>1. file # None /\ r.gen[1] <= file.mtime /\ time[t] > file.mtime
    BY <1>1, <1>4, Zenon DEF LocalInv, SharedTimes
  <2>2. time[t] \in Nat /\ file.mtime \in Nat /\ r \in Notes
    BY <2>1, Zenon DEF LocalInv, LocalType, Files
  <2>3. r.gen[1] \in Nat
    BY <1>4, <2>2, NoteFields, Zenon
  <2> QED
    BY <2>1, <2>2, <2>3
<1>5. ASSUME NEW u \in Threads, NEW r \in {held[u], returned[u]}, r # Local!Nothing
      PROVE  r.gen[1] # time[t]
  <2>1. CASE Together
    BY <1>4, <1>5, <2>1, Zenon
  <2>2. CASE ~Together
    BY <1>2, <1>5, <2>2, Zenon DEF LocalInv, SoloTimes
  <2> QED
    BY <2>1, <2>2, Zenon
<1> QED
  BY <1>1, <1>2, <1>3, <1>4, <1>5, LocalBecome, Zenon

(* Stat: what a Put that replaced returns is the file it has made.         *)
LEMMA LocalStat ==
  ASSUME LocalInv, NEW t \in Threads, Local!Present(t), Local!Stat(t), Together' <=> Together
  PROVE  LocalInv'
<1> DEFINE new == IF file = None THEN Local!Nothing
                  ELSE [version |-> returned[t].version, gen |-> Local!localGeneration(file)]
<1>1. /\ localPc[t] = "stat" /\ localPc' = [localPc EXCEPT ![t] = "idle"]
      /\ returned' = [returned EXCEPT ![t] = new]
      /\ IF mutex[Home[t]] = t THEN Local!Unlock(t) ELSE UNCHANGED <<mutex, flock>>
      /\ UNCHANGED <<file, puts, last, cond, time, held>>
  BY Zenon DEF Local!Stat, Local!Go, Local!disk, Local!calls, Local!locks, LocalInv, LocalType
<1>2. /\ new \in Notes
      /\ file # None => /\ new.version = returned[t].version
                        /\ new.gen = Local!localGeneration(file) /\ new.gen[1] = file.mtime
  <2>1. CASE file = None
    BY <2>1, Zenon DEF Notes
  <2>2. CASE file # None
    <3>1. returned[t] \in Notes /\ returned[t] # Local!Nothing /\ file \in Files
      BY <1>1, <2>2, Zenon DEF LocalInv, LocalType, VersionsMatch
    <3>2. returned[t].version \in Nat
      BY <3>1, NoteFields, Zenon
    <3> QED
      BY <2>2, <3>1, <3>2, NoteOfFile, Zenon
  <2> QED
    BY <2>1, <2>2, Zenon
<1>3. file = None => new = Local!Nothing
  BY Zenon
<1> HIDE DEF new
<1>4. /\ OthersStay(t) /\ localPc'[t] = "idle" /\ returned'[t] = new
      /\ held'[t] = held[t] /\ cond'[t] = cond[t] /\ time'[t] = time[t]
  BY <1>1, Zenon DEF LocalInv, LocalType, OthersStay
<1>5. localPc[t] = "stat" /\ UNCHANGED <<file, puts, last, cond, time, held>>
  BY <1>1, Zenon
<1>6. /\ MutexHolds' /\ FlockHolds'
      /\ mutex' \in [Processes -> Threads \cup {Nobody}] /\ flock' \in Threads \cup {Nobody}
  <2>1. ASSUME NEW u \in Threads
        PROVE  InLock(u)' <=> InLock(u) /\ u # t
    BY <1>4, <1>5, Zenon DEF InLock, OthersStay
  <2>2. CASE InLock(t)
    <3>1. Local!Unlock(t)
      BY <1>1, <2>2, Zenon DEF LocalInv, LocksHold, MutexHolds
    <3> QED
      BY <2>1, <2>2, <3>1, LocksEnd, Zenon
  <2>3. CASE ~InLock(t)
    <3>1. UNCHANGED <<mutex, flock>>
      BY <1>1, <2>3, Zenon DEF LocalInv, LocksHold, MutexHolds
    <3>2. \A u \in Threads : InLock(u)' <=> InLock(u)
      BY <2>1, <2>3, Zenon
    <3>3. mutex \in [Processes -> Threads \cup {Nobody}] /\ flock \in Threads \cup {Nobody}
      BY Zenon DEF LocalInv, LocalType
    <3> QED
      BY <3>1, <3>2, <3>3, LocksStay, Zenon
  <2> QED
    BY <2>2, <2>3, Zenon
<1>7. LocalType'
  <2>1. returned' \in [Threads -> Notes]
    BY <1>1, <1>2, Zenon DEF LocalInv, LocalType
  <2>2. localPc' \in [Threads -> Places]
    BY <1>1, Zenon DEF LocalInv, LocalType, Places
  <2> QED
    BY <1>5, <1>6, <2>1, <2>2, Zenon DEF LocalInv, LocalType
<1>8. SoloIsAlone' /\ CallsAre'
  BY <1>4, AloneStays, CallsStay, Zenon
<1>9. VersionsMatch'
  <2>1. ASSUME NEW u \in Threads, u # t
        PROVE  localPc'[u] = localPc[u] /\ cond'[u] = cond[u] /\ returned'[u] = returned[u]
    BY <1>4, <2>1, Zenon DEF OthersStay
  <2>2. cond[t] = "match" => file # None /\ new.version = file.version
    BY <1>2, <1>5, Zenon DEF LocalInv, VersionsMatch
  <2> QED
    BY <1>4, <1>5, <2>1, <2>2, Zenon DEF LocalInv, VersionsMatch, Local!localGeneration
<1>10. ASSUME NEW u \in Threads, NEW r \in {held'[u], returned'[u]}, r # Local!Nothing
       PROVE  r \in {held[u], returned[u]} \/ (file # None /\ r.gen[1] = file.mtime)
  BY <1>2, <1>3, <1>4, <1>5, <1>10, Zenon DEF OthersStay
<1>11. ASSUME NEW u \in Threads
       PROVE  (localPc'[u] = "rename") <=> (localPc[u] = "rename")
  BY <1>4, <1>5, Zenon DEF OthersStay
<1>12. SharedTimes'
  <2>1. ASSUME Together, NEW u \in Threads, NEW r \in {held'[u], returned'[u]}, r # Local!Nothing
        PROVE  file # None /\ r.gen[1] <= file.mtime
    <3>1. file # None => file.mtime \in Nat
      BY Zenon DEF LocalInv, LocalType, Files
    <3> QED
      BY <1>10, <2>1, <3>1 DEF LocalInv, SharedTimes
  <2> QED
    BY <1>5, <1>11, <2>1, Zenon DEF LocalInv, SharedTimes
<1>13. SoloTimes'
  <2>1. ASSUME NEW u \in Threads
        PROVE  Pending(u)' <=> Pending(u)
    BY <1>4, <1>5, Zenon DEF OthersStay, Pending
  <2>2. ASSUME ~Together, NEW u \in Threads, NEW r \in {held'[u], returned'[u]}, r # Local!Nothing
        PROVE  /\ r.gen[1] <= last[Solo]
               /\ \A v \in Threads : Pending(v) => r.gen[1] # time[v]
    BY <1>10, <2>2 DEF LocalInv, SoloTimes
  <2> QED
    BY <1>5, <2>1, <2>2, Zenon DEF LocalInv, SoloTimes
<1> QED
  BY <1>6, <1>7, <1>8, <1>9, <1>12, <1>13, Zenon DEF LocalInv, LocksHold

(* A system call fails: the call ends and unlocks what it has locked.      *)
LEMMA LocalFail ==
  ASSUME LocalInv, NEW t \in Threads, Local!Present(t), Local!Fail(t), Together' <=> Together
  PROVE  LocalInv'
<1>1. /\ localPc[t] # "idle" /\ localPc' = [localPc EXCEPT ![t] = "idle"]
      /\ returned' = [returned EXCEPT ![t] = Local!Nothing] /\ time' = [time EXCEPT ![t] = 0]
      /\ IF mutex[Home[t]] = t THEN Local!Unlock(t) ELSE UNCHANGED <<mutex, flock>>
      /\ UNCHANGED <<file, puts, last, cond, held>>
  BY Zenon DEF Local!Fail, Local!Go, Local!disk, Local!locks
<1>2. Local!Nothing \in Notes
  BY Zenon DEF Notes
<1>3. /\ OthersStay(t) /\ localPc'[t] = "idle" /\ returned'[t] = Local!Nothing
      /\ held'[t] = held[t] /\ cond'[t] = cond[t]
  BY <1>1, Zenon DEF LocalInv, LocalType, OthersStay
<1>4. UNCHANGED <<file, puts, last, cond, held>>
  BY <1>1, Zenon
<1>5. /\ MutexHolds' /\ FlockHolds'
      /\ mutex' \in [Processes -> Threads \cup {Nobody}] /\ flock' \in Threads \cup {Nobody}
  <2>1. ASSUME NEW u \in Threads
        PROVE  InLock(u)' <=> InLock(u) /\ u # t
    BY <1>3, <1>4, Zenon DEF InLock, OthersStay
  <2>2. CASE InLock(t)
    <3>1. Local!Unlock(t)
      BY <1>1, <2>2, Zenon DEF LocalInv, LocksHold, MutexHolds
    <3> QED
      BY <2>1, <2>2, <3>1, LocksEnd, Zenon
  <2>3. CASE ~InLock(t)
    <3>1. UNCHANGED <<mutex, flock>>
      BY <1>1, <2>3, Zenon DEF LocalInv, LocksHold, MutexHolds
    <3>2. \A u \in Threads : InLock(u)' <=> InLock(u)
      BY <2>1, <2>3, Zenon
    <3>3. mutex \in [Processes -> Threads \cup {Nobody}] /\ flock \in Threads \cup {Nobody}
      BY Zenon DEF LocalInv, LocalType
    <3> QED
      BY <3>1, <3>2, <3>3, LocksStay, Zenon
  <2> QED
    BY <2>2, <2>3, Zenon
<1>6. LocalType'
  <2>1. returned' \in [Threads -> Notes] /\ time' \in [Threads -> Nat]
    BY <1>1, <1>2, Zenon DEF LocalInv, LocalType
  <2>2. localPc' \in [Threads -> Places]
    BY <1>1, Zenon DEF LocalInv, LocalType, Places
  <2> QED
    BY <1>4, <1>5, <2>1, <2>2, Zenon DEF LocalInv, LocalType
<1>7. SoloIsAlone' /\ CallsAre'
  BY <1>3, AloneStays, CallsStay, Zenon
<1>8. VersionsMatch'
  <2>1. ASSUME NEW u \in Threads, u # t
        PROVE  localPc'[u] = localPc[u] /\ cond'[u] = cond[u] /\ returned'[u] = returned[u]
    BY <1>3, <2>1, Zenon DEF OthersStay
  <2> QED
    BY <1>3, <1>4, <2>1, Zenon DEF LocalInv, VersionsMatch, Local!localGeneration
<1>9. ASSUME NEW u \in Threads, NEW r \in {held'[u], returned'[u]}, r # Local!Nothing
      PROVE  r \in {held[u], returned[u]}
  BY <1>3, <1>4, <1>9, Zenon DEF OthersStay
<1>10. ASSUME NEW u \in Threads
       PROVE  /\ localPc'[u] = "rename" => localPc[u] = "rename" /\ time'[u] = time[u]
              /\ Pending(u)' => Pending(u) /\ time'[u] = time[u]
  BY <1>3, Zenon DEF OthersStay, Pending
<1>11. SharedTimes'
  BY <1>4, <1>9, <1>10, Zenon DEF LocalInv, SharedTimes
<1>12. ASSUME ~Together
       PROVE  SoloTimes'
  <2>1. SoloTimes /\ ~Together
    BY <1>12, Zenon DEF LocalInv
  <2>2. ASSUME NEW u \in Threads, NEW r \in {held'[u], returned'[u]}, r # Local!Nothing
        PROVE  /\ r.gen[1] <= last[Solo]
               /\ \A v \in Threads : Pending(v) => r.gen[1] # time[v]
    BY <1>9, <2>1, <2>2, Zenon DEF SoloTimes
  <2>3. ASSUME NEW u \in Threads, Pending(u)'
        PROVE  /\ time'[u] > 0 /\ time'[u] <= last[Solo]
               /\ file # None => file.mtime # time'[u]
               /\ \A v \in Threads : v # u /\ Pending(v)' => time'[v] # time'[u]
    BY <1>10, <2>1, <2>3 DEF SoloTimes
  <2>4. ASSUME NEW u \in Threads, Pending(u)', NEW v \in Threads, NEW r \in {held'[v], returned'[v]}, r # Local!Nothing
        PROVE  r.gen[1] # time'[u]
    <3>1. Pending(u) /\ time'[u] = time[u]
      BY <1>10, <2>4, Zenon
    <3>2. \A p \in Threads : Pending(p) => r.gen[1] # time[p]
      BY <2>2, <2>4, Zenon
    <3> QED
      BY <3>1, <3>2, Zenon
  <2>5. file' = file /\ last' = last /\ (file # None => file.mtime <= last[Solo])
    BY <1>4, <2>1, Zenon DEF SoloTimes
  <2> QED
    BY <2>2, <2>3, <2>4, <2>5, Zenon DEF SoloTimes
<1> QED
  BY <1>5, <1>6, <1>7, <1>8, <1>11, <1>12, Zenon DEF LocalInv, LocksHold, SoloTimes

(* The file is removed, or was not there.                                  *)
LEMMA LocalRemove ==
  ASSUME LocalInv, NEW t \in Threads, Local!Present(t), Local!Remove(t), Together' <=> Together
  PROVE  LocalInv'
<1>1. CASE file = None
  <2>1. /\ localPc[t] = "remove" /\ localPc' = [localPc EXCEPT ![t] = "idle"] /\ Local!Unlock(t)
        /\ UNCHANGED <<file, puts, cond, held, returned, time, last>>
    BY <1>1, Zenon DEF Local!Remove, Local!Go, Local!disk
  <2>2. time[t] \in Nat /\ time' = [time EXCEPT ![t] = time[t]]
    BY <2>1, Zenon DEF LocalInv, LocalType
  <2>3. last' = last /\ last \in [Processes -> Nat] /\ last[Home[t]] \in Nat
    BY <2>1, StorageConstants, Zenon DEF LocalInv, LocalType
  <2>4. last' \in [Processes -> Nat] /\ last'[Home[t]] >= last[Home[t]]
    BY <2>3
  <2> QED
    BY <2>1, <2>2, <2>4, LocalEnds, Zenon
<1>2. CASE file # None
  <2>1. /\ localPc[t] = "remove" /\ localPc' = [localPc EXCEPT ![t] = "advance"]
        /\ file' = None /\ time' = [time EXCEPT ![t] = file.mtime]
        /\ UNCHANGED <<puts, last, mutex, flock, cond, held, returned>>
    BY <1>2, Zenon DEF Local!Remove, Local!Go, Local!locks
  <2>2. file.mtime \in Nat
    BY <1>2, Zenon DEF LocalInv, LocalType, Files
  <2>3. LocalType'
    BY <2>1, <2>2, Zenon DEF LocalInv, LocalType, Places
  <2>4. OthersStay(t) /\ localPc'[t] = "advance" /\ InLock(t) /\ ~Together
    BY <2>1, Zenon DEF LocalInv, LocalType, OthersStay, InLock, CallsAre
  <2>5. file' = None /\ UNCHANGED <<puts, last, mutex, flock, cond, held, returned>>
    BY <2>1, Zenon
  <2>6. ASSUME NEW u \in Threads
        PROVE  InLock(u)' <=> InLock(u)
    BY <2>4, Zenon DEF InLock, OthersStay
  <2>7. LocksHold'
    BY <2>4, <2>5, <2>6, LocksStay, AloneStays, Zenon DEF LocksHold
  <2>8. CallsAre'
    BY <2>4, CallsStay, Zenon
  <2>9. VersionsMatch'
    <3>1. ASSUME NEW u \in Threads
          PROVE  ~(localPc'[u] = "rename") /\ ~(localPc'[u] = "stat" /\ cond'[u] = "match")
      <4>1. u # t => ~InLock(u)
        BY <2>4, OneInLock, Zenon DEF LocalInv
      <4>2. u # t => ~InLock(u)'
        BY <2>6, <4>1, Zenon
      <4> QED
        BY <2>4, <4>2, Zenon DEF InLock
    <3>2. ASSUME NEW u \in Threads
          PROVE  localPc'[u] = "stat" => returned'[u] # Local!Nothing
      BY <2>4, <2>5, Zenon DEF OthersStay, LocalInv, VersionsMatch
    <3> QED
      BY <2>5, <3>1, <3>2, Zenon DEF VersionsMatch
  <2>10. SharedTimes'
    BY <2>4, Zenon DEF SharedTimes
  <2>11. SoloTimes'
    <3>1. ASSUME NEW u \in Threads, Pending(u)'
          PROVE  Pending(u) /\ time'[u] = time[u]
      BY <2>4, <3>1, Zenon DEF Pending, OthersStay
    <3>2. SoloTimes /\ ~Together /\ UNCHANGED <<last, held, returned>>
      BY <2>4, <2>5, Zenon DEF LocalInv
    <3>3. ASSUME NEW u \in Threads, NEW r \in {held'[u], returned'[u]}, r # Local!Nothing
          PROVE  r.gen[1] <= last'[Solo]
      BY <3>2, <3>3, Zenon DEF SoloTimes
    <3>4. ASSUME NEW u \in Threads, Pending(u)'
          PROVE  /\ time'[u] > 0 /\ time'[u] <= last'[Solo]
                 /\ \A v \in Threads : v # u /\ Pending(v)' => time'[v] # time'[u]
                 /\ \A v \in Threads : \A r \in {held'[v], returned'[v]} : r # Local!Nothing => r.gen[1] # time'[u]
      <4>1. Pending(u) /\ time'[u] = time[u]
        BY <3>1, <3>4, Zenon
      <4>2. /\ time[u] > 0 /\ time[u] <= last[Solo]
            /\ \A v \in Threads : v # u /\ Pending(v) => time[v] # time[u]
            /\ \A v \in Threads : \A r \in {held[v], returned[v]} : r # Local!Nothing => r.gen[1] # time[u]
        BY <3>2, <4>1, Zenon DEF SoloTimes
      <4>3. \A v \in Threads : v # u /\ Pending(v)' => time'[v] # time'[u]
        BY <3>1, <4>1, <4>2, Zenon
      <4> QED
        BY <3>2, <4>1, <4>2, <4>3, Zenon
    <3> QED
      BY <2>5, <3>3, <3>4, Zenon DEF SoloTimes
  <2> QED
    BY <2>3, <2>7, <2>8, <2>9, <2>10, <2>11, Zenon DEF LocalInv
<1> QED
  BY <1>1, <1>2, Zenon

(* A process ends: its threads forget, its locks are free, the file stays. *)
LEMMA LocalCrash ==
  ASSUME LocalInv, NEW p \in Processes, Local!Crash(p), Together' <=> Together
  PROVE  LocalInv'
<1> DEFINE gone == {t \in Threads : Home[t] = p}
<1>1. /\ localPc' = [t \in Threads |-> IF t \in gone THEN "idle" ELSE localPc[t]]
      /\ time' = [t \in Threads |-> IF t \in gone THEN 0 ELSE time[t]]
      /\ held' = [t \in Threads |-> IF t \in gone THEN Local!Nothing ELSE held[t]]
      /\ returned' = [t \in Threads |-> IF t \in gone THEN Local!Nothing ELSE returned[t]]
      /\ last' = [last EXCEPT ![p] = 0]
      /\ mutex' = [mutex EXCEPT ![p] = Nobody]
      /\ flock' = IF flock \in gone THEN Nobody ELSE flock
      /\ UNCHANGED <<file, puts, cond>>
  BY Zenon DEF Local!Crash, Local!disk
<1>2. Together
  BY Zenon DEF Local!Crash, Together
<1>3. LocalType'
  <2>1. Local!Nothing \in Notes
    BY Zenon DEF Notes
  <2>2. held' \in [Threads -> Notes] /\ returned' \in [Threads -> Notes]
    BY <1>1, <2>1, Zenon DEF LocalInv, LocalType
  <2>3. time' \in [Threads -> Nat]
    BY <1>1, Zenon DEF LocalInv, LocalType
  <2>4. localPc' \in [Threads -> Places]
    BY <1>1, Zenon DEF LocalInv, LocalType, Places
  <2>5. last' \in [Processes -> Nat]
    BY <1>1, Zenon DEF LocalInv, LocalType
  <2>6. mutex' \in [Processes -> Threads \cup {Nobody}] /\ flock' \in Threads \cup {Nobody}
    BY <1>1, Zenon DEF LocalInv, LocalType
  <2> QED
    BY <1>1, <2>2, <2>3, <2>4, <2>5, <2>6, Zenon DEF LocalInv, LocalType
<1>4. ASSUME NEW u \in Threads
      PROVE  /\ Home[u] = p => /\ localPc'[u] = "idle" /\ held'[u] = Local!Nothing
                               /\ returned'[u] = Local!Nothing
             /\ Home[u] # p => /\ localPc'[u] = localPc[u] /\ time'[u] = time[u] /\ held'[u] = held[u]
                               /\ returned'[u] = returned[u]
  BY <1>1, Zenon
<1>5. UNCHANGED <<file, puts, cond>>
  BY <1>1, Zenon
<1>6. ASSUME NEW u \in Threads
      PROVE  mutex'[Home[u]] = IF Home[u] = p THEN Nobody ELSE mutex[Home[u]]
  BY <1>1, StorageConstants, Zenon DEF LocalInv, LocalType
<1>7. ASSUME NEW u \in Threads
      PROVE  InLock(u)' <=> InLock(u) /\ Home[u] # p
  BY <1>4, <1>5, Zenon DEF InLock
<1>8. MutexHolds'
  BY <1>6, <1>7, StorageConstants DEF LocalInv, LocksHold, MutexHolds
<1>9. FlockHolds'
  <2>1. flock' = IF flock \in gone THEN Nobody ELSE flock
    BY <1>1, Zenon
  <2> QED
    BY <1>2, <1>7, <2>1, StorageConstants, Zenon DEF LocalInv, LocksHold, FlockHolds
<1>10. SoloIsAlone' /\ SoloTimes'
  BY <1>2, Zenon DEF SoloIsAlone, SoloTimes
<1>11. CallsAre'
  BY <1>2, <1>4, <1>5, Zenon DEF LocalInv, CallsAre
<1>12. VersionsMatch'
  BY <1>4, <1>5, Zenon DEF LocalInv, VersionsMatch, Local!localGeneration
<1>13. SharedTimes'
  <2>1. ASSUME NEW u \in Threads
        PROVE  /\ \A r \in {held[u], returned[u]} : r # Local!Nothing => file # None /\ r.gen[1] <= file.mtime
               /\ localPc[u] = "rename" => time[u] > file.mtime
    BY <1>2, Zenon DEF LocalInv, SharedTimes
  <2>2. ASSUME NEW u \in Threads
        PROVE  /\ \A r \in {held'[u], returned'[u]} : r # Local!Nothing => file' # None /\ r.gen[1] <= file'.mtime
               /\ localPc'[u] = "rename" => time'[u] > file'.mtime
    <3>1. CASE Home[u] = p
      <4>1. localPc'[u] # "rename" /\ {held'[u], returned'[u]} = {Local!Nothing}
        BY <1>4, <2>2, <3>1, Zenon
      <4> QED
        BY <4>1, Zenon
    <3>2. CASE Home[u] # p
      <4>1. /\ localPc'[u] = localPc[u] /\ time'[u] = time[u] /\ held'[u] = held[u]
            /\ returned'[u] = returned[u] /\ file' = file
        BY <1>4, <1>5, <2>2, <3>2, Zenon
      <4>2. /\ \A r \in {held[u], returned[u]} : r # Local!Nothing => file # None /\ r.gen[1] <= file.mtime
            /\ localPc[u] = "rename" => time[u] > file.mtime
        BY <2>1, <2>2, Zenon
      <4> QED
        BY <4>1, <4>2, Zenon
    <3> QED
      BY <3>1, <3>2, Zenon
  <2> QED
    BY <2>2, Zenon DEF SharedTimes
<1> QED
  BY <1>3, <1>8, <1>9, <1>10, <1>11, <1>12, <1>13, Zenon DEF LocalInv, LocksHold

(* Every step of the directory keeps the invariant.                        *)
LEMMA LocalKeeps ==
  ASSUME LocalInv, UNCHANGED localVars \/ Local!Next
  PROVE  LocalInv'
<1>1. CASE UNCHANGED localVars
  <2>1. LocalType'
    BY <1>1, Zenon DEF localVars, LocalInv, LocalType
  <2>2. (Together' <=> Together) /\ \A u \in Threads : (InLock(u)' <=> InLock(u)) /\ (Pending(u)' <=> Pending(u))
    BY <1>1, Zenon DEF localVars, Together, InLock, Pending
  <2>3. LocksHold'
    BY <1>1, <2>2, Zenon DEF localVars, LocalInv, LocksHold, MutexHolds, FlockHolds, SoloIsAlone
  <2>4. CallsAre'
    BY <1>1, <2>2, Zenon DEF localVars, LocalInv, CallsAre
  <2>5. VersionsMatch'
    BY <1>1, Zenon DEF localVars, LocalInv, VersionsMatch, Local!localGeneration
  <2>6. SharedTimes'
    BY <1>1, <2>2, Zenon DEF localVars, LocalInv, SharedTimes
  <2>7. SoloTimes'
    BY <1>1, <2>2, Zenon DEF localVars, LocalInv, SoloTimes
  <2> QED
    BY <2>1, <2>3, <2>4, <2>5, <2>6, <2>7, Zenon DEF LocalInv
<1>2. CASE Local!Next
  <2>1. Together' <=> Together
    BY <1>2, Zenon DEF Local!Next, Together
  <2>2. CASE \E t \in Threads :
               /\ Local!Present(t)
               /\ \/ Local!Get(t) \/ Local!Put(t) \/ Local!Delete(t) \/ Local!Step(t) \/ Local!Fail(t)
    <3>1. PICK t \in Threads :
            /\ Local!Present(t)
            /\ \/ Local!Get(t) \/ Local!Put(t) \/ Local!Delete(t) \/ Local!Step(t) \/ Local!Fail(t)
      BY <2>2, Zenon
    <3>2. CASE Local!Get(t) \/ Local!Put(t) \/ Local!Delete(t) \/ Local!Fail(t)
      BY <2>1, <3>1, <3>2, LocalGet, LocalPut, LocalDelete, LocalFail, Zenon
    <3>3. CASE Local!Step(t)
      BY <2>1, <3>1, <3>3, LocalLock, LocalChoose, LocalLink, LocalCheck, LocalRename, LocalStat, LocalRemove,
         LocalAdvance, Zenon DEF Local!Step
    <3> QED
      BY <3>1, <3>2, <3>3, Zenon
  <2>3. CASE \E p \in Processes : Local!Crash(p)
    BY <2>1, <2>3, LocalCrash, Zenon
  <2> QED
    BY <1>2, <2>2, <2>3, Zenon DEF Local!Next
<1> QED
  BY <1>1, <1>2, Zenon

(* A new file is what a Write makes.                                       *)
LEMMA BecomeWrites ==
  ASSUME LocalInv, NEW t \in Threads, Local!Become(t), held' = held
  PROVE  Local!O!Write
<1>1. PICK s \in Sizes : puts' = puts + 1 /\ file' = [mtime |-> time[t], size |-> s, version |-> puts + 1]
  BY Zenon DEF Local!Become
<1>2. file' \in Files /\ file' # None /\ file'.version = puts'
  <2>1. time[t] \in Nat /\ puts + 1 \in Nat
    BY DEF LocalInv, LocalType
  <2>2. file' \in Files
    BY <1>1, <2>1, Zenon DEF Files
  <2> QED
    BY <1>1, <2>2, StorageConstants, Zenon DEF Files
<1>3. Local!Version' = puts'
  BY <1>2, Zenon DEF Local!Version
<1> QED
  BY <1>1, <1>3, Zenon DEF Local!O!Write

(* Every step is one the store promises, or changes nothing it promises    *)
(* about: a creation takes effect with link, a replacement with rename, a  *)
(* deletion with remove, and a process that ends forgets.                  *)
LEMMA LocalMaps ==
  ASSUME LocalInv, UNCHANGED localVars \/ Local!Next
  PROVE  [Local!O!Next]_(Local!O!objectVars)
<1> DEFINE Same == UNCHANGED <<file, puts, held>>
<1>1. ASSUME Same
      PROVE  UNCHANGED Local!O!objectVars
  BY <1>1, Zenon DEF Local!O!objectVars, Local!Version
<1>2. CASE UNCHANGED localVars
  BY <1>1, <1>2, Zenon DEF localVars
<1>3. ASSUME NEW t \in Threads, Local!Get(t)
      PROVE  Local!O!Next
  <2>1. /\ held' = [held EXCEPT ![t] = IF file = None THEN Local!Nothing
                                       ELSE [version |-> file.version, gen |-> Local!localGeneration(file)]]
        /\ file' = file /\ puts' = puts
    BY <1>3, Zenon DEF Local!Get, Local!disk
  <2>2. held'[t].version = Local!Version /\ \A u \in Threads : u # t => held'[u] = held[u]
    BY <2>1, Zenon DEF LocalInv, LocalType, Local!Version, Local!Nothing
  <2>3. [u \in Threads |-> held'[u].version] = [[u \in Threads |-> held[u].version] EXCEPT ![t] = Local!Version]
    BY <2>2, Zenon
  <2>4. Local!Version' = Local!Version
    BY <2>1, Zenon DEF Local!Version
  <2>5. Local!O!Read(t)
    BY <2>1, <2>3, <2>4, Zenon DEF Local!O!Read
  <2> QED
    BY <2>5, Zenon DEF Local!O!Next
<1>4. ASSUME NEW t \in Threads, Local!Link(t)
      PROVE  Local!O!Next \/ Same
  <2>1. CASE file = None
    <3>1. Local!O!Write
      BY <1>4, <2>1, BecomeWrites, Zenon DEF Local!Link
    <3>2. Local!O!Create
      BY <2>1, <3>1, Zenon DEF Local!O!Create, Local!Version
    <3> QED
      BY <3>2, Zenon DEF Local!O!Next
  <2>2. CASE file # None
    BY <1>4, <2>2, Zenon DEF Local!Link, Local!disk
  <2> QED
    BY <2>1, <2>2, Zenon
<1>5. ASSUME NEW t \in Threads, Local!Rename(t)
      PROVE  Local!O!Next
  <2>1. Local!O!Write
    BY <1>5, BecomeWrites, Zenon DEF Local!Rename
  <2>2. file # None /\ file \in Files /\ held[t].version = file.version
    BY <1>5, Zenon DEF Local!Rename, LocalInv, LocalType, VersionsMatch
  <2>3. Local!Version # None /\ Local!Version = held[t].version
    BY <2>2, StorageConstants, Zenon DEF Local!Version, Files
  <2>4. Local!O!Replace(t)
    BY <2>1, <2>3, Zenon DEF Local!O!Replace
  <2> QED
    BY <2>4, Zenon DEF Local!O!Next
<1>6. ASSUME NEW t \in Threads, Local!Remove(t)
      PROVE  Local!O!Next \/ Same
  <2>1. CASE file = None
    BY <1>6, <2>1, Zenon DEF Local!Remove, Local!disk
  <2>2. CASE file # None
    <3>1. file' = None /\ puts' = puts /\ held' = held
      BY <1>6, <2>2, Zenon DEF Local!Remove
    <3>2. Local!Version # None /\ Local!Version' = None
      BY <2>2, <3>1, StorageConstants, Zenon DEF LocalInv, LocalType, Local!Version, Files
    <3>3. Local!O!Delete
      BY <3>1, <3>2, Zenon DEF Local!O!Delete
    <3> QED
      BY <3>3, Zenon DEF Local!O!Next
  <2> QED
    BY <2>1, <2>2, Zenon
<1>7. ASSUME NEW p \in Processes, Local!Crash(p)
      PROVE  Local!O!Next
  <2>1. /\ \A u \in Threads : held'[u] \in {held[u], Local!Nothing}
        /\ file' = file /\ puts' = puts
    BY <1>7, Zenon DEF Local!Crash, Local!disk
  <2>2. ASSUME NEW u \in Threads
        PROVE  held'[u].version \in {held[u].version, None} /\ held[u].version \in Nat \cup {None}
    <3>1. held[u] \in Notes
      BY Zenon DEF LocalInv, LocalType
    <3> QED
      BY <2>1, <3>1, NoteFields DEF Local!Nothing
  <2>3. Local!Version' = Local!Version
    BY <2>1, Zenon DEF Local!Version
  <2>4. [u \in Threads |-> held'[u].version] \in [Threads -> Nat \cup {None}]
    BY <2>2, Zenon
  <2>5. Local!O!Forget
    BY <2>1, <2>2, <2>3, <2>4, Zenon DEF Local!O!Forget
  <2> QED
    BY <2>5, Zenon DEF Local!O!Next
<1>8. ASSUME NEW t \in Threads,
             \/ Local!Put(t) \/ Local!Delete(t) \/ Local!Lock(t) \/ Local!ChooseTime(t)
             \/ Local!Check(t) \/ Local!Stat(t) \/ Local!Advance(t) \/ Local!Fail(t)
      PROVE  Same
  BY <1>8, Zenon DEF Local!Put, Local!Delete, Local!Lock, Local!ChooseTime, Local!Check, Local!Stat, Local!Advance,
              Local!Fail, Local!disk
<1> HIDE DEF Same
<1>9. CASE Local!Next
  <2>1. Local!O!Next \/ Same
    BY <1>3, <1>4, <1>5, <1>6, <1>7, <1>8, <1>9, Zenon DEF Local!Next, Local!Step
  <2> QED
    BY <1>1, <2>1, Zenon
<1> QED
  BY <1>2, <1>9, Zenon

(* localStore keeps the promise of a store although a generation is only a *)
(* time and a size, creations take no lock, processes crash and do not     *)
(* know of each other's clocks, or one process deletes and flock fails:    *)
(* a Put creates what is missing or replaces exactly the version its       *)
(* caller read.                                                            *)
THEOREM DirectoryKeepsPromise == Local!Spec => Local!ImplementsObjects /\ []Local!OwnGeneration
<1>1. Local!Init => LocalInv /\ Local!O!Init
  <2> SUFFICES ASSUME Local!Init PROVE LocalInv /\ Local!O!Init
    BY Zenon
  <2>1. Local!O!Init
    BY Zenon DEF Local!Init, Local!O!Init, Local!Version, Local!Nothing
  <2> QED
    BY <2>1, LocalBegins, Zenon
<1>2. LocalInv /\ [Local!Next]_(Local!vars) => LocalInv' /\ [Local!O!Next]_(Local!O!objectVars)
  <2> SUFFICES ASSUME LocalInv, [Local!Next]_(Local!vars)
        PROVE  LocalInv' /\ [Local!O!Next]_(Local!O!objectVars)
    BY Zenon
  <2>1. UNCHANGED localVars \/ Local!Next
    BY Zenon DEF localVars, Local!vars, Local!disk, Local!locks, Local!calls
  <2> QED
    BY <2>1, LocalKeeps, LocalMaps, Zenon
<1>3. LocalInv => Local!OwnGeneration
  BY Zenon DEF LocalInv, VersionsMatch, Local!OwnGeneration
<1> QED
  BY <1>1, <1>2, <1>3, PTL DEF Local!Spec, Local!ImplementsObjects, Local!O!Spec
-----------------------------------------------------------------------------
(* The store in memory.                                                    *)

(* What Get may have returned of an object: nothing, or one of its Puts    *)
(* with a generation that genSeq has given out.                            *)
Written == [version : Nat, gen : Nat \X Sizes]

Stored == {Memory!Nothing} \cup Written

MemoryType ==
  /\ objects \in [Keys -> Stored]
  /\ genSeq \in Nat
  /\ memPuts \in [Keys -> Nat]
  /\ memHeld \in [Keys -> [Callers -> Stored]]

(* A generation belongs to one version: numbers are given out once, so     *)
(* what a caller holds can only match the version it came from.            *)
OneVersion ==
  \A k \in Keys, c \in Callers :
    /\ objects[k] # Memory!Nothing => objects[k].gen[1] <= genSeq
    /\ memHeld[k][c] # Memory!Nothing => memHeld[k][c].gen[1] <= genSeq
    /\ objects[k] # Memory!Nothing /\ memHeld[k][c] # Memory!Nothing /\ objects[k].gen = memHeld[k][c].gen
         => objects[k].version = memHeld[k][c].version

MemoryInv == MemoryType /\ OneVersion

(* What a caller may have read is Nothing exactly when it has no version.  *)
LEMMA StoredFields ==
  ASSUME None \notin Nat, NEW r \in Stored
  PROVE  /\ (r = Memory!Nothing) <=> (r.version = None)
         /\ r # Memory!Nothing => r.version \in Nat /\ r.gen \in Nat \X Sizes
<1>1. CASE r = Memory!Nothing
  BY <1>1, Zenon DEF Memory!Nothing
<1>2. CASE r # Memory!Nothing
  <2>1. r.version \in Nat /\ r.gen \in Nat \X Sizes
    BY <1>2, Zenon DEF Stored, Written
  <2> QED
    BY <1>2, <2>1, Zenon
<1> QED
  BY <1>1, <1>2, Zenon

(* Every store begins within the invariant.                                *)
LEMMA MemoryBegins == Memory!Init => MemoryInv
<1> SUFFICES ASSUME Memory!Init PROVE MemoryInv
  BY Zenon
<1>1. MemoryType
  BY Zenon DEF Memory!Init, MemoryType, Stored, Written
<1>2. OneVersion
  BY Zenon DEF Memory!Init, OneVersion
<1> QED
  BY <1>1, <1>2, Zenon DEF MemoryInv

(* Get keeps the invariant: it copies what the object is.                  *)
LEMMA MemoryGet ==
  ASSUME MemoryInv, NEW k \in Keys, NEW c \in Callers, Memory!Get(k, c)
  PROVE  MemoryInv'
<1>1. MemoryType'
  BY Zenon DEF MemoryInv, MemoryType, Memory!Get
<1>2. OneVersion'
  <2> SUFFICES ASSUME NEW j \in Keys, NEW d \in Callers
               PROVE  /\ objects[j] # Memory!Nothing => objects[j].gen[1] <= genSeq
                      /\ memHeld'[j][d] # Memory!Nothing => memHeld'[j][d].gen[1] <= genSeq
                      /\ objects[j] # Memory!Nothing /\ memHeld'[j][d] # Memory!Nothing /\ objects[j].gen = memHeld'[j][d].gen
                           => objects[j].version = memHeld'[j][d].version
    BY DEF OneVersion, Memory!Get
  <2>1. memHeld'[j][d] \in {memHeld[j][d], objects[j]}
    BY Zenon DEF MemoryInv, MemoryType, Memory!Get
  <2> QED
    BY <2>1, Zenon DEF MemoryInv, OneVersion
<1> QED
  BY <1>1, <1>2, Zenon DEF MemoryInv

(* Put keeps it: the number it takes is above every one in use.            *)
LEMMA MemoryPut ==
  ASSUME MemoryInv, NEW k \in Keys, NEW c \in Callers, Memory!Put(k, c), None \notin Nat
  PROVE  MemoryInv'
<1>1. PICK s \in Sizes :
        /\ genSeq' = genSeq + 1
        /\ objects' = [objects EXCEPT ![k] = [version |-> memPuts[k] + 1, gen |-> <<genSeq + 1, s>>]]
        /\ memPuts' = [memPuts EXCEPT ![k] = @ + 1]
        /\ memHeld' = memHeld
  BY Zenon DEF Memory!Put, Memory!Store
<1> DEFINE new == [version |-> memPuts[k] + 1, gen |-> <<genSeq + 1, s>>]
<1>2. memPuts[k] + 1 \in Nat /\ genSeq \in Nat /\ <<genSeq + 1, s>> \in Nat \X Sizes
  BY DEF MemoryInv, MemoryType
<1>3. new \in Stored /\ new.gen[1] = genSeq + 1
  <2>1. \A v \in Nat, g \in Nat \X Sizes : [version |-> v, gen |-> g] \in Stored
    BY Zenon DEF Stored, Written
  <2>2. new \in Stored
    BY <1>2, <2>1, Zenon
  <2> QED
    BY <2>2, Zenon
<1>4. MemoryType'
  <2>1. objects' \in [Keys -> Stored]
    BY <1>1, <1>3, Zenon DEF MemoryInv, MemoryType
  <2>2. memPuts' \in [Keys -> Nat]
    BY <1>1, <1>2, Zenon DEF MemoryInv, MemoryType
  <2> QED
    BY <1>1, <1>2, <2>1, <2>2, Zenon DEF MemoryInv, MemoryType
<1>5. OneVersion'
  <2> SUFFICES ASSUME NEW j \in Keys, NEW d \in Callers
               PROVE  /\ objects'[j] # Memory!Nothing => objects'[j].gen[1] <= genSeq + 1
                      /\ memHeld[j][d] # Memory!Nothing => memHeld[j][d].gen[1] <= genSeq + 1
                      /\ objects'[j] # Memory!Nothing /\ memHeld[j][d] # Memory!Nothing /\ objects'[j].gen = memHeld[j][d].gen
                           => objects'[j].version = memHeld[j][d].version
    BY <1>1 DEF OneVersion
  <2>1. /\ objects[j] # Memory!Nothing => objects[j].gen[1] \in Nat /\ objects[j].gen[1] <= genSeq
        /\ memHeld[j][d] # Memory!Nothing => memHeld[j][d].gen[1] \in Nat /\ memHeld[j][d].gen[1] <= genSeq
        /\ objects[j] # Memory!Nothing /\ memHeld[j][d] # Memory!Nothing /\ objects[j].gen = memHeld[j][d].gen
             => objects[j].version = memHeld[j][d].version
    <3>1. objects[j] \in Stored /\ memHeld[j][d] \in Stored
      BY Zenon DEF MemoryInv, MemoryType
    <3> QED
      BY <3>1, StoredFields, Zenon DEF MemoryInv, OneVersion
  <2>2. objects'[j] = IF j = k THEN new ELSE objects[j]
    BY <1>1, Zenon DEF MemoryInv, MemoryType
  <2> HIDE DEF new
  <2> QED
    BY <1>2, <1>3, <2>1, <2>2
<1> QED
  BY <1>4, <1>5, Zenon DEF MemoryInv

(* Delete keeps it: genSeq does not go back.                               *)
LEMMA MemoryDelete ==
  ASSUME MemoryInv, NEW k \in Keys, Memory!Delete(k)
  PROVE  MemoryInv'
<1>1. MemoryType'
  <2>1. Memory!Nothing \in Stored
    BY Zenon DEF Stored
  <2> QED
    BY <2>1, Zenon DEF MemoryInv, MemoryType, Memory!Delete
<1>2. ASSUME NEW j \in Keys
      PROVE  objects'[j] = IF j = k THEN Memory!Nothing ELSE objects[j]
  BY Zenon DEF MemoryInv, MemoryType, Memory!Delete
<1>3. OneVersion'
  BY <1>2 DEF MemoryInv, OneVersion, Memory!Delete
<1> QED
  BY <1>1, <1>3, Zenon DEF MemoryInv

(* Every step keeps the invariant.                                         *)
LEMMA MemoryKeeps ==
  ASSUME MemoryInv, [Memory!Next]_memoryVars, None \notin Nat
  PROVE  MemoryInv'
<1>1. CASE UNCHANGED memoryVars
  BY <1>1, Zenon DEF memoryVars, MemoryInv, MemoryType, OneVersion
<1>2. CASE Memory!Next
  BY <1>2, MemoryGet, MemoryPut, MemoryDelete, Zenon DEF Memory!Next
<1> QED
  BY <1>1, <1>2, Zenon

(* Get of a key is a Read of its object, and nothing happens to the other  *)
(* keys.                                                                   *)
LEMMA GetMaps ==
  ASSUME MemoryInv, NEW k \in Keys, NEW c \in Callers, Memory!Get(k, c), NEW j \in Keys
  PROVE  Memory!O(j)!Next \/ UNCHANGED <<objects[j], memPuts[j], memHeld[j]>>
<1>1. CASE j # k
  BY <1>1, Zenon DEF Memory!Get, MemoryInv, MemoryType
<1>2. CASE j = k
  <2>1. memHeld'[k] = [memHeld[k] EXCEPT ![c] = objects[k]] /\ objects' = objects /\ memPuts' = memPuts
    BY Zenon DEF Memory!Get, MemoryInv, MemoryType
  <2>2. memHeld[k] \in [Callers -> Stored]
    BY Zenon DEF MemoryInv, MemoryType
  <2>3. [d \in Callers |-> memHeld'[k][d].version]
          = [[d \in Callers |-> memHeld[k][d].version] EXCEPT ![c] = objects[k].version]
    BY <2>1, <2>2, Zenon
  <2>4. Memory!O(k)!Read(c)
    BY <2>1, <2>3, Zenon DEF Memory!O!Read
  <2> QED
    BY <1>2, <2>4, Zenon DEF Memory!O!Next
<1> QED
  BY <1>1, <1>2, Zenon

(* Put of a key creates what is missing, or replaces the very version its  *)
(* caller read.                                                            *)
LEMMA PutMaps ==
  ASSUME MemoryInv, NEW k \in Keys, NEW c \in Callers, Memory!Put(k, c), NEW j \in Keys, None \notin Nat
  PROVE  Memory!O(j)!Next \/ UNCHANGED <<objects[j], memPuts[j], memHeld[j]>>
<1>1. PICK s \in Sizes :
        /\ objects' = [objects EXCEPT ![k] = [version |-> memPuts[k] + 1, gen |-> <<genSeq', s>>]]
        /\ memPuts' = [memPuts EXCEPT ![k] = @ + 1]
        /\ memHeld' = memHeld
  BY Zenon DEF Memory!Put, Memory!Store
<1>2. CASE j # k
  BY <1>1, <1>2, Zenon DEF MemoryInv, MemoryType
<1>3. CASE j = k
  <2>1. /\ memPuts'[k] = memPuts[k] + 1 /\ objects'[k].version = memPuts'[k]
        /\ [d \in Callers |-> memHeld'[k][d].version] = [d \in Callers |-> memHeld[k][d].version]
    BY <1>1, Zenon DEF MemoryInv, MemoryType
  <2>2. Memory!O(k)!Write
    BY <2>1, Zenon DEF Memory!O!Write
  <2>3. objects[k] \in Stored /\ memHeld[k][c] \in Stored
    BY Zenon DEF MemoryInv, MemoryType
  <2>4. CASE objects[k] = Memory!Nothing
    <3>1. objects[k].version = None
      BY <2>4 DEF Memory!Nothing
    <3>2. Memory!O(k)!Create
      BY <2>2, <3>1, Zenon DEF Memory!O!Create
    <3> QED
      BY <1>3, <3>2, Zenon DEF Memory!O!Next
  <2>5. CASE objects[k] # Memory!Nothing
    <3>1. memHeld[k][c] # Memory!Nothing /\ objects[k].gen = memHeld[k][c].gen
      BY <2>5, Zenon DEF Memory!Put, Memory!Allowed
    <3>2. objects[k].version = memHeld[k][c].version /\ objects[k].version # None
      BY <2>3, <2>5, <3>1, StoredFields, Zenon DEF MemoryInv, OneVersion
    <3>3. Memory!O(k)!Replace(c)
      BY <2>2, <3>2, Zenon DEF Memory!O!Replace
    <3> QED
      BY <1>3, <3>3, Zenon DEF Memory!O!Next
  <2> QED
    BY <2>4, <2>5, Zenon
<1> QED
  BY <1>2, <1>3, Zenon

(* Delete of a key deletes its object.                                     *)
LEMMA DeleteMaps ==
  ASSUME MemoryInv, NEW k \in Keys, Memory!Delete(k), NEW j \in Keys, None \notin Nat
  PROVE  Memory!O(j)!Next \/ UNCHANGED <<objects[j], memPuts[j], memHeld[j]>>
<1>1. CASE j # k
  BY <1>1, Zenon DEF Memory!Delete, MemoryInv, MemoryType
<1>2. CASE j = k
  <2>1. objects[k] \in Stored /\ objects[k] # Memory!Nothing
    BY Zenon DEF Memory!Delete, MemoryInv, MemoryType
  <2>2. objects[k].version # None
    BY <2>1, StoredFields, Zenon
  <2>3. objects'[k].version = None /\ memPuts' = memPuts /\ memHeld' = memHeld
    BY Zenon DEF Memory!Delete, MemoryInv, MemoryType, Memory!Nothing
  <2>4. Memory!O(k)!Delete
    BY <2>2, <2>3, Zenon DEF Memory!O!Delete
  <2> QED
    BY <1>2, <2>4, Zenon DEF Memory!O!Next
<1> QED
  BY <1>1, <1>2, Zenon

(* Every step of the store is, on each key, a step of its object or none.  *)
LEMMA MemoryMaps ==
  ASSUME MemoryInv, Memory!Next, None \notin Nat
  PROVE  \A k \in Keys : Memory!O(k)!Next \/ UNCHANGED <<objects[k], memPuts[k], memHeld[k]>>
<1>1. CASE \E k \in Keys : Memory!Delete(k)
  BY <1>1, DeleteMaps, Zenon
<1>2. CASE \E k \in Keys, c \in Callers : Memory!Get(k, c)
  BY <1>2, GetMaps, Zenon
<1>3. CASE \E k \in Keys, c \in Callers : Memory!Put(k, c)
  BY <1>3, PutMaps, Zenon
<1> QED
  BY <1>1, <1>2, <1>3, Zenon DEF Memory!Next

(* memStore keeps the promise of a store: a conditional Put creates what   *)
(* is missing or replaces exactly the version its caller read, also when   *)
(* the object was deleted and made again in between.                       *)
THEOREM MemoryKeepsPromise == Memory!Spec => Memory!ImplementsObjects
<1>1. Memory!Init => MemoryInv /\ \A k \in Keys : Memory!O(k)!Init
  <2> SUFFICES ASSUME Memory!Init, NEW k \in Keys PROVE Memory!O(k)!Init
    BY MemoryBegins, Zenon
  <2>1. objects[k].version = None /\ memPuts[k] = 0
    BY Zenon DEF Memory!Init, Memory!Nothing
  <2>2. \A c \in Callers : memHeld[k][c].version = None
    BY Zenon DEF Memory!Init, Memory!Nothing
  <2> QED
    BY <2>1, <2>2, Zenon DEF Memory!O!Init
<1>2. MemoryInv /\ [Memory!Next]_(Memory!vars)
        => /\ MemoryInv'
           /\ [\A k \in Keys : Memory!O(k)!Next \/ UNCHANGED <<objects[k], memPuts[k], memHeld[k]>>]_memoryVars
  <2> SUFFICES ASSUME MemoryInv, [Memory!Next]_memoryVars
        PROVE  /\ MemoryInv'
               /\ [\A k \in Keys : Memory!O(k)!Next \/ UNCHANGED <<objects[k], memPuts[k], memHeld[k]>>]_memoryVars
    BY Zenon DEF Memory!vars, memoryVars
  <2>1. MemoryInv'
    BY MemoryKeeps, StorageConstants, Zenon
  <2>2. Memory!Next => \A k \in Keys : Memory!O(k)!Next \/ UNCHANGED <<objects[k], memPuts[k], memHeld[k]>>
    BY MemoryMaps, StorageConstants, Zenon
  <2> QED
    BY <2>1, <2>2, Zenon
<1> QED
  BY <1>1, <1>2, PTL DEF Memory!Spec, Memory!ImplementsObjects, Memory!vars, memoryVars

(* Both stores keep the promise that the modules above them build on.      *)
THEOREM StoresKeepPromise == Local!Spec /\ Memory!Spec => StoresImplementObjects
BY DirectoryKeepsPromise, MemoryKeepsPromise, PTL DEF StoresImplementObjects
=============================================================================
