---------------------------- MODULE GfcMt_proofs ----------------------------
(***************************************************************************)
(* Proofs about GfcMt for any number of callers and jobs, any max and any  *)
(* width of the counter.                                                   *)
(*                                                                         *)
(* TypeOK, the lock and the hand-over of a job hold in every build.  What  *)
(* depends on the value of size (the pool's bound, and that the handle is  *)
(* freed only when no thread uses it) is proved for builds in which size++ *)
(* and size-- are indivisible: the run mt_race_free_blocks shows what the  *)
(* others do to it.                                                        *)
(***************************************************************************)
EXTENDS GfcMt, FiniteSetTheorems, TLAPS

\* Callers that are handing a job over to a thread.
Handing == {"lock", "test", "wait", "count", "count_store", "create"}

\* The mutex is held exactly by the thread that is inside a critical section.
LockInv ==
  /\ \A c \in Callers : lock = c <=> caller[c] \in {"test", "free_test"}
  /\ \A j \in Jobs :
       lock = j <=> worker[j] \in {"end_count", "end_store", "signal", "unlock"}

\* The job of a caller is its own and has no thread yet.
HandInv ==
  /\ \A c \in Callers : caller[c] \in Handing =>
       job[c] \in Jobs /\ worker[job[c]] = "claimed"
  /\ \A c, d \in Callers :
       c # d /\ caller[c] \in Handing /\ caller[d] \in Handing => job[c] # job[d]

\* gfc_mt_free runs alone.
CloseInv ==
  \A c, d \in Callers : c # d /\ caller[c] \in FreeStates => caller[d] = "idle"

\* The blocks in use are allocated; the handle goes only at the very end.
HeapInv ==
  /\ \A j \in Jobs :
       worker[j] \in {"run", "end_lock", "end_count", "end_store", "signal",
                      "unlock", "release"} => j \in heap
  /\ Handle \notin heap => \E c \in Callers : caller[c] = "freed"

\* Without split updates nobody is between a load and a store.
WholeInv ==
  /\ \A c \in Callers : caller[c] \notin {"count_store", "uncount_store"}
  /\ \A j \in Jobs : worker[j] # "end_store"

\* Callers past the test that have not incremented size yet.
Passed == {c \in Callers : caller[c] = "count"}

\* What the test bounds is the size plus everybody who has passed the test.
PassInv == size + Cardinality(Passed) <= Max + Cardinality(Callers) - 1

\* Once gfc_mt_free has seen size = 0 no thread is left that uses the handle.
FreeInv ==
  \A c \in Callers : caller[c] \in {"free", "freed"} =>
    \A j \in Jobs : worker[j] \in {"new", "claimed", "failed", "release", "done"}

ShapeInv == TypeOK /\ LockInv /\ HandInv /\ CloseInv /\ HeapInv

IInv == ShapeInv /\ WholeInv /\ SizeIsPresent /\ PassInv /\ FreeInv

USE MtFinite, MtDistinct, MtMax, MtUintMax, MtSwitches

-----------------------------------------------------------------------------
\* Every step keeps every variable in its range, size within its width.
LEMMA TypeStep == ShapeInv /\ [Next]_vars => TypeOK'
<1> SUFFICES ASSUME TypeOK, HandInv, [Next]_vars PROVE TypeOK'
  BY DEF ShapeInv
<1> USE DEF TypeOK, DoStates, FreeStates, WorkerStates, Inc, Dec, Threads
<1>1. ASSUME NEW c \in Callers, NEW j \in Jobs, DoCall(c, j) PROVE TypeOK'
  BY <1>1 DEF DoCall
<1>2. ASSUME NEW c \in Callers, DoStep(c) PROVE TypeOK'
  <2>1. CASE DoLock(c) \/ DoWait(c) \/ DoPass(c)
    BY <2>1 DEF DoLock, DoWait, DoPass
  <2>2. CASE DoCount(c) \/ DoCountLoad(c) \/ DoCountStore(c)
    BY <2>2 DEF DoCount, DoCountLoad, DoCountStore
  <2>3. CASE DoCreate(c) \/ DoCreateFails(c)
    BY <2>3 DEF DoCreate, DoCreateFails, HandInv, Handing
  <2>4. CASE DoUncount(c) \/ DoUncountLoad(c) \/ DoUncountStore(c)
    BY <2>4 DEF DoUncount, DoUncountLoad, DoUncountStore
  <2> QED BY <1>2, <2>1, <2>2, <2>3, <2>4 DEF DoStep
<1>3. ASSUME NEW c \in Callers, FreeCall(c) \/ FreeStep(c) \/ Spurious(c)
      PROVE TypeOK'
  BY <1>3 DEF FreeCall, FreeStep, FreeLock, FreeWait, FreePass, FreeHandle,
              Spurious, Woken, Waiters
<1>4. ASSUME NEW j \in Jobs, WorkerStep(j) PROVE TypeOK'
  BY <1>4 DEF WorkerStep, Run, EndLock, EndCount, EndCountLoad, EndCountStore,
              Signal, Unlock, Release, Woken, Waiters
<1>5. CASE Finished \/ UNCHANGED vars
  BY <1>5 DEF Finished, vars
<1> QED BY <1>1, <1>2, <1>3, <1>4, <1>5 DEF Next

\* The lock is taken only when free and given back only by its owner.
LEMMA LockStep == ShapeInv /\ [Next]_vars => LockInv'
<1> SUFFICES ASSUME TypeOK, LockInv, HandInv, [Next]_vars PROVE LockInv'
  BY DEF ShapeInv
<1> USE DEF TypeOK, LockInv, Threads
<1>1. ASSUME NEW c \in Callers, NEW j \in Jobs, DoCall(c, j) PROVE LockInv'
  BY <1>1 DEF DoCall
<1>2. ASSUME NEW c \in Callers, DoStep(c) PROVE LockInv'
  <2>1. CASE DoLock(c) \/ DoWait(c) \/ DoPass(c)
    BY <2>1 DEF DoLock, DoWait, DoPass
  <2>2. CASE DoCount(c) \/ DoCountLoad(c) \/ DoCountStore(c)
    BY <2>2 DEF DoCount, DoCountLoad, DoCountStore
  <2>3. CASE DoCreate(c) \/ DoCreateFails(c)
    BY <2>3 DEF DoCreate, DoCreateFails, HandInv, Handing
  <2>4. CASE DoUncount(c) \/ DoUncountLoad(c) \/ DoUncountStore(c)
    BY <2>4 DEF DoUncount, DoUncountLoad, DoUncountStore
  <2> QED BY <1>2, <2>1, <2>2, <2>3, <2>4 DEF DoStep
<1>3. ASSUME NEW c \in Callers, FreeCall(c) \/ FreeStep(c) \/ Spurious(c)
      PROVE LockInv'
  BY <1>3 DEF FreeCall, FreeStep, FreeLock, FreeWait, FreePass, FreeHandle,
              Spurious, Woken, Waiters
<1>4. ASSUME NEW j \in Jobs, WorkerStep(j) PROVE LockInv'
  BY <1>4 DEF WorkerStep, Run, EndLock, EndCount, EndCountLoad, EndCountStore,
              Signal, Unlock, Release, Woken, Waiters
<1>5. CASE Finished \/ UNCHANGED vars
  BY <1>5 DEF Finished, vars
<1> QED BY <1>1, <1>2, <1>3, <1>4, <1>5 DEF Next

\* A job is handed over by one caller, and its thread is created once.
LEMMA HandStep == ShapeInv /\ [Next]_vars => HandInv'
<1> SUFFICES ASSUME TypeOK, HandInv, [Next]_vars PROVE HandInv'
  BY DEF ShapeInv
<1> USE DEF TypeOK, HandInv, Handing
<1>1. ASSUME NEW c \in Callers, NEW j \in Jobs, DoCall(c, j) PROVE HandInv'
  BY <1>1 DEF DoCall
<1>2. ASSUME NEW c \in Callers, DoStep(c) PROVE HandInv'
  <2>1. CASE DoLock(c) \/ DoWait(c) \/ DoPass(c)
    BY <2>1 DEF DoLock, DoWait, DoPass
  <2>2. CASE DoCount(c) \/ DoCountLoad(c) \/ DoCountStore(c)
    BY <2>2 DEF DoCount, DoCountLoad, DoCountStore
  <2>3. CASE DoCreate(c) \/ DoCreateFails(c)
    BY <2>3 DEF DoCreate, DoCreateFails
  <2>4. CASE DoUncount(c) \/ DoUncountLoad(c) \/ DoUncountStore(c)
    BY <2>4 DEF DoUncount, DoUncountLoad, DoUncountStore
  <2> QED BY <1>2, <2>1, <2>2, <2>3, <2>4 DEF DoStep
<1>3. ASSUME NEW c \in Callers, FreeCall(c) \/ FreeStep(c) \/ Spurious(c)
      PROVE HandInv'
  BY <1>3 DEF FreeCall, FreeStep, FreeLock, FreeWait, FreePass, FreeHandle,
              Spurious, Woken, Waiters
<1>4. ASSUME NEW j \in Jobs, WorkerStep(j) PROVE HandInv'
  BY <1>4 DEF WorkerStep, Run, EndLock, EndCount, EndCountLoad, EndCountStore,
              Signal, Unlock, Release, Woken, Waiters
<1>5. CASE Finished \/ UNCHANGED vars
  BY <1>5 DEF Finished, vars
<1> QED BY <1>1, <1>2, <1>3, <1>4, <1>5 DEF Next

\* gfc_mt_free starts when all callers are idle and nobody enters after it.
LEMMA CloseStep == ShapeInv /\ [Next]_vars => CloseInv'
<1> SUFFICES ASSUME TypeOK, CloseInv, [Next]_vars PROVE CloseInv'
  BY DEF ShapeInv
<1> USE DEF TypeOK, CloseInv, FreeStates
<1>1. ASSUME NEW c \in Callers, NEW j \in Jobs, DoCall(c, j) PROVE CloseInv'
  BY <1>1 DEF DoCall, Closing
<1>2. ASSUME NEW c \in Callers, DoStep(c) PROVE CloseInv'
  <2>1. caller[c] \notin {"idle"} \cup FreeStates
    BY <1>2 DEF DoStep, DoLock, DoWait, DoPass, DoCount, DoCountLoad,
                DoCountStore, DoCreate, DoCreateFails, DoUncount,
                DoUncountLoad, DoUncountStore
  <2>2. \A d \in Callers : caller[d] \notin FreeStates
    BY <2>1
  <2>3. \A d \in Callers : caller'[d] \notin FreeStates
    BY <1>2, <2>2
       DEF DoStep, DoLock, DoWait, DoPass, DoCount, DoCountLoad,
           DoCountStore, DoCreate, DoCreateFails, DoUncount,
           DoUncountLoad, DoUncountStore
  <2> QED BY <2>3
<1>3. ASSUME NEW c \in Callers, FreeCall(c) \/ FreeStep(c) \/ Spurious(c)
      PROVE CloseInv'
  BY <1>3 DEF FreeCall, FreeStep, FreeLock, FreeWait, FreePass, FreeHandle,
              Spurious, Woken, Waiters
<1>4. ASSUME NEW j \in Jobs, WorkerStep(j) PROVE CloseInv'
  BY <1>4 DEF WorkerStep, Run, EndLock, EndCount, EndCountLoad, EndCountStore,
              Signal, Unlock, Release, Woken, Waiters
<1>5. CASE Finished \/ UNCHANGED vars
  BY <1>5 DEF Finished, vars
<1> QED BY <1>1, <1>2, <1>3, <1>4, <1>5 DEF Next

\* A job's block is allocated before its thread exists and freed by it last.
LEMMA HeapStep == ShapeInv /\ [Next]_vars => HeapInv'
<1> SUFFICES ASSUME TypeOK, HandInv, HeapInv, [Next]_vars PROVE HeapInv'
  BY DEF ShapeInv
<1> USE DEF TypeOK, HeapInv
<1>1. ASSUME NEW c \in Callers, NEW j \in Jobs, DoCall(c, j) PROVE HeapInv'
  BY <1>1 DEF DoCall
<1>2. ASSUME NEW c \in Callers, DoStep(c) PROVE HeapInv'
  <2>1. CASE DoLock(c) \/ DoWait(c) \/ DoPass(c)
    BY <2>1 DEF DoLock, DoWait, DoPass
  <2>2. CASE DoCount(c) \/ DoCountLoad(c) \/ DoCountStore(c)
    BY <2>2 DEF DoCount, DoCountLoad, DoCountStore
  <2>3. CASE DoCreate(c) \/ DoCreateFails(c)
    BY <2>3 DEF DoCreate, DoCreateFails, HandInv, Handing
  <2>4. CASE DoUncount(c) \/ DoUncountLoad(c) \/ DoUncountStore(c)
    BY <2>4 DEF DoUncount, DoUncountLoad, DoUncountStore
  <2> QED BY <1>2, <2>1, <2>2, <2>3, <2>4 DEF DoStep
<1>3. ASSUME NEW c \in Callers, FreeCall(c) \/ FreeStep(c) \/ Spurious(c)
      PROVE HeapInv'
  BY <1>3 DEF FreeCall, FreeStep, FreeLock, FreeWait, FreePass, FreeHandle,
              Spurious, Woken, Waiters
<1>4. ASSUME NEW j \in Jobs, WorkerStep(j) PROVE HeapInv'
  BY <1>4 DEF WorkerStep, Run, EndLock, EndCount, EndCountLoad, EndCountStore,
              Signal, Unlock, Release, Woken, Waiters
<1>5. CASE Finished \/ UNCHANGED vars
  BY <1>5 DEF Finished, vars
<1> QED BY <1>1, <1>2, <1>3, <1>4, <1>5 DEF Next

\* Types, the lock, the hand-over, the shut-down and the heap, in every build.
THEOREM ShapeCorrect == Spec => []ShapeInv
<1>1. Init => ShapeInv
  BY DEF Init, ShapeInv, TypeOK, LockInv, HandInv, CloseInv, HeapInv, Handing,
         DoStates, FreeStates, WorkerStates, Threads
<1>2. ShapeInv /\ [Next]_vars => ShapeInv'
  BY TypeStep, LockStep, HandStep, CloseStep, HeapStep DEF ShapeInv
<1> QED BY <1>1, <1>2, PTL DEF Spec

(***************************************************************************)
(* Every variable of the pool stays in its range, size within its width,   *)
(* in every build: gfc_mt_do, gfc_mt_free and gfc_mt_entry.                *)
(***************************************************************************)
THEOREM TypeCorrect == Spec => []TypeOK
<1>1. ShapeInv => TypeOK
  BY DEF ShapeInv
<1> QED BY <1>1, ShapeCorrect, PTL

-----------------------------------------------------------------------------
\* The sets that size counts are finite.
LEMMA FiniteCounts ==
  /\ IsFiniteSet(Running) /\ IsFiniteSet(Counted) /\ IsFiniteSet(Passed)
  /\ Cardinality(Running) \in Nat /\ Cardinality(Counted) \in Nat
  /\ Cardinality(Passed) \in Nat /\ Cardinality(Callers) \in Nat
  /\ Cardinality(Running) <= Cardinality(Jobs)
  /\ Cardinality(Counted) <= Cardinality(Callers)
  /\ Cardinality(Passed) <= Cardinality(Callers)
<1>1. Running \subseteq Jobs /\ Counted \subseteq Callers /\ Passed \subseteq Callers
  BY DEF Running, Counted, Passed
<1> QED BY <1>1, FS_Subset, FS_CardinalityType

\* An indivisible update leaves nobody between a load and a store.
LEMMA WholeStep ==
  ~SplitIncrement /\ ShapeInv /\ WholeInv /\ [Next]_vars => WholeInv'
<1> SUFFICES ASSUME ~SplitIncrement, TypeOK, HandInv, WholeInv, [Next]_vars
             PROVE  WholeInv'
  BY DEF ShapeInv
<1> USE DEF TypeOK, WholeInv
<1>1. ASSUME NEW c \in Callers, NEW j \in Jobs, DoCall(c, j) PROVE WholeInv'
  BY <1>1 DEF DoCall
<1>2. ASSUME NEW c \in Callers, DoStep(c) PROVE WholeInv'
  <2>1. CASE DoLock(c) \/ DoWait(c) \/ DoPass(c)
    BY <2>1 DEF DoLock, DoWait, DoPass
  <2>2. CASE DoCount(c) \/ DoCountLoad(c) \/ DoCountStore(c)
    BY <2>2 DEF DoCount, DoCountLoad, DoCountStore
  <2>3. CASE DoCreate(c) \/ DoCreateFails(c)
    BY <2>3 DEF DoCreate, DoCreateFails, HandInv, Handing
  <2>4. CASE DoUncount(c) \/ DoUncountLoad(c) \/ DoUncountStore(c)
    BY <2>4 DEF DoUncount, DoUncountLoad, DoUncountStore
  <2> QED BY <1>2, <2>1, <2>2, <2>3, <2>4 DEF DoStep
<1>3. ASSUME NEW c \in Callers, FreeCall(c) \/ FreeStep(c) \/ Spurious(c)
      PROVE WholeInv'
  BY <1>3 DEF FreeCall, FreeStep, FreeLock, FreeWait, FreePass, FreeHandle,
              Spurious, Woken, Waiters
<1>4. ASSUME NEW j \in Jobs, WorkerStep(j) PROVE WholeInv'
  BY <1>4 DEF WorkerStep, Run, EndLock, EndCount, EndCountLoad, EndCountStore,
              Signal, Unlock, Release, Woken, Waiters
<1>5. CASE Finished \/ UNCHANGED vars
  BY <1>5 DEF Finished, vars
<1> QED BY <1>1, <1>2, <1>3, <1>4, <1>5 DEF Next

(***************************************************************************)
(* How each step moves the three sets whose sizes the counter relates.     *)
(* Every other step leaves them, and size, alone.                          *)
(***************************************************************************)
LEMMA Moves ==
  ASSUME ~SplitIncrement, ShapeInv, WholeInv, [Next]_vars
  PROVE
  \/ UNCHANGED <<size, Running, Counted, Passed>>
  \/ /\ size < Max
     /\ \E c \in Callers \ Passed : Passed' = Passed \cup {c}
     /\ UNCHANGED <<size, Running, Counted>>
  \/ /\ size' = Inc(size)
     /\ \E c \in Passed : /\ Passed' = Passed \ {c}
                          /\ c \notin Counted
                          /\ Counted' = Counted \cup {c}
     /\ UNCHANGED Running
  \/ /\ \E c \in Counted : /\ Counted' = Counted \ {c}
                           /\ job[c] \in Jobs
                           /\ worker[job[c]] = "claimed"
                           /\ Handle \in heap
                           /\ Running' = Running \cup {job[c]}
                           /\ UNCHANGED <<size, Passed>>
  \/ /\ size' = Dec(size)
     /\ \E c \in Counted : Counted' = Counted \ {c}
     /\ UNCHANGED <<Running, Passed>>
  \/ /\ size' = Dec(size)
     /\ \E j \in Running : Running' = Running \ {j}
     /\ UNCHANGED <<Counted, Passed>>
<1> USE DEF ShapeInv, TypeOK, Running, Counted, Passed
<1>1. ASSUME NEW c \in Callers, NEW j \in Jobs, DoCall(c, j)
      PROVE UNCHANGED <<size, Running, Counted, Passed>>
  BY <1>1 DEF DoCall
<1>2. ASSUME NEW c \in Callers, DoLock(c) \/ DoWait(c)
      PROVE UNCHANGED <<size, Running, Counted, Passed>>
  BY <1>2 DEF DoLock, DoWait
<1>3. ASSUME NEW c \in Callers, DoPass(c)
      PROVE /\ size < Max
            /\ c \notin Passed /\ Passed' = Passed \cup {c}
            /\ UNCHANGED <<size, Running, Counted>>
  BY <1>3 DEF DoPass
<1>4. ASSUME NEW c \in Callers, DoCount(c)
      PROVE /\ size' = Inc(size)
            /\ c \in Passed /\ Passed' = Passed \ {c}
            /\ c \notin Counted /\ Counted' = Counted \cup {c}
            /\ UNCHANGED Running
  BY <1>4 DEF DoCount
<1>5. ASSUME NEW c \in Callers, DoCreate(c)
      PROVE /\ c \in Counted /\ Counted' = Counted \ {c}
            /\ job[c] \in Jobs
            /\ worker[job[c]] = "claimed"
            /\ Handle \in heap
            /\ Running' = Running \cup {job[c]}
            /\ UNCHANGED <<size, Passed>>
  <2>1. job[c] \in Jobs /\ worker[job[c]] = "claimed"
    BY <1>5 DEF DoCreate, HandInv, Handing
  <2>2. Handle \in heap
    BY <1>5 DEF DoCreate, HeapInv, CloseInv, FreeStates
  <2> QED BY <1>5, <2>1, <2>2 DEF DoCreate
<1>6. ASSUME NEW c \in Callers, DoCreateFails(c)
      PROVE UNCHANGED <<size, Running, Counted, Passed>>
  BY <1>6 DEF DoCreateFails, HandInv, Handing
<1>7. ASSUME NEW c \in Callers, DoUncount(c)
      PROVE /\ size' = Dec(size)
            /\ c \in Counted /\ Counted' = Counted \ {c}
            /\ UNCHANGED <<Running, Passed>>
  BY <1>7 DEF DoUncount
<1>8. ASSUME NEW c \in Callers,
             DoCountLoad(c) \/ DoCountStore(c)
               \/ DoUncountLoad(c) \/ DoUncountStore(c)
      PROVE FALSE
  BY <1>8 DEF DoCountLoad, DoCountStore, DoUncountLoad, DoUncountStore, WholeInv
<1>9. ASSUME NEW c \in Callers, FreeCall(c) \/ FreeStep(c)
      PROVE UNCHANGED <<size, Running, Counted, Passed>>
  BY <1>9 DEF FreeCall, FreeStep, FreeLock, FreeWait, FreePass, FreeHandle
<1>10. ASSUME NEW c \in Callers, Spurious(c)
       PROVE UNCHANGED <<size, Running, Counted, Passed>>
  BY <1>10 DEF Spurious, Woken, Waiters
<1>11. ASSUME NEW j \in Jobs, Run(j) \/ EndLock(j) \/ Unlock(j) \/ Release(j)
       PROVE UNCHANGED <<size, Running, Counted, Passed>>
  BY <1>11 DEF Run, EndLock, Unlock, Release
<1>12. ASSUME NEW j \in Jobs, Signal(j)
       PROVE UNCHANGED <<size, Running, Counted, Passed>>
  BY <1>12 DEF Signal, Woken, Waiters
<1>13. ASSUME NEW j \in Jobs, EndCount(j)
       PROVE /\ size' = Dec(size)
             /\ j \in Running /\ Running' = Running \ {j}
             /\ UNCHANGED <<Counted, Passed>>
  BY <1>13 DEF EndCount
<1>14. ASSUME NEW j \in Jobs, EndCountLoad(j) \/ EndCountStore(j) PROVE FALSE
  BY <1>14 DEF EndCountLoad, EndCountStore, WholeInv
<1>15. CASE Finished \/ UNCHANGED vars
  BY <1>15 DEF Finished, vars
<1> HIDE DEF ShapeInv, TypeOK, Running, Counted, Passed
<1>16. ASSUME NEW c \in Callers, DoStep(c) PROVE
         \/ DoLock(c) \/ DoWait(c) \/ DoPass(c) \/ DoCount(c)
         \/ DoCreate(c) \/ DoCreateFails(c) \/ DoUncount(c)
  BY <1>8, <1>16 DEF DoStep
<1>17. ASSUME NEW j \in Jobs, WorkerStep(j) PROVE
         \/ Run(j) \/ EndLock(j) \/ EndCount(j)
         \/ Signal(j) \/ Unlock(j) \/ Release(j)
  BY <1>14, <1>17 DEF WorkerStep
<1> QED
  BY <1>1, <1>2, <1>3, <1>4, <1>5, <1>6, <1>7, <1>9, <1>10, <1>11, <1>12,
     <1>13, <1>15, <1>16, <1>17 DEF Next

\* size stays the number of threads that are present, and within its bound.
LEMMA CountStep ==
  ASSUME ~SplitIncrement, ShapeInv, WholeInv, SizeIsPresent, PassInv, [Next]_vars
  PROVE  SizeIsPresent' /\ PassInv'
<1> DEFINE R == Cardinality(Running)
           K == Cardinality(Counted)
           P == Cardinality(Passed)
           C == Cardinality(Callers)
           J == Cardinality(Jobs)
<1>1. /\ size = R + K /\ size + P <= Max + C - 1
      /\ size \in Nat /\ R \in Nat /\ K \in Nat /\ P \in Nat /\ C \in Nat
      /\ J \in Nat /\ R <= J /\ K <= C /\ P <= C
  BY FiniteCounts, FS_CardinalityType DEF SizeIsPresent, PassInv, ShapeInv, TypeOK
<1>2. SUFFICES size' = R' + K' /\ size' + P' <= Max + C - 1
  BY DEF SizeIsPresent, PassInv
<1>3. CASE UNCHANGED <<size, Running, Counted, Passed>>
  BY <1>1, <1>3
<1>4. CASE /\ size < Max
           /\ \E c \in Callers \ Passed : Passed' = Passed \cup {c}
           /\ UNCHANGED <<size, Running, Counted>>
  <2>1. PICK c \in Callers \ Passed : Passed' = Passed \cup {c}
    BY <1>4
  <2>2. P' \in Nat /\ P' <= C
    <3>1. Passed' \subseteq Callers
      BY <2>1 DEF Passed
    <3> QED BY <3>1, FS_Subset, FS_CardinalityType
  <2> QED BY <1>1, <1>4, <2>2
<1>5. CASE /\ size' = Inc(size)
           /\ \E c \in Passed : /\ Passed' = Passed \ {c}
                                /\ c \notin Counted
                                /\ Counted' = Counted \cup {c}
           /\ UNCHANGED Running
  <2>1. PICK c \in Passed : /\ Passed' = Passed \ {c}
                            /\ c \notin Counted
                            /\ Counted' = Counted \cup {c}
    BY <1>5
  <2>2. P' = P - 1 /\ K' = K + 1
    BY <2>1, FiniteCounts, FS_RemoveElement, FS_AddElement
  <2>3. K' <= C
    <3>1. Counted' \subseteq Callers
      BY <2>1 DEF Counted, Passed
    <3> QED BY <3>1, FS_Subset
  <2>4. size < UintMax
    BY <1>1, <2>2, <2>3
  <2>5. size' = size + 1
    BY <1>1, <1>5, <2>4 DEF Inc
  <2> QED BY <1>1, <1>5, <2>2, <2>5
<1>6. CASE \E c \in Counted : /\ Counted' = Counted \ {c}
                              /\ job[c] \in Jobs
                              /\ worker[job[c]] = "claimed"
                              /\ Handle \in heap
                              /\ Running' = Running \cup {job[c]}
                              /\ UNCHANGED <<size, Passed>>
  <2>1. PICK c \in Counted : /\ Counted' = Counted \ {c}
                             /\ worker[job[c]] = "claimed"
                             /\ Running' = Running \cup {job[c]}
                             /\ UNCHANGED <<size, Passed>>
    BY <1>6
  <2>2. job[c] \notin Running
    BY <2>1 DEF Running
  <2>3. K' = K - 1 /\ R' = R + 1
    BY <2>1, <2>2, FiniteCounts, FS_RemoveElement, FS_AddElement
  <2> QED BY <1>1, <2>1, <2>3
<1>7. CASE /\ size' = Dec(size)
           /\ \E c \in Counted : Counted' = Counted \ {c}
           /\ UNCHANGED <<Running, Passed>>
  <2>1. PICK c \in Counted : Counted' = Counted \ {c}
    BY <1>7
  <2>2. K' = K - 1
    BY <2>1, FiniteCounts, FS_RemoveElement
  <2>3. K' \in Nat
    BY <2>1, FiniteCounts, FS_RemoveElement, FS_CardinalityType
  <2> QED BY <1>1, <1>7, <2>2, <2>3 DEF Dec
<1>8. CASE /\ size' = Dec(size)
           /\ \E j \in Running : Running' = Running \ {j}
           /\ UNCHANGED <<Counted, Passed>>
  <2>1. PICK j \in Running : Running' = Running \ {j}
    BY <1>8
  <2>2. R' = R - 1
    BY <2>1, FiniteCounts, FS_RemoveElement
  <2>3. R' \in Nat
    BY <2>1, FiniteCounts, FS_RemoveElement, FS_CardinalityType
  <2> QED BY <1>1, <1>8, <2>2, <2>3 DEF Dec
<1> QED BY <1>3, <1>4, <1>5, <1>6, <1>7, <1>8, Moves

\* When gfc_mt_free reads size = 0 under the lock, no thread uses the handle.
LEMMA FreeStepInv ==
  ASSUME ~SplitIncrement, ShapeInv, WholeInv, SizeIsPresent, FreeInv, [Next]_vars
  PROVE  FreeInv'
<1> USE DEF ShapeInv, TypeOK, FreeInv
<1>1. ASSUME NEW c \in Callers, NEW j \in Jobs, DoCall(c, j) PROVE FreeInv'
  BY <1>1 DEF DoCall
<1>2. ASSUME NEW c \in Callers, DoStep(c) PROVE FreeInv'
  <2>1. \A d \in Callers : caller[d] \notin {"free", "freed"}
    BY <1>2 DEF CloseInv, FreeStates, DoStep, DoLock, DoWait, DoPass, DoCount,
                DoCountLoad, DoCountStore, DoCreate, DoCreateFails, DoUncount,
                DoUncountLoad, DoUncountStore
  <2>2. \A d \in Callers : caller'[d] \notin {"free", "freed"}
    BY <1>2, <2>1
       DEF DoStep, DoLock, DoWait, DoPass, DoCount, DoCountLoad, DoCountStore,
           DoCreate, DoCreateFails, DoUncount, DoUncountLoad, DoUncountStore
  <2> QED BY <2>2
<1>3. ASSUME NEW c \in Callers, FreePass(c) PROVE FreeInv'
  <2>1. Running = {}
    <3>1. Cardinality(Running) = 0
      BY <1>3, FiniteCounts DEF FreePass, SizeIsPresent
    <3> QED BY <3>1, FiniteCounts, FS_EmptySet
  <2>2. \A j \in Jobs : worker[j] \notin {"end_count", "end_store", "signal", "unlock"}
    BY <1>3 DEF FreePass, LockInv
  <2>3. \A j \in Jobs : worker[j] \in {"new", "claimed", "failed", "release", "done"}
    BY <2>1, <2>2 DEF Running, WorkerStates
  <2> QED BY <1>3, <2>3 DEF FreePass
<1>4. ASSUME NEW c \in Callers,
             FreeCall(c) \/ FreeLock(c) \/ FreeWait(c) \/ FreeHandle(c) \/ Spurious(c)
      PROVE FreeInv'
  BY <1>4 DEF FreeCall, FreeLock, FreeWait, FreeHandle, Spurious, Woken, Waiters
<1>5. ASSUME NEW j \in Jobs, WorkerStep(j) PROVE FreeInv'
  BY <1>5 DEF WorkerStep, Run, EndLock, EndCount, EndCountLoad, EndCountStore,
              Signal, Unlock, Release, Woken, Waiters
<1>6. CASE Finished \/ UNCHANGED vars
  BY <1>6 DEF Finished, vars
<1> QED BY <1>1, <1>2, <1>3, <1>4, <1>5, <1>6 DEF Next, FreeStep

\* The inductive invariant of the indivisible build.
LEMMA Inductive == ASSUME ~SplitIncrement PROVE Spec => []IInv
<1>1. Init => WholeInv /\ SizeIsPresent /\ PassInv /\ FreeInv
  <2> SUFFICES ASSUME Init PROVE WholeInv /\ SizeIsPresent /\ PassInv /\ FreeInv
    OBVIOUS
  <2>1. WholeInv /\ FreeInv
    BY DEF Init, WholeInv, FreeInv
  <2>2. Running = {} /\ Counted = {} /\ Passed = {}
    BY DEF Init, Running, Counted, Passed
  <2>3. Cardinality(Callers) \in Nat /\ Max >= 1
    BY FiniteCounts
  <2>4. CASE Callers = {}
    <3>1. Cardinality(Callers) = 0
      BY <2>4, FS_EmptySet
    <3> QED BY <2>1, <2>2, <2>3, <3>1, FS_EmptySet
            DEF Init, SizeIsPresent, PassInv
  <2> QED BY <2>1, <2>2, <2>3, FS_EmptySet DEF Init, SizeIsPresent, PassInv
<1>2. ShapeInv /\ WholeInv /\ SizeIsPresent /\ PassInv /\ FreeInv /\ [Next]_vars
        => (WholeInv /\ SizeIsPresent /\ PassInv /\ FreeInv)'
  BY WholeStep, CountStep, FreeStepInv
<1>3. IInv <=> ShapeInv /\ WholeInv /\ SizeIsPresent /\ PassInv /\ FreeInv
  BY DEF IInv
<1> QED BY <1>1, <1>2, <1>3, ShapeCorrect, PTL DEF Spec

(***************************************************************************)
(* With indivisible updates, size is the number of threads present, for    *)
(* any number of callers and failing pthread_create calls.                 *)
(***************************************************************************)
THEOREM SizeCorrect == ASSUME ~SplitIncrement PROVE Spec => []SizeIsPresent
<1>1. IInv => SizeIsPresent
  BY DEF IInv
<1> QED BY <1>1, Inductive, PTL

(***************************************************************************)
(* With indivisible updates, the gap between the test and size++ lets in   *)
(* at most one thread more for each further caller of gfc_mt_do.           *)
(***************************************************************************)
THEOREM OvershootCorrect == ASSUME ~SplitIncrement PROVE Spec => []BoundedOvershoot
<1>1. IInv => BoundedOvershoot
  BY FiniteCounts DEF IInv, SizeIsPresent, PassInv, BoundedOvershoot
<1> QED BY <1>1, Inductive, PTL

(***************************************************************************)
(* With indivisible updates, gfc_mt_free and gfc_mt_entry free no block    *)
(* that a thread still uses.                                               *)
(***************************************************************************)
THEOREM UseCorrect == ASSUME ~SplitIncrement PROVE Spec => []NoUseAfterFree
<1>1. IInv => NoUseAfterFree
  <2> SUFFICES ASSUME IInv PROVE NoUseAfterFree
    OBVIOUS
  <2>1. ASSUME NEW c \in Callers, caller[c] = "freed" PROVE UsesHandle = {}
    BY <2>1 DEF IInv, ShapeInv, CloseInv, FreeInv, FreeStates, UsesHandle
  <2>2. UsesHandle # {} => Handle \in heap
    BY <2>1 DEF IInv, ShapeInv, HeapInv
  <2>3. \A j \in Jobs : j \in UsesHandle \/ worker[j] = "release" => j \in heap
    BY MtDistinct DEF IInv, ShapeInv, HeapInv, UsesHandle
  <2> QED BY <2>2, <2>3 DEF NoUseAfterFree
<1> QED BY <1>1, Inductive, PTL

-----------------------------------------------------------------------------
\* A job that pthread_create starts was neither running nor finished before,
\* and there is room for it; every other step is a Finish, a Close or nothing.
LEMMA PoolStep ==
  ASSUME ~SplitIncrement, IInv, IInv', [Next]_vars
  PROVE  [Pool!PoolNext]_(Pool!poolVars)
<1> DEFINE Ended == {j \in Jobs : worker[j] \in {"signal", "unlock", "release", "done"}}
           Limit == Max + Cardinality(Callers) - 1
<1> USE DEF Pool!PoolNext, Pool!poolVars, Pool!Start, Pool!Finish, Pool!Close
<1>0. /\ TypeOK /\ LockInv /\ HandInv /\ CloseInv /\ HeapInv
      /\ WholeInv /\ SizeIsPresent /\ PassInv /\ FreeInv
  BY DEF IInv, ShapeInv
<1>1. ASSUME NEW c \in Callers, NEW j \in Jobs, DoCall(c, j)
      PROVE UNCHANGED <<Running, Ended, heap>>
  BY <1>0, <1>1 DEF DoCall, TypeOK, Running
<1>2. ASSUME NEW c \in Callers, DoCreate(c)
      PROVE Pool!Start(job[c])
  <2>1. job[c] \in Jobs /\ worker[job[c]] = "claimed"
    BY <1>0, <1>2 DEF DoCreate, HandInv, Handing
  <2>2. Handle \in heap /\ Handle \in heap'
    BY <1>0, <1>2 DEF DoCreate, HeapInv, CloseInv, FreeStates
  <2>3. Cardinality(Running) < Limit
    <3>1. c \in Counted
      BY <1>2 DEF DoCreate, Counted
    <3>2. Cardinality(Counted) # 0
      BY <3>1, FiniteCounts, FS_EmptySet
    <3> QED BY <1>0, <3>2, FiniteCounts DEF SizeIsPresent, PassInv
  <2>4. Running' = Running \cup {job[c]} /\ Ended' = Ended
    BY <1>0, <1>2, <2>1 DEF DoCreate, TypeOK, Running
  <2>5. job[c] \notin Running \cup Ended
    BY <2>1 DEF Running
  <2>6. Pool!Cardinality(Running) = Cardinality(Running)
    BY DEF Pool!Cardinality, Cardinality
  <2> QED BY <2>2, <2>3, <2>4, <2>5, <2>6
<1>3. ASSUME NEW c \in Callers, DoStep(c), ~DoCreate(c)
      PROVE UNCHANGED <<Running, Ended, Handle \in heap>>
  <2>1. CASE DoCreateFails(c)
    <3>1. job[c] \in Jobs /\ worker[job[c]] = "claimed"
      BY <1>0, <2>1 DEF DoCreateFails, HandInv, Handing
    <3> QED BY <1>0, <2>1, <3>1 DEF DoCreateFails, TypeOK, Running
  <2>2. CASE ~DoCreateFails(c)
    BY <1>3, <2>2 DEF DoStep, DoLock, DoWait, DoPass, DoCount, DoCountLoad,
         DoCountStore, DoUncount, DoUncountLoad, DoUncountStore, Running
  <2> QED BY <2>1, <2>2
<1>4. ASSUME NEW c \in Callers, FreeHandle(c)
      PROVE Pool!Close
  <2>1. Running = {}
    BY <1>0, <1>4 DEF FreeHandle, FreeInv, Running
  <2>2. Handle \in heap
    BY <1>0, <1>4 DEF FreeHandle, HeapInv, CloseInv, FreeStates
  <2>3. UNCHANGED <<Running, Ended>> /\ Handle \notin heap'
    BY <1>4 DEF FreeHandle, Running
  <2> QED BY <2>1, <2>2, <2>3
<1>5. ASSUME NEW c \in Callers,
             FreeCall(c) \/ FreeLock(c) \/ FreeWait(c) \/ FreePass(c) \/ Spurious(c)
      PROVE UNCHANGED <<Running, Ended, heap>>
  BY <1>5 DEF FreeCall, FreeLock, FreeWait, FreePass, Spurious, Running
<1>6. ASSUME NEW j \in Jobs, EndCount(j)
      PROVE Pool!Finish(j)
  <2>1. Handle \in heap
    BY <1>0, <1>6 DEF EndCount, HeapInv, FreeInv
  <2>2. j \in Running /\ Running' = Running \ {j} /\ Ended' = Ended \cup {j}
    BY <1>0, <1>6 DEF EndCount, TypeOK, Running
  <2>3. heap' = heap
    BY <1>6 DEF EndCount
  <2> QED BY <2>1, <2>2, <2>3
<1>7. ASSUME NEW j \in Jobs, EndCountLoad(j) \/ EndCountStore(j)
      PROVE FALSE
  BY <1>0, <1>7 DEF EndCountLoad, EndCountStore, WholeInv
<1>8. ASSUME NEW j \in Jobs, WorkerStep(j), ~EndCount(j)
      PROVE UNCHANGED <<Running, Ended, Handle \in heap>>
  BY <1>0, <1>7, <1>8 DEF WorkerStep, Run, EndLock, Signal, Unlock, Release,
                          TypeOK, Running
<1>9. CASE Finished \/ UNCHANGED vars
  BY <1>9 DEF Finished, vars, Running
<1>10. ASSUME NEW c \in Callers, DoCreate(c)
       PROVE \E j \in Jobs : Pool!Start(j)
  BY <1>0, <1>2, <1>10 DEF DoCreate, HandInv, Handing
<1> QED
  BY <1>1, <1>3, <1>4, <1>5, <1>6, <1>8, <1>9, <1>10 DEF Next, FreeStep

(***************************************************************************)
(* With indivisible updates gfc_mt implements the safety part of the       *)
(* abstract pool: every accepted job runs once, at most max + callers - 1  *)
(* at a time, and the handle is closed with nothing running.               *)
(***************************************************************************)
THEOREM Refinement == ASSUME ~SplitIncrement PROVE Spec => PoolSafety
<1>1. Init => Pool!PoolInit
  BY DEF Init, Pool!PoolInit, Running
<1>2. IInv /\ IInv' /\ [Next]_vars => [Pool!PoolNext]_(Pool!poolVars)
  BY PoolStep
<1> QED BY <1>1, <1>2, Inductive, PTL DEF Spec, PoolSafety, Pool!PoolSafety

-----------------------------------------------------------------------------
\* One caller: whoever waits although size would let it pass is being signalled.
LEMMA WakeupStep ==
  ASSUME \A c, d \in Callers : c = d, ShapeInv, NoLostWakeup, [Next]_vars
  PROVE  NoLostWakeup'
<1> USE DEF NoLostWakeup
<1>0. TypeOK /\ LockInv
  BY DEF ShapeInv
<1>1. ASSUME NEW c \in Callers, NEW j \in Jobs, DoCall(c, j) PROVE NoLostWakeup'
  BY <1>0, <1>1 DEF DoCall, TypeOK
<1>2. ASSUME NEW c \in Callers, DoStep(c) PROVE NoLostWakeup'
  <2>1. \A d \in Callers : d = c
    OBVIOUS
  <2>2. CASE DoWait(c)
    BY <1>0, <2>1, <2>2 DEF TypeOK, DoWait
  <2>3. CASE ~DoWait(c)
    <3>1. caller'[c] \notin {"wait", "free_wait"}
      BY <1>0, <1>2, <2>3 DEF TypeOK, DoStep, DoLock, DoPass, DoCount, DoCountLoad, DoCountStore,
         DoCreate, DoCreateFails, DoUncount, DoUncountLoad, DoUncountStore
    <3> QED BY <2>1, <3>1
  <2> QED BY <2>2, <2>3
<1>3. ASSUME NEW c \in Callers, FreeCall(c) \/ FreeStep(c) \/ Spurious(c)
      PROVE NoLostWakeup'
  BY <1>0, <1>3 DEF TypeOK, FreeCall, FreeStep, FreeLock, FreeWait, FreePass, FreeHandle,
     Spurious, Woken, Waiters
<1>4. ASSUME NEW j \in Jobs, Run(j) \/ EndLock(j) \/ Release(j)
      PROVE NoLostWakeup'
  <2>1. \A i \in Jobs : lock = i /\ worker[i] = "signal" => lock' = i /\ worker'[i] = "signal"
    BY <1>0, <1>4 DEF TypeOK, Run, EndLock, Release
  <2>2. caller' = caller /\ size' = size
    BY <1>4 DEF Run, EndLock, Release
  <2> QED BY <2>1, <2>2
<1>5. ASSUME NEW j \in Jobs, EndCountLoad(j)
      PROVE NoLostWakeup'
  BY <1>0, <1>5 DEF TypeOK, EndCountLoad
<1>6. ASSUME NEW j \in Jobs, EndCount(j) \/ EndCountStore(j)
      PROVE NoLostWakeup'
  BY <1>0, <1>6 DEF TypeOK, LockInv, EndCount, EndCountStore
<1>7. ASSUME NEW j \in Jobs, Signal(j)
      PROVE NoLostWakeup'
  BY <1>0, <1>7 DEF TypeOK, Signal, Woken, Waiters
<1>8. ASSUME NEW j \in Jobs, Unlock(j)
      PROVE NoLostWakeup'
  <2>1. lock = j /\ worker[j] = "unlock"
    BY <1>0, <1>8 DEF Unlock, LockInv
  <2> QED BY <1>0, <1>8, <2>1 DEF TypeOK, Unlock
<1>9. CASE Finished \/ UNCHANGED vars
  BY <1>9 DEF Finished, vars
<1> QED BY <1>1, <1>2, <1>3, <1>4, <1>5, <1>6, <1>7, <1>8, <1>9 DEF Next, WorkerStep

(***************************************************************************)
(* A single caller of gfc_mt_do or gfc_mt_free never waits for a signal    *)
(* that was already sent: in every build, for any number of jobs, failing  *)
(* pthread_create calls and spurious wakeups.                              *)
(***************************************************************************)
THEOREM WakeupCorrect ==
  ASSUME \A c, d \in Callers : c = d PROVE Spec => []NoLostWakeup
<1>1. Init => NoLostWakeup
  BY DEF Init, NoLostWakeup
<1>2. ShapeInv /\ NoLostWakeup /\ [Next]_vars => NoLostWakeup'
  BY WakeupStep
<1> QED BY <1>1, <1>2, ShapeCorrect, PTL DEF Spec

\* Threads that still have a signal to send, and callers of gfc_mt_do that are on the way to
\* create such a thread.
Wakers ==
  {j \in Jobs : worker[j] \in {"run", "end_lock", "end_count", "end_store", "signal"}} \cup
  {c \in Callers : caller[c] \in {"lock", "test", "count", "count_store", "create"}}

\* As long as no pthread_create has failed, somebody is left to wake those who wait.
SomeoneWakes ==
  (\A j \in Jobs : worker[j] # "failed") /\ Waiters # {} => Wakers # {}

\* A caller takes its size++ back only when its pthread_create has failed.
FailedInv ==
  \A c \in Callers : caller[c] = "uncount" => \E j \in Jobs : worker[j] = "failed"

LEMMA FailedStep ==
  ASSUME IInv, FailedInv, [Next]_vars
  PROVE  FailedInv'
<1> USE DEF FailedInv
<1>0. TypeOK /\ HandInv
  BY DEF IInv, ShapeInv
<1>1. ASSUME NEW c \in Callers, NEW j \in Jobs, DoCall(c, j) PROVE FailedInv'
  BY <1>0, <1>1 DEF DoCall, TypeOK
<1>2. ASSUME NEW c \in Callers, DoCreate(c) \/ DoCreateFails(c) PROVE FailedInv'
  <2>1. job[c] \in Jobs /\ worker[job[c]] = "claimed"
    BY <1>0, <1>2 DEF DoCreate, DoCreateFails, HandInv, Handing
  <2> QED BY <1>0, <1>2, <2>1 DEF TypeOK, DoCreate, DoCreateFails
<1>3. ASSUME NEW c \in Callers, DoStep(c), ~(DoCreate(c) \/ DoCreateFails(c)) PROVE FailedInv'
  BY <1>0, <1>3 DEF TypeOK, DoStep, DoLock, DoWait, DoPass, DoCount, DoCountLoad, DoCountStore,
     DoUncount, DoUncountLoad, DoUncountStore
<1>4. ASSUME NEW c \in Callers, FreeCall(c) \/ FreeStep(c) \/ Spurious(c)
      PROVE FailedInv'
  BY <1>0, <1>4 DEF TypeOK, FreeCall, FreeStep, FreeLock, FreeWait, FreePass, FreeHandle,
     Spurious, Woken, Waiters
<1>5. ASSUME NEW j \in Jobs, WorkerStep(j) PROVE FailedInv'
  BY <1>0, <1>5 DEF TypeOK, WorkerStep, Run, EndLock, EndCount, EndCountLoad, EndCountStore,
     Signal, Unlock, Release, Woken, Waiters
<1>6. CASE Finished \/ UNCHANGED vars
  BY <1>6 DEF Finished, vars
<1> QED BY <1>1, <1>2, <1>3, <1>4, <1>5, <1>6 DEF Next

LEMMA SomeoneWakesStep ==
  ASSUME ~SplitIncrement, IInv, FailedInv, SomeoneWakes, [Next]_vars
  PROVE  SomeoneWakes'
<1> SUFFICES ASSUME \A j \in Jobs : worker'[j] # "failed", Waiters' # {}
             PROVE  Wakers' # {}
  BY DEF SomeoneWakes
<1>0. TypeOK /\ HandInv /\ CloseInv /\ WholeInv /\ SizeIsPresent
  BY DEF IInv, ShapeInv
\* size counts threads that will signal and callers that will create one.
<1>1. ASSUME size > 0, \A j \in Jobs : worker[j] # "failed"
      PROVE  Wakers # {} /\ (Running # {} \/ \E c \in Callers : caller[c] = "create")
  <2>1. Running # {} \/ Counted # {}
    BY <1>0, <1>1, FS_EmptySet DEF SizeIsPresent
  <2> QED BY <1>0, <1>1, <2>1 DEF Running, Counted, Wakers, FailedInv, WholeInv
<1>2. ASSUME NEW c \in Callers, NEW j \in Jobs, DoCall(c, j) PROVE Wakers' # {}
  BY <1>0, <1>2 DEF DoCall, TypeOK, Wakers
<1>3. ASSUME NEW c \in Callers, DoLock(c) \/ DoPass(c) \/ DoCount(c) PROVE Wakers' # {}
  BY <1>0, <1>3 DEF DoLock, DoPass, DoCount, TypeOK, Wakers
<1>4. ASSUME NEW c \in Callers, DoWait(c) PROVE Wakers' # {}
  <2>1. size > 0
    BY <1>0, <1>4 DEF DoWait, TypeOK
  <2>2. Running # {} \/ \E d \in Callers : caller[d] = "create"
    BY <1>1, <1>4, <2>1 DEF DoWait
  <2> QED BY <1>0, <1>4, <2>2 DEF DoWait, TypeOK, Wakers, Running
<1>5. ASSUME NEW c \in Callers, DoCreate(c) \/ DoCreateFails(c) PROVE Wakers' # {}
  <2>1. job[c] \in Jobs /\ worker[job[c]] = "claimed"
    BY <1>0, <1>5 DEF DoCreate, DoCreateFails, HandInv, Handing
  <2> QED BY <1>0, <1>5, <2>1 DEF DoCreate, DoCreateFails, TypeOK, Wakers
<1>6. ASSUME NEW c \in Callers, DoUncount(c) PROVE FALSE
  BY <1>6 DEF DoUncount, FailedInv
<1>7. ASSUME NEW c \in Callers, FreeCall(c) \/ FreeLock(c) \/ FreePass(c) \/ FreeHandle(c)
      PROVE  FALSE
  BY <1>0, <1>7 DEF FreeCall, FreeLock, FreePass, FreeHandle, CloseInv, FreeStates, TypeOK, Waiters
<1>8. ASSUME NEW c \in Callers, FreeWait(c) PROVE Wakers' # {}
  <2>1. size > 0 /\ \A j \in Jobs : worker[j] # "failed"
    BY <1>8 DEF FreeWait
  <2>2. Running # {}
    BY <1>0, <1>1, <1>8, <2>1 DEF FreeWait, CloseInv, FreeStates
  <2> QED BY <1>8, <2>2 DEF FreeWait, Wakers, Running
<1>9. ASSUME NEW c \in Waiters, caller' = Woken(c), worker' = worker
      PROVE  Wakers' # {}
  BY <1>0, <1>9 DEF Waiters, Woken, Wakers, CloseInv, FreeStates, TypeOK
<1>10. ASSUME NEW j \in Jobs, Run(j) \/ EndLock(j) \/ EndCount(j) \/ Unlock(j) \/ Release(j)
       PROVE  Wakers' # {}
  BY <1>0, <1>10 DEF Run, EndLock, EndCount, Unlock, Release, TypeOK, Wakers, Waiters, SomeoneWakes
<1>11. ASSUME NEW j \in Jobs, Signal(j) PROVE Wakers' # {}
  <2>1. PICK c \in Waiters : caller' = Woken(c)
    BY <1>11 DEF Signal, Waiters
  <2>2. caller[c] = "wait" \/ \A d \in Callers : d # c => caller[d] = "idle"
    BY <1>0, <2>1 DEF Waiters, CloseInv, FreeStates
  <2> QED BY <1>0, <2>1, <2>2 DEF Woken, Wakers, Waiters, TypeOK
<1>12. CASE Finished \/ UNCHANGED vars
  BY <1>12 DEF Finished, vars, SomeoneWakes, Wakers, Waiters
<1>13. ASSUME NEW c \in Callers, DoCountLoad(c) \/ DoCountStore(c) \/ DoUncountLoad(c) \/ DoUncountStore(c)
       PROVE FALSE
  BY <1>0, <1>13 DEF DoCountLoad, DoCountStore, DoUncountLoad, DoUncountStore, WholeInv
<1>14. ASSUME NEW j \in Jobs, EndCountLoad(j) \/ EndCountStore(j) PROVE FALSE
  BY <1>0, <1>14 DEF EndCountLoad, EndCountStore, WholeInv
<1> QED BY <1>2, <1>3, <1>4, <1>5, <1>6, <1>7, <1>8, <1>9, <1>10, <1>11, <1>12, <1>13, <1>14
        DEF Next, DoStep, FreeStep, WorkerStep, Spurious

(***************************************************************************)
(* With indivisible updates, and as long as no pthread_create has failed,  *)
(* nobody waits in gfc_mt_do or gfc_mt_free with no thread left that will  *)
(* signal: one signal per thread is enough for any number of callers.      *)
(***************************************************************************)
THEOREM SomeoneWakesCorrect == ASSUME ~SplitIncrement PROVE Spec => []SomeoneWakes
<1>1. Init => SomeoneWakes /\ FailedInv
  BY DEF Init, SomeoneWakes, FailedInv, Waiters
<1>2. IInv /\ FailedInv /\ SomeoneWakes /\ [Next]_vars => SomeoneWakes' /\ FailedInv'
  BY SomeoneWakesStep, FailedStep
<1> QED BY <1>1, <1>2, Inductive, PTL DEF Spec
=============================================================================
