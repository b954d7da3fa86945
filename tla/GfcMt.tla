------------------------------- MODULE GfcMt --------------------------------
(***************************************************************************)
(* The thread pool of src/gfc_mt.c.                                        *)
(*                                                                         *)
(* gfc_mt_do waits under the lock until size < max, but increments size    *)
(* after it has released the lock (line 115), and decrements it without    *)
(* the lock when pthread_create fails (line 124); a worker decrements it   *)
(* under the lock (line 84).  SplitIncrement says how the build compiles   *)
(* these updates: as a load and a store that other threads come between    *)
(* (what C allows for a data race), or as one indivisible step.            *)
(*                                                                         *)
(* gfc_mt_new is Init.  gfc_gc_malloc is taken to succeed, and a user      *)
(* function to terminate without calling the pool again.  gfc_mt_free is   *)
(* called once no gfc_mt_do is in progress.                                *)
(***************************************************************************)
EXTENDS Naturals, FiniteSets

CONSTANTS Callers,         \* threads that call gfc_mt_do and gfc_mt_free
          Jobs,            \* calls of gfc_mt_do; also the thread each creates
          Handle,          \* the gfc_mt_t block
          NoOne,           \* owner of a free mutex, job of an idle caller
          Max,             \* the count given to gfc_mt_new
          UintMax,         \* largest value of the unsigned size
          SplitIncrement,  \* size++ and size-- are a load and a store
          CreateMayFail,   \* pthread_create may return an error
          MaxSpurious      \* bound on spurious wakeups of pthread_cond_wait

ASSUME MtFinite == IsFiniteSet(Callers) /\ IsFiniteSet(Jobs)
ASSUME MtDistinct ==
  /\ Callers \cap Jobs = {}
  /\ NoOne \notin Callers \cup Jobs
  /\ Handle \notin Callers \cup Jobs
ASSUME MtMax == Max \in Nat \ {0}
ASSUME MtUintMax ==
  UintMax \in Nat /\ Cardinality(Callers) + Cardinality(Jobs) <= UintMax
ASSUME MtSwitches ==
  SplitIncrement \in BOOLEAN /\ CreateMayFail \in BOOLEAN /\ MaxSpurious \in Nat

VARIABLES size,      \* threads->size
          lock,      \* owner of threads->lock
          caller,    \* where each caller is in gfc_mt_do or gfc_mt_free
          worker,    \* where the thread of each job is in gfc_mt_entry
          job,       \* the job a caller is handing over
          temp,      \* the register of a split update, 0 when not in use
          heap,      \* blocks of gfc_gc_malloc: the handle, and the
                     \* gfc_mt_data_t of each job under the job's name
          spurious   \* spurious wakeups so far

vars == <<size, lock, caller, worker, job, temp, heap, spurious>>

Threads == Callers \cup Jobs

DoStates   == {"lock", "test", "wait", "count", "count_store",
               "create", "uncount", "uncount_store"}
FreeStates == {"free_lock", "free_test", "free_wait", "free", "freed"}

\* Until "claimed" is left no thread exists; "failed" jobs never get one.
WorkerStates == {"new", "claimed", "failed", "run", "end_lock", "end_count",
                 "end_store", "signal", "unlock", "release", "done"}

\* Unsigned arithmetic: size++ and size-- wrap.
Inc(n) == IF n = UintMax THEN 0 ELSE n + 1
Dec_no_wrap(n) == n - 1
Dec(n) == IF n = 0 THEN UintMax ELSE n - 1

Waiters == {c \in Callers : caller[c] \in {"wait", "free_wait"}}
Closing == \E c \in Callers : caller[c] \in FreeStates

Init ==
  /\ size = 0
  /\ lock = NoOne
  /\ caller = [c \in Callers |-> "idle"]
  /\ worker = [j \in Jobs |-> "new"]
  /\ job = [c \in Callers |-> NoOne]
  /\ temp = [t \in Threads |-> 0]
  /\ heap = {Handle}
  /\ spurious = 0

-----------------------------------------------------------------------------
(* gfc_mt_do *)

DoCall(c, j) ==
  /\ caller[c] = "idle"
  /\ worker[j] = "new"
  /\ ~Closing
  /\ caller' = [caller EXCEPT ![c] = "lock"]
  /\ worker' = [worker EXCEPT ![j] = "claimed"]
  /\ job' = [job EXCEPT ![c] = j]
  /\ UNCHANGED <<size, lock, temp, heap, spurious>>

\* pthread_mutex_lock, and the relock with which pthread_cond_wait returns.
DoLock(c) ==
  /\ caller[c] = "lock"
  /\ lock = NoOne
  /\ lock' = c
  /\ caller' = [caller EXCEPT ![c] = "test"]
  /\ UNCHANGED <<size, worker, job, temp, heap, spurious>>

DoWait(c) ==
  /\ caller[c] = "test"
  /\ size >= Max
  /\ lock' = NoOne
  /\ caller' = [caller EXCEPT ![c] = "wait"]
  /\ UNCHANGED <<size, worker, job, temp, heap, spurious>>

\* Mutant: size <= max.
DoPass_off_by_one(c) ==
  /\ caller[c] = "test"
  /\ size <= Max
  /\ lock' = NoOne
  /\ caller' = [caller EXCEPT ![c] = "count"]
  /\ UNCHANGED <<size, worker, job, temp, heap, spurious>>

DoPass(c) ==
  /\ caller[c] = "test"
  /\ size < Max
  /\ lock' = NoOne
  /\ caller' = [caller EXCEPT ![c] = "count"]
  /\ UNCHANGED <<size, worker, job, temp, heap, spurious>>

\* size++ after the lock was released.
DoCount(c) ==
  /\ ~SplitIncrement
  /\ caller[c] = "count"
  /\ size' = Inc(size)
  /\ caller' = [caller EXCEPT ![c] = "create"]
  /\ UNCHANGED <<lock, worker, job, temp, heap, spurious>>

DoCountLoad(c) ==
  /\ SplitIncrement
  /\ caller[c] = "count"
  /\ temp' = [temp EXCEPT ![c] = Inc(size)]
  /\ caller' = [caller EXCEPT ![c] = "count_store"]
  /\ UNCHANGED <<size, lock, worker, job, heap, spurious>>

DoCountStore(c) ==
  /\ caller[c] = "count_store"
  /\ size' = temp[c]
  /\ temp' = [temp EXCEPT ![c] = 0]
  /\ caller' = [caller EXCEPT ![c] = "create"]
  /\ UNCHANGED <<lock, worker, job, heap, spurious>>

\* gfc_gc_malloc of threads_data, then a pthread_create that succeeds.
DoCreate(c) ==
  /\ caller[c] = "create"
  /\ heap' = heap \cup {job[c]}
  /\ worker' = [worker EXCEPT ![job[c]] = "run"]
  /\ caller' = [caller EXCEPT ![c] = "idle"]
  /\ job' = [job EXCEPT ![c] = NoOne]
  /\ UNCHANGED <<size, lock, temp, spurious>>

\* pthread_create fails: threads_data stays allocated.
DoCreateFails(c) ==
  /\ CreateMayFail
  /\ caller[c] = "create"
  /\ heap' = heap \cup {job[c]}
  /\ worker' = [worker EXCEPT ![job[c]] = "failed"]
  /\ caller' = [caller EXCEPT ![c] = "uncount"]
  /\ job' = [job EXCEPT ![c] = NoOne]
  /\ UNCHANGED <<size, lock, temp, spurious>>

\* size-- without the lock and without a signal.
\* Mutant: the increment is not taken back.
DoUncount_forgotten(c) ==
  /\ ~SplitIncrement
  /\ caller[c] = "uncount"
  /\ caller' = [caller EXCEPT ![c] = "idle"]
  /\ UNCHANGED <<size, lock, worker, job, temp, heap, spurious>>

DoUncount(c) ==
  /\ ~SplitIncrement
  /\ caller[c] = "uncount"
  /\ size' = Dec(size)
  /\ caller' = [caller EXCEPT ![c] = "idle"]
  /\ UNCHANGED <<lock, worker, job, temp, heap, spurious>>

DoUncountLoad(c) ==
  /\ SplitIncrement
  /\ caller[c] = "uncount"
  /\ temp' = [temp EXCEPT ![c] = Dec(size)]
  /\ caller' = [caller EXCEPT ![c] = "uncount_store"]
  /\ UNCHANGED <<size, lock, worker, job, heap, spurious>>

DoUncountStore(c) ==
  /\ caller[c] = "uncount_store"
  /\ size' = temp[c]
  /\ temp' = [temp EXCEPT ![c] = 0]
  /\ caller' = [caller EXCEPT ![c] = "idle"]
  /\ UNCHANGED <<lock, worker, job, heap, spurious>>

-----------------------------------------------------------------------------
(* gfc_mt_free *)

FreeCall(c) ==
  /\ \A d \in Callers : caller[d] = "idle"
  /\ caller' = [caller EXCEPT ![c] = "free_lock"]
  /\ UNCHANGED <<size, lock, worker, job, temp, heap, spurious>>

FreeLock(c) ==
  /\ caller[c] = "free_lock"
  /\ lock = NoOne
  /\ lock' = c
  /\ caller' = [caller EXCEPT ![c] = "free_test"]
  /\ UNCHANGED <<size, worker, job, temp, heap, spurious>>

FreeWait(c) ==
  /\ caller[c] = "free_test"
  /\ size > 0
  /\ lock' = NoOne
  /\ caller' = [caller EXCEPT ![c] = "free_wait"]
  /\ UNCHANGED <<size, worker, job, temp, heap, spurious>>

\* Mutant: gfc_mt_free leaves the last thread behind.
FreePass_off_by_one(c) ==
  /\ caller[c] = "free_test"
  /\ size <= 1
  /\ lock' = NoOne
  /\ caller' = [caller EXCEPT ![c] = "free"]
  /\ UNCHANGED <<size, worker, job, temp, heap, spurious>>

FreePass(c) ==
  /\ caller[c] = "free_test"
  /\ size = 0
  /\ lock' = NoOne
  /\ caller' = [caller EXCEPT ![c] = "free"]
  /\ UNCHANGED <<size, worker, job, temp, heap, spurious>>

FreeHandle(c) ==
  /\ caller[c] = "free"
  /\ heap' = heap \ {Handle}
  /\ caller' = [caller EXCEPT ![c] = "freed"]
  /\ UNCHANGED <<size, lock, worker, job, temp, spurious>>

-----------------------------------------------------------------------------
(* gfc_mt_entry, the thread of job j *)

Run(j) ==
  /\ worker[j] = "run"
  /\ worker' = [worker EXCEPT ![j] = "end_lock"]
  /\ UNCHANGED <<size, lock, caller, job, temp, heap, spurious>>

\* Mutant: size-- before the lock is taken.
EndLock_late(j) ==
  /\ worker[j] = "end_lock"
  /\ worker' = [worker EXCEPT ![j] = "end_count"]
  /\ UNCHANGED <<size, lock, caller, job, temp, heap, spurious>>

EndLock(j) ==
  /\ worker[j] = "end_lock"
  /\ lock = NoOne
  /\ lock' = j
  /\ worker' = [worker EXCEPT ![j] = "end_count"]
  /\ UNCHANGED <<size, caller, job, temp, heap, spurious>>

\* Mutant: the worker does not signal.
EndCount_silent(j) ==
  /\ ~SplitIncrement
  /\ worker[j] = "end_count"
  /\ size' = Dec(size)
  /\ worker' = [worker EXCEPT ![j] = "unlock"]
  /\ UNCHANGED <<lock, caller, job, temp, heap, spurious>>

EndCount(j) ==
  /\ ~SplitIncrement
  /\ worker[j] = "end_count"
  /\ size' = Dec(size)
  /\ worker' = [worker EXCEPT ![j] = "signal"]
  /\ UNCHANGED <<lock, caller, job, temp, heap, spurious>>

EndCountLoad(j) ==
  /\ SplitIncrement
  /\ worker[j] = "end_count"
  /\ temp' = [temp EXCEPT ![j] = Dec(size)]
  /\ worker' = [worker EXCEPT ![j] = "end_store"]
  /\ UNCHANGED <<size, lock, caller, job, heap, spurious>>

EndCountStore(j) ==
  /\ worker[j] = "end_store"
  /\ size' = temp[j]
  /\ temp' = [temp EXCEPT ![j] = 0]
  /\ worker' = [worker EXCEPT ![j] = "signal"]
  /\ UNCHANGED <<lock, caller, job, heap, spurious>>

\* A waiter that is woken competes for the lock again.
Woken(c) ==
  [caller EXCEPT ![c] = IF caller[c] = "wait" THEN "lock" ELSE "free_lock"]

\* pthread_cond_signal wakes one waiter; with none waiting it is lost.
\* Mutant: threads_data is freed before it is used for the unlock.
Signal_early_free(j) ==
  /\ worker[j] = "signal"
  /\ worker' = [worker EXCEPT ![j] = "unlock"]
  /\ heap' = heap \ {j}
  /\ \/ Waiters = {} /\ caller' = caller
     \/ \E c \in Waiters : caller' = Woken(c)
  /\ UNCHANGED <<size, lock, job, temp, spurious>>

Signal(j) ==
  /\ worker[j] = "signal"
  /\ worker' = [worker EXCEPT ![j] = "unlock"]
  /\ \/ Waiters = {} /\ caller' = caller
     \/ \E c \in Waiters : caller' = Woken(c)
  /\ UNCHANGED <<size, lock, job, temp, heap, spurious>>

Unlock(j) ==
  /\ worker[j] = "unlock"
  /\ lock' = NoOne
  /\ worker' = [worker EXCEPT ![j] = "release"]
  /\ UNCHANGED <<size, caller, job, temp, heap, spurious>>

\* gfc_gc_free(threads_data), the thread's last access.
Release(j) ==
  /\ worker[j] = "release"
  /\ heap' = heap \ {j}
  /\ worker' = [worker EXCEPT ![j] = "done"]
  /\ UNCHANGED <<size, lock, caller, job, temp, spurious>>

Spurious(c) ==
  /\ spurious < MaxSpurious
  /\ c \in Waiters
  /\ caller' = Woken(c)
  /\ spurious' = spurious + 1
  /\ UNCHANGED <<size, lock, worker, job, temp, heap>>

-----------------------------------------------------------------------------
DoStep(c) ==
  \/ DoLock(c) \/ DoWait(c) \/ DoPass(c)
  \/ DoCount(c) \/ DoCountLoad(c) \/ DoCountStore(c)
  \/ DoCreate(c) \/ DoCreateFails(c)
  \/ DoUncount(c) \/ DoUncountLoad(c) \/ DoUncountStore(c)

FreeStep(c) == FreeLock(c) \/ FreeWait(c) \/ FreePass(c) \/ FreeHandle(c)

WorkerStep(j) ==
  \/ Run(j) \/ EndLock(j) \/ EndCount(j) \/ EndCountLoad(j) \/ EndCountStore(j)
  \/ Signal(j) \/ Unlock(j) \/ Release(j)

\* Everything is over: the handle is freed and every thread has ended.
Finished ==
  /\ Handle \notin heap
  /\ \A j \in Jobs : worker[j] \in {"new", "failed", "done"}
  /\ UNCHANGED vars

Next ==
  \/ \E c \in Callers, j \in Jobs : DoCall(c, j)
  \/ \E c \in Callers : DoStep(c) \/ FreeCall(c) \/ FreeStep(c) \/ Spurious(c)
  \/ \E j \in Jobs : WorkerStep(j)
  \/ Finished

Spec == Init /\ [][Next]_vars

(***************************************************************************)
(* Every thread that can take a step is scheduled eventually, inside a     *)
(* call or a user function.  Nothing is assumed of spurious wakeups, nor   *)
(* of whether gfc_mt_do or gfc_mt_free is called.                          *)
(***************************************************************************)
Fairness ==
  /\ \A c \in Callers : WF_vars(DoStep(c) \/ FreeStep(c))
  /\ \A j \in Jobs : WF_vars(WorkerStep(j))

FairSpec == Spec /\ Fairness

-----------------------------------------------------------------------------
TypeOK ==
  /\ size \in 0..UintMax
  /\ lock \in Threads \cup {NoOne}
  /\ caller \in [Callers -> {"idle"} \cup DoStates \cup FreeStates]
  /\ worker \in [Jobs -> WorkerStates]
  /\ job \in [Callers -> Jobs \cup {NoOne}]
  /\ temp \in [Threads -> 0..UintMax]
  /\ heap \in SUBSET (Jobs \cup {Handle})
  /\ spurious \in 0..MaxSpurious

\* Jobs whose thread has started and has not decremented size yet.
Running ==
  {j \in Jobs : worker[j] \in {"run", "end_lock", "end_count", "end_store"}}

\* Callers between their size++ and the thread they create (or the size-- that
\* takes it back).
Counted ==
  {c \in Callers : caller[c] \in {"create", "uncount", "uncount_store"}}

(***************************************************************************)
(* size is "the present size" (gfc_mt.c:38): the threads that are running  *)
(* plus those that are about to be created, also while callers and workers *)
(* update it at the same time, one of them without the lock.               *)
(***************************************************************************)
SizeIsPresent == size = Cardinality(Running) + Cardinality(Counted)

(***************************************************************************)
(* The test and the size++ of gfc_mt_do are not one critical section: the  *)
(* "max thread count" (gfc_mt.c:43) is exceeded by at most one thread for  *)
(* each further caller, and not at all by a single caller.                 *)
(***************************************************************************)
BoundedOvershoot ==
  Cardinality(Running) <= Max + Cardinality(Callers) - 1

(***************************************************************************)
(* Nobody touches a block that gfc_gc_free has released: the handle while  *)
(* a caller or a thread still works with its lock, its condition variable  *)
(* or its size, and a job's data before its thread's last access.          *)
(***************************************************************************)
UsesHandle ==
  {c \in Callers : caller[c] \notin {"idle", "freed"}} \cup
  {j \in Jobs : worker[j] \in {"run", "end_lock", "end_count", "end_store",
                               "signal", "unlock"}}

NoUseAfterFree ==
  /\ UsesHandle # {} => Handle \in heap
  /\ \A j \in Jobs : (j \in UsesHandle \/ worker[j] = "release") => j \in heap

(***************************************************************************)
(* No wakeup is lost on the way from the decrement of a worker to the      *)
(* waiter: with one caller, whoever waits although the size it reads would *)
(* let it pass is about to be signalled by the worker that holds the lock. *)
(***************************************************************************)
NoLostWakeup ==
  \A c \in Callers :
    (\/ caller[c] = "wait" /\ size < Max
     \/ caller[c] = "free_wait" /\ size = 0)
    => \E j \in Jobs : lock = j /\ worker[j] = "signal"

(***************************************************************************)
(* Every gfc_mt_do that was called returns: no caller waits for a thread   *)
(* that is not there.                                                      *)
(***************************************************************************)
DoReturns == \A c \in Callers : caller[c] = "lock" ~> caller[c] = "idle"

(***************************************************************************)
(* Every gfc_mt_do returns as long as no pthread_create has failed: each   *)
(* worker's single signal is enough for several waiting callers.           *)
(***************************************************************************)
DoReturnsUnlessFailed ==
  \A c \in Callers :
    caller[c] = "lock"
      ~> (caller[c] = "idle" \/ \E j \in Jobs : worker[j] = "failed")

(***************************************************************************)
(* gfc_mt_free returns, and from then on the only blocks left are the      *)
(* threads_data of jobs whose pthread_create failed.                       *)
(***************************************************************************)
FreeReturns ==
  \A c \in Callers :
    caller[c] = "free_lock"
      ~> (caller[c] = "freed" /\ heap = {j \in Jobs : worker[j] = "failed"})

-----------------------------------------------------------------------------
(* What the pool promises, and how its state is read off this one. *)
Pool == INSTANCE ThreadPool
          WITH running  <- Running,
               finished <- {j \in Jobs : worker[j] \in
                                {"signal", "unlock", "release", "done"}},
               open     <- Handle \in heap,
               Limit    <- Max + Cardinality(Callers) - 1

PoolSafety == Pool!PoolSafety
PoolSpec   == Pool!PoolSpec
=============================================================================
