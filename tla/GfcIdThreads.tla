----------------------------- MODULE GfcIdThreads -----------------------------
(***************************************************************************)
(* Threads that call gfc_id_value on one context (src/gfc_id.c), which has *)
(* no lock.  Each step of a thread is one access to the clock or to the    *)
(* context; the compiler may keep the sequence number it has stored in a   *)
(* register or read it again.  The clock is never set back here.           *)
(***************************************************************************)
EXTENDS Integers, FiniteSets

CONSTANTS
  IdThread,      \* threads of one process
  SeqNumbers,    \* 2^SEQ_BIT
  LastTime,      \* bound: the last millisecond
  MaxCalls       \* bound: calls of gfc_id_value

ASSUME IdThreadsAssumption == SeqNumbers \in Nat \ {0} /\ LastTime \in Nat /\ MaxCalls \in Nat

VARIABLES
  now,           \* what gettimeofday answers
  lastTime,      \* last_timestamp of the context
  seqField,      \* seq of the context
  at,            \* where each thread is
  current,       \* current_timestamp of its call
  until,         \* the argument of snowflake_next_timestamp
  register,      \* the sequence number it has computed
  given,         \* the times and sequence numbers that were answered
  repeated,      \* the times in an id that was answered twice
  raced,         \* the times at which calls overlapped, or that such calls had read
  called         \* how many calls were begun

idThreadVars ==
  <<now, lastTime, seqField, at, current, until, register, given, repeated, raced, called>>

IdThreadsInit ==
  /\ now = 1 /\ lastTime = 0 /\ seqField = 0
  /\ at = [t \in IdThread |-> "idle"]
  /\ current = [t \in IdThread |-> 0] /\ until = [t \in IdThread |-> 0] /\ register = [t \in IdThread |-> 0]
  /\ given = {} /\ repeated = {} /\ raced = {} /\ called = 0

\* Calls under way together race for the time it is and for those they have read.
Watched ==
  LET busy == {t \in IdThread : at'[t] # "idle"}
  IN  raced' = IF Cardinality(busy) < 2 THEN raced
               ELSE raced \cup {now'} \cup {current'[t] : t \in busy}

GoTo(t, place) == at' = [at EXCEPT ![t] = place]

ReadClock(t) ==
  /\ at[t] = "idle" /\ called < MaxCalls
  /\ current' = [current EXCEPT ![t] = now]
  /\ called' = called + 1
  /\ GoTo(t, "compare")
  /\ UNCHANGED <<now, lastTime, seqField, until, register, given, repeated>>

CompareLast(t) ==
  /\ at[t] = "compare"
  /\ GoTo(t, IF current[t] = lastTime THEN "count" ELSE "restart")
  /\ UNCHANGED <<now, lastTime, seqField, current, until, register, given, repeated, called>>

\* Load seq, and the next number masked.
CountUp(t) ==
  /\ at[t] = "count"
  /\ register' = [register EXCEPT ![t] = (seqField + 1) % SeqNumbers]
  /\ GoTo(t, "store")
  /\ UNCHANGED <<now, lastTime, seqField, current, until, given, repeated, called>>

StoreSeq(t) ==
  /\ at[t] = "store"
  /\ seqField' = register[t]
  /\ GoTo(t, "test")
  /\ UNCHANGED <<now, lastTime, current, until, register, given, repeated, called>>

\* The test reads what was stored, or what is there now; last_timestamp is the argument of the wait.
TestSeq(t) ==
  /\ at[t] = "test"
  /\ \E s \in {register[t], seqField} :
       /\ register' = [register EXCEPT ![t] = s]
       /\ GoTo(t, IF s = 0 THEN "wait" ELSE "leave")
  /\ until' = [until EXCEPT ![t] = lastTime]
  /\ UNCHANGED <<now, lastTime, seqField, current, given, repeated, called>>

\* Mutant: the wait ends within the same millisecond.
Later_same(t) == now >= until[t]

Later(t) == now > until[t]

WaitForTime(t) ==
  /\ at[t] = "wait" /\ Later(t)
  /\ current' = [current EXCEPT ![t] = now]
  /\ GoTo(t, "leave")
  /\ UNCHANGED <<now, lastTime, seqField, until, register, given, repeated, called>>

RestartSeq(t) ==
  /\ at[t] = "restart"
  /\ seqField' = 0 /\ register' = [register EXCEPT ![t] = 0]
  /\ GoTo(t, "leave")
  /\ UNCHANGED <<now, lastTime, current, until, given, repeated, called>>

StoreLast(t) ==
  /\ at[t] = "leave"
  /\ lastTime' = current[t]
  /\ GoTo(t, "answer")
  /\ UNCHANGED <<now, seqField, current, until, register, given, repeated, called>>

\* The id is packed from the time of the call and seq, as stored or as it is now.
AnswerId(t) ==
  /\ at[t] = "answer"
  /\ \E s \in {register[t], seqField} :
       /\ given' = given \cup {<<current[t], s>>}
       /\ repeated' = IF <<current[t], s>> \in given THEN repeated \cup {current[t]} ELSE repeated
  /\ GoTo(t, "idle")
  /\ UNCHANGED <<now, lastTime, seqField, current, until, register, called>>

Millisecond ==
  /\ now < LastTime /\ now' = now + 1
  /\ UNCHANGED <<lastTime, seqField, at, current, until, register, given, repeated, called>>

IdThreadsNext ==
  /\ \/ Millisecond
     \/ \E t \in IdThread : \/ ReadClock(t) \/ CompareLast(t) \/ CountUp(t) \/ StoreSeq(t) \/ TestSeq(t)
                          \/ WaitForTime(t) \/ RestartSeq(t) \/ StoreLast(t) \/ AnswerId(t)
  /\ Watched

IdThreadsSpec == IdThreadsInit /\ [][IdThreadsNext]_idThreadVars

-------------------------------------------------------------------------------
\* Without a lock two calls may answer the same id, even long after the threads met and although
\* the two calls themselves did not.  But the damage is confined: an id is repeated only in a
\* millisecond in which calls overlapped, or that an overlapping call had read; from the next
\* one on the ids are unique again.
RepeatsInRacedTimes == repeated \subseteq raced
===============================================================================
