---------------------------- MODULE GfcLog_proofs ----------------------------
(***************************************************************************)
(* What holds of the log for any threads, days and restarts.  The mutex    *)
(* protects the rotation, and while the clock is not set back the date     *)
(* goes on, but for an evening behind GMT; from these two follows who may  *)
(* find the FILE closed, and which backups are overwritten.  With what was *)
(* printed of each line under way they give that no line is lost, and that *)
(* each is in the file of its day.                                         *)
(***************************************************************************)
EXTENDS GfcLog, TLAPS

USE DEF calendar, backups

Locked == Rotating \cup {"open"}      \* the steps under the mutex

\* Ranges of what the proof counts with.
LogTypeOK ==
  /\ time \in Nat /\ time >= Morning
  /\ ahead \in {-1, 0, 1}
  /\ file \in {"null", "open", "closed"}
  /\ date \in Nat
  /\ changed \in Nat
  /\ step \in [Thread -> {"idle"} \cup Locked \cup Writing]
  /\ line \in [Thread -> [no : Nat, day : Nat, part : {"none"}]]
  /\ lines \in Nat
  /\ DOMAIN backup = Days

\* One thread at most is under the mutex; it does not find the FILE closed when it is about
\* to open one.
MutexInv ==
  \A u \in Thread : step[u] \in Locked =>
    /\ lock = u
    /\ step[u] = "open" => file # "closed"
    /\ step[u] = "rename" => file # "open"

\* The date is today's or an earlier day's, but for a rotation behind GMT that no other line is
\* under way with; a thread at work knows a day, and the thread that opens the file has made its
\* day the date.
DateInv ==
  /\ date <= Today \/ (ahead < 0 /\ \E u \in Thread : step[u] \in Rotating)
  /\ app # Absent => changed >= 3 /\ changed <= time
  /\ \A t \in Thread : step[t] # "idle" => line[t].day <= Today /\ line[t].day >= 1 /\ date # 0
  /\ \A t \in Thread : step[t] = "open" => line[t].day = date
  /\ \A t \in Thread : step[t] \in Rotating =>
       date # line[t].day /\ (date > line[t].day => ahead < 0 /\ file = "null")
  /\ \A t \in Thread : step[t] \in Writing => line[t].day <= date

\* Without the mutex held, a process that knows a date has opened a FILE; where a thread finds
\* none to write to, another of a later day is rotating.
OpenInv ==
  /\ IF file = "open" THEN date # 0 ELSE buffer = <<>>
  /\ file = "null" /\ date # 0 => lock # NoThread
  /\ file # "open" => \A t \in Thread : step[t] \in Writing =>
       \E u \in Thread : step[u] \in Locked /\ line[t].day < line[u].day

\* Backups are of days before the one at hand, but for those made early.
BackupInv ==
  /\ early # {} => ahead < 0
  /\ \A d \in Days : backup[d] # Absent /\ d \notin early =>
       /\ d < Today
       /\ file = "open" => d < date
       /\ app # Absent => d < Day(changed)
       /\ \A u \in Thread : step[u] \in Locked => d < line[u].day
       /\ \A u \in Thread :
            step[u] \in Rotating /\ (file # "null" \/ GmDay(changed) >= Day(changed)) => d < date

LogInv == LogTypeOK /\ MutexInv /\ DateInv /\ OpenInv /\ BackupInv

-------------------------------------------------------------------------------
(* Days *)

\* Days follow the clock, and no morning of the log is on day zero.
LEMMA DayRange ==
  /\ \A t \in Nat : Day(t) \in Nat /\ Day(t) <= Day(t + 1)
  /\ \A t \in Nat : t >= 3 => Day(t) >= 1
  /\ \A s, t \in Nat : s <= t => Day(s) <= Day(t)
BY DEF Day

\* The day of gmtime is that of localtime where the two do not differ, and not before it where
\* localtime is behind.
LEMMA GmDayRange ==
  ASSUME ahead \in {-1, 0, 1}, NEW t \in Nat, t >= 3
  PROVE  /\ GmDay(t) \in Nat /\ GmDay(t) >= 1 /\ Day(t) \in Nat
         /\ ahead >= 0 => GmDay(t) <= Day(t)
         /\ ahead = 0 => GmDay(t) = Day(t)
BY DEF Day, GmDay

\* The date the first line of a process takes for that of the file.
LEMMA FileDateRange ==
  ASSUME LogTypeOK, DateInv, \A u \in Thread : step[u] \notin Rotating
  PROVE  /\ FileDate \in Nat /\ FileDate >= 1
         /\ Today \in Nat /\ Today >= 1
         /\ FileDate > Today => ahead < 0 /\ date = 0
         /\ date # 0 => FileDate = date
         /\ date = 0 /\ FileDate # Today =>
              app # Absent /\ FileDate = GmDay(changed) /\ Day(changed) \in Nat
<1>1. Today \in Nat /\ Today >= 1
  BY DayRange, LogAssumption DEF LogTypeOK, Today
<1>2. CASE date # 0
  BY <1>1, <1>2 DEF LogTypeOK, DateInv, FileDate
<1>3. CASE date = 0 /\ app = Absent
  BY <1>1, <1>3 DEF FileDate
<1>4. CASE date = 0 /\ app # Absent
  <2>1. changed >= 3 /\ changed <= time
    BY <1>4 DEF DateInv
  <2>2. Day(changed) <= Today
    BY <2>1, DayRange DEF LogTypeOK, Today
  <2>3. /\ GmDay(changed) \in Nat /\ GmDay(changed) >= 1 /\ Day(changed) \in Nat
        /\ ahead >= 0 => GmDay(changed) <= Day(changed)
    BY <2>1, GmDayRange DEF LogTypeOK
  <2>4. FileDate = GmDay(changed)
    BY <1>4 DEF FileDate
  <2> QED BY <1>1, <1>4, <2>2, <2>3, <2>4 DEF LogTypeOK
<1> QED BY <1>2, <1>3, <1>4

-------------------------------------------------------------------------------
(* Every step keeps the invariant *)

LEMMA LogInitInv == LogInit => LogInv
BY LogAssumption, DayRange
   DEF LogInit, LogInv, LogTypeOK, MutexInv, DateInv, OpenInv, BackupInv, NoLine, Days, Today, Locked,
       Rotating, Writing, Printing

LEMMA EnterInv == ASSUME LogInv, NEW t \in Thread, Enter(t) PROVE LogInv'
<1> USE DEF LogInv, Enter, Locked, Rotating, Writing, Printing
<1>2. lock = NoThread /\ file # "closed" /\ NoThread \notin Thread /\ step[t] = "idle"
  BY LogAssumption DEF LockFree, MayCall, Idle
<1>3. \A u \in Thread : step[u] \notin Locked
  BY <1>2 DEF MutexInv
<1>1. /\ FileDate \in Nat /\ FileDate >= 1
      /\ Today \in Nat /\ Today >= 1 /\ Today' = Today
      /\ FileDate > Today => ahead < 0 /\ date = 0
      /\ date # 0 => FileDate = date
      /\ date = 0 /\ FileDate # Today =>
           app # Absent /\ FileDate = GmDay(changed) /\ Day(changed) \in Nat
  BY <1>3, FileDateRange DEF Today
<1>4. LogTypeOK'
  BY <1>1 DEF LogTypeOK
<1>5. MutexInv'
  BY <1>2, <1>3 DEF MutexInv, LogTypeOK
<1>7. file = "open" \/ (file = "null" /\ date = 0)
  BY <1>2 DEF OpenInv, LogTypeOK
<1>6. DateInv'
  <2>1. step'[t] \in Rotating => FileDate # Today
    BY DEF LogTypeOK
  <2>2. FileDate <= Today \/ (ahead < 0 /\ step'[t] \in Rotating)
    BY <1>1 DEF LogTypeOK
  <2>3. \A u \in Thread : step[u] # "idle" => date # 0 /\ line[u].day <= date
    BY <1>3 DEF DateInv, LogTypeOK
  <2>4. /\ date' = FileDate /\ file' = file /\ line'[t].day = Today /\ Today' = Today /\ step'[t] \notin Writing
        /\ step'[t] # "open" \/ FileDate = Today
        /\ \A u \in Thread : u # t => step'[u] = step[u] /\ line'[u] = line[u]
    BY <1>1 DEF LogTypeOK
  <2>5. FileDate > Today => ahead < 0 /\ file = "null"
    BY <1>1, <1>7 DEF OpenInv
  <2>6. \A u \in Thread : step'[u] # "idle" => line'[u].day <= Today /\ line'[u].day >= 1 /\ FileDate # 0
    BY <1>1, <2>3, <2>4 DEF DateInv
  <2>7. \A u \in Thread : step'[u] \in Writing => line'[u].day <= FileDate
    BY <1>1, <2>3, <2>4
  <2>8. \A u \in Thread : step'[u] \in Locked => u = t
    BY <1>3, <2>4
  <2>9. app # Absent => changed >= 3 /\ changed <= time
    BY DEF DateInv
  <2> QED BY <2>1, <2>2, <2>4, <2>5, <2>6, <2>7, <2>8, <2>9 DEF DateInv
<1>8. file # "open" => \A u \in Thread : step[u] \notin Writing
  BY <1>3 DEF OpenInv
<1>9. OpenInv'
  BY <1>1, <1>2, <1>8 DEF OpenInv, LogTypeOK
<1>10. BackupInv'
  <2> SUFFICES ASSUME NEW d \in Days, backup[d] # Absent, d \notin early
               PROVE  /\ d < Today
                      /\ file = "open" => d < FileDate
                      /\ app # Absent => d < Day(changed)
                      /\ step'[t] \in Rotating /\ (file # "null" \/ GmDay(changed) >= Day(changed))
                           => d < FileDate
    BY <1>1, <1>2, <1>3 DEF BackupInv, LogTypeOK, Days, Day, GmDay
  <2>1. d < Today /\ (file = "open" => d < date) /\ (app # Absent => d < Day(changed)) /\ d \in Nat
    BY DEF BackupInv, Days
  <2>2. step'[t] \in Rotating => FileDate # Today
    BY DEF LogTypeOK
  <2>3. CASE file = "open"
    BY <1>1, <2>1, <2>3 DEF LogTypeOK
  <2>4. CASE file = "null" /\ date = 0
    BY <1>1, <2>1, <2>2, <2>4
  <2> QED BY <1>7, <2>3, <2>4
<1> QED BY <1>4, <1>5, <1>6, <1>9, <1>10

\* What a flush does to app.log keeps the ranges of its day and of the backups.
LEMMA FlushRange ==
  ASSUME LogTypeOK, DateInv, OpenInv, BackupInv, Flush
  PROVE  /\ changed' \in Nat
         /\ app' # Absent => app # Absent /\ changed' >= 3 /\ changed' <= time
         /\ \A d \in Days : backup[d] # Absent /\ d \notin early /\ app' # Absent => d < Day(changed')
         /\ buffer' = <<>> /\ (file # "open" => changed' = changed)
BY LogAssumption DEF LogTypeOK, DateInv, OpenInv, BackupInv, Flush, Today

LEMMA CloseOldInv == ASSUME LogInv, NEW t \in Thread, CloseOld(t) PROVE LogInv'
<1> USE DEF LogInv, CloseOld, Locked, Rotating, Writing, Printing
<1>1. /\ changed' \in Nat /\ Today' = Today
      /\ app' # Absent => app # Absent /\ changed' >= 3 /\ changed' <= time
      /\ \A d \in Days : backup[d] # Absent /\ d \notin early /\ app' # Absent => d < Day(changed')
      /\ buffer' = <<>> /\ (file # "open" => changed' = changed)
  BY FlushRange DEF Today
<1>2. step[t] = "close" /\ lock = t /\ \A u \in Thread : u # t => step[u] \notin Locked
  BY DEF MutexInv
<1>3. LogTypeOK'
  BY <1>1 DEF LogTypeOK
<1>4. MutexInv'
  BY <1>2 DEF MutexInv, LogTypeOK
<1>5. DateInv'
  BY <1>1, <1>2 DEF DateInv, LogTypeOK
<1>6. OpenInv'
  BY <1>1, <1>2, LogAssumption DEF OpenInv, DateInv, LogTypeOK
<1>7. BackupInv'
  BY <1>1, <1>2 DEF BackupInv, LogTypeOK, Days, GmDay, Day
<1> QED BY <1>3, <1>4, <1>5, <1>6, <1>7

LEMMA RenameInv == ASSUME LogInv, NEW t \in Thread, Rename(t) PROVE LogInv'
<1> USE DEF LogInv, Rename, Locked, Rotating, Writing, Printing, Forgotten, NewDate
<1>1. step[t] = "rename" /\ lock = t /\ \A u \in Thread : u # t => step[u] \notin Locked
  BY DEF MutexInv
<1>2. date # line[t].day /\ (date > line[t].day => ahead < 0) /\ line[t].day \in Nat
      /\ line[t].day <= Today /\ line[t].day >= 1
      /\ Today' = Today /\ Today \in Nat /\ date \in Nat
      /\ file # "open" /\ buffer = <<>>
  <2>1. /\ date # line[t].day /\ (date > line[t].day => ahead < 0)
        /\ line[t].day <= Today /\ line[t].day >= 1
    BY <1>1 DEF DateInv
  <2>2. line[t].day \in Nat /\ date \in Nat /\ Today \in Nat /\ Today' = Today
    BY DayRange DEF LogTypeOK, Today
  <2>3. file # "open" /\ buffer = <<>>
    BY <1>1 DEF MutexInv, OpenInv
  <2> QED BY <2>1, <2>2, <2>3
<1>3. LogTypeOK'
  BY <1>2 DEF LogTypeOK
<1>4. MutexInv'
  BY <1>1 DEF MutexInv, LogTypeOK
<1>a. \A u \in Thread : step[u] \in Writing => line[u].day < line[t].day
  BY <1>1, <1>2 DEF OpenInv
<1>5. DateInv'
  BY <1>1, <1>2, <1>a DEF DateInv, LogTypeOK
<1>6. OpenInv'
  BY <1>1, <1>2, <1>a, LogAssumption DEF OpenInv, LogTypeOK
<1>7. BackupInv'
  <2>0. \A u \in Thread : step'[u] \notin Rotating /\ (step'[u] \in Locked => u = t)
    BY <1>1 DEF LogTypeOK
  <2>a. early' # {} => ahead < 0
    BY <1>2 DEF BackupInv
  <2> SUFFICES ASSUME NEW d \in Days, backup'[d] # Absent, d \notin early'
               PROVE  d < Today /\ d < line[t].day
    <3>1. Today' = Today /\ line' = line /\ app' = Absent /\ file' = "null" /\ ahead' = ahead
      BY <1>2
    <3> QED BY <2>0, <2>a, <3>1 DEF BackupInv, Days, Day
  <2>1. CASE backup[d] # Absent /\ d \notin early
    BY <1>1, <2>1 DEF BackupInv
  <2>2. CASE d = date /\ app # Absent
    <3>1. ~(date > line[t].day)
      BY <2>2
    <3> QED BY <1>2, <2>2, <3>1
  <2>3. \/ backup[d] # Absent /\ d \notin early
        \/ d = date /\ app # Absent
    BY DEF LogTypeOK
  <2> QED BY <2>1, <2>2, <2>3
<1> QED BY <1>3, <1>4, <1>5, <1>6, <1>7

LEMMA OpenNewInv == ASSUME LogInv, NEW t \in Thread, OpenNew(t) PROVE LogInv'
<1> USE DEF LogInv, OpenNew, Locked, Rotating, Writing, Printing
<1>1. step[t] = "open" /\ lock = t /\ \A u \in Thread : u # t => step[u] \notin Locked
  BY DEF MutexInv
<1>2. file' = "open" /\ date = line[t].day /\ Today' = Today
  BY <1>1 DEF MutexInv, DateInv, LogTypeOK, Today
<1>3. LogTypeOK'
  BY DEF LogTypeOK
<1>4. MutexInv'
  BY <1>1 DEF MutexInv, LogTypeOK
<1>5. DateInv'
  BY <1>1, <1>2, LogAssumption DEF DateInv, LogTypeOK
<1>6. OpenInv'
  BY <1>1, <1>2 DEF OpenInv, DateInv
<1>7. BackupInv'
  <2>1. \A d \in Days : backup[d] # Absent /\ d \notin early =>
          d < Today /\ d < date /\ (app' # Absent => d < Day(changed'))
    BY <1>1, <1>2 DEF BackupInv, Today
  <2>2. \A u \in Thread : step'[u] \notin Locked
    BY <1>1 DEF LogTypeOK
  <2> QED BY <1>2, <2>1, <2>2 DEF BackupInv, Days, Day
<1> QED BY <1>3, <1>4, <1>5, <1>6, <1>7

LEMMA PrintPartInv == ASSUME LogInv, NEW t \in Thread, PrintPart(t) PROVE LogInv'
<1> USE DEF LogInv, PrintPart, Locked, Rotating, Writing, Printing, AfterPrint
<1>1. step[t] \in Writing /\ step' = [step EXCEPT ![t] = step'[t]] /\ step'[t] \in Writing
  BY DEF LogTypeOK
<1>2. /\ Today' = Today /\ UNCHANGED <<calendar, lock, file, date, app, changed, backups, line, lines>>
      /\ file # "open" => buffer' = buffer
  BY DEF Today
<1> HIDE DEF PrintPart, AfterPrint
<1>3. LogTypeOK'
  BY <1>1, <1>2 DEF LogTypeOK
<1>4. MutexInv'
  BY <1>1, <1>2 DEF MutexInv, LogTypeOK
<1>5. DateInv'
  BY <1>1, <1>2 DEF DateInv, LogTypeOK
<1>6. OpenInv'
  BY <1>1, <1>2 DEF OpenInv, LogTypeOK
<1>7. BackupInv'
  BY <1>1, <1>2 DEF BackupInv, LogTypeOK, Days, Day, GmDay
<1> QED BY <1>3, <1>4, <1>5, <1>6, <1>7

\* A flush that no thread waits for, after which some threads are idle that were not.
LEMMA FlushInv ==
  ASSUME LogInv, Flush,
         UNCHANGED <<calendar, lock, file, date, backups, lines>>,
         step' \in [Thread -> {"idle"} \cup Locked \cup Writing],
         line' \in [Thread -> [no : Nat, day : Nat, part : {"none"}]],
         \A u \in Thread : \/ step'[u] = step[u] /\ line'[u] = line[u]
                           \/ step'[u] = "idle" /\ step[u] \in Writing
  PROVE  LogInv'
<1> USE DEF LogInv, Locked, Rotating, Writing, Printing
<1>1. /\ changed' \in Nat /\ Today' = Today
      /\ app' # Absent => app # Absent /\ changed' >= 3 /\ changed' <= time
      /\ \A d \in Days : backup[d] # Absent /\ d \notin early /\ app' # Absent => d < Day(changed')
      /\ buffer' = <<>> /\ (file # "open" => changed' = changed)
  BY FlushRange DEF Today
<1>2. LogTypeOK'
  BY <1>1 DEF LogTypeOK
<1>3. MutexInv'
  BY DEF MutexInv
<1>4. DateInv'
  BY <1>1 DEF DateInv
<1>5. OpenInv'
  BY <1>1 DEF OpenInv
<1>6. BackupInv'
  <2>1. \A u \in Thread : step'[u] \in Locked => step[u] = step'[u] /\ line'[u] = line[u]
    OBVIOUS
  <2>2. \A u \in Thread : step[u] \in Rotating => file # "open" \/ step[u] = "close"
    BY DEF MutexInv
  <2> QED BY <1>1, <2>1, <2>2 DEF BackupInv, Day, GmDay
<1> QED BY <1>2, <1>3, <1>4, <1>5, <1>6

\* The process dies: no thread is at work, and no FILE is open.
LEMMA RestartInv == ASSUME LogInv, Restart PROVE LogInv'
<1> USE DEF LogInv, Locked, Rotating, Writing, Printing
<1>1. /\ changed' \in Nat /\ Today' = Today
      /\ app' # Absent => app # Absent /\ changed' >= 3 /\ changed' <= time
      /\ \A d \in Days : backup[d] # Absent /\ d \notin early /\ app' # Absent => d < Day(changed')
  <2>1. CASE Flush
    BY <2>1, FlushRange DEF Restart, Today
  <2>2. CASE UNCHANGED <<app, changed>>
    BY <2>2 DEF Restart, Today, LogTypeOK, DateInv, BackupInv
  <2> QED BY <2>1, <2>2 DEF Restart
<1>2. /\ UNCHANGED <<calendar, backups, lines>> /\ file' = "null" /\ date' = 0 /\ buffer' = <<>>
      /\ step' = [t \in Thread |-> "idle"] /\ line' = [t \in Thread |-> NoLine]
  BY DEF Restart, Flush
<1>3. Today \in Nat
  BY DayRange DEF LogTypeOK, Today
<1>4. LogTypeOK'
  BY <1>1, <1>2 DEF LogTypeOK, NoLine
<1>5. MutexInv'
  BY <1>2 DEF MutexInv
<1>6. DateInv'
  BY <1>1, <1>2, <1>3 DEF DateInv
<1>7. OpenInv'
  BY <1>1, <1>2 DEF OpenInv
<1>8. BackupInv'
  BY <1>1, <1>2 DEF BackupInv
<1> QED BY <1>4, <1>5, <1>6, <1>7, <1>8

LEMMA FlushLineInv == ASSUME LogInv, NEW t \in Thread, FlushLine(t) PROVE LogInv'
<1>0. /\ step[t] = "flush" /\ step' = [step EXCEPT ![t] = "idle"]
      /\ line' = [line EXCEPT ![t] = NoLine] /\ NoLine \in [no : Nat, day : Nat, part : {"none"}]
  BY DEF FlushLine, NoLine
<1>1. /\ step' \in [Thread -> {"idle"} \cup Locked \cup Writing]
      /\ line' \in [Thread -> [no : Nat, day : Nat, part : {"none"}]]
      /\ \A u \in Thread : \/ step'[u] = step[u] /\ line'[u] = line[u]
                           \/ step'[u] = "idle" /\ step[u] \in Writing
  BY <1>0 DEF LogInv, LogTypeOK, Writing
<1>2. UNCHANGED <<calendar, lock, file, date, backups, lines>>
  BY DEF FlushLine
<1>3. CASE Flush
  BY <1>1, <1>2, <1>3, FlushInv
<1>4. CASE UNCHANGED <<app, changed, buffer>>
  <2> USE DEF LogInv, Locked, Rotating, Writing, Printing
  <2>1. Today' = Today
    BY <1>2 DEF Today
  <2>2. LogTypeOK'
    BY <1>1, <1>2, <1>4 DEF LogTypeOK
  <2>3. MutexInv'
    BY <1>1, <1>2 DEF MutexInv
  <2>4. DateInv'
    BY <1>1, <1>2, <1>4, <2>1 DEF DateInv
  <2>5. OpenInv'
    BY <1>1, <1>2, <1>4 DEF OpenInv
  <2>6. BackupInv'
    BY <1>1, <1>2, <1>4, <2>1 DEF BackupInv, Day, GmDay
  <2> QED BY <2>2, <2>3, <2>4, <2>5, <2>6
<1> QED BY <1>3, <1>4 DEF FlushLine

LEMMA LogSizeInv == ASSUME LogInv, LogSize PROVE LogInv'
<1>1. /\ step' = step /\ line' = line /\ Flush
      /\ UNCHANGED <<calendar, lock, file, date, backups, lines>>
  BY DEF LogSize
<1>2. /\ step \in [Thread -> {"idle"} \cup Locked \cup Writing]
      /\ line \in [Thread -> [no : Nat, day : Nat, part : {"none"}]]
  BY DEF LogInv, LogTypeOK
<1>3. \A u \in Thread : \/ step'[u] = step[u] /\ line'[u] = line[u]
                        \/ step'[u] = "idle" /\ step[u] \in Writing
  BY <1>1
<1> QED
  <2>1. /\ step' \in [Thread -> {"idle"} \cup Locked \cup Writing]
        /\ line' \in [Thread -> [no : Nat, day : Nat, part : {"none"}]]
    BY <1>1, <1>2
  <2> QED BY <1>1, <1>3, <2>1, FlushInv

LEMMA LogCloseInv == ASSUME LogInv, LogClose PROVE LogInv'
<1> USE DEF LogInv, LogClose, Locked, Rotating, Writing, Printing, Idle
<1>1. /\ changed' \in Nat /\ Today' = Today
      /\ app' # Absent => app # Absent /\ changed' >= 3 /\ changed' <= time
      /\ \A d \in Days : backup[d] # Absent /\ d \notin early /\ app' # Absent => d < Day(changed')
      /\ buffer' = <<>> /\ (file # "open" => changed' = changed)
  BY FlushRange DEF Today
<1>2. LogTypeOK'
  BY <1>1 DEF LogTypeOK
<1>3. MutexInv'
  BY DEF MutexInv
<1>4. DateInv'
  BY <1>1 DEF DateInv
<1>5. OpenInv'
  BY <1>1 DEF OpenInv
<1>6. BackupInv'
  BY <1>1 DEF BackupInv, LogTypeOK
<1> QED BY <1>2, <1>3, <1>4, <1>5, <1>6

LEMMA HalfDayInv == ASSUME LogInv, HalfDay PROVE LogInv'
<1> USE DEF LogInv, HalfDay, Locked, Rotating, Writing, Printing
<1>1. Today \in Nat /\ Today' \in Nat /\ Today <= Today'
  BY DayRange DEF LogTypeOK, Today
<1>2. LogTypeOK'
  BY LogAssumption DEF LogTypeOK
<1>3. MutexInv'
  BY DEF MutexInv
<1>4. DateInv'
  BY <1>1 DEF DateInv, LogTypeOK
<1>5. OpenInv'
  BY DEF OpenInv
<1>6. BackupInv'
  BY <1>1 DEF BackupInv, Days, Day, GmDay
<1> QED BY <1>2, <1>3, <1>4, <1>5, <1>6

LEMMA LogStepInv == LogInv /\ [LogNext]_logVars /\ ~clockBack' => LogInv'
<1> SUFFICES ASSUME LogInv, [LogNext]_logVars, ~clockBack' PROVE LogInv'
  OBVIOUS
<1>1. ASSUME NEW t \in Thread, PrintUndefined(t) PROVE LogInv'
  BY <1>1, RestartInv DEF PrintUndefined
<1>2. CASE UNCHANGED logVars
  BY <1>2 DEF logVars, LogInv, LogTypeOK, MutexInv, DateInv, OpenInv, BackupInv, Today, Day, GmDay, Days
<1> QED
  BY <1>1, <1>2, EnterInv, CloseOldInv, RenameInv, OpenNewInv, PrintPartInv, FlushLineInv,
     LogSizeInv, LogCloseInv, HalfDayInv, RestartInv DEF LogNext, ClockSetBack

\* Only the clock that was set back is set back for ever.
LEMMA ClockStep ==
  ASSUME [LogNext]_logVars, ~clockBack' PROVE ~clockBack
BY DEF LogNext, logVars, Enter, CloseOld, Rename, OpenNew, PrintPart, PrintUndefined, Restart,
       FlushLine, LogSize, LogClose, HalfDay, ClockSetBack

\* As long as the clock is not set back the mutex, the dates, the FILE and the backups are as LogInv
\* says.
THEOREM LogInvariant == LogSpec => [](~clockBack => LogInv)
<1>1. LogInit => LogInv
  BY LogInitInv
<1>2. (~clockBack => LogInv) /\ [LogNext]_logVars => (~clockBack => LogInv)'
  BY LogStepInv, ClockStep
<1> QED BY <1>1, <1>2, PTL DEF LogSpec

\* Whatever the clock does: one thread at most is under the mutex, and only while one is may another
\* find no open FILE to write to.
LockInv ==
  /\ file \in {"null", "open", "closed"}
  /\ step \in [Thread -> {"idle"} \cup Locked \cup Writing]
  /\ MutexInv
  /\ file # "open" => \A t \in Thread : step[t] \in Writing => \E u \in Thread : step[u] \in Locked

LEMMA LockStep == LockInv /\ [LogNext]_logVars => LockInv'
<1> SUFFICES ASSUME LockInv, [LogNext]_logVars PROVE LockInv'
  OBVIOUS
<1> USE DEF LockInv, MutexInv, Locked, Rotating, Writing, Printing
<1>1. ASSUME NEW t \in Thread, Enter(t) PROVE LockInv'
  BY <1>1, LogAssumption DEF Enter, LockFree, MayCall, Idle
<1>2. ASSUME NEW t \in Thread, CloseOld(t) PROVE LockInv'
  BY <1>2 DEF CloseOld
<1>3. ASSUME NEW t \in Thread, Rename(t) PROVE LockInv'
  BY <1>3 DEF Rename, Forgotten
<1>4. ASSUME NEW t \in Thread, OpenNew(t) PROVE LockInv'
  BY <1>4 DEF OpenNew
<1>5. ASSUME NEW t \in Thread, PrintPart(t) PROVE LockInv'
  BY <1>5 DEF PrintPart, AfterPrint
<1>6. CASE Restart
  BY <1>6 DEF Restart
<1>7. ASSUME NEW t \in Thread, FlushLine(t) PROVE LockInv'
  BY <1>7 DEF FlushLine
<1>8. CASE LogSize \/ HalfDay \/ ClockSetBack \/ UNCHANGED logVars
  BY <1>8 DEF LogSize, HalfDay, ClockSetBack, logVars
<1>9. CASE LogClose
  BY <1>9 DEF LogClose, Idle
<1> QED BY <1>1, <1>2, <1>3, <1>4, <1>5, <1>6, <1>7, <1>8, <1>9 DEF LogNext, PrintUndefined

LEMMA LockInvariant == LogSpec => []LockInv
<1>1. LogInit => LockInv
  BY DEF LogInit, LockInv, MutexInv, Locked, Rotating, Writing, Printing
<1> QED BY <1>1, LockStep, PTL DEF LogSpec

-------------------------------------------------------------------------------
(* What the invariant is for *)

\* A print or flush meets a FILE that is not open only while another thread rotates the files, and
\* as long as the clock is not set back those of a later day than the one the line was begun on
\* (gfc_log.c:139 against 218-222).
THEOREM ClosedOnlyAtMidnightCorrect == LogSpec => []ClosedOnlyAtMidnight
<1>1. LockInv /\ (~clockBack => LogInv) => ClosedOnlyAtMidnight
  BY DEF LockInv, LogInv, OpenInv, ClosedOnlyAtMidnight, Locked
<1> QED BY <1>1, LogInvariant, LockInvariant, PTL

\* Who overwrites a backup.
LEMMA BackupStays ==
  ASSUME LogInv, LogNext, NEW d \in Days, backup[d] # Absent, backup'[d] # backup[d]
  PROVE  (file = "null" /\ GmDay(changed) < Day(changed)) \/ d \in early
<1> SUFFICES ASSUME d \notin early PROVE file = "null" /\ GmDay(changed) < Day(changed)
  OBVIOUS
<1>1. PICK t \in Thread : Rename(t)
  BY DEF LogNext, Enter, CloseOld, OpenNew, PrintPart, PrintUndefined, FlushLine, Restart,
         LogSize, LogClose, HalfDay, ClockSetBack
<1>2. d = date /\ step[t] \in Rotating
  BY <1>1 DEF Rename, LogInv, LogTypeOK, Rotating
<1>3. ~(file # "null" \/ GmDay(changed) >= Day(changed))
  BY <1>2 DEF LogInv, BackupInv, LogTypeOK
<1>4. GmDay(changed) \in Int /\ Day(changed) \in Int
  BY DEF LogInv, LogTypeOK, GmDay, Day
<1> QED BY <1>3, <1>4

\* No backup is overwritten while the clock only goes on, but by the first rotation of a process that
\* takes a file of today for yesterday's, or where it was made early (gfc_log.c:104-115, 143).
THEOREM BackupsKeptCorrect == LogSpec => BackupsKept
<1>1. (~clockBack => LogInv) /\ [LogNext]_logVars =>
        [\A d \in Days : backup[d] # Absent /\ backup'[d] # backup[d]
           => clockBack \/ (file = "null" /\ GmDay(changed) < Day(changed)) \/ d \in early]_logVars
  BY BackupStays
<1> QED BY <1>1, LogInvariant, PTL DEF LogSpec, BackupsKept

-------------------------------------------------------------------------------
(* The parts of lines *)

Part == [no : Nat, day : Nat, part : Printing]

\* All that was printed to app.log, on the disk or not.
Stream == IF app = Absent THEN buffer ELSE app \o buffer

\* The parts of a line that a thread has printed.
Done(st) == IF st \in Writing THEN Earlier[st] ELSE {}

\* Sequences of parts, and what is printed to a FILE that is not open or not on the disk.
FileInv ==
  /\ buffer \in Seq(Part)
  /\ app \in Seq(Part) \cup {Absent}
  /\ file # "open" => buffer = <<>>
  /\ file = "open" => app # Absent
  /\ time <= LastHalf

\* A line has a number of its own, and what was not flushed is of lines under way.
NumberInv ==
  /\ \A t \in Thread : ~Idle(t) => line[t].no \in 1..lines
  /\ \A l \in ended : l.no \in Nat /\ l.no <= lines
  /\ \A t, u \in Thread : ~Idle(t) /\ ~Idle(u) /\ line[t].no = line[u].no => t = u
  /\ \A t \in Thread, l \in ended : ~Idle(t) => l.no # line[t].no
  /\ app # Absent => \A i \in DOMAIN app : app[i].no <= lines
  /\ \A i \in DOMAIN buffer : \E t \in Thread : step[t] \in Writing /\ buffer[i].no = line[t].no

\* The lines of a careful program that are under way are of one day, and the FILE has of each
\* the parts that were printed.
PartsInv ==
  careful =>
    /\ \A t, u \in Thread : ~Idle(t) /\ ~Idle(u) => line[t].day = line[u].day
    /\ \A t \in Thread : ~Idle(t) => HasParts(Stream, line[t].no, Done(step[t]))

\* app.log was changed on the day of its date.
DayInv ==
  careful /\ ahead = 0 /\ ~Straddled /\ app # Absent /\ date # 0 => Day(changed) = date

\* A line is on the disk.
Stored(l) ==
  \/ app # Absent /\ Whole(app, l)
  \/ \E d \in Days : backup[d] # Absent /\ Whole(backup[d], l)

\* A line is on the disk where its day is looked for.
StoredByDay(l) ==
  \/ app # Absent /\ Whole(app, l) /\ Day(changed) = l.day
  \/ l.day \in Days /\ backup[l.day] # Absent /\ Whole(backup[l.day], l)

KeptInv ==
  careful /\ ahead = 0 =>
    \A l \in Returned : Stored(l) /\ (~Straddled => StoredByDay(l))

LineInv == LogInv /\ FileInv /\ NumberInv /\ PartsInv /\ DayInv /\ KeptInv

\* Parts of other lines behind a file take nothing from a line.
LEMMA HasPartsOthers ==
  ASSUME NEW s \in Seq(Part), NEW b \in Seq(Part), NEW n, NEW ps,
         \A i \in DOMAIN b : b[i].no # n, HasParts(s, n, ps)
  PROVE  HasParts(s \o b, n, ps)
<1> DEFINE f == s \o b
<1>1. /\ Len(f) = Len(s) + Len(b) /\ DOMAIN f = 1..Len(f)
      /\ DOMAIN s = 1..Len(s) /\ DOMAIN b = 1..Len(b) /\ Len(s) \in Nat /\ Len(b) \in Nat
      /\ \A i \in 1..Len(s) : f[i] = s[i]
      /\ \A i \in Len(s)+1..Len(f) : f[i] = b[i - Len(s)]
  OBVIOUS
<1> HIDE DEF f
<1>2. \A i \in Len(s)+1..Len(f) : f[i].no # n
  <2> TAKE i \in Len(s)+1..Len(f)
  <2>1. i - Len(s) \in DOMAIN b
    BY <1>1
  <2> QED BY <1>1, <2>1
<1>3. {i \in DOMAIN f : f[i].no = n} = {i \in DOMAIN s : s[i].no = n}
  BY <1>1, <1>2
<1>4. \A i \in {j \in DOMAIN s : s[j].no = n} : f[i] = s[i]
  BY <1>1
<1>5. HasParts(f, n, ps)
  BY <1>3, <1>4 DEF HasParts
<1> QED BY <1>5 DEF f

LEMMA HasPartsOther ==
  ASSUME NEW s \in Seq(Part), NEW x \in Part, NEW n, NEW ps, x.no # n, HasParts(s, n, ps)
  PROVE  HasParts(Append(s, x), n, ps)
<1>1. <<x>> \in Seq(Part) /\ Append(s, x) = s \o <<x>> /\ \A i \in DOMAIN <<x>> : <<x>>[i].no # n
  OBVIOUS
<1> QED BY <1>1, HasPartsOthers

\* The next part of a line.
LEMMA HasPartsNext ==
  ASSUME NEW s \in Seq(Part), NEW x \in Part, x.part \in Printing,
         HasParts(s, x.no, Earlier[x.part])
  PROVE  HasParts(Append(s, x), x.no, Earlier[x.part] \cup {x.part})
<1> DEFINE f == Append(s, x)
           m == Len(s) + 1
           n == x.no
           P == {i \in DOMAIN s : s[i].no = n}
           E == Earlier[x.part]
<1>1. /\ DOMAIN f = DOMAIN s \cup {m} /\ m \notin DOMAIN s /\ f[m] = x
      /\ \A i \in DOMAIN s : f[i] = s[i] /\ i < m /\ i \in Nat
      /\ m \in Nat
  OBVIOUS
<1> HIDE DEF f, m
<1>2. {i \in DOMAIN f : f[i].no = n} = P \cup {m}
  BY <1>1
<1>3. {s[i].part : i \in P} = E /\ \A i, j \in P : i < j => s[i].part \in Earlier[s[j].part]
  BY DEF HasParts
<1> HIDE DEF E
<1>4. \A i \in P : f[i] = s[i] /\ i < m /\ i \in Nat
  BY <1>1
<1> HIDE DEF P
<1>5. {f[i].part : i \in P \cup {m}} = E \cup {x.part}
  BY <1>1, <1>3, <1>4
<1>6. \A i, j \in P \cup {m} : i < j => f[i].part \in Earlier[f[j].part]
  <2> TAKE i, j \in P \cup {m}
  <2> HAVE i < j
  <2>1. CASE j = m
    <3>1. i \in P
      BY <1>1, <2>1
    <3>2. f[i].part \in E
      BY <1>3, <1>4, <3>1
    <3> QED BY <1>1, <2>1, <3>2 DEF E
  <2>2. CASE j # m
    <3>1. i \in P /\ j \in P
      BY <1>1, <1>4, <2>2
    <3> QED BY <1>3, <1>4, <3>1
  <2> QED BY <2>1, <2>2
<1> QED BY <1>2, <1>5, <1>6 DEF HasParts, f, n, E

\* What a print puts into the buffer.
LEMMA PrintedPart ==
  ASSUME LogTypeOK, NEW t \in Thread, step[t] \in Printing,
         NEW x, x = [line[t] EXCEPT !.part = step[t]]
  PROVE  x \in Part /\ x.no = line[t].no /\ x.part = step[t]
<1>1. line[t] \in [no : Nat, day : Nat, part : {"none"}]
  BY DEF LogTypeOK
<1>2. x = [no |-> line[t].no, day |-> line[t].day, part |-> step[t]]
  BY <1>1
<1> QED BY <1>1, <1>2 DEF Part

LEMMA HasNoParts ==
  ASSUME NEW s, NEW n, \A i \in DOMAIN s : s[i].no # n
  PROVE  HasParts(s, n, {})
BY DEF HasParts

\* Flushing changes where the parts are, not what they are.
LEMMA FlushStream ==
  ASSUME FileInv, Flush
  PROVE  /\ buffer' = <<>> /\ app' \in Seq(Part) \cup {Absent}
         /\ app' = Absent <=> app = Absent
         /\ app # Absent => app' = Stream
         /\ Stream' = Stream
<1>0. Absent \notin Seq(Part)
  BY AbsentAssumption DEF Part
<1>1. CASE app = Absent
  <2>1. buffer = <<>> /\ app' = Absent /\ buffer' = <<>>
    BY <1>1 DEF FileInv, Flush
  <2> QED BY <1>1, <2>1 DEF Stream
<1>2. CASE app # Absent
  <2>1. app \in Seq(Part) /\ buffer \in Seq(Part)
    BY <1>2 DEF FileInv
  <2>2. app \o buffer \in Seq(Part)
    BY <2>1
  <2>3. app \o <<>> = app
    BY <2>1
  <2>4. app' = app \o buffer /\ buffer' = <<>>
    BY <1>2, <2>3 DEF Flush
  <2> DEFINE f == app \o buffer
  <2>5. f \in Seq(Part)
    BY <2>2
  <2> HIDE DEF f
  <2>6. f # Absent /\ f \o <<>> = f
    BY <1>0, <2>5
  <2>7. app' = f /\ Stream = f
    BY <1>2, <2>4 DEF Stream, f
  <2> QED BY <1>2, <2>4, <2>5, <2>6, <2>7 DEF Stream
<1> QED BY <1>1, <1>2

\* A thread of a careful program that prints or flushes finds the FILE open.
LEMMA CarefulOpen ==
  ASSUME LogInv, PartsInv, careful, NEW t \in Thread, step[t] \in Writing
  PROVE  file = "open"
<1> SUFFICES ASSUME file # "open" PROVE FALSE
  OBVIOUS
<1>1. PICK u \in Thread : step[u] \in Locked /\ line[t].day < line[u].day
  BY DEF LogInv, OpenInv
<1>2. ~Idle(t) /\ ~Idle(u)
  BY <1>1 DEF Idle, Locked, Rotating, Writing, Printing
<1>3. line[t].day = line[u].day /\ line[t].day \in Nat
  BY <1>2 DEF PartsInv, LogInv, LogTypeOK
<1> QED BY <1>1, <1>3

\* No other thread of a careful program is in a call while the files are rotated.
LEMMA RotatesAlone ==
  ASSUME LogInv, PartsInv, careful, NEW t \in Thread, step[t] \in Rotating
  PROVE  \A u \in Thread : ~Idle(u) => u = t
<1> SUFFICES ASSUME NEW u \in Thread, ~Idle(u), u # t PROVE FALSE
  OBVIOUS
<1>1. step[u] \in Writing
  BY DEF LogInv, LogTypeOK, MutexInv, Locked, Rotating, Writing, Printing, Idle
<1>2. line[u].day <= date /\ date # line[t].day /\ (date > line[t].day => file = "null")
  BY <1>1 DEF LogInv, DateInv
<1>3. ~Idle(t) /\ line[t].day = line[u].day
  BY DEF PartsInv, Idle, Rotating
<1>4. file = "open"
  BY <1>1, CarefulOpen
<1> QED BY <1>2, <1>3, <1>4 DEF LogInv, LogTypeOK

-------------------------------------------------------------------------------
(* Every step keeps the lines *)

LEMMA FileStep ==
  ASSUME LineInv, [LogNext]_logVars, ~clockBack'
  PROVE  FileInv'
<1>0. FileInv /\ LogTypeOK /\ MutexInv
  BY DEF LineInv, LogInv
<1>1. CASE Flush /\ UNCHANGED time /\ (file' = file \/ file' # "open")
  <2>1. /\ buffer' = <<>> /\ app' \in Seq(Part) \cup {Absent}
        /\ app' = Absent <=> app = Absent
    BY <1>0, <1>1, FlushStream
  <2>2. <<>> \in Seq(Part)
    OBVIOUS
  <2> QED BY <1>0, <1>1, <2>1, <2>2 DEF FileInv
<1>2. CASE UNCHANGED <<time, app, buffer, file>>
  BY <1>0, <1>2 DEF FileInv
<1>3. ASSUME NEW t \in Thread, Rename(t) PROVE FileInv'
  <2>1. file # "open" /\ buffer = <<>>
    BY <1>0, <1>3 DEF Rename, MutexInv, FileInv, Locked, Rotating
  <2> QED BY <1>0, <1>3, <2>1 DEF Rename, Forgotten, FileInv
<1>4. ASSUME NEW t \in Thread, OpenNew(t) PROVE FileInv'
  <2>a. <<>> \in Seq(Part)
    OBVIOUS
  <2>b. Absent \notin Seq(Part)
    BY AbsentAssumption DEF Part
  <2>1. <<>> \in Seq(Part) /\ <<>> # Absent
    BY <2>a, <2>b
  <2>2. file' = "open" /\ app' # Absent /\ app' \in Seq(Part)
    BY <1>0, <1>4, <2>1 DEF OpenNew, FileInv, MutexInv, Locked, LogTypeOK
  <2> QED BY <1>0, <1>4, <2>2 DEF OpenNew, FileInv
<1>5. ASSUME NEW t \in Thread, PrintPart(t) PROVE FileInv'
  <2>1. CASE file = "open"
    <3> DEFINE x == [line[t] EXCEPT !.part = step[t]]
    <3>a. step[t] \in Printing /\ buffer' = Append(buffer, x)
      BY <1>5, <2>1 DEF PrintPart
    <3>1. x \in Part
      BY <1>0, <3>a, PrintedPart
    <3> HIDE DEF x
    <3>2. buffer' \in Seq(Part)
      BY <1>0, <3>a, <3>1 DEF FileInv
    <3> QED BY <1>0, <1>5, <2>1, <3>2 DEF PrintPart, FileInv
  <2>2. CASE file # "open"
    BY <1>2, <1>5, <2>2 DEF PrintPart
  <2> QED BY <2>1, <2>2
<1>6. CASE Restart
  <2>1. CASE Flush
    BY <1>1, <1>6, <2>1 DEF Restart
  <2>2. CASE buffer' = <<>> /\ UNCHANGED <<app, changed>>
    <3>1. <<>> \in Seq(Part)
      OBVIOUS
    <3> QED BY <1>0, <1>6, <2>2, <3>1 DEF Restart, FileInv
  <2> QED BY <1>6, <2>1, <2>2 DEF Restart
<1>7. CASE HalfDay
  BY <1>0, <1>7, LogAssumption DEF HalfDay, FileInv, LogTypeOK
<1>8. ASSUME NEW t \in Thread, CloseOld(t) PROVE FileInv'
  BY <1>1, <1>8 DEF CloseOld
<1>9. ASSUME NEW t \in Thread, FlushLine(t) PROVE FileInv'
  BY <1>1, <1>2, <1>9 DEF FlushLine
<1>10. CASE LogSize \/ LogClose
  BY <1>1, <1>10 DEF LogSize, LogClose
<1>11. ASSUME NEW t \in Thread, Enter(t) PROVE FileInv'
  BY <1>2, <1>11 DEF Enter
<1>12. CASE UNCHANGED logVars
  BY <1>2, <1>12 DEF logVars
<1> QED BY <1>3, <1>4, <1>5, <1>6, <1>7, <1>8, <1>9, <1>10, <1>11, <1>12 DEF LogNext, PrintUndefined, ClockSetBack

\* The numbers in app.log after a step are numbers of lines.
LEMMA AppNumbers ==
  ASSUME FileInv, NumberInv, Flush
  PROVE  app' # Absent => \A i \in DOMAIN app' : app'[i].no <= lines
<1> SUFFICES ASSUME app' # Absent, NEW i \in DOMAIN app' PROVE app'[i].no <= lines
  OBVIOUS
<1>1. app # Absent /\ app' = app \o buffer /\ app \in Seq(Part) /\ buffer \in Seq(Part)
  BY FlushStream DEF FileInv, Stream
<1>2. \A j \in DOMAIN buffer : buffer[j].no <= lines
  BY DEF NumberInv, Idle, Writing, Printing
<1>3. \A j \in DOMAIN app : app[j].no <= lines
  BY <1>1 DEF NumberInv
<1>4. CASE i \in 1..Len(app)
  BY <1>1, <1>3, <1>4
<1>5. CASE i \notin 1..Len(app)
  <2>1. i - Len(app) \in DOMAIN buffer /\ app'[i] = buffer[i - Len(app)]
    BY <1>1, <1>5
  <2> QED BY <1>2, <2>1
<1> QED BY <1>4, <1>5

LEMMA NumberStep ==
  ASSUME LineInv, [LogNext]_logVars, ~clockBack'
  PROVE  NumberInv'
<1>0. FileInv /\ NumberInv /\ LogTypeOK /\ MutexInv
  BY DEF LineInv, LogInv
<1> USE DEF Idle, Writing, Printing
\* No thread begins a line, and a thread that ends one leaves no part in the buffer.
<1>1. ASSUME UNCHANGED <<line, lines, ended>>,
             \A u \in Thread : /\ step'[u] = "idle" <=> step[u] = "idle"
                               /\ step[u] \in Writing => step'[u] \in Writing,
             app' # Absent => \A i \in DOMAIN app' : app'[i].no <= lines,
             \A i \in DOMAIN buffer' : \E t \in Thread :
                step'[t] \in Writing /\ buffer'[i].no = line[t].no
      PROVE  NumberInv'
  BY <1>0, <1>1 DEF NumberInv
<1>2. CASE Flush /\ UNCHANGED <<line, lines, ended>> /\
           \A u \in Thread : /\ step'[u] = "idle" <=> step[u] = "idle"
                             /\ step[u] \in Writing => step'[u] \in Writing
  <2>1. DOMAIN buffer' = {}
    BY <1>2 DEF Flush
  <2>2. app' # Absent => \A i \in DOMAIN app' : app'[i].no <= lines
    BY <1>0, <1>2, AppNumbers
  <2> QED BY <1>1, <1>2, <2>1, <2>2
<1>3. CASE UNCHANGED <<line, lines, ended, step, app, buffer>>
  BY <1>0, <1>3 DEF NumberInv
<1>4. ASSUME NEW t \in Thread, Rename(t) PROVE NumberInv'
  <2>1. file # "open" /\ buffer = <<>> /\ buffer' = buffer
    BY <1>0, <1>4 DEF Rename, MutexInv, FileInv, Locked, Rotating
  <2>2. DOMAIN buffer' = {}
    BY <2>1
  <2> QED BY <1>0, <1>1, <1>4, <2>2 DEF Rename, LogTypeOK
<1>5. ASSUME NEW t \in Thread, OpenNew(t) PROVE NumberInv'
  <2>1. app' # Absent => \A i \in DOMAIN app' : app'[i].no <= lines
    BY <1>0, <1>5 DEF OpenNew, NumberInv
  <2>2. /\ UNCHANGED <<line, lines, ended, buffer>>
        /\ \A u \in Thread : /\ step'[u] = "idle" <=> step[u] = "idle"
                             /\ step[u] \in Writing => step'[u] \in Writing
    BY <1>0, <1>5 DEF OpenNew, LogTypeOK
  <2>3. \A i \in DOMAIN buffer' : \E u \in Thread :
           step'[u] \in Writing /\ buffer'[i].no = line[u].no
    BY <1>0, <2>2 DEF NumberInv
  <2> QED BY <1>1, <2>1, <2>2, <2>3
<1>6. ASSUME NEW t \in Thread, PrintPart(t) PROVE NumberInv'
  <2> DEFINE x == [line[t] EXCEPT !.part = step[t]]
  <2>a. step[t] \in Printing
    BY <1>6 DEF PrintPart
  <2>1. x \in Part /\ x.no = line[t].no
    BY <1>0, <2>a, PrintedPart
  <2>2. /\ UNCHANGED <<line, lines, ended, app>>
        /\ step'[t] \in Writing
        /\ \A u \in Thread : /\ step'[u] = "idle" <=> step[u] = "idle"
                             /\ step[u] \in Writing => step'[u] \in Writing
    BY <1>0, <1>6 DEF PrintPart, LogTypeOK, AfterPrint
  <2>3. buffer' = buffer \/ buffer' = Append(buffer, x)
    BY <1>6 DEF PrintPart
  <2> HIDE DEF x
  <2>4. \A i \in DOMAIN buffer' : buffer'[i] = x \/ (i \in DOMAIN buffer /\ buffer'[i] = buffer[i])
    BY <1>0, <2>1, <2>3 DEF FileInv
  <2>5. \A i \in DOMAIN buffer' : \E u \in Thread :
           step'[u] \in Writing /\ buffer'[i].no = line[u].no
    <3> TAKE i \in DOMAIN buffer'
    <3>1. CASE buffer'[i] = x
      BY <2>1, <2>2, <3>1
    <3>2. CASE i \in DOMAIN buffer /\ buffer'[i] = buffer[i]
      <4>1. PICK u \in Thread : step[u] \in Writing /\ buffer[i].no = line[u].no
        BY <1>0, <3>2 DEF NumberInv
      <4> QED BY <2>2, <3>2, <4>1
    <3> QED BY <2>4, <3>1, <3>2
  <2>6. app' # Absent => \A i \in DOMAIN app' : app'[i].no <= lines
    BY <1>0, <2>2 DEF NumberInv
  <2> QED BY <1>1, <2>2, <2>5, <2>6
\* Threads end their lines, and nothing is left in the buffer.
<1>7. ASSUME lines' = lines, app' # Absent => \A i \in DOMAIN app' : app'[i].no <= lines,
             DOMAIN buffer' = {},
             NEW T \in SUBSET Thread,
             \A u \in T : step'[u] = "idle",
             \A u \in Thread \ T : step'[u] = step[u] /\ line'[u] = line[u],
             \A l \in ended' : l \in ended \/ \E u \in T : step[u] # "idle" /\ l.no = line[u].no
      PROVE  NumberInv'
  <2>0. lines \in Nat
    BY <1>0 DEF LogTypeOK
  <2>1. \A u \in Thread : step'[u] # "idle" => u \notin T /\ step[u] # "idle" /\ line'[u] = line[u]
    BY <1>7
  <2>2. \A l \in ended' : l.no \in Nat /\ l.no <= lines
    BY <1>0, <1>7, <2>0 DEF NumberInv
  <2>3. \A u \in Thread, l \in ended' : step'[u] # "idle" => l.no # line'[u].no
    <3> SUFFICES ASSUME NEW u \in Thread, NEW l \in ended', step'[u] # "idle"
                 PROVE  l.no # line'[u].no
      OBVIOUS
    <3>1. CASE l \in ended
      BY <1>0, <2>1, <3>1 DEF NumberInv
    <3>2. CASE \E w \in T : step[w] # "idle" /\ l.no = line[w].no
      <4>1. PICK w \in T : step[w] # "idle" /\ l.no = line[w].no
        BY <3>2
      <4>2. w \in Thread /\ w # u
        BY <2>1
      <4> QED BY <1>0, <2>1, <4>1, <4>2 DEF NumberInv
    <3> QED BY <1>7, <3>1, <3>2
  <2>4. \A u, w \in Thread : step'[u] # "idle" /\ step'[w] # "idle" /\ line'[u].no = line'[w].no => u = w
    BY <1>0, <2>1 DEF NumberInv
  <2>5. \A u \in Thread : step'[u] # "idle" => line'[u].no \in 1..lines
    BY <1>0, <2>1 DEF NumberInv
  <2> QED BY <1>7, <2>2, <2>3, <2>4, <2>5 DEF NumberInv
<1>8. CASE Restart
  <2>1. app' # Absent => \A i \in DOMAIN app' : app'[i].no <= lines
    <3>1. CASE Flush
      BY <1>0, <3>1, AppNumbers
    <3>2. CASE UNCHANGED app
      BY <1>0, <3>2 DEF NumberInv
    <3> QED BY <1>8, <3>1, <3>2 DEF Restart
  <2>2. buffer' = <<>>
    BY <1>8 DEF Restart, Flush
  <2>3. DOMAIN buffer' = {} /\ lines' = lines /\ \A u \in Thread : step'[u] = "idle"
    BY <1>8, <2>2 DEF Restart
  <2>4. \A l \in ended' : l \in ended \/ \E u \in Thread : step[u] # "idle" /\ l.no = line[u].no
    BY <1>8 DEF Restart, End
  <2> QED BY <1>7, <2>1, <2>3, <2>4
<1>9. ASSUME NEW t \in Thread, FlushLine(t) PROVE NumberInv'
  <2>1. app' # Absent => \A i \in DOMAIN app' : app'[i].no <= lines
    <3>1. CASE Flush
      BY <1>0, <3>1, AppNumbers
    <3>2. CASE UNCHANGED app
      BY <1>0, <3>2 DEF NumberInv
    <3> QED BY <1>9, <3>1, <3>2 DEF FlushLine
  <2>2. buffer' = <<>>
    BY <1>0, <1>9 DEF FlushLine, Flush, FileInv
  <2>3. DOMAIN buffer' = {} /\ lines' = lines /\ step[t] = "flush" /\ step'[t] = "idle"
        /\ \A u \in Thread \ {t} : step'[u] = step[u] /\ line'[u] = line[u]
    BY <1>0, <1>9, <2>2 DEF FlushLine, LogTypeOK
  <2>4. \A l \in ended' : l \in ended \/ l.no = line[t].no
    BY <1>9 DEF FlushLine, End
  <2>5. {t} \in SUBSET Thread /\ \A u \in {t} : step'[u] = "idle"
    BY <2>3
  <2>6. \A l \in ended' : l \in ended \/ \E u \in {t} : step[u] # "idle" /\ l.no = line[u].no
    BY <2>3, <2>4
  <2> QED BY <1>7, <2>1, <2>3, <2>5, <2>6
<1>10. ASSUME NEW t \in Thread, Enter(t) PROVE NumberInv'
  <2>1. /\ UNCHANGED <<app, buffer, ended>> /\ lines' = lines + 1 /\ lines \in Nat
        /\ step[t] = "idle" /\ step'[t] \notin Writing
        /\ line'[t].no = lines + 1
        /\ \A u \in Thread : u # t => step'[u] = step[u] /\ line'[u] = line[u]
    BY <1>0, <1>10 DEF Enter, LogTypeOK
  <2>2. \A i \in DOMAIN buffer' : \E u \in Thread :
           step'[u] \in Writing /\ buffer'[i].no = line'[u].no
    <3> TAKE i \in DOMAIN buffer'
    <3>1. PICK u \in Thread : step[u] \in Writing /\ buffer[i].no = line[u].no
      BY <1>0, <2>1 DEF NumberInv
    <3> QED BY <2>1, <3>1
  <2>3. \A u \in Thread : step'[u] # "idle" /\ u # t => line'[u].no \in 1..lines
    BY <1>0, <2>1 DEF NumberInv
  <2>4. app' # Absent => \A i \in DOMAIN app' : app'[i].no <= lines'
    <3> SUFFICES ASSUME app # Absent, NEW i \in DOMAIN app PROVE app[i].no <= lines + 1
      BY <2>1
    <3>1. app[i].no <= lines /\ app[i].no \in Nat
      <4>1. app \in Seq(Part) /\ app[i].no <= lines
        BY <1>0 DEF NumberInv, FileInv
      <4>2. app[i] \in Part
        BY <4>1
      <4> QED BY <4>1, <4>2 DEF Part
    <3> QED BY <2>1, <3>1
  <2>5. \A l \in ended' : l.no \in Nat /\ l.no <= lines
    BY <1>0, <2>1 DEF NumberInv
  <2>6. \A u \in Thread, l \in ended' : step'[u] # "idle" => l.no # line'[u].no
    <3> TAKE u \in Thread, l \in ended'
    <3>1. CASE u = t
      BY <2>1, <2>5, <3>1
    <3>2. CASE u # t
      BY <1>0, <2>1, <3>2 DEF NumberInv
    <3> QED BY <3>1, <3>2
  <2>7. \A u, w \in Thread : step'[u] # "idle" /\ step'[w] # "idle" /\ line'[u].no = line'[w].no => u = w
    <3> SUFFICES ASSUME NEW u \in Thread, NEW w \in Thread, step'[u] # "idle", step'[w] # "idle",
                        line'[u].no = line'[w].no
                 PROVE  u = w
      OBVIOUS
    <3>1. CASE u # t /\ w # t
      BY <1>0, <2>1, <3>1 DEF NumberInv
    <3>2. CASE u = t \/ w = t
      BY <2>1, <2>3, <3>2
    <3> QED BY <3>1, <3>2
  <2>8. \A u \in Thread : step'[u] # "idle" => line'[u].no \in 1..lines'
    BY <2>1, <2>3
  <2>9. \A l \in ended' : l.no \in Nat /\ l.no <= lines'
    BY <2>1, <2>5
  <2> QED BY <2>2, <2>4, <2>6, <2>7, <2>8, <2>9 DEF NumberInv
<1>11. ASSUME NEW t \in Thread, CloseOld(t) PROVE NumberInv'
  BY <1>0, <1>2, <1>11 DEF CloseOld, LogTypeOK
<1>12. CASE LogSize \/ LogClose
  BY <1>0, <1>2, <1>12 DEF LogSize, LogClose, LogTypeOK
<1>13. CASE HalfDay \/ UNCHANGED logVars
  BY <1>3, <1>13 DEF HalfDay, logVars
<1> QED BY <1>4, <1>5, <1>6, <1>8, <1>9, <1>10, <1>11, <1>12, <1>13 DEF LogNext, PrintUndefined, ClockSetBack

\* A line that ends ended on another day if it was under way on one.
LEMMA StraddledStep ==
  ASSUME LogInv, [LogNext]_logVars, ~clockBack', Straddled
  PROVE  Straddled'
<1>0. LogTypeOK /\ DateInv /\ Today \in Nat
  BY DayRange DEF LogInv, LogTypeOK, Today
<1>1. \A l \in ended : l \in ended'
  BY DEF LogNext, ClockSetBack, logVars, Enter, CloseOld, Rename, OpenNew, PrintPart, PrintUndefined, Restart,
         FlushLine, LogSize, LogClose, HalfDay
<1>2. CASE \E l \in ended : l.last # l.day
  BY <1>1, <1>2 DEF Straddled
<1>3. ASSUME NEW t \in Thread, ~Idle(t), line[t].day # Today PROVE Straddled'
  <2>1. line[t].day \in Nat /\ line[t].day < Today
    <3>1. line[t].day <= Today
      BY <1>0, <1>3 DEF DateInv, Idle
    <3>2. line[t].day \in Nat
      BY <1>0 DEF LogTypeOK
    <3> QED BY <1>0, <1>3, <3>1, <3>2
  <2>2. CASE step'[t] # "idle" /\ line'[t] = line[t] /\ Today' = Today
    BY <1>3, <2>2 DEF Straddled, Idle
  <2>3. ASSUME NEW ok, End(t, ok) \in ended' PROVE Straddled'
    BY <1>3, <2>3 DEF Straddled, End
  <2>4. CASE Restart
    <3>1. End(t, FALSE) \in ended'
      BY <1>3, <2>4 DEF Restart
    <3> QED BY <2>3, <3>1
  <2>5. ASSUME NEW u \in Thread, FlushLine(u) PROVE Straddled'
    <3>1. CASE u = t
      BY <2>3, <2>5, <3>1 DEF FlushLine
    <3>2. CASE u # t
      BY <1>0, <1>3, <2>2, <2>5, <3>2 DEF FlushLine, LogTypeOK, Idle, Today
    <3> QED BY <3>1, <3>2
  <2>6. CASE HalfDay
    <3>1. Today <= Today' /\ Today' \in Nat
      BY <1>0, <2>6, DayRange DEF HalfDay, LogTypeOK, Today
    <3>2. step'[t] # "idle" /\ line'[t] = line[t]
      BY <1>3, <2>6 DEF HalfDay, Idle
    <3>3. line'[t].day # Today'
      BY <1>0, <2>1, <3>1, <3>2
    <3> QED BY <3>2, <3>3 DEF Straddled, Idle
  <2>7. ASSUME NEW u \in Thread, Enter(u) PROVE Straddled'
    BY <1>0, <1>3, <2>2, <2>7 DEF Enter, LogTypeOK, Idle, Today
  <2>8. ASSUME NEW u \in Thread, CloseOld(u) \/ Rename(u) \/ OpenNew(u) PROVE Straddled'
    BY <1>0, <1>3, <2>2, <2>8 DEF CloseOld, Rename, OpenNew, LogTypeOK, Idle, Today
  <2>9. ASSUME NEW u \in Thread, PrintPart(u) PROVE Straddled'
    BY <1>0, <1>3, <2>2, <2>9 DEF PrintPart, AfterPrint, Printing, LogTypeOK, Idle, Today
  <2>10. CASE LogSize \/ LogClose \/ UNCHANGED logVars
    BY <1>3, <2>2, <2>10 DEF LogSize, LogClose, logVars, Idle, Today
  <2> QED BY <2>4, <2>5, <2>6, <2>7, <2>8, <2>9, <2>10 DEF LogNext, PrintUndefined, ClockSetBack
<1> QED BY <1>2, <1>3 DEF Straddled

\* A print that is not flushed is of a line under way, and so of the day of the date.
LEMMA FlushDay ==
  ASSUME LineInv, Flush, UNCHANGED time, ahead = 0, ~Straddled, buffer # <<>>
  PROVE  date # 0 /\ Day(changed') = date
<1>1. 1 \in DOMAIN buffer
  BY DEF LineInv, FileInv
<1>2. PICK t \in Thread : step[t] \in Writing
  BY <1>1 DEF LineInv, NumberInv
<1>3. line[t].day = Today
  BY <1>2 DEF Straddled, Idle, Writing, Printing
<1>4. date # 0 /\ line[t].day <= date /\ date <= Today /\ date \in Nat /\ Today \in Nat
  <2>1. LogTypeOK /\ DateInv
    BY DEF LineInv, LogInv
  <2>2. step[t] # "idle"
    BY <1>2 DEF Writing, Printing
  <2>3. date # 0 /\ line[t].day <= date /\ date <= Today
    BY <1>2, <2>1, <2>2 DEF DateInv
  <2> QED BY <2>1, <2>3, DayRange DEF LogTypeOK, Today
<1>5. Day(changed') = Today
  BY DEF Flush, Today
<1> QED BY <1>3, <1>4, <1>5

LEMMA DayStep ==
  ASSUME LineInv, [LogNext]_logVars, ~clockBack'
  PROVE  DayInv'
<1>0. LogInv /\ LogTypeOK /\ DateInv /\ MutexInv /\ DayInv /\ FileInv
  BY DEF LineInv, LogInv
<1> SUFFICES ASSUME careful', ahead' = 0, ~Straddled', app' # Absent, date' # 0
             PROVE  Day(changed') = date'
  BY DEF DayInv
<1>1. careful /\ ahead = 0 /\ ~Straddled
  <2>1. careful' = careful /\ ahead' = ahead
    BY DEF LogNext, ClockSetBack, logVars, Enter, CloseOld, Rename, OpenNew, PrintPart, PrintUndefined, Restart,
           FlushLine, LogSize, LogClose, HalfDay
  <2> QED BY <1>0, <2>1, StraddledStep
<1>2. CASE UNCHANGED <<app, changed, date>>
  BY <1>0, <1>1, <1>2 DEF DayInv
<1>3. CASE Flush /\ UNCHANGED <<time, date>>
  <2>1. app # Absent
    BY <1>0, <1>3, FlushStream
  <2>2. CASE buffer = <<>>
    BY <1>0, <1>1, <1>3, <2>1, <2>2 DEF DayInv, Flush
  <2>3. CASE buffer # <<>>
    BY <1>1, <1>3, <2>3, FlushDay
  <2> QED BY <2>2, <2>3
<1>4. ASSUME NEW t \in Thread, Enter(t) PROVE Day(changed') = date'
  <2>1. app # Absent /\ changed' = changed /\ date' = FileDate
    BY <1>4 DEF Enter
  <2>2. CASE date # 0
    BY <1>0, <1>1, <2>1, <2>2 DEF DayInv, FileDate
  <2>3. CASE date = 0
    <3>1. changed >= 3 /\ changed \in Nat
      BY <1>0, <2>1 DEF DateInv, LogTypeOK
    <3>2. FileDate = GmDay(changed) /\ GmDay(changed) = Day(changed)
      BY <1>0, <1>1, <2>1, <2>3, <3>1, GmDayRange DEF FileDate, LogTypeOK
    <3> QED BY <2>1, <3>2
  <2> QED BY <2>2, <2>3
<1>5. ASSUME NEW t \in Thread, OpenNew(t) PROVE Day(changed') = date'
  <2>1. CASE UNCHANGED <<app, changed>>
    BY <1>2, <1>5, <2>1 DEF OpenNew
  <2>2. CASE changed' = time
    <3>1. line[t].day = date /\ line[t].day = Today
      BY <1>0, <1>1, <1>5 DEF OpenNew, DateInv, Straddled, Idle
    <3> QED BY <1>5, <2>2, <3>1 DEF OpenNew, Today
  <2> QED BY <1>5, <2>1, <2>2 DEF OpenNew
<1> QED BY <1>2, <1>3, <1>4, <1>5
        DEF LogNext, ClockSetBack, logVars, CloseOld, Rename, PrintPart, PrintUndefined, Restart, FlushLine,
            LogSize, LogClose, HalfDay

LEMMA PartsStep ==
  ASSUME LineInv, [LogNext]_logVars, ~clockBack'
  PROVE  PartsInv'
<1>0. LogInv /\ LogTypeOK /\ MutexInv /\ FileInv /\ NumberInv /\ PartsInv
  BY DEF LineInv, LogInv
<1> SUFFICES ASSUME careful' PROVE PartsInv'
  BY DEF PartsInv
<1>1. careful
  BY DEF LogNext, ClockSetBack, logVars, Enter, CloseOld, Rename, OpenNew, PrintPart, PrintUndefined, Restart,
         FlushLine, LogSize, LogClose, HalfDay
<1>2. /\ \A t, u \in Thread : ~Idle(t) /\ ~Idle(u) => line[t].day = line[u].day
      /\ \A t \in Thread : ~Idle(t) => HasParts(Stream, line[t].no, Done(step[t]))
  BY <1>0, <1>1 DEF PartsInv
\* No thread begins a line or prints.
<1>3. ASSUME Stream' = Stream,
             \A u \in Thread : step'[u] # "idle" =>
               step[u] # "idle" /\ line'[u] = line[u] /\ Done(step'[u]) = Done(step[u])
      PROVE  PartsInv'
  BY <1>2, <1>3 DEF PartsInv, Idle
<1>4. Flush => Stream' = Stream
  BY <1>0, FlushStream
<1>5. UNCHANGED <<app, buffer>> => Stream' = Stream
  BY DEF Stream
<1>6. ASSUME NEW t \in Thread, Enter(t) PROVE PartsInv'
  <2>1. /\ Stream' = Stream /\ line'[t].no = lines + 1 /\ line'[t].day = Today
        /\ step[t] = "idle" /\ Done(step'[t]) = {}
        /\ \A u \in Thread : u # t => step'[u] = step[u] /\ line'[u] = line[u]
        /\ \A u \in Thread : Idle(u) \/ line[u].day = Today
    BY <1>0, <1>1, <1>5, <1>6 DEF Enter, LogTypeOK, MayCall, Done, Writing, Printing, Idle
  <2>2. \A t1, u \in Thread : ~Idle(t1)' /\ ~Idle(u)' => line'[t1].day = line'[u].day
    <3>1. \A u \in Thread : ~Idle(u)' => line'[u].day = Today
      BY <2>1 DEF Idle
    <3> QED BY <3>1
  <2>3. \A i \in DOMAIN Stream : Stream[i].no # lines + 1
    <3>1. lines \in Nat
      BY <1>0 DEF LogTypeOK
    <3>2. \A i \in DOMAIN buffer : buffer[i].no # lines + 1
      <4> TAKE i \in DOMAIN buffer
      <4>1. PICK u \in Thread : step[u] \in Writing /\ buffer[i].no = line[u].no
        BY <1>0 DEF NumberInv
      <4>2. line[u].no \in 1..lines
        BY <1>0, <4>1 DEF NumberInv, Idle, Writing, Printing
      <4> QED BY <3>1, <4>1, <4>2
    <3>3. CASE app = Absent
      BY <3>2, <3>3 DEF Stream
    <3>4. CASE app # Absent
      <4>1. app \in Seq(Part) /\ buffer \in Seq(Part) /\ Stream = app \o buffer
        BY <1>0, <3>4 DEF FileInv, Stream
      <4>2. \A i \in DOMAIN app : app[i].no # lines + 1
        <5> TAKE i \in DOMAIN app
        <5>1. app[i] \in Part /\ app[i].no <= lines
          BY <1>0, <3>4, <4>1 DEF NumberInv
        <5>2. app[i].no \in Nat
          BY <5>1 DEF Part
        <5> QED BY <3>1, <5>1, <5>2
      <4> TAKE i \in DOMAIN Stream
      <4>3. CASE i \in DOMAIN app
        BY <4>1, <4>2, <4>3
      <4>4. CASE i \notin DOMAIN app
        <5>1. i - Len(app) \in DOMAIN buffer /\ Stream[i] = buffer[i - Len(app)]
          BY <4>1, <4>4
        <5> QED BY <3>2, <5>1
      <4> QED BY <4>3, <4>4
    <3> QED BY <3>3, <3>4
  <2>4. HasParts(Stream', line'[t].no, Done(step'[t]))
    BY <2>1, <2>3, HasNoParts
  <2>5. \A u \in Thread : ~Idle(u)' => HasParts(Stream', line'[u].no, Done(step'[u]))
    BY <1>2, <2>1, <2>4 DEF Idle
  <2> QED BY <2>2, <2>5 DEF PartsInv
<1>7. ASSUME NEW t \in Thread, CloseOld(t) PROVE PartsInv'
  BY <1>0, <1>3, <1>4, <1>7 DEF CloseOld, LogTypeOK, Done, Writing, Printing
<1>8. ASSUME NEW t \in Thread, Rename(t) PROVE PartsInv'
  <2>1. \A u \in Thread : step'[u] # "idle" => u = t
    BY <1>0, <1>1, <1>8, RotatesAlone DEF Rename, Rotating, LogTypeOK, Idle
  <2>2. buffer' = <<>> /\ app' = Absent
    BY <1>0, <1>8 DEF Rename, MutexInv, FileInv, Locked, Rotating
  <2>3. Stream' = <<>> /\ \A i \in DOMAIN Stream' : Stream'[i].no # line'[t].no
    BY <2>2 DEF Stream
  <2>4. Done(step'[t]) = {}
    BY <1>0, <1>8 DEF Rename, LogTypeOK, Done, Writing, Printing
  <2>5. HasParts(Stream', line'[t].no, {})
    BY <2>3, HasNoParts
  <2> QED BY <2>1, <2>4, <2>5 DEF PartsInv, Idle
<1>9. ASSUME NEW t \in Thread, OpenNew(t) PROVE PartsInv'
  <2>1. Stream' = Stream
    <3>1. CASE app' = app
      BY <1>5, <1>9, <3>1 DEF OpenNew
    <3>2. CASE app = Absent /\ app' = <<>>
      <4>1. <<>> # Absent
        <5>1. <<>> \in Seq(Part)
          OBVIOUS
        <5>2. Absent \notin Seq(Part)
          BY AbsentAssumption DEF Part
        <5> QED BY <5>1, <5>2
      <4>2. buffer' = buffer /\ buffer \in Seq(Part)
        BY <1>0, <1>9 DEF OpenNew, FileInv
      <4>3. <<>> \o buffer = buffer
        BY <4>2
      <4> QED BY <3>2, <4>1, <4>2, <4>3 DEF Stream
    <3> QED BY <1>9, <3>1, <3>2 DEF OpenNew
  <2>2. /\ step[t] = "open" /\ step' = [step EXCEPT ![t] = "stamp"] /\ line' = line
        /\ Done("open") = {} /\ Done("stamp") = {}
    BY <1>9 DEF OpenNew, Done, Earlier, Writing, Printing
  <2> QED BY <1>0, <1>3, <2>1, <2>2 DEF LogTypeOK
<1>10. ASSUME NEW t \in Thread, PrintPart(t) PROVE PartsInv'
  <2> DEFINE x == [line[t] EXCEPT !.part = step[t]]
  <2>1. step[t] \in Printing /\ step' = [step EXCEPT ![t] = AfterPrint[step[t]]] /\ line' = line
    BY <1>10 DEF PrintPart
  <2>2. x \in Part /\ x.no = line[t].no /\ x.part = step[t]
    BY <1>0, <2>1, PrintedPart
  <2>3. file = "open" /\ app # Absent /\ app' = app /\ buffer' = Append(buffer, x)
    BY <1>0, <1>1, <1>10, <2>1, CarefulOpen DEF PrintPart, FileInv, Writing
  <2> HIDE DEF x
  <2>4. Stream' = Append(Stream, x) /\ Stream \in Seq(Part)
    <3>1. app \in Seq(Part) /\ buffer \in Seq(Part)
      BY <1>0, <2>3 DEF FileInv
    <3>2. app \o Append(buffer, x) = Append(app \o buffer, x) /\ app \o buffer \in Seq(Part)
      BY <2>2, <3>1
    <3> QED BY <2>3, <3>2 DEF Stream
  <2>5. Done(step[t]) = Earlier[step[t]] /\ Done(step'[t]) = Earlier[step[t]] \cup {step[t]}
    BY <1>0, <2>1 DEF LogTypeOK, Done, Earlier, AfterPrint, Writing, Printing
  <2>6. HasParts(Stream', x.no, Earlier[x.part] \cup {x.part})
    <3>1. HasParts(Stream, x.no, Earlier[x.part])
      BY <1>2, <2>1, <2>2, <2>5 DEF Idle, Printing
    <3> QED BY <2>1, <2>2, <2>4, <3>1, HasPartsNext
  <2>7. ASSUME NEW u \in Thread, ~Idle(u)', u # t
        PROVE  HasParts(Stream', line'[u].no, Done(step'[u]))
    <3>1. step'[u] = step[u] /\ ~Idle(u) /\ ~Idle(t) /\ line'[u] = line[u]
      BY <1>0, <2>1, <2>7 DEF LogTypeOK, Idle, Printing
    <3>2. x.no # line[u].no
      BY <1>0, <2>2, <2>7, <3>1 DEF NumberInv
    <3>3. HasParts(Stream, line[u].no, Done(step[u]))
      BY <1>2, <3>1
    <3>4. HasParts(Append(Stream, x), line[u].no, Done(step[u]))
      BY <2>2, <2>4, <3>2, <3>3, HasPartsOther
    <3> QED BY <2>4, <3>1, <3>4
  <2>8. HasParts(Stream', line'[t].no, Done(step'[t]))
    BY <2>1, <2>2, <2>5, <2>6
  <2>9. \A u \in Thread : ~Idle(u)' => ~Idle(u)
    BY <1>0, <2>1 DEF LogTypeOK, Idle, Printing
  <2>10. \A u \in Thread : ~Idle(u)' => HasParts(Stream', line'[u].no, Done(step'[u]))
    BY <2>7, <2>8
  <2>11. \A u, w \in Thread : ~Idle(u)' /\ ~Idle(w)' => line'[u].day = line'[w].day
    BY <1>2, <2>1, <2>9
  <2> QED BY <2>10, <2>11 DEF PartsInv
<1>11. CASE Restart
  BY <1>11 DEF Restart, PartsInv, Idle
<1>12. ASSUME NEW t \in Thread, FlushLine(t) PROVE PartsInv'
  <2>1. Stream' = Stream
    BY <1>4, <1>5, <1>12 DEF FlushLine
  <2> QED BY <1>0, <1>3, <1>12, <2>1 DEF FlushLine, LogTypeOK
<1>13. CASE LogSize \/ LogClose
  <2>1. Flush /\ step' = step /\ line' = line
    BY <1>13 DEF LogSize, LogClose
  <2> QED BY <1>3, <1>4, <2>1
<1>14. CASE HalfDay \/ UNCHANGED logVars
  <2>1. UNCHANGED <<app, buffer, step, line>>
    BY <1>14 DEF HalfDay, logVars
  <2> QED BY <1>3, <1>5, <2>1
<1> QED BY <1>6, <1>7, <1>8, <1>9, <1>10, <1>11, <1>12, <1>13, <1>14 DEF LogNext, PrintUndefined, ClockSetBack

\* A line on the disk stays there: app.log only gets longer or is renamed, and where local time is
\* that of GMT no backup is overwritten.
LEMMA StoredStays ==
  ASSUME LineInv, [LogNext]_logVars, ~clockBack', careful, ahead = 0, NEW l \in Returned
  PROVE  /\ Stored(l) => Stored(l)'
         /\ StoredByDay(l) /\ ~Straddled => StoredByDay(l)'
<1>0. LogInv /\ LogTypeOK /\ DateInv /\ FileInv /\ NumberInv /\ PartsInv /\ DayInv
  BY DEF LineInv, LogInv
<1>1. ASSUME NEW d \in Days, backup[d] # Absent PROVE backup'[d] = backup[d]
  <2> SUFFICES ASSUME backup'[d] # backup[d] PROVE FALSE
    OBVIOUS
  <2>1. LogNext
    BY DEF logVars
  <2>2. (file = "null" /\ GmDay(changed) < Day(changed)) \/ d \in early
    BY <1>0, <1>1, <2>1, BackupStays
  <2>3. early = {}
    BY <1>0 DEF LogInv, BackupInv
  <2>4. GmDay(changed) = Day(changed) /\ Day(changed) \in Int
    BY <1>0 DEF LogTypeOK, GmDay, Day
  <2> QED BY <2>2, <2>3, <2>4
<1>2. ASSUME app # Absent, Whole(app, l), Flush PROVE app' # Absent /\ Whole(app', l)
  <2>1. /\ app' # Absent /\ app' = app \o buffer
        /\ app \in Seq(Part) /\ buffer \in Seq(Part)
    BY <1>0, <1>2, FlushStream DEF FileInv, Stream
  <2>2. \A i \in DOMAIN buffer : buffer[i].no # l.no
    <3> TAKE i \in DOMAIN buffer
    <3>1. PICK t \in Thread : step[t] \in Writing /\ buffer[i].no = line[t].no
      BY <1>0 DEF NumberInv
    <3> QED BY <1>0, <3>1 DEF NumberInv, Returned, Idle, Writing, Printing
  <2>3. HasParts(app, l.no, Printing)
    BY <1>2 DEF Whole
  <2>4. HasParts(app \o buffer, l.no, Printing)
    BY <2>1, <2>2, <2>3, HasPartsOthers
  <2> QED BY <2>1, <2>4 DEF Whole
<1>3. ASSUME NEW t \in Thread, Rename(t), app # Absent
      PROVE  date \in Days /\ date # 0 /\ backup'[date] = app
  <2>1. step[t] = "rename" /\ backup' = [backup EXCEPT ![date] = app]
    BY <1>3 DEF Rename
  <2>2. date # 0 /\ date <= Today /\ date \in Nat
    BY <1>0, <2>1 DEF LogTypeOK, DateInv
  <2>3. Today <= Day(LastHalf) /\ Today \in Nat /\ Day(LastHalf) \in Nat
    BY <1>0, LogAssumption, DayRange DEF LogTypeOK, FileInv, Today
  <2>4. Day(LastHalf) <= Day(LastHalf + 1) /\ Day(LastHalf + 1) \in Nat
    BY LogAssumption, DayRange
  <2>5. date \in Days
    BY <2>2, <2>3, <2>4 DEF Days
  <2> QED BY <1>0, <2>1, <2>2, <2>5 DEF LogTypeOK
\* What happens to app.log.
<1>4. ASSUME app # Absent, Whole(app, l)
      PROVE  \/ /\ app' # Absent /\ Whole(app', l)
                /\ changed' = changed \/ (Flush /\ buffer # <<>> /\ UNCHANGED time)
             \/ date \in Days /\ date # 0 /\ backup'[date] = app
  <2>1. CASE Flush /\ UNCHANGED time
    <3>1. app' # Absent /\ Whole(app', l)
      BY <1>2, <1>4, <2>1
    <3>2. buffer = <<>> => changed' = changed
      BY <2>1 DEF Flush
    <3> QED BY <2>1, <3>1, <3>2
  <2>2. CASE UNCHANGED <<app, changed>>
    BY <1>4, <2>2 DEF Whole
  <2>3. CASE \E t \in Thread : Rename(t)
    BY <1>3, <1>4, <2>3
  <2>4. \/ Flush /\ UNCHANGED time
        \/ UNCHANGED <<app, changed>>
        \/ \E t \in Thread : Rename(t)
    <3>1. ASSUME NEW t \in Thread, OpenNew(t) PROVE UNCHANGED <<app, changed>>
      BY <1>4, <3>1 DEF OpenNew
    <3> QED
      BY <3>1 DEF LogNext, ClockSetBack, logVars, Enter, CloseOld, PrintPart, PrintUndefined, Restart, FlushLine,
                  LogSize, LogClose, HalfDay
  <2> QED BY <2>1, <2>2, <2>3, <2>4
<1>5. Stored(l) => Stored(l)'
  <2>1. CASE app # Absent /\ Whole(app, l)
    <3>1. CASE app' # Absent /\ Whole(app', l)
      BY <3>1 DEF Stored, Whole
    <3>2. CASE date \in Days /\ backup'[date] = app
      <4>1. backup'[date] # Absent /\ Whole(backup'[date], l)
        BY <2>1, <3>2
      <4>2. \E d \in Days : backup'[d] # Absent /\ Whole(backup'[d], l)
        BY <3>2, <4>1
      <4> QED BY <4>2 DEF Stored, Whole, Days, Day
    <3> QED BY <1>4, <2>1, <3>1, <3>2
  <2>2. ASSUME NEW d \in Days, backup[d] # Absent, Whole(backup[d], l) PROVE Stored(l)'
    <3>1. \E e \in Days : backup'[e] # Absent /\ Whole(backup'[e], l)
      BY <1>1, <2>2
    <3> QED BY <3>1 DEF Stored, Whole, Days, Day
  <2> QED BY <2>1, <2>2 DEF Stored
<1>6. StoredByDay(l) /\ ~Straddled => StoredByDay(l)'
  <2> SUFFICES ASSUME StoredByDay(l), ~Straddled PROVE StoredByDay(l)'
    OBVIOUS
  <2>1. CASE app # Absent /\ Whole(app, l) /\ Day(changed) = l.day
    <3>0. date # 0 => date = l.day
      BY <1>0, <2>1 DEF DayInv
    <3>1. CASE app' # Absent /\ Whole(app', l) /\ changed' = changed
      BY <2>1, <3>1 DEF StoredByDay, Whole, Day
    <3>2. CASE app' # Absent /\ Whole(app', l) /\ Flush /\ buffer # <<>> /\ UNCHANGED time
      <4>1. date # 0 /\ Day(changed') = date
        BY <3>2, FlushDay
      <4> QED BY <3>0, <3>2, <4>1 DEF StoredByDay, Whole, Day
    <3>3. CASE date \in Days /\ date # 0 /\ backup'[date] = app
      <4>1. l.day \in Days /\ backup'[l.day] # Absent /\ Whole(backup'[l.day], l)
        BY <2>1, <3>0, <3>3
      <4> QED BY <4>1 DEF StoredByDay, Whole, Days, Day
    <3> QED BY <1>4, <2>1, <3>1, <3>2, <3>3
  <2>2. CASE l.day \in Days /\ backup[l.day] # Absent /\ Whole(backup[l.day], l)
    <3>1. backup'[l.day] # Absent /\ Whole(backup'[l.day], l)
      BY <1>1, <2>2
    <3> QED BY <2>2, <3>1 DEF StoredByDay, Whole, Days, Day
  <2> QED BY <2>1, <2>2 DEF StoredByDay
<1> QED BY <1>5, <1>6

LEMMA KeptStep ==
  ASSUME LineInv, [LogNext]_logVars, ~clockBack', DayInv'
  PROVE  KeptInv'
<1>0. LogInv /\ LogTypeOK /\ DateInv /\ FileInv /\ PartsInv /\ DayInv /\ KeptInv
  BY DEF LineInv, LogInv
<1> SUFFICES ASSUME careful', ahead' = 0, NEW l \in Returned'
             PROVE  Stored(l)' /\ (~Straddled' => StoredByDay(l)')
  BY DEF KeptInv
<1>1. careful /\ ahead = 0
  BY DEF LogNext, ClockSetBack, logVars, Enter, CloseOld, Rename, OpenNew, PrintPart, PrintUndefined, Restart,
         FlushLine, LogSize, LogClose, HalfDay
<1>2. ~Straddled' => ~Straddled
  BY <1>0, StraddledStep
<1>3. CASE l \in Returned
  <2>1. Stored(l) /\ (~Straddled => StoredByDay(l))
    BY <1>0, <1>1, <1>3 DEF KeptInv
  <2> QED BY <1>1, <1>2, <1>3, <2>1, StoredStays
<1>4. CASE l \notin Returned
  <2>1. l \in ended' /\ l.returned /\ l \notin ended
    BY <1>4 DEF Returned
  <2>2. PICK t \in Thread : FlushLine(t)
    <3>1. ~Restart
      <4> SUFFICES ASSUME Restart PROVE FALSE
        OBVIOUS
      <4>1. PICK t \in Thread : l = End(t, FALSE)
        BY <2>1 DEF Restart
      <4>2. l.returned = FALSE
        BY <4>1 DEF End
      <4> QED BY <2>1, <4>2
    <3> QED
      BY <2>1, <3>1 DEF LogNext, ClockSetBack, logVars, Enter, CloseOld, Rename, OpenNew, PrintPart, PrintUndefined,
                        LogSize, LogClose, HalfDay
  <2>3. l = End(t, TRUE) /\ step[t] = "flush"
    BY <2>1, <2>2 DEF FlushLine
  <2>4. l.no = line[t].no /\ l.day = line[t].day
    BY <2>3 DEF End
  <2>5. file = "open" /\ app # Absent
    BY <1>0, <1>1, <2>3, CarefulOpen DEF Writing, FileInv
  <2>6. app' = Stream /\ app' # Absent
    BY <1>0, <2>2, <2>5, FlushStream DEF FlushLine
  <2>7. HasParts(Stream, line[t].no, Printing)
    <3>1. Done(step[t]) = Printing
      BY <2>3 DEF Done, Earlier, Writing
    <3> QED BY <1>0, <1>1, <2>3, <3>1 DEF PartsInv, Idle
  <2>8. Whole(app', l)
    BY <2>4, <2>6, <2>7 DEF Whole
  <2>9. Stored(l)'
    BY <2>6, <2>8 DEF Stored, Whole
  <2>10. ASSUME ~Straddled' PROVE StoredByDay(l)'
    <3>1. line[t].day = Today
      BY <1>2, <2>3, <2>10 DEF Straddled, Idle
    <3>2. date # 0 /\ date = Today
      <4>1. date # 0 /\ line[t].day <= date /\ date <= Today /\ date \in Nat /\ Today \in Nat
        BY <1>0, <1>1, <2>3, DayRange DEF LogTypeOK, DateInv, Writing, Today
      <4> QED BY <3>1, <4>1
    <3>3. Day(changed') = l.day
      BY <1>1, <2>2, <2>4, <2>6, <2>10, <3>1, <3>2 DEF DayInv, FlushLine, Day
    <3> QED BY <2>6, <2>8, <3>3 DEF StoredByDay, Whole, Day
  <2> QED BY <2>9, <2>10
<1> QED BY <1>3, <1>4

LEMMA LineInvariant == LogSpec => [](~clockBack => LineInv)
<1>1. LogInit => LineInv
  <2> SUFFICES ASSUME LogInit PROVE LineInv
    OBVIOUS
  <2>1. LogInv
    BY LogInitInv
  <2>2. buffer = <<>> /\ app = Absent /\ ended = {} /\ \A t \in Thread : Idle(t)
    BY DEF LogInit, Idle
  <2>3. FileInv
    <3>1. <<>> \in Seq(Part)
      OBVIOUS
    <3> QED BY <2>2, <3>1, LogAssumption DEF LogInit, FileInv
  <2>4. DOMAIN buffer = {}
    BY <2>2
  <2>5. NumberInv
    BY <2>2, <2>4 DEF NumberInv
  <2> QED BY <2>1, <2>2, <2>3, <2>5 DEF LineInv, PartsInv, DayInv, KeptInv, Returned
<1>2. (~clockBack => LineInv) /\ [LogNext]_logVars => (~clockBack => LineInv)'
  <2> SUFFICES ASSUME ~clockBack => LineInv, [LogNext]_logVars, ~clockBack' PROVE LineInv'
    OBVIOUS
  <2>0. LineInv
    BY ClockStep
  <2>1. LogInv'
    BY <2>0, LogStepInv DEF LineInv
  <2>2. DayInv'
    BY <2>0, DayStep
  <2> QED BY <2>0, <2>1, <2>2, FileStep, NumberStep, PartsStep, KeptStep DEF LineInv
<1> QED BY <1>1, <1>2, PTL DEF LogSpec

(***************************************************************************)
(* A line whose call returned is whole in one of the files, for any number *)
(* of threads, lines, days and restarts: neither a rotation nor a process  *)
(* that dies loses it (gfc_log.c:104-152, 205-222).                        *)
(***************************************************************************)
THEOREM LinesKeptCorrect == LogSpec => []LinesKept
<1>1. (~clockBack => LineInv) => LinesKept
  BY DEF Regular, LineInv, KeptInv, Stored, LinesKept, Files
<1> QED BY <1>1, LineInvariant, PTL

(***************************************************************************)
(* And it is in the file that is found under the day it was opened for, as *)
(* long as no line was written past its midnight.                          *)
(***************************************************************************)
THEOREM LinesByDayCorrect == LogSpec => []LinesInFileOfTheirDay
<1>1. (~clockBack => LineInv) => LinesInFileOfTheirDay
  BY DEF Regular, LineInv, KeptInv, StoredByDay, LinesInFileOfTheirDay, DayInv
<1> QED BY <1>1, LineInvariant, PTL
=============================================================================
