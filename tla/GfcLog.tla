-------------------------------- MODULE GfcLog --------------------------------
(***************************************************************************)
(* The log of gfc_log.c: threads that write lines to one FILE, app.log,    *)
(* which the first line of a new day renames to a backup named after the   *)
(* day before.  gfc_log_open runs under a mutex; the three prints and the  *)
(* flush that follow it do not.  The process may end at any time and start *)
(* again: its statics are lost, its files stay.                            *)
(*                                                                         *)
(* Time is counted in half days; the days of gmtime lag ahead half days    *)
(* behind those of localtime, or run before them where that is negative.   *)
(***************************************************************************)
EXTENDS Integers, Sequences

CONSTANTS
  Thread,        \* the threads of the program that writes lines
  NoThread,      \* nobody holds the mutex
  Absent,        \* the content of a file that does not exist
  Morning,       \* the half day in which the program starts first
  LastHalf,       \* bound: the last half day
  MaxLines,      \* bound: calls of gfc_log_info and its like
  MaxRestarts    \* bound: how often the process starts again

ASSUME LogAssumption ==
  /\ NoThread \notin Thread
  /\ Morning \in Nat /\ Morning >= 3      \* zero is no day of the year in date
  /\ LastHalf \in Nat /\ Morning <= LastHalf
  /\ MaxLines \in Nat /\ MaxRestarts \in Nat

VARIABLES
  time,          \* the system's clock
  clockBack,     \* was the clock ever set back?
  ahead,         \* how far local time is ahead of GMT
  careful,       \* does the program keep its threads apart around midnight?
  lock,          \* _gfc_log_lock: the thread that holds it
  file,          \* _gfc_log_file: NULL, an open FILE, or one that was closed
  date,          \* _gfc_log_year, _month and _day; zero before the first line
  buffer,        \* what was printed to the FILE and not yet flushed
  app,           \* the content of app.log on the disk
  changed,       \* its st_ctime
  backup,        \* the content of app-<day>.log
  early,         \* the days whose backup was made for a line of an earlier day
  step,          \* where each thread is
  line,          \* the line it writes: its number and the day it was opened for
  lines,         \* how many lines were begun
  ended,         \* the lines whose calls returned, or died with the process
  restarts

logVars == <<time, clockBack, ahead, careful, lock, file, date, buffer, app, changed, backup, early,
             step, line, lines, ended, restarts>>
calendar == <<time, clockBack, ahead>>
backups == <<backup, early>>

Day(t) == t \div 2                    \* the day of localtime
GmDay(t) == (t - ahead) \div 2        \* the day of gmtime
Today == Day(time)
Days == 0..Day(LastHalf + 1)

Idle(t) == step[t] = "idle"
Printing == {"stamp", "message", "end"}
Writing == Printing \cup {"flush"}
Rotating == {"close", "rename"}

ASSUME AbsentAssumption == Absent \notin Seq([no : Nat, day : Nat, part : Printing])

\* The prints of a line that come before each other one and before the flush.
Earlier == [stamp |-> {}, message |-> {"stamp"}, end |-> {"stamp", "message"}, flush |-> Printing]
NoLine == [no |-> 0, day |-> 0, part |-> "none"]

LogInit ==
  /\ time = Morning /\ clockBack = FALSE /\ ahead \in {-1, 0, 1} /\ careful \in BOOLEAN
  /\ lock = NoThread /\ file = "null" /\ date = 0 /\ buffer = <<>>
  /\ app = Absent /\ changed = 0 /\ backup = [d \in Days |-> Absent] /\ early = {}
  /\ step = [t \in Thread |-> "idle"] /\ line = [t \in Thread |-> NoLine]
  /\ lines = 0 /\ ended = {} /\ restarts = 0

-------------------------------------------------------------------------------
(* gfc_log_open *)

\* Mutant: the date of an old file is taken to be today.
FileDate_today == IF date # 0 THEN date ELSE Today

\* The date of the file: that of the statics, or for the first line of a process the
\* day app.log was changed on, if it exists.
FileDate ==
  IF date # 0 THEN date ELSE IF app = Absent THEN Today ELSE GmDay(changed)

\* A careful program begins no line while another of an earlier day is under way, and
\* no program begins one after gfc_log_close.
MayCall ==
  /\ lines < MaxLines /\ file # "closed"
  /\ careful => \A u \in Thread : Idle(u) \/ line[u].day = Today

\* Mutant: the mutex is not taken.
LockFree_always == TRUE

LockFree == lock = NoThread

\* Take the lock, read the clock, and find out whether the file is of another day.
Enter(t) ==
  /\ Idle(t) /\ MayCall /\ LockFree
  /\ lock' = t
  /\ lines' = lines + 1
  /\ line' = [line EXCEPT ![t] = [no |-> lines + 1, day |-> Today, part |-> "none"]]
  /\ date' = FileDate
  /\ step' = [step EXCEPT ![t] = IF FileDate # Today THEN "close" ELSE "open"]
  /\ UNCHANGED <<calendar, careful, file, buffer, app, changed, backups, ended, restarts>>

\* What was printed reaches the disk, if the file still has its name.
Flush ==
  /\ app' = IF buffer = <<>> \/ app = Absent THEN app ELSE app \o buffer
  /\ changed' = IF buffer = <<>> THEN changed ELSE time
  /\ buffer' = <<>>

\* fclose flushes and closes; the pointer still points to the FILE.
CloseOld(t) ==
  /\ step[t] = "close"
  /\ Flush
  /\ file' = IF file = "null" THEN "null" ELSE "closed"
  /\ step' = [step EXCEPT ![t] = "rename"]
  /\ UNCHANGED <<calendar, careful, lock, date, backups, line, lines, ended, restarts>>

\* Mutant: the pointer to the FILE that was closed is kept.
Forgotten_kept == file

\* The pointer to the FILE that was closed is reset.
Forgotten == "null"

\* Mutant: the date of the file is not set to today.
NewDate_kept(t) == date

\* The date of the next file.
NewDate(t) == line[t].day

\* rename overwrites a backup of the same name; without app.log it fails.  Where gmtime runs before
\* localtime the backup may be that of a day to come.
Rename(t) ==
  /\ step[t] = "rename"
  /\ file' = Forgotten
  /\ app' = Absent
  /\ backup' = IF app = Absent THEN backup ELSE [backup EXCEPT ![date] = app]
  /\ early' = IF app # Absent /\ date > line[t].day THEN early \cup {date}
              ELSE IF app # Absent THEN early \ {date} ELSE early
  /\ date' = NewDate(t)
  /\ step' = [step EXCEPT ![t] = "open"]
  /\ UNCHANGED <<calendar, careful, lock, buffer, changed, line, lines, ended, restarts>>

\* fopen with "a+" creates a file that does not exist; then the lock is left.
OpenNew(t) ==
  /\ step[t] = "open"
  /\ app' = IF file = "null" /\ app = Absent THEN <<>> ELSE app
  /\ changed' = IF file = "null" /\ app = Absent THEN time ELSE changed
  /\ file' = IF file = "null" THEN "open" ELSE file
  /\ lock' = NoThread
  /\ step' = [step EXCEPT ![t] = "stamp"]
  /\ UNCHANGED <<calendar, careful, date, buffer, backups, line, lines, ended, restarts>>

-------------------------------------------------------------------------------
(* gfc_log_info, _warn, _debug and _error after gfc_log_open, without the lock *)

End(t, ok) == [no |-> line[t].no, day |-> line[t].day, last |-> Today, returned |-> ok]

\* The process dies, with or without a last flush, and starts again.
Restart ==
  /\ restarts < MaxRestarts
  /\ restarts' = restarts + 1
  /\ Flush \/ (buffer' = <<>> /\ UNCHANGED <<app, changed>>)
  /\ lock' = NoThread /\ file' = "null" /\ date' = 0
  /\ step' = [t \in Thread |-> "idle"] /\ line' = [t \in Thread |-> NoLine]
  /\ ended' = ended \cup {End(t, FALSE) : t \in {u \in Thread : ~Idle(u)}}
  /\ UNCHANGED <<calendar, careful, backups, lines>>

AfterPrint == [stamp |-> "message", message |-> "end", end |-> "flush"]

\* One print to an open FILE.  A print to one that was closed is lost, or kills the
\* process as a print to NULL does.
PrintPart(t) ==
  /\ step[t] \in Printing
  /\ file # "null"
  /\ buffer' = IF file = "open" THEN Append(buffer, [line[t] EXCEPT !.part = step[t]]) ELSE buffer
  /\ step' = [step EXCEPT ![t] = AfterPrint[step[t]]]
  /\ UNCHANGED <<calendar, careful, lock, file, date, app, changed, backups, line, lines,
                 ended, restarts>>

PrintUndefined(t) == step[t] \in Writing /\ file # "open" /\ Restart

\* The flush, after which the call returns.
FlushLine(t) ==
  /\ step[t] = "flush" /\ file # "null"
  /\ IF file = "open" THEN Flush ELSE UNCHANGED <<app, changed, buffer>>
  /\ step' = [step EXCEPT ![t] = "idle"]
  /\ ended' = ended \cup {End(t, TRUE)}
  /\ line' = [line EXCEPT ![t] = NoLine]
  /\ UNCHANGED <<calendar, careful, lock, file, date, backups, lines, restarts>>

-------------------------------------------------------------------------------
(* The program and its surroundings *)

\* gfc_log_size flushes on its way to the end of the file and back.
LogSize ==
  /\ file = "open" /\ Flush
  /\ UNCHANGED <<calendar, careful, lock, file, date, backups, step, line, lines,
                 ended, restarts>>

\* gfc_log_close, once no thread is in a call; the pointer is kept.
LogClose ==
  /\ file = "open" /\ \A t \in Thread : Idle(t)
  /\ Flush
  /\ file' = "closed"
  /\ UNCHANGED <<calendar, careful, lock, date, backups, step, line, lines, ended, restarts>>

HalfDay ==
  /\ time < LastHalf
  /\ time' = time + 1
  /\ UNCHANGED <<clockBack, ahead, careful, lock, file, date, buffer, app, changed, backups, step, line,
                 lines, ended, restarts>>

\* The system's clock is set back, over a midnight or not.
ClockSetBack ==
  /\ time > Morning                              \* bound
  /\ time' = time - 1 /\ clockBack' = TRUE
  /\ UNCHANGED <<ahead, careful, lock, file, date, buffer, app, changed, backups, step, line,
                 lines, ended, restarts>>

LogNext ==
  \/ \E t \in Thread : \/ Enter(t) \/ CloseOld(t) \/ Rename(t) \/ OpenNew(t)
                       \/ PrintPart(t) \/ PrintUndefined(t) \/ FlushLine(t)
  \/ LogSize \/ LogClose \/ HalfDay \/ ClockSetBack \/ Restart

LogSpec == LogInit /\ [][LogNext]_logVars

-------------------------------------------------------------------------------
(* Properties *)

\* Content of all files that are on the disk.
Files == {f \in {app} \cup {backup[d] : d \in Days} : f # Absent}

\* File f has the parts of line number n in ps, each once and in their order.
HasParts(f, n, ps) ==
  LET printed == {i \in DOMAIN f : f[i].no = n}
  IN  /\ {f[i].part : i \in printed} = ps
      /\ \A i, j \in printed : i < j => f[i].part \in Earlier[f[j].part]

Whole(f, l) == HasParts(f, l.no, Printing)

Returned == {l \in ended : l.returned}

\* Some line was still being written when its day ended.
Straddled ==
  \/ \E l \in ended : l.last # l.day
  \/ \E t \in Thread : ~Idle(t) /\ line[t].day # Today

\* The program keeps its threads apart around midnight, the days of localtime are those of gmtime and
\* the clock only goes on.
Regular == careful /\ ahead = 0 /\ ~clockBack

\* A line whose call returned is whole in one of the files: no rotation and no restart
\* loses it.  Holds for programs that keep their threads apart around midnight, where the
\* days of localtime are those of gmtime and the clock is not set back.
LinesKept ==
  Regular => \A l \in Returned : \E f \in Files : Whole(f, l)

\* Under the same conditions a line is in the file of the day it was opened for, however
\* often the process was started again, unless some line straddled a midnight.
LinesInFileOfTheirDay ==
  Regular /\ ~Straddled =>
    \A l \in Returned :
      \/ backup[l.day] # Absent /\ Whole(backup[l.day], l)
      \/ app # Absent /\ Whole(app, l) /\ (date # 0 /\ file # "null" => date = l.day)

\* A thread writes to a FILE that is not open only while another thread rotates the
\* files, and unless the clock was set back those of a day that has ended since its line was begun.
ClosedOnlyAtMidnight ==
  \A t \in Thread : step[t] \in Writing =>
    \/ file = "open"
    \/ \E u \in Thread : /\ step[u] \in Rotating \/ step[u] = "open"
                         /\ clockBack \/ line[t].day < line[u].day

(***************************************************************************)
(* As long as the clock is not set back a backup, once written, is         *)
(* overwritten in two cases only: by the first rotation of a process that  *)
(* finds app.log changed on a day of gmtime before that of localtime,      *)
(* ahead of GMT and early in the day, and takes today's file for           *)
(* yesterday's; or when the backup was made for a line of an earlier day,  *)
(* by a process that was started again in the evening behind GMT.          *)
(***************************************************************************)
BackupsKept ==
  [][\A d \in Days : backup[d] # Absent /\ backup'[d] # backup[d]
       => clockBack \/ (file = "null" /\ GmDay(changed) < Day(changed)) \/ d \in early]_logVars
===============================================================================
