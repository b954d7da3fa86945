-------------------------------- MODULE GfcId --------------------------------
(***************************************************************************)
(* The snowflake identifiers of src/gfc_id.c: milliseconds, datacenter,    *)
(* machine and a sequence number, packed into 64 bits.  Each node is a     *)
(* process with a gfc_id_t context and a clock of its own, read by         *)
(* gettimeofday, that may be set back.  A node calls from one thread: the  *)
(* context has no lock.  Time is counted from START_TIMESTAMP, which the   *)
(* clock has passed; the context's last_timestamp starts before it.        *)
(***************************************************************************)
EXTENDS Integers, FiniteSets

CONSTANTS Node,
          Datacenter, Machine,  \* the fields of each node's context
          DatacenterSize, MachineSize, SeqSize, \* 2^DATACENTER_BIT and so on
          InitialSeq,  \* seq fields a program may start with
          MaxTime      \* bound of the clocks

ASSUME IdSizes == /\ DatacenterSize \in Nat \ {0}
                  /\ MachineSize \in Nat \ {0}
                  /\ SeqSize \in Nat \ {0}
                  /\ InitialSeq \subseteq 0..SeqSize-1
                  /\ MaxTime \in Nat

\* MAX_DATACENTER_NUM and MAX_MACHINE_NUM, which the code does not check.
ASSUME IdFields == /\ Datacenter \in [Node -> 0..DatacenterSize-1]
                   /\ Machine \in [Node -> 0..MachineSize-1]

ASSUME IdNodes ==
  \A n, m \in Node : Datacenter[n] = Datacenter[m] /\ Machine[n] = Machine[m] => n = m

VARIABLES clock,    \* what gettimeofday answers on each node
          last,     \* last_timestamp
          seq,      \* seq
          pc,       \* "idle", or "wait" in snowflake_next_timestamp
          issued,   \* ids returned to the program
          calls,    \* number of ids returned
          setBack   \* the clock was set back at some time

idVars == <<clock, last, seq, pc, issued, calls, setBack>>

\* The fields in the places the shifts put them.
\* Mutant: the machine is shifted by one bit too few.
Id_overlapping(n, t, s) ==
  (t * DatacenterSize + Datacenter[n]) * MachineSize * SeqSize
    + Machine[n] * (SeqSize \div 2) + s

\* Mutant: the sequence number lies above the time.
Id_seq_high(n, t, s) ==
  ((s * (MaxTime + 1) + t) * DatacenterSize + Datacenter[n]) * MachineSize + Machine[n]

Id(n, t, s) ==
  ((t * DatacenterSize + Datacenter[n]) * MachineSize + Machine[n]) * SeqSize + s

Init ==
  /\ clock \in [Node -> 1..MaxTime]
  /\ last = [n \in Node |-> 0]
  /\ seq \in [Node -> InitialSeq]
  /\ pc = [n \in Node |-> "idle"]
  /\ issued = [n \in Node |-> {}]
  /\ calls = [n \in Node |-> 0]
  /\ setBack = [n \in Node |-> FALSE]

Tick(n) ==
  /\ clock[n] < MaxTime
  /\ clock' = [clock EXCEPT ![n] = @ + 1]
  /\ UNCHANGED <<last, seq, pc, issued, calls, setBack>>

SetBack(n) ==
  /\ \E t \in 1..clock[n]-1 : clock' = [clock EXCEPT ![n] = t]
  /\ setBack' = [setBack EXCEPT ![n] = TRUE]
  /\ UNCHANGED <<last, seq, pc, issued, calls>>

Return(n, t, s) ==
  /\ last' = [last EXCEPT ![n] = t]
  /\ issued' = [issued EXCEPT ![n] = @ \cup {Id(n, t, s)}]
  /\ calls' = [calls EXCEPT ![n] = @ + 1]
  /\ UNCHANGED <<clock, setBack>>

\* Another id in the same millisecond.
SameTime(n) ==
  /\ pc[n] = "idle"
  /\ clock[n] = last[n]
  /\ seq[n] + 1 < SeqSize
  /\ seq' = [seq EXCEPT ![n] = @ + 1]
  /\ Return(n, clock[n], seq[n] + 1)
  /\ UNCHANGED pc

\* The sequence numbers of the millisecond are used up.
Exhausted(n) ==
  /\ pc[n] = "idle"
  /\ clock[n] = last[n]
  /\ seq[n] + 1 = SeqSize
  /\ seq' = [seq EXCEPT ![n] = 0]
  /\ pc' = [pc EXCEPT ![n] = "wait"]
  /\ UNCHANGED <<clock, last, issued, calls, setBack>>

\* snowflake_next_timestamp has seen a later time.
\* Mutant: it does not wait for a later one.
NextTime_same(n) ==
  /\ pc[n] = "wait"
  /\ clock[n] >= last[n]
  /\ pc' = [pc EXCEPT ![n] = "idle"]
  /\ Return(n, clock[n], seq[n])
  /\ UNCHANGED seq

NextTime(n) ==
  /\ pc[n] = "wait"
  /\ clock[n] > last[n]
  /\ pc' = [pc EXCEPT ![n] = "idle"]
  /\ Return(n, clock[n], seq[n])
  /\ UNCHANGED seq

\* Another millisecond than the last, later or earlier.
OtherTime(n) ==
  /\ pc[n] = "idle"
  /\ clock[n] # last[n]
  /\ seq' = [seq EXCEPT ![n] = 0]
  /\ Return(n, clock[n], 0)
  /\ UNCHANGED pc

Next ==
  \E n \in Node :
    Tick(n) \/ SetBack(n) \/ SameTime(n) \/ Exhausted(n) \/ NextTime(n) \/ OtherTime(n)

Spec == Init /\ [][Next]_idVars

-----------------------------------------------------------------------------
(***************************************************************************)
(* As long as the clock of a node is never set back, no two calls on it    *)
(* return the same id, however many calls fall into one millisecond.       *)
(***************************************************************************)
NoDuplicates ==
  \A n \in Node : ~setBack[n] => Cardinality(issued[n]) = calls[n]

(***************************************************************************)
(* The ids of a node whose clock is never set back increase.               *)
(***************************************************************************)
IdsIncrease ==
  [][\A n \in Node : ~setBack'[n] =>
       \A x \in issued'[n] \ issued[n] : \A y \in issued[n] : y < x]_idVars

(***************************************************************************)
(* Two nodes that differ in datacenter or machine never return the same    *)
(* id, whatever their clocks and sequence numbers do.                      *)
(***************************************************************************)
NodesDisjoint ==
  \A n, m \in Node : n # m => issued[n] \cap issued[m] = {}
=============================================================================
