----------------------------- MODULE Dictionary -----------------------------
(***************************************************************************)
(* What a map promises: the last value put under a key is the one found    *)
(* there until the key is removed, and no call disturbs another key.       *)
(* A put that runs out of memory may lose entries; it never alters one.    *)
(***************************************************************************)
CONSTANTS Key,      \* keys
          EmptyKey, \* the key "", which an iteration does not visit
          Data,     \* values
          Absent    \* what dict holds for a key that is not there

VARIABLES dict,    \* value of each key
          answer   \* return code of the last call and the pairs it handed out

dictVars == <<dict, answer>>

Answer(rc, pairs) == [rc |-> rc, pairs |-> pairs]
Present == {k \in Key : dict[k] # Absent}
Entries == {<<k, dict[k]>> : k \in Present \ {EmptyKey}}

DictInit ==
  /\ dict = [k \in Key |-> Absent]
  /\ answer = Answer("none", {})

\* A put is under way and has had no effect yet.
DictCall ==
  /\ answer' = Answer("none", {})
  /\ UNCHANGED dict

DictPut ==
  /\ answer' = Answer("ok", {})
  /\ \E k \in Key, v \in Data : dict' = [dict EXCEPT ![k] = v]

DictOutOfMemory ==
  /\ answer' = Answer("oom", {})
  /\ \A k \in Key : dict'[k] \in {dict[k], Absent}

DictGet ==
  /\ answer'.rc \in {"found", "missing"}
  /\ \E k \in Key :
       answer' = IF dict[k] # Absent THEN Answer("found", {<<k, dict[k]>>})
                 ELSE Answer("missing", {})
  /\ UNCHANGED dict

DictRemove ==
  /\ answer'.rc \in {"removed", "missing"}
  /\ \E k \in Key :
       /\ answer' = Answer(IF dict[k] # Absent THEN "removed" ELSE "missing", {})
       /\ dict' = [dict EXCEPT ![k] = Absent]

\* The callback sees every entry, or refuses one and sees no more.
DictIterate ==
  /\ \/ answer' = Answer("missing", {}) /\ Present = {}
     \/ answer'.rc = "iterated" /\ answer'.pairs = Entries
     \/ answer'.rc = "refused" /\ answer'.pairs \subseteq Entries
  /\ UNCHANGED dict

DictFree ==
  /\ answer' = Answer("freed", {})
  /\ dict' = [k \in Key |-> Absent]

DictNext ==
  \/ DictCall \/ DictPut \/ DictOutOfMemory
  \/ DictGet \/ DictRemove \/ DictIterate \/ DictFree

DictSpec == DictInit /\ [][DictNext]_dictVars
=============================================================================
