------------------------------ MODULE MCGfcParts ------------------------------
(***************************************************************************)
(* The parts of the library that use no state of one another - ids,        *)
(* numbers, trees, lists, strings, logs, rings, websockets, digests and    *)
(* encodings - in one instance for TLC.  Because nothing is shared, a      *)
(* behaviour exercises one part and leaves the others alone.               *)
(***************************************************************************)
EXTENDS GfcId, GfcIdThreads, GfcBignum, GfcBtree, GfcList, GfcString, GfcLog, GfcRing, GfcWs, GfcSha1,
        GfcText, TLC

CONSTANTS n1, n2, t1, t2

VARIABLE part

\* Two machines of one datacenter.
Datacenters == (n1 :> 1) @@ (n2 :> 1)
Machines == (n1 :> 0) @@ (n2 :> 1)

\* Bound: while the clock only goes on there are no more calls than this; a node
\* whose clock was set back makes three at most.
FewCalls ==
  \A n \in Node : calls[n] <= IF setBack[n] THEN 3 ELSE MaxTime * SeqSize

\* Threads, of the log and of one id context, are interchangeable.
Threads == Permutations(Thread)

\* Bound: programs that do not keep their threads apart write two lines; where gmtime is not
\* localtime, or the clock was set back, one thread writes at a time; only behind GMT a process
\* starts again twice.
FewLines ==
  /\ ~careful \/ clockBack => lines <= 2
  /\ careful /\ (ahead # 0 \/ clockBack) => \A t, u \in Thread : t = u \/ Idle(t) \/ Idle(u)
  /\ restarts = 2 => careful /\ ahead < 0 /\ ~clockBack

\* Two frames of any kinds, with and without a payload; or one whose length takes two
\* octets and one behind it.
Frame(op, n) == [op |-> op, payload |-> [i \in 1..n |-> i % OctetSize]]
Frames == {Frame(op, n) : op \in {TXT, 10}, n \in {0, 2}} \cup {Frame(CLSE, 0)}
FramePairs == Frames \X Frames \cup {<<Frame(BIN, 64), Frame(TXT, 1)>>}

BitXor(a, b) == a ^^ b

\* A build reads the octets of a length from left to right, or from right to left.
LeftToRight == [n \in {2, 8} |-> [i \in 1..n |-> i]]
RightToLeft == [n \in {2, 8} |-> [i \in 1..n |-> n + 1 - i]]
BuildOrders == {LeftToRight, RightToLeft}

\* Messages whose lengths take one octet and, in an octet of eight values, three and nine.
Texts == {[i \in 1..n |-> i % OctetSize] : n \in {0, 1, 2, 64}}

\* Bound: what is sent is looked at for one sequence of frames of the peer, before any is
\* read; after a message of which the peer got less than all there is no second one.
FewSends ==
  sent # <<>> =>
    /\ frames = <<Frame(CLSE, 0), Frame(CLSE, 0)>>
    /\ received = <<>> /\ reading = "idle" /\ taken = Response
    /\ whole \/ Len(sent) = 1

\* Bound: how a reader goes on that has lost its step is followed for one stream, of a frame
\* with a payload and an empty one behind it.
FewLosses == inStep \/ frames = <<Frame(TXT, 2), Frame(TXT, 0)>>

\* Where a part is not exercised only one of its initial states is taken.
PartsInit ==
  /\ part \in {"id", "idThreads", "bignum", "btree", "list", "string", "log", "ring", "ws", "sha1",
               "encodings"}
  /\ Init /\ IdThreadsInit /\ BnInit /\ TreeInit /\ ListInit /\ StringInit
  /\ LogInit /\ RingInit /\ WsInit /\ ShaInit /\ TextInit
  /\ part # "id" => clock = [n \in Node |-> 1] /\ seq = [n \in Node |-> 0]
  /\ part # "log" => ahead = 0 /\ careful
  /\ part # "ring" => head = [i \in Cells |-> Nothing]
  /\ part # "ws" => frames = <<Frame(CLSE, 0), Frame(CLSE, 0)>> /\ order = LeftToRight

PartsNext ==
  /\ UNCHANGED part
  /\ IF part = "id" THEN Next ELSE UNCHANGED idVars
  /\ IF part = "idThreads" THEN IdThreadsNext ELSE UNCHANGED idThreadVars
  /\ IF part = "bignum" THEN BnNext ELSE UNCHANGED operands
  /\ IF part = "btree" THEN TreeNext ELSE UNCHANGED treeVars
  /\ IF part = "list" THEN ListNext ELSE UNCHANGED listVars
  /\ IF part = "string" THEN StringNext ELSE UNCHANGED stringVars
  /\ IF part = "log" THEN LogNext ELSE UNCHANGED logVars
  /\ IF part = "ring" THEN RingNext ELSE UNCHANGED ringVars
  /\ IF part = "ws" THEN WsNext ELSE UNCHANGED wsVars
  /\ IF part = "sha1" THEN ShaNext ELSE UNCHANGED shaVars
  /\ IF part = "encodings" THEN TextNext ELSE UNCHANGED sample

partVars == <<part, idVars, idThreadVars, operands, treeVars, listVars, stringVars, logVars, ringVars,
              wsVars, shaVars, sample>>

PartsSpec == PartsInit /\ [][PartsNext]_partVars
=============================================================================
