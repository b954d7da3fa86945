-------------------------------- MODULE GfcWs --------------------------------
(***************************************************************************)
(* The websocket client of gfc_ws.c on one connection.  What the peer      *)
(* sends is a stream of octets that recv hands out in pieces of any        *)
(* length; next_byte takes them one by one from a buffer of FrmSize.       *)
(* gfc_ws_recv reads a frame octet by octet; gfc_ws_send writes a frame in *)
(* three calls of send, each of which may take less than it is given.      *)
(* The connection may break at any time, and a recv may fail for once, as  *)
(* it does when a signal interrupts it.                                    *)
(***************************************************************************)
EXTENDS Integers, SequencesExt

CONSTANTS
  OctetSize,     \* values of an octet, 256 in the code
  FrmSize,       \* MESSAGE_LENGTH, the size of the buffer
  Response,      \* octets of the answer to the handshake, up to its empty line
  PeerFrames,    \* the sequences of frames the peer may send
  Messages,      \* what the program sends
  MaxSends,      \* bound: calls of gfc_ws_send
  Orders,        \* the orders in which a build may read the octets of a length, see order
  XorOctets(_, _)      \* the operator ^ on octets

Octet == 0..(OctetSize - 1)

\* The weights of the octets of a length.
Place[n \in 0..8] == IF n = 0 THEN 1 ELSE OctetSize * Place[n-1]

ASSUME WsAssumption ==
  /\ OctetSize \in Nat /\ OctetSize % 2 = 0 /\ OctetSize >= 8
  /\ FrmSize \in Nat /\ Response \in 1..FrmSize /\ MaxSends \in Nat

ASSUME XorAssumption ==
  \A a, b \in Octet : XorOctets(a, b) \in Octet /\ XorOctets(XorOctets(a, b), b) = a

ASSUME OrdersAssumption ==
  \A o \in Orders : \A n \in {2, 8} :
    o[n] \in [1..n -> 1..n] /\ \A i, j \in 1..n : o[n][i] = o[n][j] => i = j

\* An opcode has four bits; a length fits its eight octets.
ASSUME WsTexts ==
  /\ \A fs \in PeerFrames :
       /\ fs \in Seq([op : 0..15, payload : Seq(Octet)])
       /\ \A i \in DOMAIN fs : Len(fs[i].payload) < Place[8]
  /\ \A msg \in Messages : msg \in Seq(Octet) /\ Len(msg) < Place[8]

TXT == 1
BIN == 2
CLSE == 8
FIN == 128

Half == OctetSize \div 2               \* FRM_MSK; a length octet holds less
Octets2 == Half - 2                    \* the length is in the next two octets
Octets8 == Half - 1                    \* the length is in the next eight octets
Mask == (2 * OctetSize) \div 3         \* 0xAA

VARIABLES
  frames,        \* the frames the peer sends, records of op and payload
  stream,        \* all octets the peer sends
  order,         \* order[n][i] is the operand read i-th of the n that make a length; C leaves
                 \* the order of the calls in gfc_ws.c:187 and :194 to the compiler
  status,        \* TWS_ST_; "lost" after undefined behaviour
  broken,        \* has the connection ended?
  taken,         \* octets recv has handed out
  amt_read,      \* octets in the buffer
  cur_pos,       \* the place in the buffer
  reading,       \* where gfc_ws_recv is
  opcode,        \* the frame it reads
  frame_length,  \* its length, as far as it is known
  togo,          \* octets to come in the part it reads
  octets,        \* octets that tell its length, when it is in octets of its own
  failed,        \* ret: has a recv of this call failed?
  payload,       \* what it has stored of the frame
  buff_size,     \* the size of the caller's buffer
  received,      \* the frames gfc_ws_recv has answered
  inStep,        \* is the reader still at the borders of the frames?
  sending,       \* what gfc_ws_send has still to hand to send
  wire,          \* the octets send has taken
  sent,          \* the messages of the calls
  whole          \* did every send take all it was given?

readVars == <<reading, opcode, frame_length, togo, octets, failed, payload, buff_size, received,
              inStep>>
sendVars == <<sending, wire, sent, whole>>
bufferVars == <<broken, taken, amt_read, cur_pos>>
wsVars == <<frames, stream, order, status, bufferVars, readVars, sendVars>>

\* The n octets of a number, the highest first.
Big(number, n) == [i \in 1..n |-> (number \div Place[n - i]) % OctetSize]

\* Mutant: a length that needs two octets is one more.
LengthOctets_late(len, bit) ==
  IF len <= Octets2 THEN <<bit + len>>
  ELSE IF len < Place[2] THEN <<bit + Octets2>> \o Big(len, 2)
  ELSE <<bit + Octets8>> \o Big(len, 8)

\* The octets of a length, with the bit that says whether the payload is masked.
LengthOctets(len, bit) ==
  IF len < Octets2 THEN <<bit + len>>
  ELSE IF len < Place[2] THEN <<bit + Octets2>> \o Big(len, 2)
  ELSE <<bit + Octets8>> \o Big(len, 8)

\* A frame as a peer sends it, unmasked; written from RFC 6455.
PeerFrame(f) ==
  LET len == Len(f.payload)
      length == IF len <= Half - 3 THEN <<len>>
                ELSE IF len <= Place[2] - 1 THEN <<Half - 2>> \o Big(len, 2)
                ELSE <<Half - 1>> \o Big(len, 8)
  IN  <<FIN + f.op>> \o length \o f.payload

WsInit ==
  /\ frames \in PeerFrames
  /\ stream = [i \in 1..Response |-> 0] \o FlattenSeq([i \in DOMAIN frames |-> PeerFrame(frames[i])])
  /\ order \in Orders
  /\ status = "disconnected" /\ broken = FALSE /\ taken = 0 /\ amt_read = 0 /\ cur_pos = 0
  /\ reading = "idle" /\ opcode = 0 /\ frame_length = 0 /\ togo = 0 /\ octets = 2
  /\ failed = FALSE /\ payload = <<>> /\ buff_size = 0 /\ received = <<>>
  /\ inStep = TRUE /\ sending = <<>> /\ wire = <<>> /\ sent = <<>> /\ whole = TRUE

-------------------------------------------------------------------------------
(* gfc_ws_conn, once *)

\* The first recv may bring octets behind the answer; when it brings less than the answer
\* the search for its end answers NULL and the buffer's place is arbitrary.
WsConn ==
  /\ status = "disconnected" /\ taken = 0 /\ ~broken
  /\ \/ \E n \in 1..FrmSize :
          /\ n <= Len(stream)
          /\ taken' = n /\ amt_read' = n
          /\ IF n < Response THEN cur_pos' = 0 /\ status' = "lost"
             ELSE cur_pos' = Response /\ status' = "connected"
          /\ UNCHANGED broken
     \/ /\ broken' = TRUE /\ status' \in {"disconnected", "lost"}
        /\ UNCHANGED <<taken, amt_read, cur_pos>>
  /\ UNCHANGED <<frames, stream, order, readVars, sendVars>>

WsClose ==
  /\ status = "connected" /\ reading = "idle" /\ sending = <<>>
  /\ status' = "disconnected" /\ broken' = TRUE
  /\ UNCHANGED <<frames, stream, order, taken, amt_read, cur_pos, readVars, sendVars>>

-------------------------------------------------------------------------------
(* next_byte *)

Drained == cur_pos = 0 \/ cur_pos = amt_read

Upcoming == IF Drained THEN stream[taken + 1] ELSE stream[taken - amt_read + cur_pos + 1]

\* Mutant: after a refill the place is not reset to the start.
Refilled_kept(n) == IF cur_pos < n THEN cur_pos + 1 ELSE 1

\* The place behind the first octet of a buffer that was filled with n.
Refilled(n) == 1

\* The octet Upcoming is taken, from the buffer or from a recv that fills it.
NextByte ==
  \/ /\ ~Drained
     /\ cur_pos' = cur_pos + 1
     /\ UNCHANGED <<broken, taken, amt_read>>
  \/ /\ Drained /\ ~broken
     /\ \E n \in 1..FrmSize :
          /\ taken + n <= Len(stream)
          /\ taken' = taken + n /\ amt_read' = n /\ cur_pos' = Refilled(n)
     /\ UNCHANGED broken

\* recv finds the connection ended, or fails for once and may bring octets again later.
NoByte == Drained /\ broken' \in {TRUE, broken} /\ UNCHANGED <<taken, amt_read, cur_pos>>

-------------------------------------------------------------------------------
(* gfc_ws_recv *)

\* The caller passes the buffer of the last call again, or none.
RecvBegin ==
  /\ status = "connected" /\ reading = "idle" /\ sending = <<>>
  /\ reading' = "opcode" /\ payload' = <<>> /\ failed' = FALSE
  /\ buff_size' \in {0, buff_size}
  /\ UNCHANGED <<frames, stream, order, status, bufferVars, opcode, frame_length, togo, octets,
                 received, inStep, sendVars>>

\* A close frame, or a failing recv, closes the socket.
RecvOpcode ==
  /\ reading = "opcode"
  /\ \/ /\ NextByte
        /\ opcode' = Upcoming % 16
        /\ reading' = IF opcode' = CLSE THEN "idle" ELSE "length"
        /\ status' = IF opcode' = CLSE THEN "disconnected" ELSE status
     \/ /\ NoByte
        /\ reading' = "idle" /\ status' = "disconnected"
        /\ UNCHANGED opcode
  /\ UNCHANGED <<frames, stream, order, frame_length, togo, octets, failed, payload, buff_size,
                 received, inStep, sendVars>>

\* With the length known, frames of another kind are skipped.
Known(len) ==
  /\ frame_length' = len /\ togo' = len
  /\ reading' = IF opcode \in {TXT, BIN} THEN "allocate" ELSE "skip"

\* The -1 of a failing recv is taken for the code that says eight octets.
RecvLength ==
  /\ reading = "length"
  /\ \/ /\ NextByte
        /\ LET len == Upcoming % Half
           IN  IF len < Octets2 THEN Known(len) /\ UNCHANGED octets
               ELSE /\ octets' = IF len = Octets2 THEN 2 ELSE 8
                    /\ togo' = octets' /\ reading' = "octets" /\ frame_length' = 0
        /\ UNCHANGED <<failed, inStep>>
     \/ /\ NoByte
        /\ octets' = 8 /\ togo' = 8 /\ reading' = "octets" /\ frame_length' = 0
        /\ failed' = TRUE /\ inStep' = (inStep /\ broken')
  /\ UNCHANGED <<frames, stream, order, status, opcode, payload, buff_size, received, sendVars>>

\* The weight of the octet that is read next.
OctetWeight == Place[octets - order[octets][octets - togo + 1]]

\* Does the build read the octets of this length from left to right?
InOrder == \A i \in 1..octets : order[octets][i] = i

\* All octets are asked for, also behind one that recv failed to bring.
RecvOctets ==
  /\ reading = "octets"
  /\ \/ /\ NextByte
        /\ LET len == frame_length + Upcoming * OctetWeight
           IN  IF togo > 1 THEN togo' = togo - 1 /\ frame_length' = len /\ UNCHANGED reading
               ELSE IF failed THEN reading' = "idle" /\ UNCHANGED <<frame_length, togo>>
               ELSE Known(len)
        /\ inStep' = (inStep /\ InOrder)
        /\ UNCHANGED failed
     \/ /\ NoByte
        /\ IF togo > 1 THEN togo' = togo - 1 /\ UNCHANGED reading
           ELSE reading' = "idle" /\ UNCHANGED togo
        /\ failed' = TRUE /\ inStep' = (inStep /\ broken')
        /\ UNCHANGED frame_length
  /\ UNCHANGED <<frames, stream, order, status, opcode, octets, payload, buff_size, received,
                 sendVars>>

\* A skipped frame is read over; then its length is taken for that of a payload to come.
RecvSkip ==
  /\ reading = "skip"
  /\ \/ /\ togo > 0 /\ NextByte
        /\ togo' = togo - 1
        /\ UNCHANGED <<reading, inStep>>
     \/ /\ togo > 0 /\ NoByte
        /\ reading' = "idle" /\ inStep' = (inStep /\ broken')
        /\ UNCHANGED togo
     \/ /\ togo = 0
        /\ togo' = frame_length /\ reading' = "allocate"
        /\ inStep' = (inStep /\ frame_length = 0)
        /\ UNCHANGED bufferVars
  /\ UNCHANGED <<frames, stream, order, status, opcode, frame_length, octets, failed, payload,
                 buff_size, received, sendVars>>

\* The buffer grows to the frame and a zero; without memory the call returns and leaves the
\* payload in the stream.
RecvAllocate ==
  /\ reading = "allocate"
  /\ \/ /\ buff_size' = IF buff_size < frame_length THEN frame_length + 1 ELSE buff_size
        /\ reading' = "payload" /\ UNCHANGED inStep
     \/ /\ buff_size < frame_length
        /\ reading' = "idle" /\ inStep' = FALSE /\ UNCHANGED buff_size
  /\ UNCHANGED <<frames, stream, order, status, bufferVars, opcode, frame_length, togo, octets,
                 failed, payload, received, sendVars>>

RecvPayload ==
  /\ reading = "payload" /\ togo > 0
  /\ \/ /\ NextByte
        /\ payload' = Append(payload, Upcoming) /\ togo' = togo - 1
        /\ UNCHANGED <<reading, inStep>>
     \/ /\ NoByte
        /\ reading' = "idle" /\ inStep' = (inStep /\ broken')
        /\ UNCHANGED <<payload, togo>>
  /\ UNCHANGED <<frames, stream, order, status, opcode, frame_length, octets, failed, buff_size,
                 received, sendVars>>

\* The zero behind the payload lies behind the buffer when the buffer of an earlier call is
\* exactly as long as the frame, and nowhere when there is no buffer.
RecvDone ==
  /\ reading = "payload" /\ togo = 0
  /\ reading' = "idle"
  /\ status' \in IF frame_length < buff_size THEN {"connected"}
                 ELSE IF buff_size = 0 THEN {"lost"} ELSE {"connected", "lost"}
  /\ received' = Append(received, [op |-> opcode, payload |-> payload])
  /\ UNCHANGED <<frames, stream, order, bufferVars, opcode, frame_length, togo, octets, failed,
                 payload, buff_size, inStep, sendVars>>

-------------------------------------------------------------------------------
(* gfc_ws_send *)

Masked(msg) == [i \in DOMAIN msg |-> XorOctets(msg[i], Mask)]

SendBegin(msg) ==
  /\ status = "connected" /\ reading = "idle" /\ sending = <<>> /\ Len(sent) < MaxSends
  /\ sending' = << <<FIN + TXT>> \o LengthOctets(Len(msg), Half), <<Mask, Mask, Mask, Mask>>, Masked(msg)>>
  /\ sent' = Append(sent, msg)
  /\ UNCHANGED <<frames, stream, order, status, bufferVars, readVars, wire, whole>>

\* One send takes the octets, or the first of them; its answer is only compared with zero.
SendPart ==
  /\ sending # <<>> /\ ~broken
  /\ \E n \in 0..Len(Head(sending)) :
       /\ n = 0 => Head(sending) = <<>>
       /\ wire' = wire \o SubSeq(Head(sending), 1, n)
       /\ whole' = (whole /\ n = Len(Head(sending)))
  /\ sending' = Tail(sending)
  /\ UNCHANGED <<frames, stream, order, status, bufferVars, readVars, sent>>

\* send fails, or malloc does before the payload is sent: the call returns with the frame cut.
SendFails ==
  /\ sending # <<>>
  /\ sending' = <<>> /\ whole' = FALSE
  /\ UNCHANGED <<frames, stream, order, status, bufferVars, readVars, wire, sent>>

WsNext ==
  \/ WsConn \/ WsClose \/ RecvBegin \/ RecvOpcode \/ RecvLength \/ RecvOctets \/ RecvSkip
  \/ RecvAllocate \/ RecvPayload \/ RecvDone \/ SendPart \/ SendFails
  \/ \E msg \in Messages : SendBegin(msg)

WsSpec == WsInit /\ [][WsNext]_wsVars

-------------------------------------------------------------------------------
(* Properties *)

\* The frames gfc_ws_recv answers are those the peer sent, one for one and in order, whatever
\* pieces the stream came in and wherever it broke off.  The reader loses its step, for good and
\* unnoticed, in four ways only: it skips a frame that has a payload, it has no memory for one, a
\* recv fails for once in the middle of a frame, or the build does not read the octets of a
\* length from left to right.  The frames answered are of every kind but close: a frame without
\* a payload is answered also when the comment at gfc_ws.c:208 has it skipped.
FramesInOrder == inStep => IsPrefix(received, frames)

\* The message at a place of the octets, and the place behind it, as RFC 6455 lays them out.
MessageAt(bytes, i) ==
  LET At(p) == IF p <= Len(bytes) THEN bytes[p] ELSE 0
      code == At(i + 1) % Half
      extra == IF code = Octets2 THEN 2 ELSE IF code = Octets8 THEN 8 ELSE 0
      number[n \in 0..extra] == IF n = 0 THEN 0 ELSE number[n-1] * OctetSize + At(i + 1 + n)
      len == IF extra = 0 THEN code ELSE number[extra]
      masks == i + 2 + extra
  IN  [msg |-> [j \in 1..len |-> XorOctets(At(masks + 3 + j), At(masks + ((j - 1) % 4)))],
       behind |-> masks + 4 + len]

\* The messages a peer reads from octets, one in each turn.
Parsed(bytes) ==
  LET read[n \in 0..Len(bytes)] ==
        IF n = 0 THEN [place |-> 1, msgs |-> <<>>]
        ELSE LET s == read[n-1]
                 m == MessageAt(bytes, s.place)
             IN  IF s.place > Len(bytes) THEN s
                 ELSE [place |-> m.behind, msgs |-> Append(s.msgs, m.msg)]
  IN  read[Len(bytes)].msgs

\* When every send took all it was given, the peer reads the messages gfc_ws_send was called
\* with; a send that takes less goes unnoticed and shifts the borders of all later frames.
SentFramesParse == whole /\ sending = <<>> => Parsed(wire) = sent
===============================================================================
