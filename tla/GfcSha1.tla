------------------------------- MODULE GfcSha1 -------------------------------
(***************************************************************************)
(* The SHA-1 of gfc_sha1.c: a context that takes a message in pieces of    *)
(* any length, cuts it into blocks and pads the last ones.  What is not    *)
(* modelled is the compression of a block: the hash is the sequence of the *)
(* blocks that went into it.  An octet is a pair: <<"m", i>> is the i-th   *)
(* of the message, the others are those of the padding.                    *)
(***************************************************************************)
EXTENDS Integers, Sequences

CONSTANTS
  BlockLength,   \* octets of a block, 64 in the code
  LengthField,   \* the octets at the end that hold the length, 8 in the code
  LowLimit,      \* the octets whose bits make length_low wrap, 2^29 in the code
  HighLimit,     \* the wraps of length_low that make length_high wrap, 2^32 in the code
  MaxInput,      \* bound: octets of one piece
  MaxResets      \* bound: calls of gfc_sha1_reset

ASSUME Sha1Assumption ==
  /\ BlockLength \in Nat /\ LengthField \in 1..(BlockLength - 1)
  /\ LowLimit \in Nat \ {0} /\ HighLimit \in Nat \ {0}
  /\ MaxInput \in Nat /\ MaxResets \in Nat

VARIABLES
  block,         \* message_block
  index,         \* message_block_index
  low,           \* length_low, in octets
  high,          \* length_high
  hashed,        \* intermediate_hash: the blocks it was computed from
  computed,      \* has the digest been computed?
  corrupted,     \* shaSuccess or the error the context is in
  left,          \* the octets SHA1Input has still to take
  message,       \* how many octets the context has taken since the reset
  digest,        \* what the last result wrote, none if it answered an error
  resets         \* how often the context was reset

shaVars == <<block, index, low, high, hashed, computed, corrupted, left, message, digest, resets>>

ZeroOctet == <<"zero", 0>>
Marker == <<"one", 0>>
NoDigest == <<>>

\* The code meant for a message that is too long is 2, but the context is set to 1.
Success == 0
TooLong == 1
StateError == 3

\* A context as the first reset leaves it; its block holds what was in the memory.
ShaInit ==
  /\ block = [i \in 1..BlockLength |-> Marker]
  /\ index = 0 /\ low = 0 /\ high = 0 /\ hashed = <<>>
  /\ computed = FALSE /\ corrupted = Success
  /\ left = 0 /\ message = 0 /\ digest = NoDigest /\ resets = 0

\* gfc_sha1_reset does not clear the block.
ShaReset ==
  /\ left = 0 /\ resets < MaxResets
  /\ index' = 0 /\ low' = 0 /\ high' = 0 /\ hashed' = <<>>
  /\ computed' = FALSE /\ corrupted' = Success
  /\ message' = 0 /\ digest' = NoDigest /\ resets' = resets + 1
  /\ UNCHANGED <<block, left>>

\* SHA1Input after a result spoils the context.
ShaInput(length) ==
  /\ left = 0
  /\ corrupted' = IF computed THEN StateError ELSE corrupted
  /\ left' = IF computed \/ corrupted # Success THEN 0 ELSE length
  /\ UNCHANGED <<block, index, low, high, hashed, computed, message, digest, resets>>

Full(i) == i = BlockLength

\* One turn of the loop of SHA1Input: store the octet, count its bits, process a full block.
ShaOctet ==
  LET stored == [block EXCEPT ![index + 1] = <<"m", message + 1>>]
      lowWraps == low + 1 = LowLimit
      highWraps == lowWraps /\ high + 1 = HighLimit
  IN  /\ left > 0
      /\ block' = stored
      /\ index' = IF Full(index + 1) THEN 0 ELSE index + 1
      /\ hashed' = IF Full(index + 1) THEN Append(hashed, stored) ELSE hashed
      /\ low' = IF lowWraps THEN 0 ELSE low + 1
      /\ high' = IF highWraps THEN 0 ELSE IF lowWraps THEN high + 1 ELSE high
      /\ corrupted' = IF highWraps THEN TooLong ELSE corrupted
      /\ left' = IF highWraps THEN 0 ELSE left - 1
      /\ message' = message + 1
      /\ UNCHANGED <<computed, digest, resets>>

\* Mutant: a block is taken to have room for marker and length with one octet less.
Crowded_late(i) == i > BlockLength - LengthField

\* Is there no room for the marker and the length behind i octets?
Crowded(i) == i > BlockLength - LengthField - 1

\* The block with the marker behind i octets and zeros up to the end.
Marked(i) == [p \in 1..BlockLength |-> IF p <= i THEN block[p] ELSE IF p = i + 1 THEN Marker ELSE ZeroOctet]
ZeroBlock == [p \in 1..BlockLength |-> ZeroOctet]

\* The block with the length of the message in its last octets.
WithLength(b) ==
  [p \in 1..BlockLength |->
     IF p > BlockLength - LengthField THEN <<"length", high * LowLimit + low>> ELSE b[p]]

\* The one or two blocks SHA1PadMessage processes.
Padding ==
  IF Crowded(index) THEN <<Marked(index), WithLength(ZeroBlock)>> ELSE <<WithLength(Marked(index))>>

\* gfc_sha1_result: the first call pads and clears the context, later ones answer the same.
ShaResult ==
  /\ left = 0
  /\ IF corrupted # Success
       THEN digest' = NoDigest /\ UNCHANGED <<block, index, low, high, hashed, computed>>
     ELSE IF computed
       THEN digest' = hashed /\ UNCHANGED <<block, index, low, high, hashed, computed>>
     ELSE /\ hashed' = hashed \o Padding
          /\ digest' = hashed'
          /\ block' = ZeroBlock /\ index' = 0 /\ low' = 0 /\ high' = 0
          /\ computed' = TRUE
  /\ UNCHANGED <<corrupted, left, message, resets>>

ShaNext ==
  \/ ShaReset \/ ShaOctet \/ ShaResult
  \/ \E length \in 1..MaxInput : ShaInput(length)

ShaSpec == ShaInit /\ [][ShaNext]_shaVars

-------------------------------------------------------------------------------
(* Properties *)

\* The octet at place p of block b, of n blocks, for a message of m octets: the message, the marker,
\* zeros, and the length at the very end.
Expected(m, n, b, p) ==
  LET place == (b - 1) * BlockLength + p
  IN  IF place <= m THEN <<"m", place>>
      ELSE IF place = m + 1 THEN Marker
      ELSE IF b = n /\ p > BlockLength - LengthField THEN <<"length", m>> ELSE ZeroOctet

\* The blocks are the padding of a message of m octets, and no more blocks than it needs.
PaddingOf(blocks, m) ==
  /\ (Len(blocks) - 1) * BlockLength < m + 1 + LengthField
  /\ m + 1 + LengthField <= Len(blocks) * BlockLength
  /\ \A b \in 1..Len(blocks) : \A p \in 1..BlockLength :
       blocks[b][p] = Expected(m, Len(blocks), b, p)

\* However a message was cut into calls of SHA1Input, whatever was left in the block by an earlier
\* message and however long it is, a digest that gfc_sha1_result answers is that of the padded
\* message; and a message whose length does not fit the two counters has none.
DigestOfMessage ==
  digest # NoDigest => PaddingOf(digest, message) /\ message < LowLimit * HighLimit
===============================================================================
