------------------------------ MODULE GfcString ------------------------------
(***************************************************************************)
(* One string object of gfc_string.c: a block of characters with a zero    *)
(* behind the text, enlarged or shrunk by every concatenation and cut in   *)
(* place by strtok.  gfc_gc_realloc is taken to succeed; it may move the   *)
(* block, which ends the process or spoils the text when the value to      *)
(* append lies in the block itself.                                        *)
(***************************************************************************)
EXTENDS Integers, SequencesExt

CONSTANTS
  Letter,        \* characters that are no separator
  Separator,     \* the character gfc_string_split is given
  Terminator,         \* the terminating zero
  MaxText        \* bound: characters in a string, and in a value

ASSUME StringAssumption ==
  Separator \notin Letter /\ Terminator \notin Letter \cup {Separator} /\ MaxText \in Nat

VARIABLES
  chars,       \* the block, of no places while there is no string
  spoiled,       \* has the block been read after it was moved?
  text,          \* what the string should hold
  tokens,        \* what the last gfc_string_split answered
  cut            \* the text it was called with

stringVars == <<chars, spoiled, text, tokens, cut>>

Values == UNION {[1..n -> Letter \cup {Separator}] : n \in 0..MaxText}

\* What a program sees of a block: its characters up to the first zero.
Visible(block) ==
  LET zeros == {i \in DOMAIN block : block[i] = Terminator}
  IN  IF zeros = {} THEN block ELSE SubSeq(block, 1, Min(zeros) - 1)

StringInit == chars = <<>> /\ spoiled = FALSE /\ text = <<>> /\ tokens = <<>> /\ cut = <<>>

StringNew(str) ==
  /\ chars = <<>>
  /\ chars' = Append(str, Terminator)
  /\ text' = str /\ spoiled' = FALSE
  /\ UNCHANGED <<tokens, cut>>

\* Mutant: no place for the zero.
Room_short(old, val) == old + Len(val)

\* The places of the block a concatenation asks for.
Room(old, val) == old + Len(val) + 1

\* The block with val and a zero behind the visible text.
Concatenated(val) ==
  LET old == Visible(chars)
  IN  SubSeq(old \o val \o <<Terminator>>, 1, Room(Len(old), val))

StringConcat(val) ==
  /\ chars # <<>> /\ ~spoiled
  /\ Len(text) + Len(val) <= MaxText
  /\ chars' = Concatenated(val)
  /\ text' = text \o val
  /\ UNCHANGED <<spoiled, tokens, cut>>

\* The value is the string's own buffer.
StringConcatOwn ==
  /\ chars # <<>> /\ ~spoiled
  /\ 2 * Len(text) <= MaxText
  /\ chars' = Concatenated(Visible(chars))
  /\ text' = text \o text
  /\ spoiled' \in BOOLEAN
  /\ UNCHANGED <<tokens, cut>>

\* Where tokens begin and end: strtok looks for the longest runs of letters.
Begins(s) == {i \in DOMAIN s : s[i] \in Letter /\ (i = 1 \/ s[i - 1] \notin Letter)}
EndOf(s, i) == Min({j \in i..Len(s) : j = Len(s) \/ s[j + 1] \notin Letter})

\* The tokens in their order.
Tokens(s) ==
  [k \in 1..Cardinality(Begins(s)) |->
     LET i == CHOOSE b \in Begins(s) : Cardinality({c \in Begins(s) : c < b}) = k - 1
     IN  SubSeq(s, i, EndOf(s, i))]

\* strtok writes a zero over the separator behind each token.
StringSplit ==
  /\ chars # <<>> /\ ~spoiled
  /\ LET s == Visible(chars)
         ends == {EndOf(s, i) : i \in Begins(s)}
     IN  /\ chars' = [i \in DOMAIN chars |-> IF i - 1 \in ends THEN Terminator ELSE chars[i]]
         /\ tokens' = Tokens(s)
         /\ cut' = s
         /\ text' = IF ends = {} THEN text ELSE SubSeq(text, 1, Min(ends))
  /\ UNCHANGED spoiled

StringFree ==
  /\ chars # <<>> /\ ~spoiled
  /\ chars' = <<>> /\ text' = <<>>
  /\ UNCHANGED <<spoiled, tokens, cut>>

StringNext ==
  \/ \E val \in Values : StringNew(val) \/ StringConcat(val)
  \/ StringConcatOwn \/ StringSplit \/ StringFree

StringSpec == StringInit /\ [][StringNext]_stringVars

-------------------------------------------------------------------------------
\* The letters of a text, in their order.
Letters(s) ==
  LET kept[i \in 0..Len(s)] ==
        IF i = 0 THEN <<>> ELSE IF s[i] \in Letter THEN Append(kept[i-1], s[i]) ELSE kept[i-1]
  IN  kept[Len(s)]

\* After any calls the visible text is what was put and not cut off, with its zero within the block;
\* and what a split answered are the letters it was given, none lost and none empty.
StringHolds ==
  /\ chars # <<>> /\ ~spoiled => Terminator \in Range(chars) /\ Visible(chars) = text
  /\ FlattenSeq(tokens) = Letters(cut)
  /\ \A k \in DOMAIN tokens : tokens[k] # <<>>
===============================================================================
