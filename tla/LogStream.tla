------------------------------ MODULE LogStream ------------------------------
(***************************************************************************)
(* The buffer that a log line is put together in: FixedBuffer, LogStream   *)
(* and the conversion of integers, log/LogStream.{h,cc}, character by      *)
(* character.                                                              *)
(*                                                                         *)
(* FixedBuffer::append() copies with strcpy() and advances by len.  A      *)
(* source is therefore two things: the characters before its first NUL,    *)
(* and len.  That may be smaller, for a StringPiece that is the beginning  *)
(* of a text, for another buffer that is read past its end, and for a      *)
(* single char, behind which strcpy() finds whatever the stack holds; or   *)
(* larger, for a std::string, a StringPiece or a buffer with a NUL inside, *)
(* and for the char '\0'.                                                  *)
(***************************************************************************)
EXTENDS CInteger, Sequences, SequencesExt

CONSTANTS
  SIZE,                \* the size of data_
  kMaxNumericSize,     \* the room wanted for a number
  Sources,             \* the texts that are appended
  Values, Addresses    \* the integers and pointers that are appended

NUL == "NUL"
Stale == "stale"    \* in text: not copied, so that data_ keeps what it held

ASSUME StreamAssumption ==
  /\ SIZE \in Nat \ {0} /\ kMaxNumericSize \in Nat
  /\ \A s \in Sources :
       /\ s.chars \in Seq(STRING) /\ NUL \notin ToSet(s.chars)
       /\ s.len \in Nat
  /\ Values \subseteq Int /\ Addresses \subseteq Nat

VARIABLES
  data_, cur_,
  overrun,     \* whether strcpy() has written past data_: all bets are off then
  text,        \* history: what was appended since the last reset() and had room
  number       \* history: the integer appended last and the place of its first
               \* character, or <<>> if something else came last

vars == <<data_, cur_, overrun, text, number>>

avail == SIZE - cur_

-----------------------------------------------------------------------------
(***************************************************************************)
(* convert() and convertHex(): the digits come out from the last to the    *)
(* first and are reversed.  No integer is ever negated.                    *)
(***************************************************************************)
Digits == <<"9", "8", "7", "6", "5", "4", "3", "2", "1", "0",
            "1", "2", "3", "4", "5", "6", "7", "8", "9">>
HexDigits == <<"0", "1", "2", "3", "4", "5", "6", "7", "8", "9", "A", "B", "C", "D", "E", "F">>

\* The digits of value from the last to the first; zero[index] is the digit of a
\* negative remainder too.  i goes from value towards 0.
LastToFirst(value) ==
  LET loop[i \in IF value < 0 THEN value .. 0 ELSE 0 .. value] ==
        LET rest == Quotient(i, 10) IN
        <<Digits[10 + Remainder(i, 10)]>> \o (IF rest = 0 THEN <<>> ELSE loop[rest])
  IN loop[value]

SignFirst(value) ==    \* fault: '-' is put down before the digits are reversed
  Reverse((IF value < 0 THEN <<"-">> ELSE <<>>) \o LastToFirst(value))

convert(value) == Reverse(LastToFirst(value) \o (IF value < 0 THEN <<"-">> ELSE <<>>))

convertHex(value) ==
  LET loop[i \in 0 .. value] ==
        <<HexDigits[1 + (i % 16)]>> \o (IF i \div 16 = 0 THEN <<>> ELSE loop[i \div 16])
  IN Reverse(loop[value])

\* A number and its NUL need no more room than is asked for.
ASSUME RoomAssumption ==
  /\ \A v \in Values : Len(convert(v)) < kMaxNumericSize
  /\ \A p \in Addresses : 2 + Len(convertHex(p)) < kMaxNumericSize

-----------------------------------------------------------------------------
(***************************************************************************)
(* FixedBuffer.                                                            *)
(***************************************************************************)
\* What a C string leaves in data_ when it is copied to cur_, with its NUL.
Copied(chars) ==
  [i \in 1 .. SIZE |->
     IF i \in cur_ + 1 .. cur_ + Len(chars) THEN chars[i - cur_]
     ELSE IF i = cur_ + Len(chars) + 1 THEN NUL ELSE data_[i]]

\* data_ and cur_ of a new FixedBuffer: the constructor does not clear data_.
Init ==
  /\ data_ \in [1 .. SIZE -> {"?", NUL}] /\ cur_ = 0
  /\ overrun = FALSE /\ text = <<>> /\ number = <<>>

\* What the len characters at cur_ are then: behind the NUL there was no copying.
Contributed(chars, len) ==
  [j \in 1 .. len |-> IF j <= Len(chars) THEN chars[j]
                     ELSE IF j = Len(chars) + 1 THEN NUL ELSE Stale]

\* strcpy() of chars and add(len).
CopyAndAdd(chars, len) ==
  /\ data_' = Copied(chars) /\ cur_' = cur_ + len
  /\ overrun' = (cur_ + Len(chars) + 1 > SIZE)
  /\ text' = text \o Contributed(chars, len)

AppendIfItJustFits(chars, len) ==    \* fault: no room is wanted for the NUL
  /\ ~overrun
  /\ IF avail >= len THEN CopyAndAdd(chars, len) /\ number' = <<>> ELSE UNCHANGED vars

\* append(): a text without room is left out.
append(chars, len) ==
  /\ ~overrun
  /\ IF avail > len THEN CopyAndAdd(chars, len) /\ number' = <<>> ELSE UNCHANGED vars

NumberWithItsNul(chars, appended) ==    \* fault: the NUL that convert() writes is counted
  /\ ~overrun
  /\ IF avail >= kMaxNumericSize
     THEN /\ data_' = Copied(chars) /\ cur_' = cur_ + Len(chars) + 1
          /\ text' = text \o chars /\ number' = appended
          /\ UNCHANGED overrun
     ELSE UNCHANGED vars

\* A number is written in place when avail() >= kMaxNumericSize.
AppendNumber(chars, appended) ==
  /\ ~overrun
  /\ IF avail >= kMaxNumericSize
     THEN CopyAndAdd(chars, Len(chars)) /\ number' = appended
     ELSE UNCHANGED vars

formatInteger(v) == AppendNumber(convert(v), <<v, cur_ + 1>>)

AppendPointer(p) == AppendNumber(<<"0", "x">> \o convertHex(p), <<>>)

\* reset() does not clear data_.
reset ==
  /\ ~overrun /\ cur_' = 0 /\ text' = <<>> /\ number' = <<>>
  /\ UNCHANGED <<data_, overrun>>

\* bzero() does.
bzero ==
  /\ ~overrun /\ data_' = [i \in 1 .. SIZE |-> NUL] /\ cur_' = 0
  /\ text' = <<>> /\ number' = <<>>
  /\ UNCHANGED overrun

\* There is no telling what the program does now.
Undefined == overrun /\ UNCHANGED vars

Next ==
  \/ \E s \in Sources : append(s.chars, s.len)
  \/ \E v \in Values : formatInteger(v)
  \/ \E p \in Addresses : AppendPointer(p)
  \/ reset \/ bzero
  \/ Undefined

Spec == Init /\ [][Next]_vars

-----------------------------------------------------------------------------
(***************************************************************************)
(* Safety.                                                                 *)
(***************************************************************************)
\* The length() characters at data() are the texts and numbers that had room, in order
\* and whole up to a NUL inside, whatever data_ held before and whatever strcpy() left
\* behind cur_, where a NUL always has room.
TextIsWhatWasAppended ==
  /\ ~overrun => /\ Len(text) = cur_
                 /\ \A i \in 1 .. cur_ : text[i] # Stale => data_[i] = text[i]
  /\ cur_ < SIZE

\* Only a source with more characters than its len is ever written past data_: where
\* len is all there is, the test of append() leaves room for the NUL too, and
\* kMaxNumericSize does for every number.
OverrunOnlyByLongerSource ==
  [][overrun' => \E s \in Sources : s.len < Len(s.chars) /\ append(s.chars, s.len)]_vars

\* Data is added only where there is room for it, as the comment on append() has it.
AddedOnlyWithRoom == ~overrun

\* The number that digits stand for, read from the first to the last.
DigitValue(d) == CHOOSE n \in 0 .. 9 : HexDigits[n + 1] = d

Reading(sign, digits) ==
  LET value[n \in 0 .. Len(digits)] ==
        IF n = 0 THEN 0 ELSE 10 * value[n - 1] + sign * DigitValue(digits[n])
  IN value[Len(digits)]

\* Reading the characters of an integer gives it back: a sign and digits, no more of
\* them than needed, whatever the sign of / and %.  Integers have no width here.
IntegersReadBack ==
  number # <<>> /\ ~overrun =>
    LET v == number[1]
        chars == SubSeq(data_, number[2], cur_)
        digits == IF v < 0 THEN Tail(chars) ELSE chars
    IN /\ v < 0 => Head(chars) = "-"
       /\ ToSet(digits) \subseteq ToSet(Digits)
       /\ Reading(IF v < 0 THEN -1 ELSE 1, digits) = v
       /\ Len(digits) > 1 => Head(digits) # "0"
=============================================================================
