------------------------------- MODULE Base64 -------------------------------
(***************************************************************************)
(* AuthService::base64_encode and base64_decode (src/api/auth.cpp), which  *)
(* carry the payload of every token: a character at a time over an int     *)
(* that is shifted left for every one and never masked, so that it         *)
(* overflows after a few.  The build's compilers wrap.                     *)
(***************************************************************************)
EXTENDS Integers, Sequences, SequencesExt

CONSTANT Width   \* the numbers an int holds: 2^32

ASSUME WidthAssumption == Width \in Nat \ {0} /\ Width % 2 ^ 12 = 0

Pad == 61   \* '='

(* base64_chars, as an ASCII code                                          *)
CharOf(i) ==
  CASE i <= 25 -> 65 + i
    [] i \in 26 .. 51 -> 97 + (i - 26)
    [] i \in 52 .. 61 -> 48 + (i - 52)
    [] i = 62 -> 43
    [] i = 63 -> 47

(* base64_table                                                            *)
ValueOfSwapped(c) ==
  CASE c = 43 -> 63
    [] c = 47 -> 62
    [] c \in 48 .. 57 -> 52 + (c - 48)
    [] c \in 65 .. 90 -> c - 65
    [] c \in 97 .. 122 -> 26 + (c - 97)
    [] OTHER -> -1

ValueOf(c) ==
  CASE c = 43 -> 62
    [] c = 47 -> 63
    [] c \in 48 .. 57 -> 52 + (c - 48)
    [] c \in 65 .. 90 -> c - 65
    [] c \in 97 .. 122 -> 26 + (c - 97)
    [] OTHER -> -1

(* What an int holds after n was assigned to it                            *)
Wrap(n) == ((n + Width \div 2) % Width) - Width \div 2

(* (v >> bits) of an int, which keeps the sign                             *)
Shifted(v, bits) == v \div 2 ^ bits

Sextet(v, bits) == CharOf(Shifted(v, bits) % 64)

-----------------------------------------------------------------------------
(* base64_encode.  One pass of its loop, the while loop in it included:    *)
(* the accumulator, the bits in it less six, and what has been written     *)
EncodeByte(at, b) ==
  LET val   == Wrap(at.val * 256 + b)
      bits  == at.valb + 8
      count == bits \div 6 + 1
  IN  [val |-> val,
       valb |-> bits - 6 * count,
       out |-> at.out \o [i \in 1 .. count |-> Sextet(val, bits - 6 * (i - 1))]]

Padding(n) == [i \in 1 .. (-n) % 4 |-> Pad]

(* What the loop has made of the first 0, 1, ..., Len(data) bytes          *)
Encoding(data) ==
  LET after[i \in 0 .. Len(data)] ==
        IF i = 0 THEN [val |-> 0, valb |-> -6, out |-> <<>>]
        ELSE EncodeByte(after[i - 1], data[i])
  IN  after

Encode(data) ==
  LET end  == Encoding(data)[Len(data)]
      last == IF end.valb > -6 THEN <<Sextet(Wrap(end.val * 256), end.valb + 8)>> ELSE <<>>
      out  == end.out \o last
  IN  out \o Padding(Len(out))

(* base64_decode, whose loop ends at a character that is not in the table  *)
DecodeChar(at, c) ==
  LET val  == Wrap(at.val * 64 + ValueOf(c))
      bits == at.valb + 6
  IN  IF bits >= 0
      THEN [val |-> val, valb |-> bits - 8, out |-> Append(at.out, Shifted(val, bits) % 256)]
      ELSE [val |-> val, valb |-> bits, out |-> at.out]

Decoding(chars) ==
  LET after[i \in 0 .. Len(chars)] ==
        IF i = 0 THEN [val |-> 0, valb |-> -8, out |-> <<>>]
        ELSE DecodeChar(after[i - 1], chars[i])
  IN  after

Decode(encoded) ==
  LET stop  == SelectInSeq(encoded, LAMBDA c : ValueOf(c) = -1)
      known == IF stop = 0 THEN encoded ELSE SubSeq(encoded, 1, stop - 1)
  IN  Decoding(known)[Len(known)].out
=============================================================================
