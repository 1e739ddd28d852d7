-------------------------- MODULE AccountsProofs ---------------------------
(***************************************************************************)
(* What a token is good for and what a client is told of its registration, *)
(* however often it tries and whatever throws: proofs about Accounts and   *)
(* Base64 for any usernames, emails, passwords, bytes and bounds, and for  *)
(* an int of any width that 4096 divides.                                  *)
(***************************************************************************)
EXTENDS Accounts, RowsProofs

Byte == 0 .. 255

(* An int keeps the low bits of what is assigned to it.                    *)
LEMMA WrapKeeps ==
  ASSUME NEW n \in Int
  PROVE  Wrap(n) \in Int /\ \E m \in Int : Wrap(n) = n + 4096 * m
<1>1. 2 ^ 12 = 4096
  OBVIOUS
<1>2. Width \in Nat \ {0} /\ Width % 4096 = 0
  BY <1>1, WidthAssumption
<1>3. PICK k \in Nat : Width = 4096 * k
  BY <1>2
<1>4. PICK h \in Int : h = Width \div 2
  BY <1>2
<1>5. PICK q \in Int : (n + h) % Width = n + h - Width * q
  BY <1>2, <1>4
<1>6. Width * q = 4096 * (k * q) /\ k * q \in Int
  BY <1>3
<1>7. Wrap(n) = n + 4096 * (-(k * q))
  BY <1>4, <1>5, <1>6 DEF Wrap
<1> QED
  BY <1>6, <1>7

LEMMA Powers ==
  /\ 2 ^ 0 = 1 /\ 2 ^ 2 = 4 /\ 2 ^ 4 = 16 /\ 2 ^ 6 = 64
  /\ \A bits \in 0 .. 7 : 2 ^ bits \in Nat \ {0}
<1>1. 2 ^ 0 = 1 /\ 2 ^ 1 = 2 /\ 2 ^ 2 = 4 /\ 2 ^ 3 = 8 /\ 2 ^ 4 = 16 /\ 2 ^ 5 = 32
      /\ 2 ^ 6 = 64 /\ 2 ^ 7 = 128
  OBVIOUS
<1>2. ASSUME NEW bits \in 0 .. 7 PROVE 2 ^ bits \in Nat \ {0}
  <2>1. {1, 2, 4, 8, 16, 32, 64, 128} \subseteq Nat \ {0}
    OBVIOUS
  <2>2. bits = 0 => 2 ^ bits = 1
    BY <1>1, Zenon
  <2>3. bits = 1 => 2 ^ bits = 2
    BY <1>1, Zenon
  <2>4. bits = 2 => 2 ^ bits = 4
    BY <1>1, Zenon
  <2>5. bits = 3 => 2 ^ bits = 8
    BY <1>1, Zenon
  <2>6. bits = 4 => 2 ^ bits = 16
    BY <1>1, Zenon
  <2>7. bits = 5 => 2 ^ bits = 32
    BY <1>1, Zenon
  <2>8. bits = 6 => 2 ^ bits = 64
    BY <1>1, Zenon
  <2>9. bits = 7 => 2 ^ bits = 128
    BY <1>1, ZenonT(60)
  <2>10. 2 ^ bits \in {1, 2, 4, 8, 16, 32, 64, 128}
    BY <2>2, <2>3, <2>4, <2>5, <2>6, <2>7, <2>8, <2>9
  <2> QED
    BY <2>1, <2>10
<1> QED
  BY <1>1, <1>2

LEMMA ShiftedIsInt ==
  ASSUME NEW v \in Int, NEW bits \in 0 .. 7
  PROVE  Shifted(v, bits) \in Int
<1>1. PICK p \in Nat \ {0} : p = 2 ^ bits
  BY Powers
<1> QED
  BY <1>1 DEF Shifted

(* The table undoes the alphabet, of which padding is no part.             *)
LEMMA TableInverts ==
  /\ \A i \in 0 .. 63 : CharOf(i) \in Nat /\ ValueOf(CharOf(i)) = i
  /\ ValueOf(Pad) = -1
<1>1. ASSUME NEW c \in Nat
      PROVE  /\ c = 43 => ValueOf(c) = 62
             /\ c = 47 => ValueOf(c) = 63
             /\ c \in 48 .. 57 => ValueOf(c) = 52 + (c - 48)
             /\ c \in 65 .. 90 => ValueOf(c) = c - 65
             /\ c \in 97 .. 122 => ValueOf(c) = 26 + (c - 97)
             /\ c = 61 => ValueOf(c) = -1
  <2>1. /\ c = 43 => c # 47
        /\ c \in 48 .. 57 => c # 43 /\ c # 47
        /\ c \in 65 .. 90 => c # 43 /\ c # 47 /\ c \notin 48 .. 57
        /\ c \in 97 .. 122 => c # 43 /\ c # 47 /\ c \notin 48 .. 57 /\ c \notin 65 .. 90
        /\ c = 43 \/ c = 47 => c \notin 48 .. 57 /\ c \notin 65 .. 90 /\ c \notin 97 .. 122
        /\ c \in 48 .. 57 => c \notin 65 .. 90 /\ c \notin 97 .. 122
        /\ c \in 65 .. 90 => c \notin 97 .. 122
        /\ c = 61 => c # 43 /\ c # 47 /\ c \notin 48 .. 57 /\ c \notin 65 .. 90 /\ c \notin 97 .. 122
    OBVIOUS
  <2> QED
    BY <2>1, ZenonT(60) DEF ValueOf
<1>2. ASSUME NEW i \in 0 .. 63
      PROVE  /\ i <= 25 => CharOf(i) = 65 + i
             /\ i \in 26 .. 51 => CharOf(i) = 97 + (i - 26)
             /\ i \in 52 .. 61 => CharOf(i) = 48 + (i - 52)
             /\ i = 62 => CharOf(i) = 43
             /\ i = 63 => CharOf(i) = 47
  <2>1. /\ i <= 25 => i \notin 26 .. 51 /\ i \notin 52 .. 61 /\ i # 62 /\ i # 63
        /\ i \in 26 .. 51 => ~(i <= 25) /\ i \notin 52 .. 61 /\ i # 62 /\ i # 63
        /\ i \in 52 .. 61 => ~(i <= 25) /\ i \notin 26 .. 51 /\ i # 62 /\ i # 63
        /\ i = 62 => ~(i <= 25) /\ i \notin 26 .. 51 /\ i \notin 52 .. 61 /\ i # 63
        /\ i = 63 => ~(i <= 25) /\ i \notin 26 .. 51 /\ i \notin 52 .. 61 /\ i # 62
    OBVIOUS
  <2> QED
    BY <2>1, ZenonT(60) DEF CharOf
<1>3. ASSUME NEW i \in 0 .. 63 PROVE CharOf(i) \in Nat /\ ValueOf(CharOf(i)) = i
  <2>1. i <= 25 \/ i \in 26 .. 51 \/ i \in 52 .. 61 \/ i = 62 \/ i = 63
    OBVIOUS
  <2>2. CharOf(i) \in Nat
    BY <1>2, <2>1
  <2> QED
    BY <1>1, <1>2, <2>1, <2>2
<1> QED
  BY <1>1, <1>3 DEF Pad

(* What a sextet of an accumulator is, by the numbers.                     *)
SextetAt(v, bits) == Shifted(v, bits) % 64

LEMMA SextetIs ==
  ASSUME NEW v \in Int, NEW bits \in {0, 2, 4, 6}
  PROVE  /\ SextetAt(v, bits) \in 0 .. 63
         /\ Sextet(v, bits) \in Nat
         /\ ValueOf(Sextet(v, bits)) = SextetAt(v, bits)
<1>1. SextetAt(v, bits) \in 0 .. 63
  <2>1. bits \in 0 .. 7
    OBVIOUS
  <2>2. PICK n \in Int : n = Shifted(v, bits)
    BY <2>1, ShiftedIsInt
  <2> QED
    BY <2>2 DEF SextetAt
<1>2. Sextet(v, bits) = CharOf(SextetAt(v, bits))
  BY DEF Sextet, SextetAt
<1> QED
  BY <1>1, <1>2, TableInverts

(* The characters of the alphabet                                          *)
Chars == {c \in Nat : ValueOf(c) \in 0 .. 63}

EncoderState == [val : Int, valb : {-6, -4, -2}, out : Seq(Chars)]

DecoderState == [val : Int, valb : {-8, -6, -4, -2}, out : Seq(Nat)]

State(val, valb, out) == [val |-> val, valb |-> valb, out |-> out]

LEMMA StateIs ==
  /\ \A at \in EncoderState : /\ at = State(at.val, at.valb, at.out)
                              /\ at.val \in Int /\ at.valb \in {-6, -4, -2} /\ at.out \in Seq(Chars)
  /\ \A at \in DecoderState : /\ at = State(at.val, at.valb, at.out)
                              /\ at.val \in Int /\ at.valb \in {-8, -6, -4, -2} /\ at.out \in Seq(Nat)
  /\ \A v \in Int, k \in {-6, -4, -2}, s \in Seq(Chars) : State(v, k, s) \in EncoderState
  /\ \A v \in Int, k \in {-8, -6, -4, -2}, s \in Seq(Nat) : State(v, k, s) \in DecoderState
  /\ \A v, k, s : State(v, k, s).val = v /\ State(v, k, s).valb = k /\ State(v, k, s).out = s
BY DEF State, EncoderState, DecoderState

(* The accumulators, shifted and added to                                  *)
Written(a, b, v) == v = Wrap(a * 256 + b)

Read(g, x, w) == w = Wrap(g * 64 + x)

(* One pass of the encoder appends a character or two.                     *)
EncodesTo(a, s, b, v) ==
  /\ Written(a, b, v)
  /\ EncodeByte(State(a, -6, s), b) = State(v, -4, Append(s, Sextet(v, 2)))
  /\ EncodeByte(State(a, -4, s), b) = State(v, -2, Append(s, Sextet(v, 4)))
  /\ EncodeByte(State(a, -2, s), b) =
       State(v, -6, Append(Append(s, Sextet(v, 6)), Sextet(v, 0)))

LEMMA EncodeByteIs ==
  ASSUME NEW a \in Int, NEW s \in Seq(Chars), NEW b \in Int
  PROVE  \E v \in Int : EncodesTo(a, s, b, v)
<1>1. PICK v \in Int : v = Wrap(a * 256 + b)
  <2>1. PICK n \in Int : n = a * 256 + b
    OBVIOUS
  <2> QED
    BY <2>1, WrapKeeps
<1>2. \A bits \in {0, 2, 4, 6} : Sextet(v, bits) \in Chars
  BY SextetIs DEF Chars
<1>3. ASSUME NEW x \in Chars, NEW y \in Chars
      PROVE  s \o <<x>> = Append(s, x) /\ s \o <<x, y>> = Append(Append(s, x), y)
  OBVIOUS
<1>4. EncodeByte(State(a, -6, s), b) = State(v, -4, Append(s, Sextet(v, 2)))
  <2>1. EncodeByte(State(a, -6, s), b) =
          State(v, -4, s \o [i \in 1 .. 1 |-> Sextet(v, 2 - 6 * (i - 1))])
    BY <1>1 DEF EncodeByte, State
  <2>2. [i \in 1 .. 1 |-> Sextet(v, 2 - 6 * (i - 1))] = <<Sextet(v, 2)>>
    OBVIOUS
  <2>3. s \o <<Sextet(v, 2)>> = Append(s, Sextet(v, 2))
    BY <1>2, <1>3
  <2> QED
    BY <2>1, <2>2, <2>3
<1>5. EncodeByte(State(a, -4, s), b) = State(v, -2, Append(s, Sextet(v, 4)))
  <2>1. EncodeByte(State(a, -4, s), b) =
          State(v, -2, s \o [i \in 1 .. 1 |-> Sextet(v, 4 - 6 * (i - 1))])
    BY <1>1 DEF EncodeByte, State
  <2>2. [i \in 1 .. 1 |-> Sextet(v, 4 - 6 * (i - 1))] = <<Sextet(v, 4)>>
    OBVIOUS
  <2>3. s \o <<Sextet(v, 4)>> = Append(s, Sextet(v, 4))
    BY <1>2, <1>3
  <2> QED
    BY <2>1, <2>2, <2>3
<1>6. EncodeByte(State(a, -2, s), b) = State(v, -6, Append(Append(s, Sextet(v, 6)), Sextet(v, 0)))
  <2>1. EncodeByte(State(a, -2, s), b) =
          State(v, -6, s \o [i \in 1 .. 2 |-> Sextet(v, 6 - 6 * (i - 1))])
    BY <1>1 DEF EncodeByte, State
  <2>2. [i \in 1 .. 2 |-> Sextet(v, 6 - 6 * (i - 1))] = <<Sextet(v, 6), Sextet(v, 0)>>
    OBVIOUS
  <2>3. s \o <<Sextet(v, 6), Sextet(v, 0)>> = Append(Append(s, Sextet(v, 6)), Sextet(v, 0))
    BY <1>2, <1>3
  <2> QED
    BY <2>1, <2>2, <2>3
<1> QED
  BY <1>1, <1>4, <1>5, <1>6 DEF EncodesTo, Written

LEMMA EncodeByteType ==
  ASSUME NEW at \in EncoderState, NEW b \in Byte
  PROVE  EncodeByte(at, b) \in EncoderState
<1>1. PICK a \in Int, k \in {-6, -4, -2}, s \in Seq(Chars) : at = State(a, k, s)
  BY StateIs
<1>2. b \in Int
  BY DEF Byte
<1>3. PICK v \in Int : EncodesTo(a, s, b, v)
  BY <1>2, EncodeByteIs
<1>4. \A bits \in {0, 2, 4, 6} : Sextet(v, bits) \in Chars
  BY SextetIs DEF Chars
<1>5. /\ Append(s, Sextet(v, 2)) \in Seq(Chars)
      /\ Append(s, Sextet(v, 4)) \in Seq(Chars)
      /\ Append(Append(s, Sextet(v, 6)), Sextet(v, 0)) \in Seq(Chars)
  BY <1>4
<1>6. CASE k = -6
  <2>1. PICK t \in Seq(Chars) : t = Append(s, Sextet(v, 2))
    BY <1>5
  <2>2. EncodeByte(at, b) = State(v, -4, t)
    BY <1>1, <1>3, <1>6, <2>1 DEF EncodesTo
  <2>3. State(v, -4, t) \in EncoderState
    BY DEF State, EncoderState
  <2> QED
    BY <2>2, <2>3
<1>7. CASE k = -4
  <2>1. PICK t \in Seq(Chars) : t = Append(s, Sextet(v, 4))
    BY <1>5
  <2>2. EncodeByte(at, b) = State(v, -2, t)
    BY <1>1, <1>3, <1>7, <2>1 DEF EncodesTo
  <2>3. State(v, -2, t) \in EncoderState
    BY DEF State, EncoderState
  <2> QED
    BY <2>2, <2>3
<1>8. CASE k = -2
  <2>1. PICK t \in Seq(Chars) : t = Append(Append(s, Sextet(v, 6)), Sextet(v, 0))
    BY <1>5
  <2>2. EncodeByte(at, b) = State(v, -6, t)
    BY <1>1, <1>3, <1>8, <2>1 DEF EncodesTo
  <2>3. State(v, -6, t) \in EncoderState
    BY DEF State, EncoderState
  <2> QED
    BY <2>2, <2>3
<1> QED
  BY <1>6, <1>7, <1>8

(* One pass of the decoder appends a byte, except every fourth time.       *)
DecodesTo(a, s, c, v) ==
  /\ Read(a, ValueOf(c), v)
  /\ DecodeChar(State(a, -8, s), c) = State(v, -2, s)
  /\ DecodeChar(State(a, -2, s), c) = State(v, -4, Append(s, (v \div 16) % 256))
  /\ DecodeChar(State(a, -4, s), c) = State(v, -6, Append(s, (v \div 4) % 256))
  /\ DecodeChar(State(a, -6, s), c) = State(v, -8, Append(s, v % 256))

LEMMA DecodeCharIs ==
  ASSUME NEW a \in Int, NEW s \in Seq(Nat), NEW c, ValueOf(c) \in 0 .. 63
  PROVE  \E v \in Int : DecodesTo(a, s, c, v)
<1>1. PICK v \in Int : v = Wrap(a * 64 + ValueOf(c))
  <2>1. PICK x \in Int : x = ValueOf(c)
    OBVIOUS
  <2>2. PICK n \in Int : n = a * 64 + x
    OBVIOUS
  <2> QED
    BY <2>1, <2>2, WrapKeeps
<1>2. Shifted(v, 4) = v \div 16 /\ Shifted(v, 2) = v \div 4 /\ Shifted(v, 0) = v
  BY Powers DEF Shifted
<1>3. DecodeChar(State(a, -8, s), c) = State(v, -2, s)
  BY <1>1 DEF DecodeChar, State
<1>4. DecodeChar(State(a, -2, s), c) = State(v, -4, Append(s, (v \div 16) % 256))
  <2>1. DecodeChar(State(a, -2, s), c) = State(v, -4, Append(s, Shifted(v, 4) % 256))
    BY <1>1 DEF DecodeChar, State
  <2> QED
    BY <1>2, <2>1
<1>5. DecodeChar(State(a, -4, s), c) = State(v, -6, Append(s, (v \div 4) % 256))
  <2>1. DecodeChar(State(a, -4, s), c) = State(v, -6, Append(s, Shifted(v, 2) % 256))
    BY <1>1 DEF DecodeChar, State
  <2> QED
    BY <1>2, <2>1
<1>6. DecodeChar(State(a, -6, s), c) = State(v, -8, Append(s, v % 256))
  <2>1. DecodeChar(State(a, -6, s), c) = State(v, -8, Append(s, Shifted(v, 0) % 256))
    BY <1>1 DEF DecodeChar, State
  <2> QED
    BY <1>2, <2>1
<1> QED
  BY <1>1, <1>3, <1>4, <1>5, <1>6 DEF DecodesTo, Read

LEMMA DecodeCharType ==
  ASSUME NEW at \in DecoderState, NEW c, ValueOf(c) \in 0 .. 63
  PROVE  DecodeChar(at, c) \in DecoderState
<1>1. PICK a \in Int, k \in {-8, -6, -4, -2}, s \in Seq(Nat) : at = State(a, k, s)
  BY StateIs
<1>2. PICK v \in Int : DecodesTo(a, s, c, v)
  BY DecodeCharIs
<1>3. (v \div 16) % 256 \in Nat /\ (v \div 4) % 256 \in Nat /\ v % 256 \in Nat
  OBVIOUS
<1>4. /\ Append(s, (v \div 16) % 256) \in Seq(Nat)
      /\ Append(s, (v \div 4) % 256) \in Seq(Nat)
      /\ Append(s, v % 256) \in Seq(Nat)
  BY <1>3
<1>5. CASE k = -8
  BY <1>1, <1>2, <1>5 DEF DecodesTo, State, DecoderState
<1>6. CASE k = -6
  <2>1. PICK t \in Seq(Nat) : t = Append(s, v % 256)
    BY <1>4
  <2>2. DecodeChar(at, c) = State(v, -8, t)
    BY <1>1, <1>2, <1>6, <2>1 DEF DecodesTo
  <2>3. State(v, -8, t) \in DecoderState
    BY DEF State, DecoderState
  <2> QED
    BY <2>2, <2>3
<1>7. CASE k = -4
  <2>1. PICK t \in Seq(Nat) : t = Append(s, (v \div 4) % 256)
    BY <1>4
  <2>2. DecodeChar(at, c) = State(v, -6, t)
    BY <1>1, <1>2, <1>7, <2>1 DEF DecodesTo
  <2>3. State(v, -6, t) \in DecoderState
    BY DEF State, DecoderState
  <2> QED
    BY <2>2, <2>3
<1>8. CASE k = -2
  <2>1. PICK t \in Seq(Nat) : t = Append(s, (v \div 16) % 256)
    BY <1>4
  <2>2. DecodeChar(at, c) = State(v, -4, t)
    BY <1>1, <1>2, <1>8, <2>1 DEF DecodesTo
  <2>3. State(v, -4, t) \in DecoderState
    BY DEF State, DecoderState
  <2> QED
    BY <2>2, <2>3
<1> QED
  BY <1>5, <1>6, <1>7, <1>8

-----------------------------------------------------------------------------
(* Two or four bits of a byte p are yet to be written, the others were read *)
TwoBits(a, g, p) == a % 4 = p % 4 /\ g % 64 = p \div 4

FourBits(a, g, p) == a % 16 = p % 16 /\ g % 16 = p \div 16

(* After i bytes, the decoder has read the characters written so far. It   *)
(* has them all, or all but the last, whose bits are in the accumulators:  *)
(* those that were written in its own, the others in the encoder's.        *)
Follows(e, d, data, i) ==
  \/ e.valb = -6 /\ d.valb = -8 /\ d.out = SubSeq(data, 1, i)
  \/ /\ i > 0 /\ e.valb = -4 /\ d.valb = -2 /\ d.out = SubSeq(data, 1, i - 1)
     /\ TwoBits(e.val, d.val, data[i])
  \/ /\ i > 0 /\ e.valb = -2 /\ d.valb = -4 /\ d.out = SubSeq(data, 1, i - 1)
     /\ FourBits(e.val, d.val, data[i])

LEMMA FirstOfThree ==
  ASSUME NEW a \in Int, NEW g \in Int, NEW b \in Byte, NEW v \in Int, NEW w \in Int,
         Written(a, b, v), Read(g, SextetAt(v, 2), w)
  PROVE  TwoBits(v, w, b)
<1>1. b \in Int /\ b >= 0 /\ b <= 255
  BY DEF Byte
<1>2. PICK m \in Int : v = a * 256 + b + 4096 * m
  <2>1. PICK n \in Int : n = a * 256 + b
    BY <1>1
  <2>2. PICK m \in Int : Wrap(n) = n + 4096 * m
    BY WrapKeeps
  <2> QED
    BY <2>1, <2>2 DEF Written
<1>3. SextetAt(v, 2) = (v \div 4) % 64
  BY Powers DEF SextetAt, Shifted
<1>4. (v \div 4) % 64 = b \div 4
  BY <1>1, <1>2
<1>5. PICK l \in Int : w = g * 64 + b \div 4 + 4096 * l
  <2>1. PICK n \in Int : n = g * 64 + b \div 4
    BY <1>1
  <2>2. PICK l \in Int : Wrap(n) = n + 4096 * l
    BY WrapKeeps
  <2> QED
    BY <1>3, <1>4, <2>1, <2>2 DEF Read
<1> QED
  BY <1>1, <1>2, <1>5 DEF TwoBits

LEMMA SecondOfThree ==
  ASSUME NEW a \in Int, NEW g \in Int, NEW p \in Byte, NEW b \in Byte, NEW v \in Int, NEW w \in Int,
         TwoBits(a, g, p), Written(a, b, v), Read(g, SextetAt(v, 4), w)
  PROVE  FourBits(v, w, b) /\ (w \div 16) % 256 = p
<1>1. b \in Int /\ b >= 0 /\ b <= 255 /\ p \in Int /\ p >= 0 /\ p <= 255
  BY DEF Byte
<1>2. PICK m \in Int : v = a * 256 + b + 4096 * m
  <2>1. PICK n \in Int : n = a * 256 + b
    BY <1>1
  <2>2. PICK m \in Int : Wrap(n) = n + 4096 * m
    BY WrapKeeps
  <2> QED
    BY <2>1, <2>2 DEF Written
<1>3. SextetAt(v, 4) = (v \div 16) % 64
  BY Powers DEF SextetAt, Shifted
<1>4. PICK x \in Int : x = (v \div 16) % 64
  OBVIOUS
<1>5. x = (p % 4) * 16 + b \div 16
  BY <1>1, <1>2, <1>4 DEF TwoBits
<1>6. PICK l \in Int : w = g * 64 + x + 4096 * l
  <2>1. PICK n \in Int : n = g * 64 + x
    BY <1>1
  <2>2. PICK l \in Int : Wrap(n) = n + 4096 * l
    BY WrapKeeps
  <2> QED
    BY <1>3, <1>4, <2>1, <2>2 DEF Read
<1>7. v % 16 = b % 16
  BY <1>1, <1>2
<1>8. w % 16 = b \div 16
  BY <1>1, <1>5, <1>6
<1>9. (w \div 16) % 256 = p
  <2>1. x \div 16 = p % 4
    BY <1>1, <1>5
  <2>2. w \div 16 = g * 4 + (p % 4) + 256 * l
    BY <1>6, <2>1
  <2>3. (g * 4 + (p % 4)) % 256 = (g % 64) * 4 + (p % 4)
    BY <1>1
  <2>4. (w \div 16) % 256 = (p \div 4) * 4 + (p % 4)
    BY <1>1, <2>2, <2>3 DEF TwoBits
  <2> QED
    BY <1>1, <2>4
<1> QED
  BY <1>7, <1>8, <1>9 DEF FourBits

LEMMA ThirdOfThree ==
  ASSUME NEW a \in Int, NEW g \in Int, NEW p \in Byte, NEW b \in Byte, NEW v \in Int,
         NEW w \in Int, NEW u \in Int,
         FourBits(a, g, p), Written(a, b, v), Read(g, SextetAt(v, 6), w), Read(w, SextetAt(v, 0), u)
  PROVE  (w \div 4) % 256 = p /\ u % 256 = b
<1>1. b \in Int /\ b >= 0 /\ b <= 255 /\ p \in Int /\ p >= 0 /\ p <= 255
  BY DEF Byte
<1>2. PICK m \in Int : v = a * 256 + b + 4096 * m
  <2>1. PICK n \in Int : n = a * 256 + b
    BY <1>1
  <2>2. PICK m \in Int : Wrap(n) = n + 4096 * m
    BY WrapKeeps
  <2> QED
    BY <2>1, <2>2 DEF Written
<1>3. SextetAt(v, 6) = (v \div 64) % 64 /\ SextetAt(v, 0) = v % 64
  BY Powers DEF SextetAt, Shifted
<1>4. PICK x \in Int, y \in Int : x = (v \div 64) % 64 /\ y = v % 64
  OBVIOUS
<1>5. x = (p % 16) * 4 + b \div 64 /\ y = b % 64
  BY <1>1, <1>2, <1>4 DEF FourBits
<1>6. PICK l \in Int : w = g * 64 + x + 4096 * l
  <2>1. PICK n \in Int : n = g * 64 + x
    BY <1>1
  <2>2. PICK l \in Int : Wrap(n) = n + 4096 * l
    BY WrapKeeps
  <2> QED
    BY <1>3, <1>4, <2>1, <2>2 DEF Read
<1>7. PICK k \in Int : u = w * 64 + y + 4096 * k
  <2>1. PICK n \in Int : n = w * 64 + y
    BY <1>1
  <2>2. PICK k \in Int : Wrap(n) = n + 4096 * k
    BY WrapKeeps
  <2> QED
    BY <1>3, <1>4, <2>1, <2>2 DEF Read
<1>8. (w \div 4) % 256 = p
  BY <1>1, <1>5, <1>6 DEF FourBits
<1>9. u % 256 = b
  <2>1. w % 4 = b \div 64
    BY <1>1, <1>5, <1>6
  <2> QED
    BY <1>1, <1>5, <1>7, <2>1
<1> QED
  BY <1>8, <1>9

LEMMA OneMore ==
  ASSUME NEW S, NEW data \in Seq(S), NEW i \in Nat, i < Len(data)
  PROVE  /\ SubSeq(data, 1, i + 1) = Append(SubSeq(data, 1, i), data[i + 1])
         /\ SubSeq(data, 1, i) \in Seq(S) /\ data[i + 1] \in S
         /\ SubSeq(data, 1, 0) = <<>>
OBVIOUS

LEMMA BytesAreNumbers ==
  ASSUME NEW data \in Seq(Byte)
  PROVE  data \in Seq(Nat)
<1>1. Byte \subseteq Nat
  BY DEF Byte
<1>2. data \in [1 .. Len(data) -> Byte] /\ Len(data) \in Nat
  BY LenProperties
<1>3. data \in [1 .. Len(data) -> Nat]
  BY <1>1, <1>2
<1> QED
  BY <1>2, <1>3, SeqDef

LEMMA FollowsIs ==
  ASSUME NEW data, NEW i \in Nat, NEW v, NEW w, NEW s
  PROVE  /\ Follows(State(v, -6, s), State(w, -8, SubSeq(data, 1, i)), data, i)
         /\ TwoBits(v, w, data[i + 1]) =>
              Follows(State(v, -4, s), State(w, -2, SubSeq(data, 1, i)), data, i + 1)
         /\ FourBits(v, w, data[i + 1]) =>
              Follows(State(v, -2, s), State(w, -4, SubSeq(data, 1, i)), data, i + 1)
<1>1. (i + 1) - 1 = i /\ i + 1 > 0
  OBVIOUS
<1>2. Follows(State(v, -6, s), State(w, -8, SubSeq(data, 1, i)), data, i)
  BY DEF Follows, State
<1>3. ASSUME TwoBits(v, w, data[i + 1])
      PROVE  Follows(State(v, -4, s), State(w, -2, SubSeq(data, 1, i)), data, i + 1)
  BY <1>1, <1>3 DEF Follows, State
<1>4. ASSUME FourBits(v, w, data[i + 1])
      PROVE  Follows(State(v, -2, s), State(w, -4, SubSeq(data, 1, i)), data, i + 1)
  BY <1>1, <1>4 DEF Follows, State
<1> QED
  BY <1>2, <1>3, <1>4

(* One byte: the decoder follows the encoder over what it has written.     *)
LEMMA FollowsStep ==
  ASSUME NEW data \in Seq(Byte), NEW i \in Nat, i < Len(data), NEW e \in EncoderState,
         NEW d \in DecoderState, Follows(e, d, data, i)
  PROVE  \/ \E c \in Chars :
              /\ EncodeByte(e, data[i + 1]).out = Append(e.out, c)
              /\ Follows(EncodeByte(e, data[i + 1]), DecodeChar(d, c), data, i + 1)
         \/ \E c1, c2 \in Chars :
              /\ EncodeByte(e, data[i + 1]).out = Append(Append(e.out, c1), c2)
              /\ Follows(EncodeByte(e, data[i + 1]), DecodeChar(DecodeChar(d, c1), c2), data, i + 1)
<1>1. PICK b \in Byte : b = data[i + 1]
  BY OneMore
<1>2. PICK a \in Int, k \in {-6, -4, -2}, es \in Seq(Chars) : e = State(a, k, es)
  BY StateIs
<1>3. PICK g \in Int, h \in {-8, -6, -4, -2}, ds \in Seq(Nat) : d = State(g, h, ds)
  BY StateIs, ZenonT(60)
<1>4. e.val = a /\ e.valb = k /\ e.out = es /\ d.val = g /\ d.valb = h /\ d.out = ds
  BY <1>2, <1>3, StateIs
<1>5. b \in Int
  BY DEF Byte
<1>6. PICK v \in Int : EncodesTo(a, es, b, v)
  BY <1>5, EncodeByteIs
<1>7. Written(a, b, v)
  BY <1>6 DEF EncodesTo
<1>8. ASSUME NEW bits \in {0, 2, 4, 6}
      PROVE  /\ Sextet(v, bits) \in Chars
             /\ ValueOf(Sextet(v, bits)) = SextetAt(v, bits)
             /\ ValueOf(Sextet(v, bits)) \in 0 .. 63
  BY SextetIs DEF Chars
<1>9. CASE k = -6
  <2>1. h = -8 /\ ds = SubSeq(data, 1, i)
    BY <1>4, <1>9 DEF Follows
  <2>2. PICK c \in Chars : c = Sextet(v, 2) /\ ValueOf(c) = SextetAt(v, 2) /\ ValueOf(c) \in 0 .. 63
    BY <1>8
  <2>3. EncodeByte(e, b) = State(v, -4, Append(es, c))
    BY <1>2, <1>6, <1>9, <2>2 DEF EncodesTo
  <2>4. PICK w \in Int : DecodesTo(g, ds, c, w)
    BY <2>2, DecodeCharIs
  <2>5. DecodeChar(d, c) = State(w, -2, ds)
    BY <1>3, <2>1, <2>4 DEF DecodesTo
  <2>6. Read(g, SextetAt(v, 2), w)
    BY <2>2, <2>4 DEF DecodesTo
  <2>7. TwoBits(v, w, b)
    BY <1>7, <2>6, FirstOfThree
  <2>8. Follows(EncodeByte(e, b), DecodeChar(d, c), data, i + 1)
    BY <1>1, <2>1, <2>3, <2>5, <2>7, FollowsIs
  <2>9. EncodeByte(e, b).out = Append(e.out, c)
    BY <1>4, <2>3 DEF State
  <2> QED
    BY <1>1, <2>8, <2>9
<1>10. CASE k = -4
  <2>1. PICK p : p = data[i]
    OBVIOUS
  <2>2. i > 0 /\ h = -2 /\ ds = SubSeq(data, 1, i - 1) /\ TwoBits(a, g, p)
    BY <1>4, <1>10, <2>1 DEF Follows
  <2>3. p \in Byte /\ Append(ds, p) = SubSeq(data, 1, i)
    <3>1. i - 1 \in Nat /\ i - 1 < Len(data) /\ (i - 1) + 1 = i
      BY <2>2
    <3> QED
      BY <2>1, <2>2, <3>1, OneMore
  <2>4. PICK c \in Chars : c = Sextet(v, 4) /\ ValueOf(c) = SextetAt(v, 4) /\ ValueOf(c) \in 0 .. 63
    BY <1>8
  <2>5. EncodeByte(e, b) = State(v, -2, Append(es, c))
    BY <1>2, <1>6, <1>10, <2>4 DEF EncodesTo
  <2>6. PICK w \in Int : DecodesTo(g, ds, c, w)
    BY <2>4, DecodeCharIs
  <2>7. Read(g, SextetAt(v, 4), w)
    BY <2>4, <2>6 DEF DecodesTo
  <2>8. FourBits(v, w, b) /\ (w \div 16) % 256 = p
    BY <1>7, <2>2, <2>3, <2>7, SecondOfThree
  <2>9. DecodeChar(d, c) = State(w, -4, SubSeq(data, 1, i))
    BY <1>3, <2>2, <2>3, <2>6, <2>8 DEF DecodesTo
  <2>10. Follows(EncodeByte(e, b), DecodeChar(d, c), data, i + 1)
    BY <1>1, <2>5, <2>8, <2>9, FollowsIs
  <2>11. EncodeByte(e, b).out = Append(e.out, c)
    BY <1>4, <2>5 DEF State
  <2> QED
    BY <1>1, <2>10, <2>11
<1>11. CASE k = -2
  <2>1. PICK p : p = data[i]
    OBVIOUS
  <2>2. i > 0 /\ h = -4 /\ ds = SubSeq(data, 1, i - 1) /\ FourBits(a, g, p)
    BY <1>4, <1>11, <2>1 DEF Follows
  <2>3. p \in Byte /\ Append(ds, p) = SubSeq(data, 1, i)
    <3>1. i - 1 \in Nat /\ i - 1 < Len(data) /\ (i - 1) + 1 = i
      BY <2>2
    <3> QED
      BY <2>1, <2>2, <3>1, OneMore
  <2>4. PICK c1 \in Chars : c1 = Sextet(v, 6) /\ ValueOf(c1) = SextetAt(v, 6) /\ ValueOf(c1) \in 0 .. 63
    BY <1>8
  <2>5. PICK c2 \in Chars : c2 = Sextet(v, 0) /\ ValueOf(c2) = SextetAt(v, 0) /\ ValueOf(c2) \in 0 .. 63
    BY <1>8
  <2>6. EncodeByte(e, b) = State(v, -6, Append(Append(es, c1), c2))
    BY <1>2, <1>6, <1>11, <2>4, <2>5 DEF EncodesTo
  <2>7. PICK w \in Int : DecodesTo(g, ds, c1, w)
    BY <2>4, DecodeCharIs
  <2>8. PICK ms \in Seq(Nat) : ms = SubSeq(data, 1, i)
    BY BytesAreNumbers, OneMore
  <2>9. PICK u \in Int : DecodesTo(w, ms, c2, u)
    BY <2>5, DecodeCharIs
  <2>10. Read(g, SextetAt(v, 6), w) /\ Read(w, SextetAt(v, 0), u)
    BY <2>4, <2>5, <2>7, <2>9 DEF DecodesTo
  <2>11. (w \div 4) % 256 = p /\ u % 256 = b
    BY <1>7, <2>2, <2>3, <2>10, ThirdOfThree
  <2>12. DecodeChar(d, c1) = State(w, -6, ms)
    BY <1>3, <2>2, <2>3, <2>7, <2>8, <2>11 DEF DecodesTo
  <2>13. DecodeChar(DecodeChar(d, c1), c2) = State(u, -8, Append(ms, b))
    BY <2>9, <2>11, <2>12 DEF DecodesTo
  <2>14. Append(ms, b) = SubSeq(data, 1, i + 1)
    BY <1>1, <2>8, OneMore
  <2>15. Follows(EncodeByte(e, b), DecodeChar(DecodeChar(d, c1), c2), data, i + 1)
    <3>1. i + 1 \in Nat
      OBVIOUS
    <3> QED
      BY <2>6, <2>13, <2>14, <3>1, FollowsIs
  <2>16. EncodeByte(e, b).out = Append(Append(e.out, c1), c2)
    BY <1>4, <2>6 DEF State
  <2> QED
    BY <1>1, <2>15, <2>16
<1> QED
  BY <1>9, <1>10, <1>11

(* The bits that are left when there are no more bytes make one character, *)
(* with which the decoder has all it was to get.                           *)
LEMMA FollowsEnd ==
  ASSUME NEW data \in Seq(Byte), NEW e \in EncoderState, NEW d \in DecoderState,
         Follows(e, d, data, Len(data))
  PROVE  /\ e.valb = -6 => d.out = data
         /\ e.valb # -6 => LET c == Sextet(Wrap(e.val * 256), e.valb + 8)
                           IN  c \in Chars /\ DecodeChar(d, c).out = data
<1>1. PICK n \in Nat : n = Len(data) /\ SubSeq(data, 1, n) = data
  OBVIOUS
<1>2. PICK a \in Int, k \in {-6, -4, -2}, es \in Seq(Chars) : e = State(a, k, es)
  BY StateIs
<1>3. PICK g \in Int, h \in {-8, -6, -4, -2}, ds \in Seq(Nat) : d = State(g, h, ds)
  BY StateIs, ZenonT(60)
<1>4. e.val = a /\ e.valb = k /\ e.out = es /\ d.val = g /\ d.valb = h /\ d.out = ds
  BY <1>2, <1>3, StateIs
<1>5. PICK z \in Byte : a * 256 + z = a * 256
  BY DEF Byte
<1>6. PICK v \in Int : Written(a, z, v) /\ v = Wrap(a * 256)
  <2>1. PICK m \in Int : m = a * 256
    OBVIOUS
  <2> QED
    BY <1>5, <2>1, WrapKeeps DEF Written
<1>7. CASE k = -6
  BY <1>1, <1>4, <1>7 DEF Follows
<1>8. CASE k = -4
  <2>1. PICK p : p = data[n]
    OBVIOUS
  <2>2. n > 0 /\ h = -2 /\ ds = SubSeq(data, 1, n - 1) /\ TwoBits(a, g, p)
    BY <1>1, <1>4, <1>8, <2>1 DEF Follows
  <2>3. p \in Byte /\ Append(ds, p) = data
    <3>1. n - 1 \in Nat /\ n - 1 < Len(data) /\ (n - 1) + 1 = n
      BY <1>1, <2>2
    <3> QED
      BY <1>1, <2>1, <2>2, <3>1, OneMore
  <2>4. PICK c \in Chars : c = Sextet(v, 4) /\ ValueOf(c) = SextetAt(v, 4) /\ ValueOf(c) \in 0 .. 63
    BY SextetIs DEF Chars
  <2>5. PICK w \in Int : DecodesTo(g, ds, c, w)
    BY <2>4, DecodeCharIs
  <2>6. Read(g, SextetAt(v, 4), w)
    BY <2>4, <2>5 DEF DecodesTo
  <2>7. (w \div 16) % 256 = p
    <3>1. a \in Int /\ g \in Int /\ p \in Byte /\ z \in Byte /\ v \in Int /\ w \in Int
      BY <2>3
    <3>2. TwoBits(a, g, p) /\ Written(a, z, v)
      BY <1>6, <2>2
    <3>3. FourBits(v, w, z) /\ (w \div 16) % 256 = p
      BY ONLY <3>1, <3>2, <2>6, SecondOfThree
    <3> QED
      BY <3>3
  <2>8. DecodeChar(d, c) = State(w, -4, data)
    BY <1>3, <2>2, <2>3, <2>5, <2>7 DEF DecodesTo
  <2>9. -4 + 8 = 4 /\ -4 # -6
    OBVIOUS
  <2> QED
    BY <1>4, <1>6, <1>8, <2>4, <2>8, <2>9, StateIs
<1>9. CASE k = -2
  <2>1. PICK p : p = data[n]
    OBVIOUS
  <2>2. n > 0 /\ h = -4 /\ ds = SubSeq(data, 1, n - 1) /\ FourBits(a, g, p)
    BY <1>1, <1>4, <1>9, <2>1 DEF Follows
  <2>3. p \in Byte /\ Append(ds, p) = data
    <3>1. n - 1 \in Nat /\ n - 1 < Len(data) /\ (n - 1) + 1 = n
      BY <1>1, <2>2
    <3> QED
      BY <1>1, <2>1, <2>2, <3>1, OneMore
  <2>4. PICK c \in Chars : c = Sextet(v, 6) /\ ValueOf(c) = SextetAt(v, 6) /\ ValueOf(c) \in 0 .. 63
    BY SextetIs DEF Chars
  <2>5. PICK w \in Int : DecodesTo(g, ds, c, w)
    BY <2>4, DecodeCharIs
  <2>6. Read(g, SextetAt(v, 6), w)
    BY <2>4, <2>5 DEF DecodesTo
  <2>7. PICK u \in Int : Read(w, SextetAt(v, 0), u)
    <3>1. SextetAt(v, 0) \in Int
      BY Powers DEF SextetAt, Shifted
    <3>2. PICK m \in Int : m = w * 64 + SextetAt(v, 0)
      BY <3>1
    <3> QED
      BY <3>2, WrapKeeps DEF Read
  <2>8. (w \div 4) % 256 = p
    BY <1>6, <2>2, <2>3, <2>6, <2>7, ThirdOfThree
  <2>9. DecodeChar(d, c) = State(w, -6, data)
    BY <1>3, <2>2, <2>3, <2>5, <2>8 DEF DecodesTo
  <2>10. -2 + 8 = 6 /\ -2 # -6
    OBVIOUS
  <2> QED
    BY <1>4, <1>6, <1>9, <2>4, <2>9, <2>10, StateIs
<1> QED
  BY <1>7, <1>8, <1>9

-----------------------------------------------------------------------------
(* The encoder's loop, a byte at a time.                                   *)
LEMMA EncodingIs ==
  ASSUME NEW data \in Seq(Byte)
  PROVE  /\ Encoding(data)[0] = State(0, -6, <<>>)
         /\ \A i \in 0 .. Len(data) : Encoding(data)[i] \in EncoderState
         /\ \A i \in 1 .. Len(data) :
              Encoding(data)[i] = EncodeByte(Encoding(data)[i - 1], data[i])
<1> DEFINE n == Len(data)
           V == EncoderState
           base == State(0, -6, <<>>)
           G == [i \in 1 .. n |-> [at \in V |-> EncodeByte(at, data[i])]]
           Def(f) == [i \in 0 .. n |-> IF i = 0 THEN base ELSE EncodeByte(f[i - 1], data[i])]
<1>1. n \in Nat /\ \A i \in 1 .. n : data[i] \in Byte
  BY LenProperties, ElementOfSeq
<1>2. base \in V
  BY EmptySeq DEF State, EncoderState
<1>3. Encoding(data) = CHOOSE f : f = Def(f)
  BY DEF Encoding, State
<1> HIDE DEF n, V, base
<1>4. G \in [1 .. n -> [V -> V]]
  BY <1>1, EncodeByteType DEF V
<1>5. \A i \in 1 .. n, at \in V : G[i][at] = EncodeByte(at, data[i])
  OBVIOUS
<1> HIDE DEF G
<1>6. PICK f \in [0 .. n -> V] : IsRecursive(f, n, V, base, G)
  BY <1>1, <1>2, <1>4, RecursionExists
<1>7. f = Def(f)
  <2>1. ASSUME NEW i \in 0 .. n, i # 0 PROVE f[i] = EncodeByte(f[i - 1], data[i])
    <3>1. i \in 1 .. n /\ f[i - 1] \in V
      BY <1>1, <1>6, <2>1
    <3> QED
      BY <1>5, <1>6, <3>1 DEF IsRecursive
  <2>2. f[0] = base
    BY <1>6 DEF IsRecursive
  <2>3. \A i \in 0 .. n : f[i] = IF i = 0 THEN base ELSE EncodeByte(f[i - 1], data[i])
    BY <2>1, <2>2
  <2> QED
    BY <1>6, <2>3
<1> DEFINE g == Encoding(data)
<1>8. g = Def(g)
  BY <1>3, <1>7, Zenon
<1> HIDE DEF g
<1>9. \A i \in 0 .. n : g[i] = IF i = 0 THEN base ELSE EncodeByte(g[i - 1], data[i])
  <2>1. \A i \in 0 .. n : Def(g)[i] = IF i = 0 THEN base ELSE EncodeByte(g[i - 1], data[i])
    OBVIOUS
  <2> HIDE DEF Def
  <2> QED
    BY <1>8, <2>1
<1>10. g[0] = base
  BY <1>1, <1>9
<1>11. \A i \in 1 .. n : g[i] = EncodeByte(g[i - 1], data[i])
  BY <1>1, <1>9
<1>12. \A i \in 0 .. n : g[i] \in V
  <2> DEFINE P == {j \in Nat : j <= n => g[j] \in V}
  <2>1. 0 \in P
    BY <1>2, <1>10
  <2>2. ASSUME NEW j \in P \cap Nat PROVE j + 1 \in P
    <3> SUFFICES ASSUME j + 1 <= n PROVE g[j + 1] \in V
      OBVIOUS
    <3>1. j + 1 \in 1 .. n /\ (j + 1) - 1 = j /\ g[j] \in V
      BY <1>1
    <3>2. data[j + 1] \in Byte
      BY <1>1, <3>1
    <3> QED
      BY <1>11, <3>1, <3>2, EncodeByteType DEF V
  <2>3. Nat \subseteq P
    <3> HIDE DEF P
    <3> QED
      BY <2>1, <2>2, SetInduction
  <2> QED
    BY <1>1, <2>3
<1> QED
  BY <1>10, <1>11, <1>12 DEF g, n, V, base

(* What the decoder's loop makes of characters, and of one more.           *)
Decoded(chars) == Decoding(chars)[Len(chars)]

CharStep(chars) ==
  [i \in 1 .. Len(chars) |-> [at \in DecoderState |-> DecodeChar(at, chars[i])]]

LEMMA CharsHaveValues == \A c \in Chars : ValueOf(c) \in 0 .. 63
BY DEF Chars

LEMMA DecodingIs ==
  ASSUME NEW chars \in Seq(Chars)
  PROVE  IsRecursive(Decoding(chars), Len(chars), DecoderState, State(0, -8, <<>>), CharStep(chars))
<1> DEFINE n == Len(chars)
           V == DecoderState
           base == State(0, -8, <<>>)
           G == CharStep(chars)
           Def(f) == [i \in 0 .. n |-> IF i = 0 THEN base ELSE DecodeChar(f[i - 1], chars[i])]
<1>1. n \in Nat /\ \A i \in 1 .. n : chars[i] \in Chars
  BY LenProperties, ElementOfSeq
<1>2. base \in V
  BY EmptySeq DEF State, DecoderState
<1>3. Decoding(chars) = CHOOSE f : f = Def(f)
  BY DEF Decoding, State
<1>4. \A i \in 1 .. n, at \in V : G[i][at] = DecodeChar(at, chars[i])
  BY DEF CharStep
<1>5. G \in [1 .. n -> [V -> V]]
  BY <1>1, DecodeCharType, CharsHaveValues DEF CharStep
<1> HIDE DEF n, V, base, G
<1>6. PICK f \in [0 .. n -> V] : IsRecursive(f, n, V, base, G)
  BY <1>1, <1>2, <1>5, RecursionExists
<1>7. f = Def(f)
  <2>1. ASSUME NEW i \in 0 .. n, i # 0 PROVE f[i] = DecodeChar(f[i - 1], chars[i])
    <3>1. i \in 1 .. n /\ f[i - 1] \in V
      BY <1>1, <1>6, <2>1
    <3> QED
      BY <1>4, <1>6, <3>1 DEF IsRecursive
  <2>2. f[0] = base
    BY <1>6 DEF IsRecursive
  <2>3. \A i \in 0 .. n : f[i] = IF i = 0 THEN base ELSE DecodeChar(f[i - 1], chars[i])
    BY <2>1, <2>2
  <2> QED
    BY <1>6, <2>3
<1> DEFINE g == Decoding(chars)
<1>8. g = Def(g)
  BY <1>3, <1>7, Zenon
<1> HIDE DEF g
<1>9. \A i \in 0 .. n : g[i] = IF i = 0 THEN base ELSE DecodeChar(g[i - 1], chars[i])
  <2>1. \A i \in 0 .. n : Def(g)[i] = IF i = 0 THEN base ELSE DecodeChar(g[i - 1], chars[i])
    OBVIOUS
  <2> HIDE DEF Def
  <2> QED
    BY <1>8, <2>1
<1>10. g[0] = base
  BY <1>1, <1>9
<1>11. \A i \in 1 .. n : g[i] = DecodeChar(g[i - 1], chars[i])
  BY <1>1, <1>9
<1>12. \A i \in 0 .. n : g[i] \in V
  <2> DEFINE P == {j \in Nat : j <= n => g[j] \in V}
  <2>1. 0 \in P
    BY <1>2, <1>10
  <2>2. ASSUME NEW j \in P \cap Nat PROVE j + 1 \in P
    <3> SUFFICES ASSUME j + 1 <= n PROVE g[j + 1] \in V
      OBVIOUS
    <3>1. j + 1 \in 1 .. n /\ (j + 1) - 1 = j /\ g[j] \in V
      BY <1>1
    <3>2. chars[j + 1] \in Chars
      BY <1>1, <3>1
    <3> QED
      BY <1>11, <3>1, <3>2, DecodeCharType, CharsHaveValues DEF V
  <2>3. Nat \subseteq P
    <3> HIDE DEF P
    <3> QED
      BY <2>1, <2>2, SetInduction
  <2> QED
    BY <1>1, <2>3
<1>13. \A i \in 1 .. n : g[i] = G[i][g[i - 1]]
  <2>1. ASSUME NEW i \in 1 .. n PROVE g[i] = G[i][g[i - 1]]
    <3>1. g[i - 1] \in V
      BY <1>1, <1>12
    <3> QED
      BY <1>4, <1>11, <3>1
  <2> QED
    BY <2>1
<1>14. IsRecursive(g, n, V, base, G)
  BY <1>10, <1>12, <1>13 DEF IsRecursive
<1> QED
  BY <1>14 DEF g, n, V, base, G

LEMMA DecodedIs ==
  /\ Decoded(<<>>) = State(0, -8, <<>>)
  /\ \A chars \in Seq(Chars) : Decoded(chars) \in DecoderState
<1>1. <<>> \in Seq(Chars) /\ Len(<<>>) = 0
  BY EmptySeq
<1>2. Decoded(<<>>) = State(0, -8, <<>>)
  <2>1. IsRecursive(Decoding(<<>>), Len(<<>>), DecoderState, State(0, -8, <<>>), CharStep(<<>>))
    BY <1>1, DecodingIs
  <2> QED
    BY <1>1, <2>1 DEF Decoded, IsRecursive
<1>3. ASSUME NEW chars \in Seq(Chars) PROVE Decoded(chars) \in DecoderState
  BY DecodingIs, LenProperties DEF Decoded, IsRecursive
<1> QED
  BY <1>2, <1>3

LEMMA DecodedAppend ==
  ASSUME NEW s \in Seq(Chars), NEW c \in Chars
  PROVE  Decoded(Append(s, c)) = DecodeChar(Decoded(s), c)
<1> DEFINE t == Append(s, c)
           f == Decoding(s)
           g == Decoding(t)
           n == Len(s)
           V == DecoderState
           base == State(0, -8, <<>>)
           G == CharStep(s)
           H == CharStep(t)
<1>1. /\ t \in Seq(Chars) /\ n \in Nat /\ Len(t) = n + 1 /\ t[n + 1] = c
      /\ \A i \in 1 .. n : s[i] = t[i]
  BY AppendProperties, LenProperties
<1>2. IsRecursive(f, n, V, base, G) /\ IsRecursive(g, n + 1, V, base, H)
  <2>1. IsRecursive(g, Len(t), V, base, H)
    BY <1>1, DecodingIs
  <2> QED
    BY <1>1, <2>1, DecodingIs
<1>3. Decoded(s) = f[n] /\ Decoded(t) = g[Len(t)]
  BY DEF Decoded
<1>4. ASSUME NEW i \in 1 .. n, NEW v \in V PROVE G[i][v] = H[i][v]
  <2> HIDE DEF t
  <2>1. i \in 1 .. Len(s) /\ i \in 1 .. Len(t) /\ s[i] = t[i]
    BY <1>1
  <2> QED
    BY <2>1 DEF CharStep
<1>5. H[n + 1][g[n]] = DecodeChar(g[n], c)
  <2> HIDE DEF t, g, n
  <2>1. n + 1 \in 1 .. Len(t) /\ g[n] \in V
    BY <1>1, <1>2 DEF IsRecursive
  <2> QED
    BY <1>1, <2>1 DEF CharStep
<1> HIDE DEF t, f, g, n, V, base, G, H
<1>6. f[n] = g[n]
  <2>1. n \in Nat
    BY <1>1
  <2>2. IsRecursive(f, n, V, base, G) /\ IsRecursive(g, n, V, base, H)
    BY <1>1, <1>2 DEF IsRecursive
  <2>3. \A i \in 1 .. n, v \in V : G[i][v] = H[i][v]
    BY <1>4
  <2> QED
    BY <2>1, <2>2, <2>3, RecursionUnique
<1>7. g[n + 1] = H[n + 1][g[n]]
  <2>1. n + 1 \in 1 .. n + 1 /\ (n + 1) - 1 = n
    BY <1>1
  <2> QED
    BY <1>2, <2>1 DEF IsRecursive
<1> QED
  BY <1>1, <1>3, <1>5, <1>6, <1>7 DEF t

(* After i bytes the decoder has followed the encoder.                     *)
LEMMA DecoderFollows ==
  ASSUME NEW data \in Seq(Byte)
  PROVE  \A i \in 0 .. Len(data) :
           Follows(Encoding(data)[i], Decoded(Encoding(data)[i].out), data, i)
<1> DEFINE n == Len(data)
           E == Encoding(data)
           P == {j \in Nat : j <= n => Follows(E[j], Decoded(E[j].out), data, j)}
<1>1. /\ n \in Nat
      /\ \A j \in 0 .. n : E[j] \in EncoderState /\ E[j].out \in Seq(Chars)
  BY EncodingIs, LenProperties, StateIs
<1>2. 0 \in P
  <2>1. E[0].out = <<>>
    BY EncodingIs, StateIs
  <2>2. Decoded(E[0].out) = State(0, -8, <<>>)
    BY <2>1, DecodedIs
  <2>3. SubSeq(data, 1, 0) = <<>>
    OBVIOUS
  <2>4. E[0] = State(0, -6, <<>>)
    BY EncodingIs
  <2>5. Follows(State(0, -6, <<>>), State(0, -8, SubSeq(data, 1, 0)), data, 0)
    BY FollowsIs
  <2> HIDE DEF E
  <2>6. Follows(E[0], Decoded(E[0].out), data, 0)
    BY <2>2, <2>3, <2>4, <2>5
  <2> QED
    BY <2>6
<1>3. ASSUME NEW j \in P \cap Nat PROVE j + 1 \in P
  <2> SUFFICES ASSUME j + 1 <= n PROVE Follows(E[j + 1], Decoded(E[j + 1].out), data, j + 1)
    OBVIOUS
  <2>1. /\ j + 1 \in 1 .. n /\ (j + 1) - 1 = j /\ j \in 0 .. n /\ j \in Nat /\ j < Len(data)
        /\ Follows(E[j], Decoded(E[j].out), data, j)
    BY <1>1
  <2>2. E[j + 1] = EncodeByte(E[j], data[j + 1])
    BY <2>1, EncodingIs
  <2> HIDE DEF n, E, P
  <2>3. PICK s \in Seq(Chars) : s = E[j].out
    BY <1>1, <2>1
  <2>4. E[j] \in EncoderState /\ Decoded(s) \in DecoderState
    BY <1>1, <2>1, DecodedIs
  <2>5. Follows(E[j], Decoded(s), data, j)
    BY <2>1, <2>3
  <2>6. CASE \E c \in Chars :
               /\ EncodeByte(E[j], data[j + 1]).out = Append(E[j].out, c)
               /\ Follows(EncodeByte(E[j], data[j + 1]), DecodeChar(Decoded(s), c), data, j + 1)
    <3>1. PICK c \in Chars :
               /\ EncodeByte(E[j], data[j + 1]).out = Append(E[j].out, c)
               /\ Follows(EncodeByte(E[j], data[j + 1]), DecodeChar(Decoded(s), c), data, j + 1)
      BY <2>6
    <3>2. Decoded(Append(s, c)) = DecodeChar(Decoded(s), c)
      BY DecodedAppend
    <3> QED
      BY <2>2, <2>3, <3>1, <3>2
  <2>7. CASE \E c1, c2 \in Chars :
               /\ EncodeByte(E[j], data[j + 1]).out = Append(Append(E[j].out, c1), c2)
               /\ Follows(EncodeByte(E[j], data[j + 1]),
                          DecodeChar(DecodeChar(Decoded(s), c1), c2), data, j + 1)
    <3>1. PICK c1 \in Chars, c2 \in Chars :
               /\ EncodeByte(E[j], data[j + 1]).out = Append(Append(E[j].out, c1), c2)
               /\ Follows(EncodeByte(E[j], data[j + 1]),
                          DecodeChar(DecodeChar(Decoded(s), c1), c2), data, j + 1)
      BY <2>7
    <3>2. PICK t \in Seq(Chars) : t = Append(s, c1)
      BY AppendProperties
    <3>3. Decoded(t) = DecodeChar(Decoded(s), c1)
      BY <3>2, DecodedAppend
    <3>4. Decoded(Append(t, c2)) = DecodeChar(Decoded(t), c2)
      BY DecodedAppend
    <3> QED
      BY <2>2, <2>3, <3>1, <3>2, <3>3, <3>4
  <2>8. \/ \E c \in Chars :
               /\ EncodeByte(E[j], data[j + 1]).out = Append(E[j].out, c)
               /\ Follows(EncodeByte(E[j], data[j + 1]), DecodeChar(Decoded(s), c), data, j + 1)
        \/ \E c1, c2 \in Chars :
               /\ EncodeByte(E[j], data[j + 1]).out = Append(Append(E[j].out, c1), c2)
               /\ Follows(EncodeByte(E[j], data[j + 1]),
                          DecodeChar(DecodeChar(Decoded(s), c1), c2), data, j + 1)
    BY <2>1, <2>4, <2>5, FollowsStep
  <2> QED
    BY <2>6, <2>7, <2>8
<1>4. Nat \subseteq P
  <2> HIDE DEF P
  <2> QED
    BY <1>2, <1>3, SetInduction
<1> QED
  BY <1>1, <1>4

(* What is written is all of the alphabet, and is decoded to what it was.  *)
Unpadded(data) ==
  LET end  == Encoding(data)[Len(data)]
      last == IF end.valb > -6 THEN <<Sextet(Wrap(end.val * 256), end.valb + 8)>> ELSE <<>>
  IN  end.out \o last

LEMMA UnpaddedIs ==
  ASSUME NEW data \in Seq(Byte)
  PROVE  Unpadded(data) \in Seq(Chars) /\ Decoded(Unpadded(data)).out = data
<1>1. PICK e \in EncoderState : e = Encoding(data)[Len(data)]
  BY EncodingIs, LenProperties
<1>2. PICK s \in Seq(Chars) : s = e.out
  BY StateIs
<1>3. PICK d \in DecoderState : d = Decoded(s)
  BY DecodedIs
<1>4. Follows(e, d, data, Len(data))
  BY <1>1, <1>2, <1>3, DecoderFollows, LenProperties
<1>5. PICK c : c = Sextet(Wrap(e.val * 256), e.valb + 8)
  OBVIOUS
<1>6. Unpadded(data) = s \o (IF e.valb > -6 THEN <<c>> ELSE <<>>)
  BY <1>1, <1>2, <1>5, Zenon DEF Unpadded
<1>7. CASE e.valb = -6
  <2>1. Unpadded(data) = s
    BY <1>6, <1>7
  <2> QED
    BY <1>3, <1>4, <1>7, <2>1, FollowsEnd
<1>8. CASE e.valb # -6
  <2>1. e.valb > -6
    BY <1>8, StateIs, SMTT(60)
  <2>2. c \in Chars /\ DecodeChar(d, c).out = data
    BY <1>4, <1>5, <1>8, FollowsEnd
  <2>3. Unpadded(data) = Append(s, c)
    BY <1>6, <2>1, <2>2
  <2>4. Append(s, c) \in Seq(Chars)
    BY <2>2, AppendProperties
  <2> QED
    BY <1>3, <2>2, <2>3, <2>4, DecodedAppend
<1> QED
  BY <1>7, <1>8

(* The loop ends where the padding begins.                                 *)
LEMMA StopsAtPadding ==
  ASSUME NEW s \in Seq(Chars), NEW p \in Seq({Pad})
  PROVE  Decode(s \o p) = Decoded(s).out
<1> DEFINE t == s \o p
           I == {i \in 1 .. Len(t) : ValueOf(t[i]) = -1}
           stop == IF I # {} THEN CHOOSE x \in I : \A y \in I : x <= y ELSE 0
           known == IF stop = 0 THEN t ELSE SubSeq(t, 1, stop - 1)
<1>1. /\ Len(s) \in Nat /\ Len(p) \in Nat /\ Len(t) = Len(s) + Len(p)
      /\ \A i \in 1 .. Len(s) : t[i] = s[i] /\ s[i] \in Chars
      /\ \A i \in Len(s) + 1 .. Len(t) : t[i] = Pad
  OBVIOUS
<1>2. /\ \A i \in 1 .. Len(s) : ValueOf(t[i]) # -1
      /\ \A i \in Len(s) + 1 .. Len(t) : ValueOf(t[i]) = -1
  <2>1. ASSUME NEW c \in Chars PROVE ValueOf(c) # -1
    <3>1. PICK x \in 0 .. 63 : x = ValueOf(c)
      BY CharsHaveValues
    <3>2. x # -1
      OBVIOUS
    <3> QED
      BY <3>1, <3>2
  <2> HIDE DEF t
  <2> QED
    BY <1>1, <2>1, TableInverts
<1>3. Decode(t) = Decoded(known).out
  BY Zenon DEF Decode, SelectInSeq, Min, Decoded
<1>4. I = Len(s) + 1 .. Len(t)
  <2> HIDE DEF t
  <2> QED
    BY <1>1, <1>2
<1>5. known = s
  <2>1. CASE Len(p) = 0
    <3>1. I = {} /\ t = s
      BY <1>1, <1>4, <2>1
    <3> HIDE DEF I, t
    <3> QED
      BY <3>1
  <2>2. CASE Len(p) > 0
    <3> HIDE DEF I, t
    <3>1. Len(s) + 1 \in I /\ \A y \in I : y \in Int /\ Len(s) + 1 <= y
      <4>1. /\ Len(s) \in Nat /\ Len(t) \in Nat /\ Len(s) + 1 <= Len(t)
        BY <1>1, <2>2
      <4>2. /\ Len(s) + 1 \in Len(s) + 1 .. Len(t)
            /\ \A y \in Len(s) + 1 .. Len(t) : y \in Int /\ Len(s) + 1 <= y
        BY <4>1
      <4> QED
        BY <1>4, <4>2, Zenon
    <3>2. stop = Len(s) + 1
      BY <1>1, <3>1
    <3>3. SubSeq(t, 1, Len(s)) = s
      BY DEF t
    <3> HIDE DEF stop
    <3> QED
      BY <1>1, <3>2, <3>3
  <2>3. Len(p) = 0 \/ Len(p) > 0
    BY <1>1
  <2> HIDE DEF known
  <2> QED
    BY <2>1, <2>2, <2>3
<1> QED
  BY <1>3, <1>5

(* Base64 loses nothing, of however many bytes, though both accumulators   *)
(* overflow: of the bits that are lost none is ever needed.                *)
THEOREM DecodeEncode ==
  ASSUME NEW data \in Seq(Byte)
  PROVE  Decode(Encode(data)) = data
<1>1. PICK s \in Seq(Chars) : s = Unpadded(data) /\ Decoded(s).out = data
  BY UnpaddedIs
<1>2. Encode(data) = s \o Padding(Len(s))
  BY <1>1, ZenonT(60) DEF Encode, Unpadded
<1>3. Padding(Len(s)) \in Seq({Pad})
  <2>1. PICK n \in Nat : n = (-Len(s)) % 4
    OBVIOUS
  <2>2. [i \in 1 .. n |-> Pad] \in Seq({Pad})
    OBVIOUS
  <2> QED
    BY <2>1, <2>2 DEF Padding
<1> QED
  BY <1>1, <1>2, <1>3, StopsAtPadding

-----------------------------------------------------------------------------
(* What a token that was issued at a moment says of its holder             *)
ClaimsOf(username, holder, issued) ==
  [username |-> username, user_id |-> holder,
   iat |-> issued \div Second, exp |-> (issued + Lifetime) \div Second]

(* It is what generate_jwt wrote of a user that registered.                *)
Issued(t, rows) ==
  /\ t.holder \in 1 .. Len(rows)
  /\ t.issued \in 0 .. clock
  /\ t.payload = Encode(Json[ClaimsOf(rows[t.holder].username, t.holder, t.issued)])

TokensInv ==
  /\ users \in Seq(Row) /\ Len(users) <= MaxUsers
  /\ clock \in 0 .. MaxClock
  /\ \A t \in tokens : Issued(t, users)

(* Whole seconds: rounded down, and in order.                              *)
LEMMA WholeSeconds ==
  ASSUME NEW a \in Nat, NEW d \in Nat \ {0}
  PROVE  /\ a \div d \in Nat
         /\ (a \div d) * d <= a
         /\ a < (a \div d) * d + d
<1>1. a \div d \in Nat
  OBVIOUS
<1>2. a = d * (a \div d) + (a % d) /\ a % d \in 0 .. d - 1
  OBVIOUS
<1> QED
  BY <1>1, <1>2

LEMMA SecondsInOrder ==
  ASSUME NEW a \in Nat, NEW b \in Nat, a <= b, NEW d \in Nat \ {0}
  PROVE  a \div d <= b \div d
<1>1. PICK p \in Nat : p = a \div d /\ p * d <= a
  BY WholeSeconds
<1>2. PICK q \in Nat : q = b \div d /\ b < q * d + d
  BY WholeSeconds
<1>3. ASSUME p >= q + 1 PROVE FALSE
  <2>1. p * d >= (q + 1) * d
    BY <1>3
  <2>2. (q + 1) * d = q * d + d
    OBVIOUS
  <2> QED
    BY <1>1, <1>2, <2>1, <2>2
<1> QED
  BY <1>1, <1>2, <1>3

LEMMA ClaimsAreOfAPayload ==
  ASSUME NEW n \in Username, NEW h \in 1 .. MaxUsers, NEW s \in 0 .. MaxClock
  PROVE  ClaimsOf(n, h, s) \in PayloadClaims
<1>1. Second \in Nat \ {0} /\ Lifetime \in Nat /\ MaxClock \in Nat /\ MaxUsers \in Nat
  BY TimeAssumption, BoundsAssumption
<1>2. s \in Nat /\ s <= MaxClock /\ s + Lifetime \in Nat /\ MaxClock + Lifetime \in Nat
      /\ s + Lifetime <= MaxClock + Lifetime
  BY <1>1
<1>3. s \div Second \in 0 .. MaxClock \div Second
  BY <1>1, <1>2, WholeSeconds, SecondsInOrder
<1>4. (s + Lifetime) \div Second \in 0 .. (MaxClock + Lifetime) \div Second
  BY <1>1, <1>2, WholeSeconds, SecondsInOrder
<1> QED
  BY <1>3, <1>4 DEF ClaimsOf, PayloadClaims

(* What verify_jwt makes of a payload is what generate_jwt put in it.      *)
LEMMA OneClaim ==
  ASSUME NEW t, NEW c \in PayloadClaims, t.payload = Encode(Json[c])
  PROVE  Claimed(t) = {c}
<1>1. Json[c] \in Seq(Byte)
  BY JsonAssumption DEF Byte
<1>2. Decode(t.payload) = Json[c]
  BY <1>1, DecodeEncode
<1>3. Claimed(t) = {b \in PayloadClaims : Json[b] = Json[c]}
  BY <1>2 DEF Claimed
<1> QED
  BY <1>3, JsonAssumption

LEMMA ClaimedIs ==
  ASSUME TokensInv, NEW t \in tokens
  PROVE  Claimed(t) = {ClaimsOf(users[t.holder].username, t.holder, t.issued)}
<1>1. Issued(t, users)
  BY DEF TokensInv
<1>2. t.holder \in 1 .. Len(users) /\ users[t.holder] \in Row
  BY <1>1, ElementOfSeq DEF TokensInv, Issued
<1>3. users[t.holder].username \in Username
  BY <1>2 DEF Row
<1>4. t.holder \in 1 .. MaxUsers /\ t.issued \in 0 .. MaxClock
  BY <1>1, <1>2, BoundsAssumption, LenProperties DEF TokensInv, Issued
<1>5. ClaimsOf(users[t.holder].username, t.holder, t.issued) \in PayloadClaims
  BY <1>3, <1>4, ClaimsAreOfAPayload
<1> QED
  BY <1>1, <1>5, OneClaim DEF Issued

(* A token stays what it was issued as when rows are added and time goes.  *)
LEMMA IssuedStays ==
  ASSUME TokensInv, NEW t \in tokens, clock' \in Nat, clock <= clock',
         users' = users \/ \E row \in Row : users' = Append(users, row)
  PROVE  Issued(t, users)'
<1>1. Issued(t, users) /\ users \in Seq(Row) /\ clock \in Nat
  BY BoundsAssumption DEF TokensInv
<1>2. /\ t.holder \in 1 .. Len(users) /\ t.issued \in 0 .. clock
      /\ t.payload = Encode(Json[ClaimsOf(users[t.holder].username, t.holder, t.issued)])
  BY <1>1 DEF Issued
<1>3. t.holder \in 1 .. Len(users') /\ users'[t.holder] = users[t.holder]
  BY <1>1, <1>2, AppendProperties, LenProperties
<1>4. t.issued \in 0 .. clock'
  BY <1>1, <1>2
<1>5. t.payload = Encode(Json[ClaimsOf(users'[t.holder].username, t.holder, t.issued)])
  BY <1>2, <1>3
<1> QED
  BY <1>3, <1>4, <1>5 DEF Issued, ClaimsOf

LEMMA JwtIsIssued ==
  ASSUME clock \in Nat, clock' = clock, NEW h, h \in 1 .. Len(users'), NEW n, users'[h].username = n,
         NEW t, t = Jwt(h, n)
  PROVE  Issued(t, users)'
<1>1. t.holder = h /\ t.issued = clock /\ t.payload = Encode(Json[ClaimsOf(n, h, clock)])
  BY DEF Jwt, Claims, ClaimsOf
<1>2. t.holder \in 1 .. Len(users') /\ t.issued \in 0 .. clock'
  BY <1>1
<1>3. t.payload = Encode(Json[ClaimsOf(users'[t.holder].username, t.holder, t.issued)])
  BY <1>1
<1> QED
  BY <1>2, <1>3 DEF Issued, ClaimsOf

LEMMA TokensNext == TokensInv /\ [Next]_vars => TokensInv'
<1> SUFFICES ASSUME TokensInv, [Next]_vars
             PROVE  TokensInv'
  OBVIOUS
<1>1. clock \in Nat /\ users \in Seq(Row) /\ Len(users) \in Nat
  BY BoundsAssumption, LenProperties DEF TokensInv
<1>2. ASSUME NEW n \in Username, NEW e \in Email, NEW p \in Password, Register(n, e, p)
      PROVE  TokensInv'
  <2> DEFINE row == [username |-> n, email |-> e, password_hash |-> Hash(p, Len(users) + 1)]
  <2>1. row \in Row
    <3>1. Hash(p, Len(users) + 1) \in Seq(Nat \cup Password)
      BY <1>1 DEF Hash
    <3> QED
      BY <3>1 DEF Row
  <2>2. clock' = clock /\ Len(users) < MaxUsers
    BY <1>2 DEF Register
  <2>3. /\ users' = users \/ users' = Append(users, row)
        /\ tokens' = tokens \/ (users' = Append(users, row)
                                 /\ tokens' = tokens \cup {Jwt(Len(users) + 1, n)})
    BY <1>2 DEF Register, Throw
  <2> HIDE DEF row
  <2>4. users' \in Seq(Row) /\ Len(users') <= MaxUsers
    BY <1>1, <2>1, <2>2, <2>3, BoundsAssumption, AppendProperties
  <2>5. clock' \in 0 .. MaxClock
    BY <2>2 DEF TokensInv
  <2>6. ASSUME NEW t \in tokens PROVE Issued(t, users)'
    BY <1>1, <2>1, <2>2, <2>3, IssuedStays
  <2>7. ASSUME users' = Append(users, row), NEW t, t = Jwt(Len(users) + 1, n)
        PROVE  Issued(t, users)'
    <3>1. Len(users) + 1 \in 1 .. Len(users') /\ users'[Len(users) + 1] = row
      BY <1>1, <2>1, <2>7, AppendProperties
    <3>2. row.username = n
      BY DEF row
    <3> QED
      BY <1>1, <2>2, <2>7, <3>1, <3>2, JwtIsIssued
  <2>8. ASSUME NEW t \in tokens' PROVE Issued(t, users)'
    BY <2>3, <2>6, <2>7
  <2> QED
    BY <2>4, <2>5, <2>8 DEF TokensInv
<1>3. ASSUME NEW n \in Username, NEW p \in Password, Login(n, p)
      PROVE  TokensInv'
  <2>1. users' = users /\ clock' = clock
    BY <1>3 DEF Login
  <2>2. \/ tokens' = tokens
        \/ \E i \in 1 .. Len(users) : users[i].username = n /\ tokens' = tokens \cup {Jwt(i, n)}
    BY <1>3 DEF Login
  <2>3. ASSUME NEW t \in tokens PROVE Issued(t, users)'
    BY <1>1, <2>1, IssuedStays
  <2>4. ASSUME NEW i \in 1 .. Len(users), users[i].username = n, NEW t, t = Jwt(i, n)
        PROVE  Issued(t, users)'
    BY <1>1, <2>1, <2>4, JwtIsIssued
  <2>5. ASSUME NEW t \in tokens' PROVE Issued(t, users)'
    BY <2>2, <2>3, <2>4
  <2> QED
    BY <2>1, <2>5 DEF TokensInv
<1>4. CASE Tick
  <2>1. users' = users /\ tokens' = tokens /\ clock' \in 0 .. MaxClock /\ clock <= clock'
    BY <1>1, <1>4, BoundsAssumption DEF Tick
  <2>2. ASSUME NEW t \in tokens PROVE Issued(t, users)'
    BY <2>1, BoundsAssumption, IssuedStays
  <2> QED
    BY <2>1, <2>2 DEF TokensInv
<1>5. CASE UNCHANGED <<users, tokens, clock>>
  <2>1. ASSUME NEW t \in tokens PROVE Issued(t, users)'
    BY <1>1, <1>5, IssuedStays
  <2> QED
    BY <1>5, <2>1 DEF TokensInv
<1>6. ASSUME NEW t \in tokens, Use(t)
      PROVE  UNCHANGED <<users, tokens, clock>>
  BY <1>6 DEF Use
<1> QED
  BY <1>2, <1>3, <1>4, <1>5, <1>6 DEF Next, vars

LEMMA TokensInit == Init => TokensInv
<1> SUFFICES ASSUME Init PROVE TokensInv
  OBVIOUS
<1>1. users \in Seq(Row) /\ Len(users) = 0
  BY EmptySeq DEF Init
<1> QED
  BY <1>1, BoundsAssumption DEF Init, TokensInv

(* TokensNameTheirHolder of every reachable state, for any number of       *)
(* users, tokens and bytes: what get_user_from_auth reads out of a token   *)
(* is what handle_register or handle_login put into it.                    *)
THEOREM TokensAreTheirHolders == Spec => []TokensNameTheirHolder
<1>1. TokensInv => TokensNameTheirHolder
  BY ClaimedIs DEF TokensNameTheirHolder, ClaimsOf
<1> QED
  BY <1>1, TokensInit, TokensNext, PTL DEF Spec

(* TokensLastTheirLifetime of every reachable state, for any lifetime and  *)
(* any length of a second.                                                 *)
THEOREM TokensExpire == Spec => []TokensLastTheirLifetime
<1>1. ASSUME TokensInv PROVE TokensLastTheirLifetime
  <2> SUFFICES ASSUME NEW t \in tokens
               PROVE  /\ Valid(t) # {} => clock <= t.issued + Lifetime
                      /\ clock <= t.issued + Lifetime - Second => Valid(t) # {}
    BY DEF TokensLastTheirLifetime
  <2>1. Second \in Nat \ {0} /\ Lifetime \in Nat /\ clock \in Nat /\ t.issued \in Nat
    BY <1>1, TimeAssumption, BoundsAssumption DEF TokensInv, Issued
  <2>2. PICK s \in Nat : s = t.issued + Lifetime
    BY <2>1
  <2>3. PICK exp \in Nat : exp = s \div Second /\ exp * Second <= s /\ s < exp * Second + Second
    BY <2>1, WholeSeconds
  <2>4. PICK c : c = ClaimsOf(users[t.holder].username, t.holder, t.issued)
    OBVIOUS
  <2>5. Claimed(t) = {c}
    BY <1>1, <2>4, ClaimedIs
  <2>6. c.exp = exp
    BY <2>2, <2>3, <2>4 DEF ClaimsOf
  <2>7. Valid(t) # {} <=> clock <= exp * Second
    BY <2>5, <2>6 DEF Valid
  <2> QED
    BY <2>1, <2>2, <2>3, <2>7
<1> QED
  BY <1>1, TokensInit, TokensNext, PTL DEF Spec

-----------------------------------------------------------------------------
(* What is handed out is of the bytes of the alphabet and of padding.      *)
LEMMA EncodeType ==
  ASSUME NEW data \in Seq(Byte)
  PROVE  Encode(data) \in Seq(Byte)
<1>1. Chars \subseteq Byte
  <2> SUFFICES ASSUME NEW c \in Chars PROVE c \in Byte
    OBVIOUS
  <2>1. c \in Nat /\ ValueOf(c) # -1
    <3>1. PICK x \in 0 .. 63 : x = ValueOf(c)
      BY CharsHaveValues
    <3>2. x # -1
      OBVIOUS
    <3> QED
      BY <3>1, <3>2 DEF Chars
  <2>2. c = 43 \/ c = 47 \/ c \in 48 .. 57 \/ c \in 65 .. 90 \/ c \in 97 .. 122
    BY <2>1, Zenon DEF ValueOf
  <2> QED
    BY <2>1, <2>2 DEF Byte
<1>2. PICK s \in Seq(Chars) : s = Unpadded(data)
  BY UnpaddedIs
<1>3. s \in Seq(Byte)
  <2>1. s \in [1 .. Len(s) -> Chars] /\ Len(s) \in Nat
    BY LenProperties
  <2>2. s \in [1 .. Len(s) -> Byte]
    BY <1>1, <2>1
  <2> QED
    BY <2>1, <2>2, SeqDef
<1>4. Padding(Len(s)) \in Seq(Byte)
  <2>1. PICK n \in Nat : n = (-Len(s)) % 4
    OBVIOUS
  <2>2. Pad \in Byte
    BY DEF Pad, Byte
  <2>3. [i \in 1 .. n |-> Pad] \in Seq(Byte)
    BY <2>2
  <2> QED
    BY <2>1, <2>3 DEF Padding
<1>5. Encode(data) = s \o Padding(Len(s))
  BY <1>2, ZenonT(60) DEF Encode, Unpadded
<1> QED
  BY <1>3, <1>4, <1>5, ConcatProperties

LEMMA JwtIsAToken ==
  ASSUME NEW n \in Username, NEW h \in 1 .. MaxUsers, clock \in 0 .. MaxClock
  PROVE  Jwt(h, n) \in Token
<1>1. Json[ClaimsOf(n, h, clock)] \in Seq(Byte)
  BY ClaimsAreOfAPayload, JsonAssumption DEF Byte
<1>2. Encode(Json[ClaimsOf(n, h, clock)]) \in Seq(0 .. 255)
  BY <1>1, EncodeType DEF Byte
<1>3. Jwt(h, n) = [payload |-> Encode(Json[ClaimsOf(n, h, clock)]), holder |-> h, issued |-> clock]
  BY DEF Jwt, Claims, ClaimsOf
<1>4. h \in Nat \ {0} /\ clock \in Nat
  BY BoundsAssumption
<1> QED
  BY <1>2, <1>3, <1>4 DEF Token

TypeInv == TypeOK /\ TokensInv

(* No two rows share a username or an email.                               *)
Unique(rows) ==
  \A i, j \in 1 .. Len(rows) :
    rows[i].username = rows[j].username \/ rows[i].email = rows[j].email => i = j

LEMMA UniqueAppend ==
  ASSUME NEW rows \in Seq(Row), Unique(rows), NEW row \in Row,
         \A i \in 1 .. Len(rows) : rows[i].username # row.username /\ rows[i].email # row.email
  PROVE  Unique(Append(rows, row))
<1>1. PICK t : t = Append(rows, row)
  OBVIOUS
<1>2. /\ Len(rows) \in Nat /\ Len(t) = Len(rows) + 1 /\ t[Len(rows) + 1] = row
      /\ \A i \in 1 .. Len(rows) : t[i] = rows[i]
  BY <1>1, AppendProperties, LenProperties
<1> SUFFICES ASSUME NEW i \in 1 .. Len(t), NEW j \in 1 .. Len(t),
                    t[i].username = t[j].username \/ t[i].email = t[j].email
             PROVE  i = j
  BY <1>1 DEF Unique
<1>3. CASE i \in 1 .. Len(rows) /\ j \in 1 .. Len(rows)
  BY <1>2, <1>3 DEF Unique
<1>4. CASE i = Len(rows) + 1 \/ j = Len(rows) + 1
  BY <1>2, <1>4
<1> QED
  BY <1>2, <1>3, <1>4

LEMMA AnswerType ==
  \A s, u : /\ s \in {201, 200, 401, 409, 500} /\ (u \in Nat \/ u = NoUser)
            /\ Answer(s, u)
            => reply' \in Reply
BY DEF Answer, Reply

LEMMA ThrowType ==
  ASSUME TypeOK, Throw
  PROVE  reply' \in Reply /\ faults' \in 0 .. MaxFaults
<1>1. reply' \in Reply
  BY DEF Throw, Reply
<1> QED
  BY <1>1, BoundsAssumption DEF Throw, TypeOK

LEMMA TypeNext == TypeInv /\ [Next]_vars => TypeInv'
<1> SUFFICES ASSUME TypeInv, [Next]_vars
             PROVE  TypeInv'
  OBVIOUS
<1>1. TokensInv /\ TypeOK
  BY DEF TypeInv
<1>2. TokensInv'
  BY <1>1, TokensNext
<1>3. /\ users' \in Seq(Row) /\ Len(users') <= MaxUsers /\ clock' \in 0 .. MaxClock
      /\ \A t \in tokens' : t.holder <= Len(users')
  <2>1. users' \in Seq(Row) /\ Len(users') <= MaxUsers /\ clock' \in 0 .. MaxClock
    BY <1>2 DEF TokensInv
  <2>2. ASSUME NEW t \in tokens' PROVE t.holder <= Len(users')
    BY <1>2, <2>1, LenProperties DEF TokensInv, Issued
  <2> QED
    BY <2>1, <2>2
<1>4. /\ users \in Seq(Row) /\ Len(users) \in Nat /\ Unique(users) /\ tokens \subseteq Token
      /\ clock \in 0 .. MaxClock /\ reply \in Reply /\ faults \in 0 .. MaxFaults
  BY <1>1, LenProperties DEF TypeOK, Unique
<1> SUFFICES /\ Unique(users') /\ tokens' \subseteq Token
             /\ reply' \in Reply /\ faults' \in 0 .. MaxFaults
  BY <1>2, <1>3 DEF TypeInv, TypeOK, Unique
<1>5. ASSUME NEW n \in Username, NEW e \in Email, NEW p \in Password, Register(n, e, p)
      PROVE  /\ Unique(users') /\ tokens' \subseteq Token
             /\ reply' \in Reply /\ faults' \in 0 .. MaxFaults
  <2> DEFINE user == Len(users) + 1
             row == [username |-> n, email |-> e, password_hash |-> Hash(p, user)]
  <2>1. user \in 1 .. MaxUsers
    BY <1>4, <1>5, BoundsAssumption DEF Register
  <2>2. Jwt(user, n) \in Token
    BY <1>4, <2>1, JwtIsAToken
  <2>3. row \in Row /\ row.username = n /\ row.email = e
    <3>1. Hash(p, user) \in Seq(Nat \cup Password)
      BY <1>4 DEF Hash
    <3> QED
      BY <3>1 DEF Row
  <2>4. tokens' = tokens \/ tokens' = tokens \cup {Jwt(user, n)}
    BY <1>5 DEF Register
  <2>5. \/ users' = users
        \/ ~Taken("username", n) /\ ~Taken("email", e) /\ users' = Append(users, row)
    BY <1>5 DEF Register
  <2>6. \/ Throw
        \/ faults' = faults /\ \E s \in {409, 500} : Answer(s, NoUser)
        \/ faults' = faults /\ Answer(201, user)
    BY <1>5 DEF Register
  <2> HIDE DEF row
  <2>7. Unique(users')
    <3>1. CASE users' = users
      BY <1>4, <3>1
    <3>2. CASE ~Taken("username", n) /\ ~Taken("email", e) /\ users' = Append(users, row)
      <4>1. \A i \in 1 .. Len(users) : users[i].username # n /\ users[i].email # e
        BY <3>2 DEF Taken
      <4> QED
        BY <1>4, <2>3, <3>2, <4>1, UniqueAppend
    <3> QED
      BY <2>5, <3>1, <3>2
  <2>8. reply' \in Reply /\ faults' \in 0 .. MaxFaults
    <3>1. CASE Throw
      BY <1>1, <3>1, ThrowType
    <3>2. CASE faults' = faults /\ \E s \in {409, 500} : Answer(s, NoUser)
      <4>1. PICK s \in {409, 500} : Answer(s, NoUser)
        BY <3>2
      <4>2. reply' \in Reply
        BY <4>1, AnswerType
      <4> QED
        BY <1>4, <3>2, <4>2
    <3>3. CASE faults' = faults /\ Answer(201, user)
      BY <1>4, <3>3, AnswerType
    <3> QED
      BY <2>6, <3>1, <3>2, <3>3
  <2> QED
    BY <1>4, <2>2, <2>4, <2>7, <2>8
<1>6. ASSUME NEW n \in Username, NEW p \in Password, Login(n, p)
      PROVE  /\ Unique(users') /\ tokens' \subseteq Token
             /\ reply' \in Reply /\ faults' \in 0 .. MaxFaults
  <2>1. users' = users
    BY <1>6 DEF Login
  <2>2. \/ tokens' = tokens
        \/ \E i \in 1 .. Len(users) : tokens' = tokens \cup {Jwt(i, n)}
    BY <1>6 DEF Login
  <2>3. ASSUME NEW i \in 1 .. Len(users) PROVE Jwt(i, n) \in Token
    <3>1. i \in 1 .. MaxUsers
      BY <1>1, <1>4, BoundsAssumption DEF TypeOK
    <3> QED
      BY <1>4, <3>1, JwtIsAToken
  <2>4. tokens' \subseteq Token
    BY <1>4, <2>2, <2>3
  <2>5. \/ Throw
        \/ faults' = faults /\ Answer(401, NoUser)
        \/ faults' = faults /\ \E i \in 1 .. Len(users) : Answer(200, i)
    BY <1>6 DEF Login
  <2>6. CASE Throw
    BY <1>1, <1>4, <2>1, <2>4, <2>6, ThrowType
  <2>7. CASE faults' = faults /\ Answer(401, NoUser)
    BY <1>4, <2>1, <2>4, <2>7, AnswerType
  <2>8. ASSUME faults' = faults, NEW i \in 1 .. Len(users), Answer(200, i)
        PROVE  reply' \in Reply /\ faults' \in 0 .. MaxFaults
    <3>1. i \in Nat
      OBVIOUS
    <3> QED
      BY <1>4, <2>8, <3>1, AnswerType
  <2> QED
    BY <1>4, <2>1, <2>4, <2>5, <2>6, <2>7, <2>8
<1>7. ASSUME NEW t \in tokens, Use(t)
      PROVE  /\ Unique(users') /\ tokens' \subseteq Token
             /\ reply' \in Reply /\ faults' \in 0 .. MaxFaults
  <2>1. users' = users /\ tokens' = tokens /\ faults' = faults
    BY <1>7 DEF Use
  <2>2. ASSUME NEW c \in Valid(t), Answer(200, c.user_id) PROVE reply' \in Reply
    <3>1. c \in PayloadClaims
      BY <2>2 DEF Valid, Claimed
    <3>2. c.user_id \in Nat
      BY <3>1, BoundsAssumption DEF PayloadClaims
    <3> QED
      BY <2>2, <3>2, AnswerType
  <2>3. CASE Answer(401, NoUser)
    BY <1>4, <2>1, <2>3, AnswerType
  <2> QED
    BY <1>4, <1>7, <2>1, <2>2, <2>3 DEF Use
<1>8. CASE Tick \/ UNCHANGED vars
  BY <1>4, <1>8 DEF Tick, vars
<1> QED
  BY <1>5, <1>6, <1>7, <1>8 DEF Next

(* Type correctness, and that a username or an email is one user's: both   *)
(* SELECTs of handle_register look before its INSERT.                      *)
THEOREM AccountsAreTyped == Spec => []TypeOK
<1>1. Init => TypeInv
  <2> SUFFICES ASSUME Init PROVE TypeInv
    OBVIOUS
  <2>1. TokensInv
    BY TokensInit
  <2>2. users \in Seq(Row) /\ Len(users) = 0 /\ tokens = {}
    BY EmptySeq DEF Init
  <2>3. reply \in Reply /\ faults \in 0 .. MaxFaults /\ clock \in 0 .. MaxClock
    BY BoundsAssumption DEF Init, Reply
  <2> QED
    BY <2>1, <2>2, <2>3, BoundsAssumption DEF TypeInv, TypeOK
<1>2. TypeInv => TypeOK
  BY DEF TypeInv
<1> QED
  BY <1>1, <1>2, TypeNext, PTL DEF Spec

-----------------------------------------------------------------------------
(* The INSERT is tried only when both SELECTs found nothing, so that the   *)
(* table's constraints never refuse it.                                    *)
LEMMA InsertIsNeverRefused ==
  ASSUME NEW n, NEW e, ~Found(n, e)
  PROVE  ~Taken("username", n) /\ ~Taken("email", e)
BY DEF Found

LEMMA ThrowIsMarked ==
  ASSUME Throw
  PROVE  ErrorsAreFaults'
BY DEF ErrorsAreFaults, Throw

LEMMA ErrorsNext == ErrorsAreFaults /\ [Next]_vars => ErrorsAreFaults'
<1> SUFFICES ASSUME ErrorsAreFaults, [Next]_vars
             PROVE  ErrorsAreFaults'
  OBVIOUS
<1>1. ASSUME NEW n \in Username, NEW e \in Email, NEW p \in Password, Register(n, e, p)
      PROVE  ErrorsAreFaults'
  <2>1. CASE Throw
    BY <2>1, ThrowIsMarked
  <2>2. CASE Answer(409, NoUser)
    BY <2>2 DEF ErrorsAreFaults, Answer
  <2>3. CASE Answer(201, Len(users) + 1)
    BY <2>3 DEF ErrorsAreFaults, Answer
  <2> QED
    BY <1>1, <2>1, <2>2, <2>3, InsertIsNeverRefused DEF Register
<1>2. ASSUME NEW n \in Username, NEW p \in Password, Login(n, p)
      PROVE  ErrorsAreFaults'
  <2>1. CASE Throw
    BY <2>1, ThrowIsMarked
  <2>2. ASSUME NEW i \in 1 .. Len(users), Answer(200, i)
        PROVE  ErrorsAreFaults'
    BY <2>2 DEF ErrorsAreFaults, Answer
  <2>3. CASE Answer(401, NoUser)
    BY <2>3 DEF ErrorsAreFaults, Answer
  <2> QED
    BY <1>2, <2>1, <2>2, <2>3 DEF Login
<1>3. ASSUME NEW t \in tokens, Use(t)
      PROVE  ErrorsAreFaults'
  <2>1. reply'.status # 500
    <3>1. CASE \E c \in Valid(t) : Answer(200, c.user_id)
      BY <1>3, <3>1 DEF Use, Answer
    <3>2. CASE Answer(401, NoUser)
      BY <1>3, <3>2 DEF Use, Answer
    <3> QED
      BY <1>3, <3>1, <3>2 DEF Use
  <2> QED
    BY <2>1 DEF ErrorsAreFaults
<1>4. CASE Tick \/ UNCHANGED vars
  BY <1>4 DEF Tick, vars, ErrorsAreFaults
<1> QED
  BY <1>1, <1>2, <1>3, <1>4 DEF Next

(* ErrorsAreFaults of every reachable state, for any usernames, emails and *)
(* passwords, and any number of failures: handle_register, tried again     *)
(* after an answer that was lost, is not answered with an internal error   *)
(* unless its own transaction throws.                                      *)
THEOREM RetriesAreConflicts == Spec => []ErrorsAreFaults
<1>1. Init => ErrorsAreFaults
  BY DEF Init, ErrorsAreFaults
<1> QED
  BY <1>1, ErrorsNext, PTL DEF Spec

=============================================================================
