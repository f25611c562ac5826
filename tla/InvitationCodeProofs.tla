------------------------- MODULE InvitationCodeProofs -------------------------
(***************************************************************************)
(* Proofs about InvitationCode: what the encoder writes the decoder reads, *)
(* for byte sequences of any length.                                       *)
(***************************************************************************)
EXTENDS InvitationCode, WellFoundedInduction, TLAPS

-----------------------------------------------------------------------------
(* The buffers *)

\* The lowest bits of x, those below m.
Low(x, m) == x % m

\* Five bits, and eight, of x from the place u on.
Digit(x, u) == (x \div u) % 32
Octet(x, u) == (x \div u) % 256

\* A byte, and a digit, shifted into a buffer.
WithByte(x, b) == (x * 256 + b) % 2 ^ BufferBits
WithDigit(x, c) == (x * 32 + c) % 2 ^ BufferBits

\* A buffer is a number.
LEMMA BufferType ==
  ASSUME NEW x \in Nat, NEW y \in Nat
  PROVE  WithByte(x, y) \in Nat /\ WithDigit(x, y) \in Nat
BY Z3 DEF WithByte, WithDigit, BufferBits

\* What a byte leaves in the lowest bits of the encoder's buffer.
LEMMA ByteIn ==
  ASSUME NEW x \in Nat, NEW b \in Nat, b < 256
  PROVE  /\ Low(WithByte(x, b), 2) = Low(b, 2)
         /\ Low(WithByte(x, b), 4) = Low(b, 4)
         /\ Low(WithByte(x, b), 8) = Low(b, 8)
         /\ Low(WithByte(x, b), 16) = Low(b, 16)
         /\ Low(WithByte(x, b), 32) = Low(b, 32)
         /\ Low(WithByte(x, b), 64) = Low(b, 64)
         /\ Low(WithByte(x, b), 128) = Low(b, 128)
         /\ Low(WithByte(x, b), 256) = b
         /\ Low(WithByte(x, b), 512) = 256 * Low(x, 2) + b
         /\ Low(WithByte(x, b), 1024) = 256 * Low(x, 4) + b
         /\ Low(WithByte(x, b), 2048) = 256 * Low(x, 8) + b
         /\ Low(WithByte(x, b), 4096) = 256 * Low(x, 16) + b
BY Z3 DEF WithByte, Low, BufferBits

\* What a digit leaves in the lowest bits of the decoder's buffer.
LEMMA DigitIn ==
  ASSUME NEW x \in Nat, NEW c \in Nat, c < 32
  PROVE  /\ Low(WithDigit(x, c), 2) = Low(c, 2)
         /\ Low(WithDigit(x, c), 4) = Low(c, 4)
         /\ Low(WithDigit(x, c), 8) = Low(c, 8)
         /\ Low(WithDigit(x, c), 16) = Low(c, 16)
         /\ Low(WithDigit(x, c), 32) = c
         /\ Low(WithDigit(x, c), 64) = 32 * Low(x, 2) + c
         /\ Low(WithDigit(x, c), 128) = 32 * Low(x, 4) + c
         /\ Low(WithDigit(x, c), 256) = 32 * Low(x, 8) + c
         /\ Low(WithDigit(x, c), 512) = 32 * Low(x, 16) + c
         /\ Low(WithDigit(x, c), 1024) = 32 * Low(x, 32) + c
         /\ Low(WithDigit(x, c), 2048) = 32 * Low(x, 64) + c
         /\ Low(WithDigit(x, c), 4096) = 32 * Low(x, 128) + c
BY Z3 DEF WithDigit, Low, BufferBits

\* A digit, and a byte, that is taken out of the middle of a buffer.
LEMMA TakenOut ==
  ASSUME NEW x \in Nat
  PROVE  /\ Digit(x, 1) = Low(x, 32)
         /\ Digit(x, 2) = Low(x, 64) \div 2
         /\ Digit(x, 4) = Low(x, 128) \div 4
         /\ Digit(x, 8) = Low(x, 256) \div 8
         /\ Digit(x, 16) = Low(x, 512) \div 16
         /\ Digit(x, 32) = Low(x, 1024) \div 32
         /\ Digit(x, 64) = Low(x, 2048) \div 64
         /\ Digit(x, 128) = Low(x, 4096) \div 128
         /\ Octet(x, 1) = Low(x, 256)
         /\ Octet(x, 2) = Low(x, 512) \div 2
         /\ Octet(x, 4) = Low(x, 1024) \div 4
         /\ Octet(x, 8) = Low(x, 2048) \div 8
         /\ Octet(x, 16) = Low(x, 4096) \div 16
<1>1. Digit(x, 1) = Low(x, 32)
  BY Z3 DEF Low, Digit, Octet
<1>2. Digit(x, 2) = Low(x, 64) \div 2
  BY Z3 DEF Low, Digit, Octet
<1>3. Digit(x, 4) = Low(x, 128) \div 4
  BY Z3 DEF Low, Digit, Octet
<1>4. Digit(x, 8) = Low(x, 256) \div 8
  BY Z3 DEF Low, Digit, Octet
<1>5. Digit(x, 16) = Low(x, 512) \div 16
  BY Z3 DEF Low, Digit, Octet
<1>6. Digit(x, 32) = Low(x, 1024) \div 32
  BY Z3 DEF Low, Digit, Octet
<1>7. Digit(x, 64) = Low(x, 2048) \div 64
  BY Z3 DEF Low, Digit, Octet
<1>8. Digit(x, 128) = Low(x, 4096) \div 128
  BY Z3 DEF Low, Digit, Octet
<1>9. Octet(x, 1) = Low(x, 256)
  BY Z3 DEF Low, Digit, Octet
<1>10. Octet(x, 2) = Low(x, 512) \div 2
  BY Z3 DEF Low, Digit, Octet
<1>11. Octet(x, 4) = Low(x, 1024) \div 4
  BY Z3 DEF Low, Digit, Octet
<1>12. Octet(x, 8) = Low(x, 2048) \div 8
  BY Z3 DEF Low, Digit, Octet
<1>13. Octet(x, 16) = Low(x, 4096) \div 16
  BY Z3 DEF Low, Digit, Octet
<1> QED BY <1>1, <1>2, <1>3, <1>4, <1>5, <1>6, <1>7, <1>8, <1>9, <1>10, <1>11, <1>12, <1>13

\* The characters that the decoder knows are the numbers below 32.
LEMMA Known ==
  /\ \A c \in Nat : c < 32 => c \in Alphabet
  /\ \A c \in Alphabet : c \in Nat /\ c < 32
BY DEF Alphabet

\* A digit is a character that the decoder knows.
LEMMA DigitType ==
  ASSUME NEW x \in Nat
  PROVE  /\ Digit(x, 1) \in Alphabet /\ Digit(x, 2) \in Alphabet
         /\ Digit(x, 4) \in Alphabet /\ Digit(x, 8) \in Alphabet
         /\ Digit(x, 16) \in Alphabet /\ Digit(x, 32) \in Alphabet
         /\ Digit(x, 64) \in Alphabet /\ Digit(x, 128) \in Alphabet
<1>1. \A n \in Nat : n % 32 \in Nat /\ n % 32 < 32
  BY Z3
<1>2. \A n \in Nat : n % 32 \in Alphabet
  BY <1>1 DEF Alphabet
<1>3. x \div 1 \in Nat
  BY Z3
<1>4. x \div 2 \in Nat
  BY Z3
<1>5. x \div 4 \in Nat
  BY Z3
<1>6. x \div 8 \in Nat
  BY Z3
<1>7. x \div 16 \in Nat
  BY Z3
<1>8. x \div 32 \in Nat
  BY Z3
<1>9. x \div 64 \in Nat
  BY Z3
<1>10. x \div 128 \in Nat
  BY Z3
<1> QED BY <1>2, <1>3, <1>4, <1>5, <1>6, <1>7, <1>8, <1>9, <1>10 DEF Digit

\* The lowest bits are a number below their bound.
LEMMA LowType ==
  ASSUME NEW x \in Nat
  PROVE  /\ Low(x, 2) \in Nat /\ Low(x, 2) < 2
         /\ Low(x, 4) \in Nat /\ Low(x, 4) < 4
         /\ Low(x, 8) \in Nat /\ Low(x, 8) < 8
         /\ Low(x, 16) \in Nat /\ Low(x, 16) < 16
         /\ Low(x, 32) \in Nat /\ Low(x, 32) < 32
         /\ Low(x, 64) \in Nat /\ Low(x, 64) < 64
         /\ Low(x, 128) \in Nat /\ Low(x, 128) < 128
         /\ Low(x, 256) \in Nat /\ Low(x, 256) < 256
BY Z3 DEF Low

-----------------------------------------------------------------------------
(* A byte through both buffers, for each number of bits that can be left over: *)
(* first the byte that was pending comes out, then the new one is held.        *)

\* With 0 bits left over in the encoder and 0 in the decoder.
LEMMA Through0 ==
  ASSUME NEW x \in Nat, NEW y \in Nat, NEW b \in Nat, b < 256
  PROVE  LET buffer == WithByte(x, b)
             c1 == Digit(buffer, 8)
             d1 == WithDigit(y, c1)
         IN  Low(d1, 32) * 8 + Low(buffer, 8) = b
<1> DEFINE buffer == WithByte(x, b)
           c1 == Digit(buffer, 8)
           d1 == WithDigit(y, c1)
<1>1. buffer \in Nat
  BY BufferType
<1>2. Low(buffer, 256) = b /\ Low(buffer, 8) = Low(b, 8)
  BY ByteIn
<1>3. Digit(buffer, 8) = Low(buffer, 256) \div 8
  BY <1>1, TakenOut
<1>4. c1 = b \div 8
  BY <1>3, <1>2
<1>5. c1 \in Alphabet
  BY <1>1, DigitType
<1> HIDE DEF buffer, c1
<1>6. c1 \in Nat /\ c1 < 32
  BY <1>5, Known
<1>7. d1 \in Nat
  BY <1>6, BufferType
<1>8. Low(d1, 32) = c1
  BY <1>6, DigitIn
<1>9. (b \div 8) * 8 + Low(b, 8) = b
  BY Z3 DEF Low
<1>10. Low(d1, 32) * 8 + Low(buffer, 8) = b
  BY <1>2, <1>4, <1>8, <1>9
<1> QED BY <1>10 DEF buffer, c1

\* With 3 bits left over in the encoder and 5 in the decoder.
LEMMA Through3 ==
  ASSUME NEW x \in Nat, NEW y \in Nat, NEW b \in Nat, b < 256
  PROVE  LET buffer == WithByte(x, b)
             c1 == Digit(buffer, 64)
             c2 == Digit(buffer, 2)
             d1 == WithDigit(y, c1)
             d2 == WithDigit(d1, c2)
         IN  /\ Octet(d1, 4) = Low(y, 32) * 8 + Low(x, 8)
             /\ Low(d2, 128) * 2 + Low(buffer, 2) = b
<1> DEFINE buffer == WithByte(x, b)
           c1 == Digit(buffer, 64)
           c2 == Digit(buffer, 2)
           d1 == WithDigit(y, c1)
           d2 == WithDigit(d1, c2)
<1>1. buffer \in Nat
  BY BufferType
<1>2. /\ Low(buffer, 2048) = 256 * Low(x, 8) + b
      /\ Low(buffer, 64) = Low(b, 64) /\ Low(buffer, 2) = Low(b, 2)
  BY ByteIn
<1>3. Digit(buffer, 64) = Low(buffer, 2048) \div 64 /\ Digit(buffer, 2) = (Low(buffer, 64) \div 2)
  BY <1>1, TakenOut
<1>4. c1 = (256 * Low(x, 8) + b) \div 64 /\ c2 = Low(b, 64) \div 2
  BY <1>3, <1>2
<1>5. c1 \in Alphabet /\ c2 \in Alphabet
  BY <1>1, DigitType
<1> HIDE DEF buffer, c1, c2
<1>6. c1 \in Nat /\ c1 < 32 /\ c2 \in Nat /\ c2 < 32
  BY <1>5, Known
<1>7. d1 \in Nat
  BY <1>6, BufferType
<1>8. Low(d1, 1024) = 32 * Low(y, 32) + c1 /\ Low(d1, 4) = Low(c1, 4)
  BY <1>6, DigitIn
<1>9. d2 \in Nat
  BY <1>6, <1>7, BufferType
<1>10. Low(d2, 128) = 32 * Low(d1, 4) + c2
  BY <1>6, <1>7, DigitIn
<1>11. Low(x, 8) \in Nat /\ Low(x, 8) < 8
  BY LowType
<1>12. Low(y, 32) \in Nat
  BY LowType
<1>13. \A r, t \in Nat : r < 8 =>
        (32 * t + ((256 * r + b) \div 64)) \div 4 = t * 8 + r
  BY Z3
<1>14. (32 * Low(y, 32) + ((256 * Low(x, 8) + b) \div 64)) \div 4 = Low(y, 32) * 8 + Low(x, 8)
  BY <1>13, <1>11, <1>12
<1>15. Octet(d1, 4) = Low(d1, 1024) \div 4
  BY <1>7, TakenOut
<1>16. Octet(d1, 4) = Low(y, 32) * 8 + Low(x, 8)
  BY <1>4, <1>8, <1>14, <1>15
<1>17. \A r \in Nat : (32 * Low((256 * r + b) \div 64, 4) + (Low(b, 64) \div 2)) * 2 + Low(b, 2) = b
  BY Z3 DEF Low
<1>18. (32 * Low((256 * Low(x, 8) + b) \div 64, 4) + (Low(b, 64) \div 2)) * 2 + Low(b, 2) = b
  BY <1>17, <1>11, <1>12
<1>19. Low(d2, 128) * 2 + Low(buffer, 2) = b
  BY <1>2, <1>4, <1>8, <1>10, <1>18
<1> QED BY <1>16, <1>19 DEF buffer, c1, c2

\* With 1 bits left over in the encoder and 7 in the decoder.
LEMMA Through1 ==
  ASSUME NEW x \in Nat, NEW y \in Nat, NEW b \in Nat, b < 256
  PROVE  LET buffer == WithByte(x, b)
             c1 == Digit(buffer, 16)
             d1 == WithDigit(y, c1)
         IN  /\ Octet(d1, 16) = Low(y, 128) * 2 + Low(x, 2)
             /\ Low(d1, 16) * 16 + Low(buffer, 16) = b
<1> DEFINE buffer == WithByte(x, b)
           c1 == Digit(buffer, 16)
           d1 == WithDigit(y, c1)
<1>1. buffer \in Nat
  BY BufferType
<1>2. Low(buffer, 512) = 256 * Low(x, 2) + b /\ Low(buffer, 16) = Low(b, 16)
  BY ByteIn
<1>3. Digit(buffer, 16) = Low(buffer, 512) \div 16
  BY <1>1, TakenOut
<1>4. c1 = (256 * Low(x, 2) + b) \div 16
  BY <1>3, <1>2
<1>5. c1 \in Alphabet
  BY <1>1, DigitType
<1> HIDE DEF buffer, c1
<1>6. c1 \in Nat /\ c1 < 32
  BY <1>5, Known
<1>7. d1 \in Nat
  BY <1>6, BufferType
<1>8. Low(d1, 4096) = 32 * Low(y, 128) + c1 /\ Low(d1, 16) = Low(c1, 16)
  BY <1>6, DigitIn
<1>9. Low(x, 2) \in Nat /\ Low(x, 2) < 2
  BY LowType
<1>10. Low(y, 128) \in Nat
  BY LowType
<1>11. \A r, t \in Nat : r < 2 =>
        (32 * t + ((256 * r + b) \div 16)) \div 16 = t * 2 + r
  BY Z3
<1>12. (32 * Low(y, 128) + ((256 * Low(x, 2) + b) \div 16)) \div 16 = Low(y, 128) * 2 + Low(x, 2)
  BY <1>11, <1>9, <1>10
<1>13. Octet(d1, 16) = Low(d1, 4096) \div 16
  BY <1>7, TakenOut
<1>14. Octet(d1, 16) = Low(y, 128) * 2 + Low(x, 2)
  BY <1>4, <1>8, <1>12, <1>13
<1>15. \A r \in Nat : Low((256 * r + b) \div 16, 16) * 16 + Low(b, 16) = b
  BY Z3 DEF Low
<1>16. Low((256 * Low(x, 2) + b) \div 16, 16) * 16 + Low(b, 16) = b
  BY <1>15, <1>9, <1>10
<1>17. Low(d1, 16) * 16 + Low(buffer, 16) = b
  BY <1>2, <1>4, <1>8, <1>16
<1> QED BY <1>14, <1>17 DEF buffer, c1

\* With 4 bits left over in the encoder and 4 in the decoder.
LEMMA Through4 ==
  ASSUME NEW x \in Nat, NEW y \in Nat, NEW b \in Nat, b < 256
  PROVE  LET buffer == WithByte(x, b)
             c1 == Digit(buffer, 128)
             c2 == Digit(buffer, 4)
             d1 == WithDigit(y, c1)
             d2 == WithDigit(d1, c2)
         IN  /\ Octet(d1, 2) = Low(y, 16) * 16 + Low(x, 16)
             /\ Low(d2, 64) * 4 + Low(buffer, 4) = b
<1> DEFINE buffer == WithByte(x, b)
           c1 == Digit(buffer, 128)
           c2 == Digit(buffer, 4)
           d1 == WithDigit(y, c1)
           d2 == WithDigit(d1, c2)
<1>1. buffer \in Nat
  BY BufferType
<1>2. /\ Low(buffer, 4096) = 256 * Low(x, 16) + b
      /\ Low(buffer, 128) = Low(b, 128) /\ Low(buffer, 4) = Low(b, 4)
  BY ByteIn
<1>3. /\ Digit(buffer, 128) = Low(buffer, 4096) \div 128
      /\ Digit(buffer, 4) = (Low(buffer, 128) \div 4)
  BY <1>1, TakenOut
<1>4. c1 = (256 * Low(x, 16) + b) \div 128 /\ c2 = Low(b, 128) \div 4
  BY <1>3, <1>2
<1>5. c1 \in Alphabet /\ c2 \in Alphabet
  BY <1>1, DigitType
<1> HIDE DEF buffer, c1, c2
<1>6. c1 \in Nat /\ c1 < 32 /\ c2 \in Nat /\ c2 < 32
  BY <1>5, Known
<1>7. d1 \in Nat
  BY <1>6, BufferType
<1>8. Low(d1, 512) = 32 * Low(y, 16) + c1 /\ Low(d1, 2) = Low(c1, 2)
  BY <1>6, DigitIn
<1>9. d2 \in Nat
  BY <1>6, <1>7, BufferType
<1>10. Low(d2, 64) = 32 * Low(d1, 2) + c2
  BY <1>6, <1>7, DigitIn
<1>11. Low(x, 16) \in Nat /\ Low(x, 16) < 16
  BY LowType
<1>12. Low(y, 16) \in Nat
  BY LowType
<1>13. \A r, t \in Nat : r < 16 =>
        (32 * t + ((256 * r + b) \div 128)) \div 2 = t * 16 + r
  BY Z3
<1>14. (32 * Low(y, 16) + ((256 * Low(x, 16) + b) \div 128)) \div 2 = Low(y, 16) * 16 + Low(x, 16)
  BY <1>13, <1>11, <1>12
<1>15. Octet(d1, 2) = Low(d1, 512) \div 2
  BY <1>7, TakenOut
<1>16. Octet(d1, 2) = Low(y, 16) * 16 + Low(x, 16)
  BY <1>4, <1>8, <1>14, <1>15
<1>17. \A r \in Nat :
         (32 * Low((256 * r + b) \div 128, 2) + (Low(b, 128) \div 4)) * 4 + Low(b, 4) = b
  BY Z3 DEF Low
<1>18. (32 * Low((256 * Low(x, 16) + b) \div 128, 2) + (Low(b, 128) \div 4)) * 4 + Low(b, 4) = b
  BY <1>17, <1>11, <1>12
<1>19. Low(d2, 64) * 4 + Low(buffer, 4) = b
  BY <1>2, <1>4, <1>8, <1>10, <1>18
<1> QED BY <1>16, <1>19 DEF buffer, c1, c2

\* With 2 bits left over in the encoder and 6 in the decoder.
LEMMA Through2 ==
  ASSUME NEW x \in Nat, NEW y \in Nat, NEW b \in Nat, b < 256
  PROVE  LET buffer == WithByte(x, b)
             c1 == Digit(buffer, 32)
             c2 == Digit(buffer, 1)
             d1 == WithDigit(y, c1)
             d2 == WithDigit(d1, c2)
         IN  /\ Octet(d1, 8) = Low(y, 64) * 4 + Low(x, 4)
             /\ Octet(d2, 1) = b
<1> DEFINE buffer == WithByte(x, b)
           c1 == Digit(buffer, 32)
           c2 == Digit(buffer, 1)
           d1 == WithDigit(y, c1)
           d2 == WithDigit(d1, c2)
<1>1. buffer \in Nat
  BY BufferType
<1>2. Low(buffer, 1024) = 256 * Low(x, 4) + b /\ Low(buffer, 32) = Low(b, 32)
  BY ByteIn
<1>3. Digit(buffer, 32) = Low(buffer, 1024) \div 32 /\ Digit(buffer, 1) = Low(buffer, 32)
  BY <1>1, TakenOut
<1>4. c1 = (256 * Low(x, 4) + b) \div 32 /\ c2 = Low(b, 32)
  BY <1>3, <1>2
<1>5. c1 \in Alphabet /\ c2 \in Alphabet
  BY <1>1, DigitType
<1> HIDE DEF buffer, c1, c2
<1>6. c1 \in Nat /\ c1 < 32 /\ c2 \in Nat /\ c2 < 32
  BY <1>5, Known
<1>7. d1 \in Nat
  BY <1>6, BufferType
<1>8. Low(d1, 2048) = 32 * Low(y, 64) + c1 /\ Low(d1, 8) = Low(c1, 8)
  BY <1>6, DigitIn
<1>9. d2 \in Nat
  BY <1>6, <1>7, BufferType
<1>10. Low(d2, 256) = 32 * Low(d1, 8) + c2
  BY <1>6, <1>7, DigitIn
<1>11. Low(x, 4) \in Nat /\ Low(x, 4) < 4
  BY LowType
<1>12. Low(y, 64) \in Nat
  BY LowType
<1>13. \A r, t \in Nat : r < 4 =>
        (32 * t + ((256 * r + b) \div 32)) \div 8 = t * 4 + r
  BY Z3
<1>14. (32 * Low(y, 64) + ((256 * Low(x, 4) + b) \div 32)) \div 8 = Low(y, 64) * 4 + Low(x, 4)
  BY <1>13, <1>11, <1>12
<1>15. Octet(d1, 8) = Low(d1, 2048) \div 8
  BY <1>7, TakenOut
<1>16. Octet(d1, 8) = Low(y, 64) * 4 + Low(x, 4)
  BY <1>4, <1>8, <1>14, <1>15
<1>17. \A r \in Nat : 32 * Low((256 * r + b) \div 32, 8) + Low(b, 32) = b
  BY Z3 DEF Low
<1>18. 32 * Low((256 * Low(x, 4) + b) \div 32, 8) + Low(b, 32) = b
  BY <1>17, <1>11, <1>12
<1>19. Octet(d2, 1) = Low(d2, 256)
  BY <1>9, TakenOut
<1>20. Octet(d2, 1) = b
  BY <1>4, <1>8, <1>10, <1>18, <1>19
<1> QED BY <1>16, <1>20 DEF buffer, c1, c2

\* The last digit, filled up with zeros, brings the last byte out.
LEMMA ThroughLast ==
  ASSUME NEW x \in Nat, NEW y \in Nat
  PROVE  /\ LET c == (x * 16) % 32
            IN  c \in Nat /\ c < 32 /\ Octet(WithDigit(y, c), 16) = Low(y, 128) * 2 + Low(x, 2)
         /\ LET c == (x * 8) % 32
            IN  c \in Nat /\ c < 32 /\ Octet(WithDigit(y, c), 8) = Low(y, 64) * 4 + Low(x, 4)
         /\ LET c == (x * 4) % 32
            IN  c \in Nat /\ c < 32 /\ Octet(WithDigit(y, c), 4) = Low(y, 32) * 8 + Low(x, 8)
         /\ LET c == (x * 2) % 32
            IN  c \in Nat /\ c < 32 /\ Octet(WithDigit(y, c), 2) = Low(y, 16) * 16 + Low(x, 16)
<1>1. ASSUME NEW c \in Nat, c = 16 * Low(x, 2)
      PROVE  c < 32 /\ Octet(WithDigit(y, c), 16) = Low(y, 128) * 2 + Low(x, 2)
  <2>1. Low(x, 2) \in Nat /\ Low(x, 2) < 2 /\ Low(y, 128) \in Nat
    BY LowType
  <2>2. c < 32
    BY <1>1, <2>1
  <2>3. WithDigit(y, c) \in Nat
    BY BufferType
  <2>4. Low(WithDigit(y, c), 4096) = 32 * Low(y, 128) + c
    BY <2>2, DigitIn
  <2>5. \A r, t \in Nat : r < 2 => (32 * t + 16 * r) \div 16 = t * 2 + r
    BY Z3
  <2> QED BY <1>1, <2>1, <2>2, <2>3, <2>4, <2>5, TakenOut
<1>2. ASSUME NEW c \in Nat, c = 8 * Low(x, 4)
      PROVE  c < 32 /\ Octet(WithDigit(y, c), 8) = Low(y, 64) * 4 + Low(x, 4)
  <2>1. Low(x, 4) \in Nat /\ Low(x, 4) < 4 /\ Low(y, 64) \in Nat
    BY LowType
  <2>2. c < 32
    BY <1>2, <2>1
  <2>3. WithDigit(y, c) \in Nat
    BY BufferType
  <2>4. Low(WithDigit(y, c), 2048) = 32 * Low(y, 64) + c
    BY <2>2, DigitIn
  <2>5. \A r, t \in Nat : r < 4 => (32 * t + 8 * r) \div 8 = t * 4 + r
    BY Z3
  <2> QED BY <1>2, <2>1, <2>2, <2>3, <2>4, <2>5, TakenOut
<1>3. ASSUME NEW c \in Nat, c = 4 * Low(x, 8)
      PROVE  c < 32 /\ Octet(WithDigit(y, c), 4) = Low(y, 32) * 8 + Low(x, 8)
  <2>1. Low(x, 8) \in Nat /\ Low(x, 8) < 8 /\ Low(y, 32) \in Nat
    BY LowType
  <2>2. c < 32
    BY <1>3, <2>1
  <2>3. WithDigit(y, c) \in Nat
    BY BufferType
  <2>4. Low(WithDigit(y, c), 1024) = 32 * Low(y, 32) + c
    BY <2>2, DigitIn
  <2>5. \A r, t \in Nat : r < 8 => (32 * t + 4 * r) \div 4 = t * 8 + r
    BY Z3
  <2> QED BY <1>3, <2>1, <2>2, <2>3, <2>4, <2>5, TakenOut
<1>4. ASSUME NEW c \in Nat, c = 2 * Low(x, 16)
      PROVE  c < 32 /\ Octet(WithDigit(y, c), 2) = Low(y, 16) * 16 + Low(x, 16)
  <2>1. Low(x, 16) \in Nat /\ Low(x, 16) < 16 /\ Low(y, 16) \in Nat
    BY LowType
  <2>2. c < 32
    BY <1>4, <2>1
  <2>3. WithDigit(y, c) \in Nat
    BY BufferType
  <2>4. Low(WithDigit(y, c), 512) = 32 * Low(y, 16) + c
    BY <2>2, DigitIn
  <2>5. \A r, t \in Nat : r < 16 => (32 * t + 2 * r) \div 2 = t * 16 + r
    BY Z3
  <2> QED BY <1>4, <2>1, <2>2, <2>3, <2>4, <2>5, TakenOut
<1>5. (x * 16) % 32 = 16 * Low(x, 2) /\ (x * 16) % 32 \in Nat
  BY Z3 DEF Low
<1>6. (x * 8) % 32 = 8 * Low(x, 4) /\ (x * 8) % 32 \in Nat
  BY Z3 DEF Low
<1>7. (x * 4) % 32 = 4 * Low(x, 8) /\ (x * 4) % 32 \in Nat
  BY Z3 DEF Low
<1>8. (x * 2) % 32 = 2 * Low(x, 16) /\ (x * 2) % 32 \in Nat
  BY Z3 DEF Low
<1> QED BY <1>1, <1>2, <1>3, <1>4, <1>5, <1>6, <1>7, <1>8

-----------------------------------------------------------------------------
(* Folds *)

\* What holds of 0 and goes on from each number to the next holds up to n.
LEMMA Climb ==
  ASSUME NEW n \in Nat, NEW S, 0 \in S,
         \A i \in 0..(n - 1) : i \in S => i + 1 \in S
  PROVE  \A i \in 0..n : i \in S
<1> DEFINE missing == {i \in 0..n : i \notin S}
<1>1. SUFFICES ASSUME missing # {} PROVE FALSE
  OBVIOUS
<1>2. missing \in SUBSET Nat
  OBVIOUS
<1>3. PICK m \in missing : \A i \in missing : <<i, m>> \notin OpToRel(<, Nat)
  BY <1>1, <1>2, NatLessThanWellFounded, WFMin, Zenon
<1>4. \A i \in missing : ~(i < m)
  BY <1>2, <1>3, Zenon DEF OpToRel
<1>5. m \in 0..n /\ m # 0 /\ m \notin S
  OBVIOUS
<1>6. m - 1 \in 0..(n - 1) /\ m - 1 \in 0..n /\ m - 1 < m /\ (m - 1) + 1 = m
  BY <1>5
<1>7. m - 1 \in S
  BY <1>4, <1>6
<1> QED BY <1>5, <1>6, <1>7

\* The highest place of a set that holds it.
LEMMA HighestPlace ==
  ASSUME NEW k \in Nat, NEW s \in SUBSET (1..k), k \in s
  PROVE  Max(s) = k
<1>1. \A i \in s : i \in Nat /\ i <= k
  OBVIOUS
<1>2. \E x \in s : \A y \in s : x >= y
  BY <1>1
<1>3. Max(s) \in s /\ \A y \in s : Max(s) >= y
  BY <1>2 DEF Max
<1>4. Max(s) \in Nat /\ Max(s) <= k /\ Max(s) >= k
  BY <1>1, <1>3
<1> QED BY <1>4

\* A set of places that is not empty has a highest one.
LEMMA HasHighest ==
  ASSUME NEW n \in Nat, NEW s \in SUBSET (1..n), s # {}
  PROVE  Max(s) \in s
<1> DEFINE reached == {k \in 0..n : \A t \in SUBSET (1..k) : t # {} => Max(t) \in t}
<1>1. 0 \in reached
  <2>1. 0 \in 0..n /\ \A t \in SUBSET (1..0) : t = {}
    OBVIOUS
  <2> QED BY <2>1
<1>2. ASSUME NEW k \in 0..(n - 1), k \in reached PROVE k + 1 \in reached
  <2>1. ASSUME NEW t \in SUBSET (1..(k + 1)), t # {} PROVE Max(t) \in t
    <3>1. CASE k + 1 \in t
      BY <3>1, HighestPlace
    <3>2. CASE k + 1 \notin t
      <4>1. t \in SUBSET (1..k)
        BY <3>2
      <4> QED BY <1>2, <2>1, <4>1
    <3> QED BY <3>1, <3>2
  <2> QED BY <2>1
<1>3. n \in reached
  <2> HIDE DEF reached
  <2> QED BY <1>1, <1>2, Climb
<1> QED BY <1>3

\* A fold over the places 1..n: its value for a set of places is got from that for
\* the set without the highest.
IsFold(f, n, base, step) ==
  \A s \in SUBSET (1..n) :
    f[s] = IF s = {} THEN base ELSE step[<<f[s \ {Max(s)}], Max(s)>>]

\* Such a fold exists.
LEMMA FoldExists ==
  ASSUME NEW n \in Nat, NEW A, NEW base \in A, NEW step \in [A \X (1..n) -> A]
  PROVE  \E f \in [SUBSET (1..n) -> A] : IsFold(f, n, base, step)
<1> DEFINE Fold(f, k) == IsFold(f, k, base, step)
           reached == {k \in 0..n : \E f \in [SUBSET (1..k) -> A] : Fold(f, k)}
<1>1. 0 \in reached
  <2>1. SUBSET (1..0) = {{}}
    OBVIOUS
  <2>2. [s \in SUBSET (1..0) |-> base] \in [SUBSET (1..0) -> A]
    OBVIOUS
  <2>3. Fold([s \in SUBSET (1..0) |-> base], 0)
    BY <2>1 DEF IsFold
  <2> DEFINE g == [s \in SUBSET (1..0) |-> base]
  <2>4. g \in [SUBSET (1..0) -> A] /\ Fold(g, 0)
    BY <2>2, <2>3
  <2> HIDE DEF g, Fold
  <2>5. \E f \in [SUBSET (1..0) -> A] : Fold(f, 0)
    BY <2>4, Zenon
  <2>6. 0 \in 0..n
    OBVIOUS
  <2> QED BY <2>5, <2>6
<1>2. ASSUME NEW k \in 0..(n - 1), k \in reached PROVE k + 1 \in reached
  <2>1. PICK f \in [SUBSET (1..k) -> A] : Fold(f, k)
    BY <1>2
  <2> DEFINE g == [s \in SUBSET (1..(k + 1)) |->
                     IF k + 1 \in s THEN step[<<f[s \ {k + 1}], k + 1>>] ELSE f[s]]
  <2>2. \A s \in SUBSET (1..(k + 1)) : s \ {k + 1} \in SUBSET (1..k)
    OBVIOUS
  <2>3. \A s \in SUBSET (1..k) : s \in SUBSET (1..(k + 1)) /\ k + 1 \notin s
    OBVIOUS
  <2>4. k + 1 \in 1..n
    OBVIOUS
  <2>5. \A s \in SUBSET (1..k) : g[s] = f[s]
    BY <2>3
  <2>6. g \in [SUBSET (1..(k + 1)) -> A]
    <3>1. ASSUME NEW s \in SUBSET (1..(k + 1)) PROVE g[s] \in A
      <4>1. CASE k + 1 \in s
        <5>1. f[s \ {k + 1}] \in A
          BY <2>2
        <5>2. <<f[s \ {k + 1}], k + 1>> \in A \X (1..n)
          BY <5>1, <2>4
        <5> QED BY <4>1, <5>2
      <4>2. CASE k + 1 \notin s
        <5>1. s \in SUBSET (1..k)
          BY <2>2, <4>2
        <5> QED BY <4>2, <5>1
      <4> QED BY <4>1, <4>2
    <3> QED BY <3>1
  <2>7. ASSUME NEW s \in SUBSET (1..(k + 1))
        PROVE  g[s] = IF s = {} THEN base ELSE step[<<g[s \ {Max(s)}], Max(s)>>]
    <3>1. CASE k + 1 \in s
      <4>1. Max(s) = k + 1
        BY <3>1, HighestPlace
      <4>2. g[s \ {k + 1}] = f[s \ {k + 1}]
        BY <2>2, <2>5
      <4>3. g[s] = step[<<f[s \ {k + 1}], k + 1>>]
        BY <3>1
      <4> QED BY <3>1, <4>1, <4>2, <4>3
    <3>2. CASE k + 1 \notin s
      <4>1. s \in SUBSET (1..k)
        BY <2>2, <3>2
      <4>2. s \ {Max(s)} \in SUBSET (1..k)
        BY <4>1
      <4>3. g[s] = f[s] /\ g[s \ {Max(s)}] = f[s \ {Max(s)}]
        BY <2>5, <4>1, <4>2
      <4>4. f[s] = IF s = {} THEN base ELSE step[<<f[s \ {Max(s)}], Max(s)>>]
        BY <2>1, <4>1 DEF IsFold
      <4> HIDE DEF g
      <4> QED BY <4>3, <4>4
    <3> QED BY <3>1, <3>2
  <2>8. k + 1 \in 0..n
    OBVIOUS
  <2>9. Fold(g, k + 1)
    BY <2>7 DEF IsFold
  <2> HIDE DEF g, Fold
  <2> QED BY <2>6, <2>8, <2>9
<1>3. n \in reached
  <2> HIDE DEF reached
  <2> QED BY <1>1, <1>2, Climb
<1> QED BY <1>3

\* The places up to i are those before it, and i, the highest.
LEMMA PlacesUpTo ==
  ASSUME NEW n \in Nat, NEW i \in 1..n
  PROVE  /\ 1..i \in SUBSET (1..n) /\ 1..i # {}
         /\ Max(1..i) = i /\ (1..i) \ {i} = 1..(i - 1)
<1>1. 1..i \in SUBSET (1..i) /\ i \in 1..i /\ i \in Nat
  OBVIOUS
<1>2. Max(1..i) = i
  BY <1>1, HighestPlace
<1> QED BY <1>2

-----------------------------------------------------------------------------
(* One byte and one character *)

\* What the encoder and the decoder keep from one turn to the next.
Encoding == [buffer : Nat, bits_left : 0..4, out : Seq(Alphabet)]
Decoding == [buffer : Nat, bits_left : 0..7, out : Seq(Byte)]

\* A byte taken out of a buffer, and a digit, are of their types.
LEMMA OctetIsByte ==
  ASSUME NEW x \in Nat, NEW u \in {1, 2, 4, 8, 16}
  PROVE  Octet(x, u) \in Byte
<1>1. Octet(x, u) \in Nat /\ Octet(x, u) < 256
  BY Z3 DEF Octet
<1> QED BY <1>1 DEF Byte

\* A byte is a number below 256.
LEMMA ByteType == \A b \in Byte : b \in Nat /\ b < 256
BY DEF Byte

\* One turn of the encoder's loop, for each number of bits left over.
LEMMA EncodeStep ==
  ASSUME NEW acc \in Encoding, NEW b \in Byte
  PROVE  LET buffer == WithByte(acc.buffer, b)
             new == EncodeByte(acc, b)
         IN  /\ new.buffer = buffer
             /\ acc.bits_left = 0 =>
                  new.bits_left = 3 /\ new.out = acc.out \o <<Digit(buffer, 8)>>
             /\ acc.bits_left = 3 =>
                  /\ new.bits_left = 1
                  /\ new.out = acc.out \o <<Digit(buffer, 64), Digit(buffer, 2)>>
             /\ acc.bits_left = 1 =>
                  new.bits_left = 4 /\ new.out = acc.out \o <<Digit(buffer, 16)>>
             /\ acc.bits_left = 4 =>
                  /\ new.bits_left = 2
                  /\ new.out = acc.out \o <<Digit(buffer, 128), Digit(buffer, 4)>>
             /\ acc.bits_left = 2 =>
                  /\ new.bits_left = 0
                  /\ new.out = acc.out \o <<Digit(buffer, 32), Digit(buffer, 1)>>
<1> DEFINE buffer == WithByte(acc.buffer, b)
           bits == acc.bits_left + 8
           digits == [k \in 1..(bits \div 5) |-> Digit(buffer, 2 ^ (bits - 5 * k))]
<1>1. EncodeByte(acc, b) = [buffer |-> buffer, bits_left |-> bits % 5, out |-> acc.out \o digits]
  BY DEF EncodeByte, WithByte, Digit
<1>2. acc.bits_left = 0 => bits % 5 = 3 /\ digits = <<Digit(buffer, 8)>>
  <2> HAVE acc.bits_left = 0
  <2>1. bits = 8
    OBVIOUS
  <2>2. bits \div 5 = 1 /\ bits % 5 = 3 /\ bits - 5 * 1 = 3
    BY <2>1
  <2>3. 2 ^ (bits - 5 * 1) = 8
    BY <2>2
  <2> QED BY <2>2, <2>3
<1>3. acc.bits_left = 3 => bits % 5 = 1 /\ digits = <<Digit(buffer, 64), Digit(buffer, 2)>>
  <2> HAVE acc.bits_left = 3
  <2>1. bits = 11
    OBVIOUS
  <2>2. bits \div 5 = 2 /\ bits % 5 = 1 /\ bits - 5 * 1 = 6 /\ bits - 5 * 2 = 1
    BY <2>1
  <2>3. 2 ^ (bits - 5 * 1) = 64 /\ 2 ^ (bits - 5 * 2) = 2
    BY <2>2
  <2> QED BY <2>2, <2>3
<1>4. acc.bits_left = 1 => bits % 5 = 4 /\ digits = <<Digit(buffer, 16)>>
  <2> HAVE acc.bits_left = 1
  <2>1. bits = 9
    OBVIOUS
  <2>2. bits \div 5 = 1 /\ bits % 5 = 4 /\ bits - 5 * 1 = 4
    BY <2>1
  <2>3. 2 ^ (bits - 5 * 1) = 16
    BY <2>2
  <2> QED BY <2>2, <2>3
<1>5. acc.bits_left = 4 => bits % 5 = 2 /\ digits = <<Digit(buffer, 128), Digit(buffer, 4)>>
  <2> HAVE acc.bits_left = 4
  <2>1. bits = 12
    OBVIOUS
  <2>2. bits \div 5 = 2 /\ bits % 5 = 2 /\ bits - 5 * 1 = 7 /\ bits - 5 * 2 = 2
    BY <2>1
  <2>3. 2 ^ (bits - 5 * 1) = 128 /\ 2 ^ (bits - 5 * 2) = 4
    BY <2>2
  <2> QED BY <2>2, <2>3
<1>6. acc.bits_left = 2 => bits % 5 = 0 /\ digits = <<Digit(buffer, 32), Digit(buffer, 1)>>
  <2> HAVE acc.bits_left = 2
  <2>1. bits = 10
    OBVIOUS
  <2>2. bits \div 5 = 2 /\ bits % 5 = 0 /\ bits - 5 * 1 = 5 /\ bits - 5 * 2 = 0
    BY <2>1
  <2>3. 2 ^ (bits - 5 * 1) = 32 /\ 2 ^ (bits - 5 * 2) = 1
    BY <2>2
  <2> QED BY <2>2, <2>3
<1> HIDE DEF digits, bits, buffer
<1>7. /\ EncodeByte(acc, b).buffer = buffer /\ EncodeByte(acc, b).bits_left = bits % 5
      /\ EncodeByte(acc, b).out = acc.out \o digits
  BY <1>1
<1> QED BY <1>2, <1>3, <1>4, <1>5, <1>6, <1>7 DEF buffer

\* A turn keeps the type, and every digit it writes is in the alphabet.
LEMMA EncodeType ==
  ASSUME NEW acc \in Encoding, NEW b \in Byte
  PROVE  EncodeByte(acc, b) \in Encoding
<1> DEFINE buffer == WithByte(acc.buffer, b)
           bits == acc.bits_left + 8
           digits == [k \in 1..(bits \div 5) |-> Digit(buffer, 2 ^ (bits - 5 * k))]
<1>1. acc.buffer \in Nat /\ b \in Nat /\ acc.bits_left \in 0..4 /\ acc.out \in Seq(Alphabet)
  BY DEF Encoding, Byte
<1>2. buffer \in Nat
  BY <1>1, BufferType
<1>3. /\ Digit(buffer, 1) \in Alphabet /\ Digit(buffer, 2) \in Alphabet
      /\ Digit(buffer, 4) \in Alphabet /\ Digit(buffer, 8) \in Alphabet
      /\ Digit(buffer, 16) \in Alphabet /\ Digit(buffer, 32) \in Alphabet
      /\ Digit(buffer, 64) \in Alphabet /\ Digit(buffer, 128) \in Alphabet
  <2> HIDE DEF buffer
  <2> QED BY <1>2, DigitType
<1>4. EncodeByte(acc, b).buffer = buffer
  BY EncodeStep
<1>5. /\ EncodeByte(acc, b).bits_left \in 0..4
      /\ EncodeByte(acc, b).out \in Seq(Alphabet)

  <2>1. CASE acc.bits_left = 0
    <3>1. /\ EncodeByte(acc, b).bits_left = 3
          /\ EncodeByte(acc, b).out = acc.out \o <<Digit(buffer, 8)>>
      BY <2>1, EncodeStep
    <3>2. <<Digit(buffer, 8)>> \in Seq(Alphabet)
      BY <1>3
    <3>3. acc.out \o <<Digit(buffer, 8)>> \in Seq(Alphabet)
      BY <1>1, <3>2
    <3> QED BY <3>1, <3>3
  <2>2. CASE acc.bits_left = 3
    <3>1. /\ EncodeByte(acc, b).bits_left = 1
          /\ EncodeByte(acc, b).out = acc.out \o <<Digit(buffer, 64), Digit(buffer, 2)>>
      BY <2>2, EncodeStep
    <3>2. <<Digit(buffer, 64), Digit(buffer, 2)>> \in Seq(Alphabet)
      BY <1>3
    <3>3. acc.out \o <<Digit(buffer, 64), Digit(buffer, 2)>> \in Seq(Alphabet)
      BY <1>1, <3>2
    <3> QED BY <3>1, <3>3
  <2>3. CASE acc.bits_left = 1
    <3>1. /\ EncodeByte(acc, b).bits_left = 4
          /\ EncodeByte(acc, b).out = acc.out \o <<Digit(buffer, 16)>>
      BY <2>3, EncodeStep
    <3>2. <<Digit(buffer, 16)>> \in Seq(Alphabet)
      BY <1>3
    <3>3. acc.out \o <<Digit(buffer, 16)>> \in Seq(Alphabet)
      BY <1>1, <3>2
    <3> QED BY <3>1, <3>3
  <2>4. CASE acc.bits_left = 4
    <3>1. /\ EncodeByte(acc, b).bits_left = 2
          /\ EncodeByte(acc, b).out = acc.out \o <<Digit(buffer, 128), Digit(buffer, 4)>>
      BY <2>4, EncodeStep
    <3>2. <<Digit(buffer, 128), Digit(buffer, 4)>> \in Seq(Alphabet)
      BY <1>3
    <3>3. acc.out \o <<Digit(buffer, 128), Digit(buffer, 4)>> \in Seq(Alphabet)
      BY <1>1, <3>2
    <3> QED BY <3>1, <3>3
  <2>5. CASE acc.bits_left = 2
    <3>1. /\ EncodeByte(acc, b).bits_left = 0
          /\ EncodeByte(acc, b).out = acc.out \o <<Digit(buffer, 32), Digit(buffer, 1)>>
      BY <2>5, EncodeStep
    <3>2. <<Digit(buffer, 32), Digit(buffer, 1)>> \in Seq(Alphabet)
      BY <1>3
    <3>3. acc.out \o <<Digit(buffer, 32), Digit(buffer, 1)>> \in Seq(Alphabet)
      BY <1>1, <3>2
    <3> QED BY <3>1, <3>3
  <2> QED BY <1>1, <2>1, <2>2, <2>3, <2>4, <2>5
<1>6. EncodeByte(acc, b) = [buffer |-> EncodeByte(acc, b).buffer,
                            bits_left |-> EncodeByte(acc, b).bits_left,
                            out |-> EncodeByte(acc, b).out]
  BY DEF EncodeByte
<1> HIDE DEF buffer
<1> QED BY <1>2, <1>4, <1>5, <1>6 DEF Encoding

\* One turn of the decoder's loop, for each number of bits left over.
LEMMA DecodeStep ==
  ASSUME NEW acc \in Decoding, NEW c \in Alphabet
  PROVE  LET buffer == WithDigit(acc.buffer, c)
             new == DecodeCharacter(acc, c)
         IN  /\ new \in Decoding
             /\ new.buffer = buffer
             /\ acc.bits_left = 0 => new.bits_left = 5 /\ new.out = acc.out
             /\ acc.bits_left = 1 => new.bits_left = 6 /\ new.out = acc.out
             /\ acc.bits_left = 2 => new.bits_left = 7 /\ new.out = acc.out
             /\ acc.bits_left = 3 =>
                  new.bits_left = 0 /\ new.out = Append(acc.out, Octet(buffer, 1))
             /\ acc.bits_left = 4 =>
                  new.bits_left = 1 /\ new.out = Append(acc.out, Octet(buffer, 2))
             /\ acc.bits_left = 5 =>
                  new.bits_left = 2 /\ new.out = Append(acc.out, Octet(buffer, 4))
             /\ acc.bits_left = 6 =>
                  new.bits_left = 3 /\ new.out = Append(acc.out, Octet(buffer, 8))
             /\ acc.bits_left = 7 =>
                  new.bits_left = 4 /\ new.out = Append(acc.out, Octet(buffer, 16))
<1> DEFINE buffer == WithDigit(acc.buffer, c)
           bits == acc.bits_left + 5
           new == DecodeCharacter(acc, c)
<1>1. acc.buffer \in Nat /\ c \in Nat /\ acc.bits_left \in 0..7 /\ acc.out \in Seq(Byte)
  BY DEF Decoding, Alphabet
<1>2. buffer \in Nat
  BY <1>1, BufferType
<1>3. acc = [buffer |-> acc.buffer, bits_left |-> acc.bits_left, out |-> acc.out]
  BY DEF Decoding
<1>4. acc.bits_left < 3 => new = [buffer |-> buffer, bits_left |-> bits, out |-> acc.out]
  <2> HAVE acc.bits_left < 3
  <2>1. bits < 8
    BY <1>1
  <2>2. new = [acc EXCEPT !.buffer = buffer, !.bits_left = bits]
    BY <2>1 DEF DecodeCharacter, WithDigit
  <2> HIDE DEF buffer, bits, new
  <2> QED BY <1>3, <2>2
<1>5. acc.bits_left >= 3 =>
        new = [buffer |-> buffer, bits_left |-> bits - 8,
               out |-> Append(acc.out, Octet(buffer, 2 ^ (bits - 8)))]
  <2> HAVE acc.bits_left >= 3
  <2>1. ~(bits < 8)
    BY <1>1
  <2> QED BY <2>1 DEF DecodeCharacter, WithDigit, Octet
<1>6. new \in Decoding /\ new.buffer = buffer
  <2>1. CASE acc.bits_left < 3
    <3>1. bits \in 0..7
      BY <1>1, <2>1
    <3> HIDE DEF buffer, bits, new
    <3> QED BY <1>1, <1>2, <1>4, <2>1, <3>1 DEF Decoding
  <2>2. CASE acc.bits_left >= 3
    <3>1. bits - 8 \in 0..4 /\ bits - 8 \in 0..7
      BY <1>1, <2>2
    <3>2. 2 ^ (bits - 8) \in {1, 2, 4, 8, 16}
      <4>1. bits - 8 = 0 \/ bits - 8 = 1 \/ bits - 8 = 2 \/ bits - 8 = 3 \/ bits - 8 = 4
        BY <3>1
      <4>2. 2 ^ 0 = 1 /\ 2 ^ 1 = 2 /\ 2 ^ 2 = 4 /\ 2 ^ 3 = 8 /\ 2 ^ 4 = 16
        OBVIOUS
      <4> HIDE DEF bits
      <4> QED BY <4>1, <4>2
    <3>3. Octet(buffer, 2 ^ (bits - 8)) \in Byte
      BY <1>2, <3>2, OctetIsByte
    <3> DEFINE octet == Octet(buffer, 2 ^ (bits - 8))
    <3>4. Append(acc.out, octet) \in Seq(Byte)
      BY <1>1, <3>3
    <3>5. new = [buffer |-> buffer, bits_left |-> bits - 8, out |-> Append(acc.out, octet)]
      BY <1>5, <2>2
    <3> HIDE DEF buffer, bits, new, octet
    <3> QED BY <1>2, <3>1, <3>4, <3>5 DEF Decoding
  <2> QED BY <1>1, <2>1, <2>2
<1>7. acc.bits_left = 0 => new.bits_left = 5 /\ new.out = acc.out
  <2> HAVE acc.bits_left = 0
  <2>1. bits = 5 /\ acc.bits_left < 3
    OBVIOUS
  <2> HIDE DEF buffer, bits, new
  <2> QED BY <1>4, <2>1
<1>8. acc.bits_left = 1 => new.bits_left = 6 /\ new.out = acc.out
  <2> HAVE acc.bits_left = 1
  <2>1. bits = 6 /\ acc.bits_left < 3
    OBVIOUS
  <2> HIDE DEF buffer, bits, new
  <2> QED BY <1>4, <2>1
<1>9. acc.bits_left = 2 => new.bits_left = 7 /\ new.out = acc.out
  <2> HAVE acc.bits_left = 2
  <2>1. bits = 7 /\ acc.bits_left < 3
    OBVIOUS
  <2> HIDE DEF buffer, bits, new
  <2> QED BY <1>4, <2>1
<1>10. acc.bits_left = 3 => new.bits_left = 0 /\ new.out = Append(acc.out, Octet(buffer, 1))
  <2> HAVE acc.bits_left = 3
  <2>1. bits - 8 = 0 /\ acc.bits_left >= 3
    OBVIOUS
  <2>2. 2 ^ (bits - 8) = 1
    BY <2>1
  <2> HIDE DEF buffer, bits, new
  <2> QED BY <1>5, <2>1, <2>2
<1>11. acc.bits_left = 4 => new.bits_left = 1 /\ new.out = Append(acc.out, Octet(buffer, 2))
  <2> HAVE acc.bits_left = 4
  <2>1. bits - 8 = 1 /\ acc.bits_left >= 3
    OBVIOUS
  <2>2. 2 ^ (bits - 8) = 2
    BY <2>1
  <2> HIDE DEF buffer, bits, new
  <2> QED BY <1>5, <2>1, <2>2
<1>12. acc.bits_left = 5 => new.bits_left = 2 /\ new.out = Append(acc.out, Octet(buffer, 4))
  <2> HAVE acc.bits_left = 5
  <2>1. bits - 8 = 2 /\ acc.bits_left >= 3
    OBVIOUS
  <2>2. 2 ^ (bits - 8) = 4
    BY <2>1
  <2> HIDE DEF buffer, bits, new
  <2> QED BY <1>5, <2>1, <2>2
<1>13. acc.bits_left = 6 => new.bits_left = 3 /\ new.out = Append(acc.out, Octet(buffer, 8))
  <2> HAVE acc.bits_left = 6
  <2>1. bits - 8 = 3 /\ acc.bits_left >= 3
    OBVIOUS
  <2>2. 2 ^ (bits - 8) = 8
    BY <2>1
  <2> HIDE DEF buffer, bits, new
  <2> QED BY <1>5, <2>1, <2>2
<1>14. acc.bits_left = 7 => new.bits_left = 4 /\ new.out = Append(acc.out, Octet(buffer, 16))
  <2> HAVE acc.bits_left = 7
  <2>1. bits - 8 = 4 /\ acc.bits_left >= 3
    OBVIOUS
  <2>2. 2 ^ (bits - 8) = 16
    BY <2>1
  <2> HIDE DEF buffer, bits, new
  <2> QED BY <1>5, <2>1, <2>2
<1> QED BY <1>6, <1>7, <1>8, <1>9, <1>10, <1>11, <1>12, <1>13, <1>14

-----------------------------------------------------------------------------
(* Encoder and decoder in step *)

\* The decoder has read the first j bytes, and nothing else.
Read(d, data, j) == Len(d.out) = j /\ \A k \in 1..j : d.out[k] = data[k]

\* The bits left over in both hold the byte b between them.
Held(e, d, b) ==
  \/ e.bits_left = 3 /\ d.bits_left = 5 /\ b = Low(d.buffer, 32) * 8 + Low(e.buffer, 8)
  \/ e.bits_left = 1 /\ d.bits_left = 7 /\ b = Low(d.buffer, 128) * 2 + Low(e.buffer, 2)
  \/ e.bits_left = 4 /\ d.bits_left = 4 /\ b = Low(d.buffer, 16) * 16 + Low(e.buffer, 16)
  \/ e.bits_left = 2 /\ d.bits_left = 6 /\ b = Low(d.buffer, 64) * 4 + Low(e.buffer, 4)

\* When the encoder is through the first i bytes, a decoder that is through the
\* characters it has written has read them all, or all but the last, which the bits
\* left over hold.
InStep(e, d, data, i) ==
  /\ e \in Encoding /\ d \in Decoding
  /\ \/ e.bits_left = 0 /\ d.bits_left = 0 /\ Read(d, data, i)
     \/ i > 0 /\ Read(d, data, i - 1) /\ Held(e, d, data[i])

\* The next byte read.
LEMMA ReadOn ==
  ASSUME NEW data \in Seq(Byte), NEW d \in Decoding, NEW j \in Nat, Read(d, data, j),
         NEW new \in Decoding, new.out = Append(d.out, data[j + 1])
  PROVE  Read(new, data, j + 1)
<1>1. d.out \in Seq(Byte) /\ Len(d.out) = j
  BY DEF Decoding, Read
<1>2. Len(new.out) = j + 1 /\ new.out[j + 1] = data[j + 1]
  BY <1>1
<1>3. \A k \in 1..j : new.out[k] = d.out[k]
  BY <1>1
<1>4. \A k \in 1..(j + 1) : k \in 1..j \/ k = j + 1
  OBVIOUS
<1> QED BY <1>2, <1>3, <1>4 DEF Read

\* One byte: the encoder writes one or two characters, and they keep the decoder in
\* step.
LEMMA OneByte ==
  ASSUME NEW data \in Seq(Byte), NEW i \in Nat, i < Len(data),
         NEW e, NEW d, InStep(e, d, data, i)
  PROVE  LET new == EncodeByte(e, data[i + 1])
         IN  \/ \E c \in Alphabet :
                  /\ new.out = e.out \o <<c>>
                  /\ InStep(new, DecodeCharacter(d, c), data, i + 1)
             \/ \E c1, c2 \in Alphabet :
                  /\ new.out = e.out \o <<c1, c2>>
                  /\ InStep(new, DecodeCharacter(DecodeCharacter(d, c1), c2), data, i + 1)
<1> DEFINE b == data[i + 1]
           x == e.buffer
           y == d.buffer
           new == EncodeByte(e, b)
           buffer == WithByte(x, b)
<1>1. b \in Byte /\ b \in Nat /\ b < 256 /\ i + 1 \in Nat /\ i + 1 > 0 /\ (i + 1) - 1 = i
  <2>1. i + 1 \in 1..Len(data) /\ i + 1 \in Nat /\ i + 1 > 0 /\ (i + 1) - 1 = i
    OBVIOUS
  <2>2. b \in Byte
    BY <2>1
  <2> QED BY <2>1, <2>2, ByteType
<1>2. e \in Encoding /\ d \in Decoding /\ x \in Nat /\ y \in Nat
  BY DEF InStep, Encoding, Decoding
<1>3. new \in Encoding /\ new.buffer = buffer /\ buffer \in Nat
  BY <1>1, <1>2, EncodeType, EncodeStep, BufferType
<1>4. CASE e.bits_left = 0 /\ d.bits_left = 0 /\ Read(d, data, i)
  <2> DEFINE c1 == Digit(buffer, 8)
             d1 == DecodeCharacter(d, c1)
  <2>1. c1 \in Nat /\ c1 \in Alphabet
    <3> HIDE DEF buffer
    <3>1. c1 \in Alphabet
      BY <1>3, DigitType
    <3> HIDE DEF c1
    <3> QED BY <3>1, Known
  <2>2. Low(WithDigit(y, c1), 32) * 8 + Low(buffer, 8) = b
    <3> HIDE DEF b, x, y
    <3> QED BY <1>1, <1>2, Through0
  <2>3. new.bits_left = 3 /\ new.out = e.out \o <<c1>>
    BY <1>1, <1>2, <1>4, EncodeStep
  <2> HIDE DEF c1, buffer
  <2>4. /\ d1 \in Decoding /\ d1.buffer = WithDigit(y, c1) /\ d1.bits_left = 5
        /\ d1.out = d.out
    BY <1>2, <1>4, <2>1, DecodeStep
  <2>5. Read(d1, data, i)
    BY <1>4, <2>4 DEF Read
  <2> HIDE DEF d1, new
  <2>6. InStep(new, d1, data, i + 1)
    BY <1>1, <1>3, <2>2, <2>3, <2>4, <2>5 DEF InStep, Held
  <2> QED BY <2>1, <2>3, <2>6 DEF d1, new
<1>5. CASE /\ e.bits_left = 3 /\ d.bits_left = 5 /\ i > 0 /\ Read(d, data, i - 1)
          /\ data[i] = Low(y, 32) * 8 + Low(x, 8)
  <2> DEFINE c1 == Digit(buffer, 64)
             d1 == DecodeCharacter(d, c1)
             c2 == Digit(buffer, 2)
             d2 == DecodeCharacter(d1, c2)
  <2>1. c1 \in Nat /\ c1 \in Alphabet /\ c2 \in Nat /\ c2 \in Alphabet
    <3> HIDE DEF buffer
    <3>1. c1 \in Alphabet /\ c2 \in Alphabet
      BY <1>3, DigitType
    <3> HIDE DEF c1, c2
    <3> QED BY <3>1, Known
  <2>2. /\ Octet(WithDigit(y, c1), 4) = Low(y, 32) * 8 + Low(x, 8)
        /\ Low(WithDigit(WithDigit(y, c1), c2), 128) * 2 + Low(buffer, 2) = b
    <3> HIDE DEF b, x, y
    <3> QED BY <1>1, <1>2, Through3
  <2>3. new.bits_left = 1 /\ new.out = e.out \o <<c1, c2>>
    BY <1>1, <1>2, <1>5, EncodeStep
  <2> HIDE DEF c1, c2, buffer
  <2>4. /\ d1 \in Decoding /\ d1.buffer = WithDigit(y, c1) /\ d1.bits_left = 2
        /\ d1.out = Append(d.out, Octet(WithDigit(y, c1), 4))
    BY <1>2, <1>5, <2>1, DecodeStep
  <2>5. Read(d1, data, i)
    <3>1. i - 1 \in Nat /\ (i - 1) + 1 = i
      BY <1>5
    <3>2. d1.out = Append(d.out, data[(i - 1) + 1])
      BY <1>5, <2>2, <2>4, <3>1
    <3> HIDE DEF d1
    <3> QED BY <1>2, <1>5, <2>4, <3>1, <3>2, ReadOn
  <2> HIDE DEF d1
  <2>6. /\ d2 \in Decoding /\ d2.buffer = WithDigit(d1.buffer, c2) /\ d2.bits_left = 7
        /\ d2.out = d1.out
    BY <2>1, <2>4, DecodeStep
  <2>7. Read(d2, data, i)
    BY <2>5, <2>6 DEF Read
  <2> HIDE DEF d2, new
  <2>8. InStep(new, d2, data, i + 1)
    BY <1>1, <1>3, <2>2, <2>3, <2>4, <2>6, <2>7 DEF InStep, Held
  <2> QED BY <2>1, <2>3, <2>8 DEF d1, d2, new
<1>6. CASE /\ e.bits_left = 1 /\ d.bits_left = 7 /\ i > 0 /\ Read(d, data, i - 1)
          /\ data[i] = Low(y, 128) * 2 + Low(x, 2)
  <2> DEFINE c1 == Digit(buffer, 16)
             d1 == DecodeCharacter(d, c1)
  <2>1. c1 \in Nat /\ c1 \in Alphabet
    <3> HIDE DEF buffer
    <3>1. c1 \in Alphabet
      BY <1>3, DigitType
    <3> HIDE DEF c1
    <3> QED BY <3>1, Known
  <2>2. /\ Octet(WithDigit(y, c1), 16) = Low(y, 128) * 2 + Low(x, 2)
        /\ Low(WithDigit(y, c1), 16) * 16 + Low(buffer, 16) = b
    <3> HIDE DEF b, x, y
    <3> QED BY <1>1, <1>2, Through1
  <2>3. new.bits_left = 4 /\ new.out = e.out \o <<c1>>
    BY <1>1, <1>2, <1>6, EncodeStep
  <2> HIDE DEF c1, buffer
  <2>4. /\ d1 \in Decoding /\ d1.buffer = WithDigit(y, c1) /\ d1.bits_left = 4
        /\ d1.out = Append(d.out, Octet(WithDigit(y, c1), 16))
    BY <1>2, <1>6, <2>1, DecodeStep
  <2>5. Read(d1, data, i)
    <3>1. i - 1 \in Nat /\ (i - 1) + 1 = i
      BY <1>6
    <3>2. d1.out = Append(d.out, data[(i - 1) + 1])
      BY <1>6, <2>2, <2>4, <3>1
    <3> HIDE DEF d1
    <3> QED BY <1>2, <1>6, <2>4, <3>1, <3>2, ReadOn
  <2> HIDE DEF d1, new
  <2>6. InStep(new, d1, data, i + 1)
    BY <1>1, <1>3, <2>2, <2>3, <2>4, <2>5 DEF InStep, Held
  <2> QED BY <2>1, <2>3, <2>6 DEF d1, new
<1>7. CASE /\ e.bits_left = 4 /\ d.bits_left = 4 /\ i > 0 /\ Read(d, data, i - 1)
          /\ data[i] = Low(y, 16) * 16 + Low(x, 16)
  <2> DEFINE c1 == Digit(buffer, 128)
             d1 == DecodeCharacter(d, c1)
             c2 == Digit(buffer, 4)
             d2 == DecodeCharacter(d1, c2)
  <2>1. c1 \in Nat /\ c1 \in Alphabet /\ c2 \in Nat /\ c2 \in Alphabet
    <3> HIDE DEF buffer
    <3>1. c1 \in Alphabet /\ c2 \in Alphabet
      BY <1>3, DigitType
    <3> HIDE DEF c1, c2
    <3> QED BY <3>1, Known
  <2>2. /\ Octet(WithDigit(y, c1), 2) = Low(y, 16) * 16 + Low(x, 16)
        /\ Low(WithDigit(WithDigit(y, c1), c2), 64) * 4 + Low(buffer, 4) = b
    <3> HIDE DEF b, x, y
    <3> QED BY <1>1, <1>2, Through4
  <2>3. new.bits_left = 2 /\ new.out = e.out \o <<c1, c2>>
    BY <1>1, <1>2, <1>7, EncodeStep
  <2> HIDE DEF c1, c2, buffer
  <2>4. /\ d1 \in Decoding /\ d1.buffer = WithDigit(y, c1) /\ d1.bits_left = 1
        /\ d1.out = Append(d.out, Octet(WithDigit(y, c1), 2))
    BY <1>2, <1>7, <2>1, DecodeStep
  <2>5. Read(d1, data, i)
    <3>1. i - 1 \in Nat /\ (i - 1) + 1 = i
      BY <1>7
    <3>2. d1.out = Append(d.out, data[(i - 1) + 1])
      BY <1>7, <2>2, <2>4, <3>1
    <3> HIDE DEF d1
    <3> QED BY <1>2, <1>7, <2>4, <3>1, <3>2, ReadOn
  <2> HIDE DEF d1
  <2>6. /\ d2 \in Decoding /\ d2.buffer = WithDigit(d1.buffer, c2) /\ d2.bits_left = 6
        /\ d2.out = d1.out
    BY <2>1, <2>4, DecodeStep
  <2>7. Read(d2, data, i)
    BY <2>5, <2>6 DEF Read
  <2> HIDE DEF d2, new
  <2>8. InStep(new, d2, data, i + 1)
    BY <1>1, <1>3, <2>2, <2>3, <2>4, <2>6, <2>7 DEF InStep, Held
  <2> QED BY <2>1, <2>3, <2>8 DEF d1, d2, new
<1>8. CASE /\ e.bits_left = 2 /\ d.bits_left = 6 /\ i > 0 /\ Read(d, data, i - 1)
          /\ data[i] = Low(y, 64) * 4 + Low(x, 4)
  <2> DEFINE c1 == Digit(buffer, 32)
             d1 == DecodeCharacter(d, c1)
             c2 == Digit(buffer, 1)
             d2 == DecodeCharacter(d1, c2)
  <2>1. c1 \in Nat /\ c1 \in Alphabet /\ c2 \in Nat /\ c2 \in Alphabet
    <3> HIDE DEF buffer
    <3>1. c1 \in Alphabet /\ c2 \in Alphabet
      BY <1>3, DigitType
    <3> HIDE DEF c1, c2
    <3> QED BY <3>1, Known
  <2>2. /\ Octet(WithDigit(y, c1), 8) = Low(y, 64) * 4 + Low(x, 4)
        /\ Octet(WithDigit(WithDigit(y, c1), c2), 1) = b
    <3> HIDE DEF b, x, y
    <3> QED BY <1>1, <1>2, Through2
  <2>3. new.bits_left = 0 /\ new.out = e.out \o <<c1, c2>>
    BY <1>1, <1>2, <1>8, EncodeStep
  <2> HIDE DEF c1, c2, buffer
  <2>4. /\ d1 \in Decoding /\ d1.buffer = WithDigit(y, c1) /\ d1.bits_left = 3
        /\ d1.out = Append(d.out, Octet(WithDigit(y, c1), 8))
    BY <1>2, <1>8, <2>1, DecodeStep
  <2>5. Read(d1, data, i)
    <3>1. i - 1 \in Nat /\ (i - 1) + 1 = i
      BY <1>8
    <3>2. d1.out = Append(d.out, data[(i - 1) + 1])
      BY <1>8, <2>2, <2>4, <3>1
    <3> HIDE DEF d1
    <3> QED BY <1>2, <1>8, <2>4, <3>1, <3>2, ReadOn
  <2> HIDE DEF d1
  <2>6. /\ d2 \in Decoding /\ d2.buffer = WithDigit(d1.buffer, c2) /\ d2.bits_left = 0
        /\ d2.out = Append(d1.out, Octet(WithDigit(d1.buffer, c2), 1))
    BY <2>1, <2>4, DecodeStep
  <2>7. Read(d2, data, i + 1)
    <3>1. d2.out = Append(d1.out, data[i + 1])
      BY <2>2, <2>4, <2>6
    <3> HIDE DEF d2
    <3> QED BY <2>4, <2>5, <2>6, <3>1, ReadOn
  <2> HIDE DEF d2, new
  <2>8. InStep(new, d2, data, i + 1)
    BY <1>1, <1>3, <2>2, <2>3, <2>4, <2>6, <2>7 DEF InStep
  <2> QED BY <2>1, <2>3, <2>8 DEF d1, d2, new
<1> QED BY <1>4, <1>5, <1>6, <1>7, <1>8 DEF InStep, Held

-----------------------------------------------------------------------------
(* Both loops, turn by turn *)

\* What the encoder has after each byte.
LEMMA EncoderRuns ==
  ASSUME NEW data \in Seq(Byte)
  PROVE  \E R \in [0..Len(data) -> Encoding] :
           /\ R[0] = NoBits
           /\ \A i \in 1..Len(data) : R[i] = EncodeByte(R[i - 1], data[i])
           /\ FoldLeft(EncodeByte, NoBits, data) = R[Len(data)]
<1> DEFINE n == Len(data)
           step == [p \in Encoding \X (1..n) |-> EncodeByte(p[1], data[p[2]])]
           Turn(f, s) == IF s = {} THEN NoBits ELSE EncodeByte(f[s \ {Max(s)}], data[Max(s)])
           iter == CHOOSE f : f = [s \in SUBSET DOMAIN data |->
                      IF s = {} THEN NoBits ELSE EncodeByte(f[s \ {Max(s)}], data[Max(s)])]
           R == [i \in 0..n |-> iter[1..i]]
<1>1. n \in Nat /\ DOMAIN data = 1..n /\ \A i \in 1..n : data[i] \in Byte
  OBVIOUS
<1>2. NoBits \in Encoding
  BY DEF NoBits, Encoding
<1>3. step \in [Encoding \X (1..n) -> Encoding]
  BY <1>1, EncodeType
<1>4. PICK f \in [SUBSET (1..n) -> Encoding] : IsFold(f, n, NoBits, step)
  <2>1. n \in Nat
    BY <1>1
  <2> HIDE DEF step, n
  <2> QED BY <1>2, <1>3, <2>1, FoldExists
<1>5. f = [s \in SUBSET DOMAIN data |-> Turn(f, s)]
  <2>1. ASSUME NEW s \in SUBSET (1..n) PROVE f[s] = Turn(f, s)
    <3>1. CASE s = {}
      BY <1>4, <3>1 DEF IsFold
    <3>2. CASE s # {}
      <4>1. Max(s) \in 1..n /\ s \ {Max(s)} \in SUBSET (1..n)
        <5> HIDE DEF n
        <5> QED BY <1>1, <3>2, HasHighest
      <4>2. f[s \ {Max(s)}] \in Encoding
        BY <4>1
      <4>3. step[<<f[s \ {Max(s)}], Max(s)>>] = EncodeByte(f[s \ {Max(s)}], data[Max(s)])
        BY <4>1, <4>2
      <4>4. f[s] = step[<<f[s \ {Max(s)}], Max(s)>>]
        BY <1>4, <3>2 DEF IsFold
      <4> HIDE DEF step
      <4> QED BY <3>2, <4>3, <4>4
    <3> QED BY <3>1, <3>2
  <2> HIDE DEF Turn, n
  <2> QED BY <1>1, <2>1
<1>6. iter = [s \in SUBSET DOMAIN data |-> Turn(iter, s)]
  BY <1>5, Zenon
<1>7. FoldLeft(EncodeByte, NoBits, data) = iter[DOMAIN data]
  BY DEF FoldLeft, MapThenFoldSet
<1> HIDE DEF iter, n
<1>8. \A s \in SUBSET (1..n) : iter[s] = Turn(iter, s)
  BY <1>1, <1>6
<1>9. R[0] = NoBits
  <2>1. 1..0 = {} /\ {} \in SUBSET (1..n) /\ 0 \in 0..n
    BY <1>1
  <2> QED BY <1>8, <2>1
<1>10. ASSUME NEW i \in 1..n PROVE R[i] = EncodeByte(R[i - 1], data[i])
  <2>1. /\ 1..i \in SUBSET (1..n) /\ 1..i # {}
        /\ Max(1..i) = i /\ (1..i) \ {i} = 1..(i - 1)
    BY <1>1, PlacesUpTo
  <2>2. iter[1..i] = EncodeByte(iter[1..(i - 1)], data[i])
    BY <1>8, <2>1
  <2>3. i \in 0..n /\ i - 1 \in 0..n
    BY <1>1
  <2> QED BY <2>2, <2>3
<1>11. \A i \in 0..n : R[i] \in Encoding
  <2> DEFINE typed == {i \in 0..n : R[i] \in Encoding}
  <2> HIDE DEF R
  <2>1. 0 \in typed
    BY <1>1, <1>2, <1>9
  <2>2. ASSUME NEW i \in 0..(n - 1), i \in typed PROVE i + 1 \in typed
    <3>1. i + 1 \in 1..n /\ (i + 1) - 1 = i /\ i + 1 \in 0..n
      BY <1>1
    <3>2. R[i + 1] = EncodeByte(R[i], data[i + 1])
      BY <1>10, <3>1
    <3> QED BY <1>1, <2>2, <3>1, <3>2, EncodeType
  <2>3. \A i \in 0..n : i \in typed
    <3> HIDE DEF typed
    <3> QED BY <1>1, <2>1, <2>2, Climb
  <2> QED BY <2>3
<1>12. R \in [0..n -> Encoding] /\ R[n] = iter[DOMAIN data]
  <2>1. n \in 0..n
    BY <1>1
  <2> QED BY <1>1, <1>11, <2>1
<1> HIDE DEF R
<1> QED BY <1>7, <1>9, <1>10, <1>12 DEF n

\* What the decoder has after each character.
LEMMA DecoderRuns ==
  ASSUME NEW code \in Seq(Alphabet)
  PROVE  \E R \in [0..Len(code) -> Decoding] :
           /\ R[0] = NoBits
           /\ \A i \in 1..Len(code) : R[i] = DecodeCharacter(R[i - 1], code[i])
           /\ FoldLeft(DecodeCharacter, NoBits, code) = R[Len(code)]
<1> DEFINE n == Len(code)
           step == [p \in Decoding \X (1..n) |-> DecodeCharacter(p[1], code[p[2]])]
           Turn(f, s) == IF s = {} THEN NoBits ELSE DecodeCharacter(f[s \ {Max(s)}], code[Max(s)])
           iter == CHOOSE f : f = [s \in SUBSET DOMAIN code |->
                      IF s = {} THEN NoBits ELSE DecodeCharacter(f[s \ {Max(s)}], code[Max(s)])]
           R == [i \in 0..n |-> iter[1..i]]
<1>1. n \in Nat /\ DOMAIN code = 1..n /\ \A i \in 1..n : code[i] \in Alphabet
  OBVIOUS
<1>2. NoBits \in Decoding
  BY DEF NoBits, Decoding
<1>3. step \in [Decoding \X (1..n) -> Decoding]
  BY <1>1, DecodeStep
<1>4. PICK f \in [SUBSET (1..n) -> Decoding] : IsFold(f, n, NoBits, step)
  <2>1. n \in Nat
    BY <1>1
  <2> HIDE DEF step, n
  <2> QED BY <1>2, <1>3, <2>1, FoldExists
<1>5. f = [s \in SUBSET DOMAIN code |-> Turn(f, s)]
  <2>1. ASSUME NEW s \in SUBSET (1..n) PROVE f[s] = Turn(f, s)
    <3>1. CASE s = {}
      BY <1>4, <3>1 DEF IsFold
    <3>2. CASE s # {}
      <4>1. Max(s) \in 1..n /\ s \ {Max(s)} \in SUBSET (1..n)
        <5> HIDE DEF n
        <5> QED BY <1>1, <3>2, HasHighest
      <4>2. f[s \ {Max(s)}] \in Decoding
        BY <4>1
      <4>3. step[<<f[s \ {Max(s)}], Max(s)>>] = DecodeCharacter(f[s \ {Max(s)}], code[Max(s)])
        BY <4>1, <4>2
      <4>4. f[s] = step[<<f[s \ {Max(s)}], Max(s)>>]
        BY <1>4, <3>2 DEF IsFold
      <4> HIDE DEF step
      <4> QED BY <3>2, <4>3, <4>4
    <3> QED BY <3>1, <3>2
  <2> HIDE DEF Turn, n
  <2> QED BY <1>1, <2>1
<1>6. iter = [s \in SUBSET DOMAIN code |-> Turn(iter, s)]
  BY <1>5, Zenon
<1>7. FoldLeft(DecodeCharacter, NoBits, code) = iter[DOMAIN code]
  BY DEF FoldLeft, MapThenFoldSet
<1> HIDE DEF iter, n
<1>8. \A s \in SUBSET (1..n) : iter[s] = Turn(iter, s)
  BY <1>1, <1>6
<1>9. R[0] = NoBits
  <2>1. 1..0 = {} /\ {} \in SUBSET (1..n) /\ 0 \in 0..n
    BY <1>1
  <2> QED BY <1>8, <2>1
<1>10. ASSUME NEW i \in 1..n PROVE R[i] = DecodeCharacter(R[i - 1], code[i])
  <2>1. /\ 1..i \in SUBSET (1..n) /\ 1..i # {}
        /\ Max(1..i) = i /\ (1..i) \ {i} = 1..(i - 1)
    BY <1>1, PlacesUpTo
  <2>2. iter[1..i] = DecodeCharacter(iter[1..(i - 1)], code[i])
    BY <1>8, <2>1
  <2>3. i \in 0..n /\ i - 1 \in 0..n
    BY <1>1
  <2> QED BY <2>2, <2>3
<1>11. \A i \in 0..n : R[i] \in Decoding
  <2> DEFINE typed == {i \in 0..n : R[i] \in Decoding}
  <2> HIDE DEF R
  <2>1. 0 \in typed
    BY <1>1, <1>2, <1>9
  <2>2. ASSUME NEW i \in 0..(n - 1), i \in typed PROVE i + 1 \in typed
    <3>1. i + 1 \in 1..n /\ (i + 1) - 1 = i /\ i + 1 \in 0..n
      BY <1>1
    <3>2. R[i + 1] = DecodeCharacter(R[i], code[i + 1])
      BY <1>10, <3>1
    <3> QED BY <1>1, <2>2, <3>1, <3>2, DecodeStep
  <2>3. \A i \in 0..n : i \in typed
    <3> HIDE DEF typed
    <3> QED BY <1>1, <2>1, <2>2, Climb
  <2> QED BY <2>3
<1>12. R \in [0..n -> Decoding] /\ R[n] = iter[DOMAIN code]
  <2>1. n \in 0..n
    BY <1>1
  <2> QED BY <1>1, <1>11, <2>1
<1> HIDE DEF R
<1> QED BY <1>7, <1>9, <1>10, <1>12 DEF n

-----------------------------------------------------------------------------
(* The code as a whole *)

\* s is the beginning of t.
Begins(s, t) == Len(s) <= Len(t) /\ \A k \in 1..Len(s) : s[k] = t[k]

\* What is appended to leaves a beginning.
LEMMA BeginsWith ==
  ASSUME NEW A, NEW s \in Seq(A), NEW t \in Seq(A)
  PROVE  Begins(s, s \o t)
BY DEF Begins

\* A beginning's beginning is one.
LEMMA BeginsAll ==
  ASSUME NEW A, NEW s \in Seq(A), NEW t \in Seq(A), NEW u \in Seq(A),
         Begins(s, t), Begins(t, u)
  PROVE  Begins(s, u)
<1>1. Len(s) \in Nat /\ Len(t) \in Nat /\ Len(u) \in Nat
  OBVIOUS
<1> QED BY <1>1 DEF Begins

\* What the encoder has written stays.
LEMMA OutGrows ==
  ASSUME NEW acc \in Encoding, NEW b \in Byte
  PROVE  Begins(acc.out, EncodeByte(acc, b).out)
<1> DEFINE buffer == WithByte(acc.buffer, b)
           bits == acc.bits_left + 8
           digits == [k \in 1..(bits \div 5) |-> Digit(buffer, 2 ^ (bits - 5 * k))]
           written == {digits[k] : k \in 1..(bits \div 5)}
<1>1. EncodeByte(acc, b) = [buffer |-> buffer, bits_left |-> bits % 5, out |-> acc.out \o digits]
  BY DEF EncodeByte, WithByte, Digit
<1>2. acc.bits_left \in 0..4 /\ acc.out \in Seq(Alphabet)
  BY DEF Encoding
<1>3. bits \div 5 \in Nat
  BY <1>2
<1> DEFINE m == bits \div 5
<1> HIDE DEF buffer
<1>4. \A k \in 1..m : digits[k] \in Alphabet \cup written
  OBVIOUS
<1>5. digits \in Seq(Alphabet \cup written)
  <2>1. digits = [k \in 1..m |-> digits[k]] /\ m \in Nat
    BY <1>3
  <2> HIDE DEF digits, m, written
  <2> QED BY <1>4, <2>1
<1>6. acc.out \in Seq(Alphabet \cup written)
  <2> HIDE DEF written
  <2> QED BY <1>2
<1> HIDE DEF bits, digits, written
<1>7. EncodeByte(acc, b).out = acc.out \o digits
  BY <1>1
<1> QED BY <1>5, <1>6, <1>7, BeginsWith

\* The last character: the bits left over in the encoder, filled up with zeros.
LEMMA FlushStep ==
  ASSUME NEW acc \in Encoding
  PROVE  /\ FlushBitsLeft(acc) \in Seq(Alphabet)
         /\ acc.bits_left = 0 => FlushBitsLeft(acc) = acc.out
         /\ acc.bits_left = 1 => FlushBitsLeft(acc) = Append(acc.out, (acc.buffer * 16) % 32)
         /\ acc.bits_left = 2 => FlushBitsLeft(acc) = Append(acc.out, (acc.buffer * 8) % 32)
         /\ acc.bits_left = 3 => FlushBitsLeft(acc) = Append(acc.out, (acc.buffer * 4) % 32)
         /\ acc.bits_left = 4 => FlushBitsLeft(acc) = Append(acc.out, (acc.buffer * 2) % 32)
<1>1. acc.buffer \in Nat /\ acc.bits_left \in 0..4 /\ acc.out \in Seq(Alphabet)
  BY DEF Encoding
<1>2. 2 ^ 4 = 16 /\ 2 ^ 3 = 8 /\ 2 ^ 2 = 4 /\ 2 ^ 1 = 2
  OBVIOUS
<1>3. 5 - 1 = 4 /\ 5 - 2 = 3 /\ 5 - 3 = 2 /\ 5 - 4 = 1
  OBVIOUS
<1>4. acc.bits_left = 0 => FlushBitsLeft(acc) = acc.out
  BY DEF FlushBitsLeft
<1>5. acc.bits_left = 1 => FlushBitsLeft(acc) = Append(acc.out, (acc.buffer * 16) % 32)
  BY <1>2, <1>3 DEF FlushBitsLeft
<1>6. acc.bits_left = 2 => FlushBitsLeft(acc) = Append(acc.out, (acc.buffer * 8) % 32)
  BY <1>2, <1>3 DEF FlushBitsLeft
<1>7. acc.bits_left = 3 => FlushBitsLeft(acc) = Append(acc.out, (acc.buffer * 4) % 32)
  BY <1>2, <1>3 DEF FlushBitsLeft
<1>8. acc.bits_left = 4 => FlushBitsLeft(acc) = Append(acc.out, (acc.buffer * 2) % 32)
  BY <1>2, <1>3 DEF FlushBitsLeft
<1>9. /\ (acc.buffer * 16) % 32 \in Alphabet /\ (acc.buffer * 8) % 32 \in Alphabet
      /\ (acc.buffer * 4) % 32 \in Alphabet /\ (acc.buffer * 2) % 32 \in Alphabet
  <2>1. \A n \in Nat : n % 32 \in Nat /\ n % 32 < 32
    BY Z3
  <2>2. \A n \in Nat : n % 32 \in Alphabet
    BY <2>1, Known
  <2>3. /\ acc.buffer * 16 \in Nat /\ acc.buffer * 8 \in Nat
        /\ acc.buffer * 4 \in Nat /\ acc.buffer * 2 \in Nat
    BY <1>1
  <2> QED BY <2>2, <2>3
<1>10. \A c \in Alphabet : Append(acc.out, c) \in Seq(Alphabet)
  BY <1>1
<1>11. acc.bits_left = 0 \/ acc.bits_left = 1 \/ acc.bits_left = 2 \/ acc.bits_left = 3
         \/ acc.bits_left = 4
  BY <1>1
<1>12. FlushBitsLeft(acc) \in Seq(Alphabet)
  BY <1>1, <1>4, <1>5, <1>6, <1>7, <1>8, <1>9, <1>10, <1>11, Zenon
<1> QED BY <1>4, <1>5, <1>6, <1>7, <1>8, <1>12

\* Byte by byte, the encoder's characters are the beginning of the code.
LEMMA WrittenBegins ==
  ASSUME NEW data \in Seq(Byte), NEW R \in [0..Len(data) -> Encoding],
         \A i \in 1..Len(data) : R[i] = EncodeByte(R[i - 1], data[i])
  PROVE  \A i \in 0..Len(data) : Begins(R[i].out, FlushBitsLeft(R[Len(data)]))
<1> DEFINE n == Len(data)
           code == FlushBitsLeft(R[n])
           S == {i \in 0..n : Begins(R[n - i].out, code)}
<1>1. n \in Nat /\ n - 0 = n /\ 0 \in 0..n /\ n \in 0..n
  OBVIOUS
<1>2. \A i \in 0..n : R[i] \in Encoding /\ R[i].out \in Seq(Alphabet)
  BY DEF Encoding
<1>3. code \in Seq(Alphabet)
  BY <1>1, <1>2, FlushStep
<1>4. Begins(R[n].out, code)
  <2>1. \A s \in Seq(Alphabet) : \A c : Begins(s, s) /\ Begins(s, Append(s, c))
    BY DEF Begins
  <2>2. code = R[n].out \/ \E c : code = Append(R[n].out, c)
    <3> HIDE DEF n
    <3> QED BY DEF FlushBitsLeft
  <2> QED BY <1>1, <1>2, <2>1, <2>2
<1>5. 0 \in S
  BY <1>1, <1>4
<1>6. ASSUME NEW i \in 0..(n - 1), i \in S PROVE i + 1 \in S
  <2> DEFINE j == n - (i + 1)
  <2>1. j \in 0..n /\ n - i \in 1..n /\ n - i \in 0..n /\ (n - i) - 1 = j /\ i + 1 \in 0..n
    BY <1>1
  <2>2. R[n - i] = EncodeByte(R[j], data[n - i])
    BY <2>1
  <2>3. data[n - i] \in Byte
    BY <2>1
  <2>4. Begins(R[j].out, R[n - i].out)
    BY <1>2, <2>1, <2>2, <2>3, OutGrows
  <2>5. Begins(R[j].out, code)
    <3> HIDE DEF code, j
    <3> QED BY <1>2, <1>3, <1>6, <2>1, <2>4, BeginsAll
  <2> QED BY <2>1, <2>5
<1>7. \A i \in 0..n : i \in S
  <2> HIDE DEF S
  <2> QED BY <1>1, <1>5, <1>6, Climb
<1>8. ASSUME NEW i \in 0..n PROVE Begins(R[i].out, code)
  <2>1. n - i \in 0..n /\ n - (n - i) = i
    BY <1>1
  <2> QED BY <1>7, <2>1
<1> QED BY <1>8

\* The decoder that has read what the encoder had written after i bytes is in step.
LEMMA StayInStep ==
  ASSUME NEW data \in Seq(Byte), NEW R \in [0..Len(data) -> Encoding], R[0] = NoBits,
         \A i \in 1..Len(data) : R[i] = EncodeByte(R[i - 1], data[i]),
         NEW code \in Seq(Alphabet), \A i \in 0..Len(data) : Begins(R[i].out, code),
         NEW D \in [0..Len(code) -> Decoding], D[0] = NoBits,
         \A k \in 1..Len(code) : D[k] = DecodeCharacter(D[k - 1], code[k])
  PROVE  \A i \in 0..Len(data) : InStep(R[i], D[Len(R[i].out)], data, i)
<1> DEFINE n == Len(data)
           S == {i \in 0..n : InStep(R[i], D[Len(R[i].out)], data, i)}
<1>1. n \in Nat /\ 0 \in 0..n
  OBVIOUS
<1>2. \A i \in 0..n : R[i] \in Encoding /\ R[i].out \in Seq(Alphabet)
  BY DEF Encoding
<1>3. 0 \in S
  <2>1. NoBits \in Encoding /\ NoBits \in Decoding /\ Len(NoBits.out) = 0
    BY DEF NoBits, Encoding, Decoding
  <2>2. Read(NoBits, data, 0)
    BY DEF Read, NoBits
  <2>3. InStep(NoBits, NoBits, data, 0)
    <3>1. NoBits.bits_left = 0
      BY DEF NoBits
    <3> QED BY <2>1, <2>2, <3>1 DEF InStep
  <2> QED BY <1>1, <2>1, <2>3
<1>4. ASSUME NEW i \in 0..(n - 1), i \in S PROVE i + 1 \in S
  <2> DEFINE e == R[i]
             m == Len(e.out)
             new == EncodeByte(e, data[i + 1])
  <2>1. i \in Nat /\ i < n /\ i \in 0..n /\ i + 1 \in 1..n /\ i + 1 \in 0..n /\ (i + 1) - 1 = i
    BY <1>1
  <2>2. R[i + 1] = new
    BY <2>1
  <2>3. InStep(e, D[m], data, i)
    BY <1>4
  <2>4. e.out \in Seq(Alphabet) /\ m \in Nat /\ Begins(new.out, code)
    <3>1. e.out \in Seq(Alphabet)
      BY <1>2, <2>1
    <3> HIDE DEF e
    <3>2. m \in Nat
      BY <3>1
    <3> HIDE DEF new
    <3> QED BY <2>1, <2>2, <3>1, <3>2
  <2> HIDE DEF S, e, new
  <2>5. CASE \E c \in Alphabet : /\ new.out = e.out \o <<c>>
                                 /\ InStep(new, DecodeCharacter(D[m], c), data, i + 1)
    <3>1. PICK c \in Alphabet : /\ new.out = e.out \o <<c>>
                                /\ InStep(new, DecodeCharacter(D[m], c), data, i + 1)
      BY <2>5
    <3>2. Len(new.out) = m + 1 /\ new.out[m + 1] = c
      BY <2>4, <3>1
    <3> HIDE DEF m
    <3>3. m + 1 \in 1..Len(code) /\ code[m + 1] = c /\ (m + 1) - 1 = m
      BY <2>4, <3>2 DEF Begins
    <3>4. D[m + 1] = DecodeCharacter(D[m], c)
      BY <3>3
    <3>5. InStep(R[i + 1], D[Len(R[i + 1].out)], data, i + 1)
      BY <2>2, <3>1, <3>2, <3>4
    <3> QED BY <2>1, <3>5 DEF S
  <2>6. CASE \E c1, c2 \in Alphabet :
               /\ new.out = e.out \o <<c1, c2>>
               /\ InStep(new, DecodeCharacter(DecodeCharacter(D[m], c1), c2), data, i + 1)
    <3>1. PICK c1, c2 \in Alphabet :
               /\ new.out = e.out \o <<c1, c2>>
               /\ InStep(new, DecodeCharacter(DecodeCharacter(D[m], c1), c2), data, i + 1)
      BY <2>6
    <3>2. Len(new.out) = m + 2 /\ new.out[m + 1] = c1 /\ new.out[m + 2] = c2
      BY <2>4, <3>1
    <3> HIDE DEF m
    <3>3. /\ m + 1 \in 1..Len(code) /\ code[m + 1] = c1 /\ (m + 1) - 1 = m
          /\ m + 2 \in 1..Len(code) /\ code[m + 2] = c2 /\ (m + 2) - 1 = m + 1
      <4>1. m + 2 <= Len(code) /\ \A k \in 1..(m + 2) : new.out[k] = code[k]
        BY <2>4, <3>2 DEF Begins
      <4>2. m + 1 \in 1..(m + 2) /\ m + 2 \in 1..(m + 2)
        BY <2>4
      <4>3. m + 1 \in 1..Len(code) /\ m + 2 \in 1..Len(code)
        <5>1. Len(code) \in Nat /\ m \in Nat
          BY <2>4
        <5> QED BY <4>1, <5>1
      <4>4. (m + 1) - 1 = m /\ (m + 2) - 1 = m + 1
        BY <2>4
      <4> QED BY <3>2, <4>1, <4>2, <4>3, <4>4
    <3>4. D[m + 1] = DecodeCharacter(D[m], c1)
      BY <3>3
    <3>5. D[m + 2] = DecodeCharacter(D[m + 1], c2)
      BY <3>3
    <3>6. InStep(R[i + 1], D[Len(R[i + 1].out)], data, i + 1)
      BY <2>2, <3>1, <3>2, <3>4, <3>5
    <3> QED BY <2>1, <3>6 DEF S
  <2> QED
    <3> HIDE DEF n, m
    <3> QED BY <2>1, <2>3, <2>5, <2>6, OneByte DEF n, e, new
<1>5. \A i \in 0..n : i \in S
  <2> HIDE DEF S
  <2> QED BY <1>1, <1>3, <1>4, Climb
<1> QED BY <1>5

\* The last character hands over the bits left over.
LEMMA LastByte ==
  ASSUME NEW data \in Seq(Byte), NEW e, NEW d, InStep(e, d, data, Len(data)),
         e.bits_left # 0
  PROVE  \E c \in Alphabet : /\ FlushBitsLeft(e) = Append(e.out, c)
                             /\ Read(DecodeCharacter(d, c), data, Len(data))
<1> DEFINE x == e.buffer
           y == d.buffer
           n == Len(data)
<1>1. e \in Encoding /\ d \in Decoding /\ x \in Nat /\ y \in Nat
  BY DEF InStep, Encoding, Decoding
<1>2. n > 0 /\ Read(d, data, n - 1) /\ Held(e, d, data[n])
  BY DEF InStep
<1>3. n \in Nat /\ n - 1 \in Nat /\ (n - 1) + 1 = n
  BY <1>2
<1>4. ASSUME NEW c \in Alphabet, NEW u \in Nat,
             DecodeCharacter(d, c) \in Decoding,
             DecodeCharacter(d, c).out = Append(d.out, data[n])
      PROVE  Read(DecodeCharacter(d, c), data, n)
  <2> HIDE DEF n
  <2>1. Read(DecodeCharacter(d, c), data, (n - 1) + 1)
    BY <1>1, <1>2, <1>3, <1>4, ReadOn
  <2> QED BY <1>3, <2>1
<1> HIDE DEF x, y
<1>5. CASE e.bits_left = 1
  <2> DEFINE c == (x * 16) % 32
  <2>1. c \in Nat /\ c < 32 /\ Octet(WithDigit(y, c), 16) = Low(y, 128) * 2 + Low(x, 2)
    BY <1>1, ThroughLast
  <2>2. FlushBitsLeft(e) = Append(e.out, c)
    BY <1>1, <1>5, FlushStep DEF x
  <2> HIDE DEF c
  <2>3. c \in Alphabet
    BY <2>1, Known
  <2>4. d.bits_left = 7 /\ data[n] = Low(y, 128) * 2 + Low(x, 2)
    BY <1>2, <1>5 DEF Held, x, y
  <2>5. /\ DecodeCharacter(d, c) \in Decoding
        /\ DecodeCharacter(d, c).out = Append(d.out, Octet(WithDigit(y, c), 16))
    BY <1>1, <2>3, <2>4, DecodeStep DEF y
  <2> QED BY <1>4, <2>1, <2>2, <2>3, <2>4, <2>5
<1>6. CASE e.bits_left = 2
  <2> DEFINE c == (x * 8) % 32
  <2>1. c \in Nat /\ c < 32 /\ Octet(WithDigit(y, c), 8) = Low(y, 64) * 4 + Low(x, 4)
    BY <1>1, ThroughLast
  <2>2. FlushBitsLeft(e) = Append(e.out, c)
    BY <1>1, <1>6, FlushStep DEF x
  <2> HIDE DEF c
  <2>3. c \in Alphabet
    BY <2>1, Known
  <2>4. d.bits_left = 6 /\ data[n] = Low(y, 64) * 4 + Low(x, 4)
    BY <1>2, <1>6 DEF Held, x, y
  <2>5. /\ DecodeCharacter(d, c) \in Decoding
        /\ DecodeCharacter(d, c).out = Append(d.out, Octet(WithDigit(y, c), 8))
    BY <1>1, <2>3, <2>4, DecodeStep DEF y
  <2> QED BY <1>4, <2>1, <2>2, <2>3, <2>4, <2>5
<1>7. CASE e.bits_left = 3
  <2> DEFINE c == (x * 4) % 32
  <2>1. c \in Nat /\ c < 32 /\ Octet(WithDigit(y, c), 4) = Low(y, 32) * 8 + Low(x, 8)
    BY <1>1, ThroughLast
  <2>2. FlushBitsLeft(e) = Append(e.out, c)
    BY <1>1, <1>7, FlushStep DEF x
  <2> HIDE DEF c
  <2>3. c \in Alphabet
    BY <2>1, Known
  <2>4. d.bits_left = 5 /\ data[n] = Low(y, 32) * 8 + Low(x, 8)
    BY <1>2, <1>7 DEF Held, x, y
  <2>5. /\ DecodeCharacter(d, c) \in Decoding
        /\ DecodeCharacter(d, c).out = Append(d.out, Octet(WithDigit(y, c), 4))
    BY <1>1, <2>3, <2>4, DecodeStep DEF y
  <2> QED BY <1>4, <2>1, <2>2, <2>3, <2>4, <2>5
<1>8. CASE e.bits_left = 4
  <2> DEFINE c == (x * 2) % 32
  <2>1. c \in Nat /\ c < 32 /\ Octet(WithDigit(y, c), 2) = Low(y, 16) * 16 + Low(x, 16)
    BY <1>1, ThroughLast
  <2>2. FlushBitsLeft(e) = Append(e.out, c)
    BY <1>1, <1>8, FlushStep DEF x
  <2> HIDE DEF c
  <2>3. c \in Alphabet
    BY <2>1, Known
  <2>4. d.bits_left = 4 /\ data[n] = Low(y, 16) * 16 + Low(x, 16)
    BY <1>2, <1>8 DEF Held, x, y
  <2>5. /\ DecodeCharacter(d, c) \in Decoding
        /\ DecodeCharacter(d, c).out = Append(d.out, Octet(WithDigit(y, c), 2))
    BY <1>1, <2>3, <2>4, DecodeStep DEF y
  <2> QED BY <1>4, <2>1, <2>2, <2>3, <2>4, <2>5
<1> QED BY <1>2, <1>5, <1>6, <1>7, <1>8 DEF Held

\* What the encoder makes of bytes, the decoder turns back into them: base32_decode
\* (base32_encode(data)) = data for data of any length.
THEOREM DecodeEncode ==
  \A data \in Seq(Byte) : base32_decode(base32_encode(data)) = data
<1> TAKE data \in Seq(Byte)
<1> DEFINE n == Len(data)
<1>1. n \in Nat /\ n \in 0..n
  OBVIOUS
<1>2. PICK R \in [0..n -> Encoding] :
           /\ R[0] = NoBits
           /\ \A i \in 1..n : R[i] = EncodeByte(R[i - 1], data[i])
           /\ FoldLeft(EncodeByte, NoBits, data) = R[n]
  BY EncoderRuns
<1> DEFINE e == R[n]
           code == FlushBitsLeft(e)
           m == Len(code)
<1>3. base32_encode(data) = code
  BY <1>2 DEF base32_encode
<1>4. e \in Encoding /\ e.out \in Seq(Alphabet) /\ Len(e.out) \in Nat
  BY <1>1 DEF Encoding
<1>5. code \in Seq(Alphabet) /\ m \in Nat
  <2> HIDE DEF e
  <2>1. code \in Seq(Alphabet)
    BY <1>4, FlushStep
  <2> QED BY <2>1
<1>6. \A i \in 0..n : Begins(R[i].out, code)
  BY <1>2, WrittenBegins
<1>7. PICK D \in [0..m -> Decoding] :
           /\ D[0] = NoBits
           /\ \A i \in 1..m : D[i] = DecodeCharacter(D[i - 1], code[i])
           /\ FoldLeft(DecodeCharacter, NoBits, code) = D[m]
  <2> HIDE DEF code
  <2> QED BY <1>5, DecoderRuns
<1>8. base32_decode(code) = D[m].out
  BY <1>7 DEF base32_decode
<1>9. InStep(e, D[Len(e.out)], data, n)
  <2> HIDE DEF code
  <2>1. \A i \in 0..n : InStep(R[i], D[Len(R[i].out)], data, i)
    BY <1>2, <1>5, <1>6, <1>7, StayInStep
  <2> QED BY <1>1, <2>1
<1> HIDE DEF e, code
<1>10. Read(D[m], data, n)
  <2>1. CASE e.bits_left = 0
    <3>1. code = e.out
      BY <1>4, <2>1, FlushStep DEF code
    <3>2. Read(D[Len(e.out)], data, n)
      BY <1>9, <2>1 DEF InStep, Held
    <3> QED BY <3>1, <3>2
  <2>2. CASE e.bits_left # 0
    <3>1. PICK c \in Alphabet :
             /\ code = Append(e.out, c)
             /\ Read(DecodeCharacter(D[Len(e.out)], c), data, n)
      BY <1>9, <2>2, LastByte DEF code
    <3>2. m = Len(e.out) + 1 /\ code[m] = c /\ m \in 1..m /\ m - 1 = Len(e.out)
      BY <1>4, <3>1
    <3>3. D[m] = DecodeCharacter(D[Len(e.out)], c)
      <4> HIDE DEF m
      <4> QED BY <1>7, <3>2
    <3> QED BY <3>1, <3>3
  <2> QED BY <2>1, <2>2
<1>11. D[m] \in Decoding /\ D[m].out \in Seq(Byte)
  BY <1>5 DEF Decoding
<1>12. D[m].out = data
  <2>1. Len(D[m].out) = n /\ \A k \in 1..n : D[m].out[k] = data[k]
    BY <1>10 DEF Read
  <2>2. \A s, t \in Seq(Byte) : Len(s) = Len(t) /\ (\A k \in 1..Len(t) : s[k] = t[k]) => s = t
    OBVIOUS
  <2> QED BY <1>11, <2>1, <2>2
<1> QED BY <1>3, <1>8, <1>12

-----------------------------------------------------------------------------
(* The invitation of a server *)

\* t follows s in s \o t.
Joins(s, t) ==
  /\ s \o t \in Seq(Byte) /\ Len(s \o t) = Len(s) + Len(t)
  /\ \A k \in 1..Len(s) : (s \o t)[k] = s[k]
  /\ \A k \in 1..Len(t) : (s \o t)[Len(s) + k] = t[k]

\* What is appended to bytes follows them.
LEMMA JoinBytes ==
  ASSUME NEW s \in Seq(Byte), NEW t \in Seq(Byte)
  PROVE  Joins(s, t)
BY DEF Joins

\* The two bytes of a sixteen-bit id.
LEMMA TwoBytes ==
  ASSUME NEW i \in Nat, i < 65536
  PROVE  i % 256 \in Byte /\ i \div 256 \in Byte /\ (i % 256) + 256 * (i \div 256) = i
<1>1. i % 256 \in Nat /\ i % 256 < 256 /\ (i % 256) + 256 * (i \div 256) = i
  BY Z3
<1>2. i \div 256 \in Nat /\ i \div 256 < 256
  BY Z3
<1>3. \A b \in Nat : b < 256 => b \in Byte
  BY DEF Byte
<1> QED BY <1>1, <1>2, <1>3

\* AddServer reads from a code the address and the id that DrawServers wrote into it,
\* for every address and every sixteen-bit id.
THEOREM InvitationRead ==
  ASSUME NEW ip_address \in Seq(Byte), Len(ip_address) = 4,
         NEW server_id \in Nat, server_id < 65536
  PROVE  LET decoded == base32_decode(InvitationCode(ip_address, server_id))
         IN  /\ ~TooShort(decoded)
             /\ AddressIn(decoded) = ip_address
             /\ ServerIdIn(decoded) = server_id
<1> DEFINE low == server_id % 256
           high == server_id \div 256
           data == ip_address \o <<low, high>>
<1>1. low \in Byte /\ high \in Byte /\ low + 256 * high = server_id
  BY TwoBytes
<1>2. InvitationCode(ip_address, server_id) = base32_encode(data)
  BY DEF InvitationCode
<1> HIDE DEF low, high
<1> DEFINE id == <<low, high>>
<1>3. id \in Seq(Byte) /\ Len(id) = 2 /\ id[1] = low /\ id[2] = high
  BY <1>1
<1> HIDE DEF id
<1>4. /\ ip_address \o id \in Seq(Byte) /\ Len(ip_address \o id) = 6
      /\ (ip_address \o id)[5] = low /\ (ip_address \o id)[6] = high
      /\ \A k \in 1..4 : (ip_address \o id)[k] = ip_address[k]
  <2>1. Joins(ip_address, id)
    BY <1>3, JoinBytes
  <2>2. 4 + 2 = 6 /\ 4 + 1 = 5 /\ 1 \in 1..2 /\ 2 \in 1..2
    OBVIOUS
  <2> QED BY <1>3, <2>1, <2>2 DEF Joins
<1>5. /\ data \in Seq(Byte) /\ Len(data) = 6 /\ data[5] = low /\ data[6] = high
      /\ \A k \in 1..4 : data[k] = ip_address[k]
  BY <1>4 DEF id
<1> HIDE DEF data
<1>6. base32_decode(InvitationCode(ip_address, server_id)) = data
  BY <1>2, <1>5, DecodeEncode
<1>7. ~TooShort(data)
  BY <1>5 DEF TooShort
<1>8. AddressIn(data) = ip_address
  <2>1. SubSeq(data, 1, 4) \in Seq(Byte) /\ Len(SubSeq(data, 1, 4)) = 4
    BY <1>5
  <2>2. \A k \in 1..4 : SubSeq(data, 1, 4)[k] = data[k]
    BY <1>5
  <2>3. SubSeq(data, 1, 4) = ip_address
    BY <1>5, <2>1, <2>2
  <2> QED BY <2>3 DEF AddressIn
<1>9. ServerIdIn(data) = server_id
  BY <1>1, <1>5 DEF ServerIdIn
<1> QED BY <1>6, <1>7, <1>8, <1>9
=============================================================================
