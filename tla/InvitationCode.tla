--------------------------- MODULE InvitationCode ---------------------------
(***************************************************************************)
(* The invitation code of a hosted server (utils/crypto): the four bytes   *)
(* of the host's public address and the two of the server's id, in base32. *)
(*                                                                         *)
(* A character is its place in the alphabet, 0..31, a letter's case        *)
(* ignored as in the lookup table, or one that the table does not know.    *)
(*                                                                         *)
(* The loops shift the bits they have read already further up in a         *)
(* uint32_t and never look at them again; they look at the lowest 12 at    *)
(* most, so BufferBits need not be 32.                                     *)
(***************************************************************************)
EXTENDS Integers, Sequences, SequencesExt

BufferBits == 16
Byte == 0..255
Alphabet == 0..31
Unknown == 32     \* any character outside the alphabet

NoBits == [buffer |-> 0, bits_left |-> 0, out |-> <<>>]

\* One turn of the encoder's outer loop: the byte is shifted in and the inner
\* loop takes the digits that are complete, the highest first.
EncodeByte(acc, byte) ==
  LET buffer == (acc.buffer * 256 + byte) % 2 ^ BufferBits
      bits == acc.bits_left + 8
      digits == [k \in 1..(bits \div 5) |-> (buffer \div 2 ^ (bits - 5 * k)) % 32]
  IN  [buffer |-> buffer, bits_left |-> bits % 5, out |-> acc.out \o digits]

\* Mutant: the bits left over are not written.
DropBitsLeft(acc) == acc.out

\* The last, incomplete digit, filled up with zeros.
FlushBitsLeft(acc) ==
  IF acc.bits_left = 0 THEN acc.out
  ELSE Append(acc.out, (acc.buffer * 2 ^ (5 - acc.bits_left)) % 32)

base32_encode(data) == FlushBitsLeft(FoldLeft(EncodeByte, NoBits, data))

\* One turn of the decoder's loop: unknown characters are skipped.
DecodeCharacter(acc, c) ==
  LET buffer == (acc.buffer * 32 + c) % 2 ^ BufferBits
      bits == acc.bits_left + 5
  IN  IF c \notin Alphabet THEN acc
      ELSE IF bits < 8 THEN [acc EXCEPT !.buffer = buffer, !.bits_left = bits]
      ELSE [buffer |-> buffer, bits_left |-> bits - 8,
            out |-> Append(acc.out, (buffer \div 2 ^ (bits - 8)) % 256)]

\* The bits left over are dropped.
base32_decode(input) == FoldLeft(DecodeCharacter, NoBits, input).out

\* DrawServers, lines 97-105: address and id are copied byte by byte; the id is a
\* little-endian uint16_t.
InvitationCode(ip_address, server_id) ==
  base32_encode(ip_address \o <<server_id % 256, server_id \div 256>>)

\* AddServer, lines 158-169: six bytes at least, the rest is ignored.
TooShort(decoded) == Len(decoded) < 6
AddressIn(decoded) == SubSeq(decoded, 1, 4)
ServerIdIn(decoded) == decoded[5] + 256 * decoded[6]
=============================================================================
