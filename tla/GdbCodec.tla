------------------------------- MODULE GdbCodec -------------------------------
(***************************************************************************)
(* The GDB message codecs of src/debug/gdb/transport.c.                    *)
(*                                                                         *)
(* gdb_message_encode_bytes and gdb_message_decode_bytes copy memory to    *)
(* and from hex digits, touching memory only through whole, aligned        *)
(* 32-bit big-endian words (the memory may be MMIO): encode shifts each    *)
(* byte out of the word it read, decode assembles words and writes the     *)
(* last partial word with a read-modify-write.  The number and string      *)
(* helpers append to the reply or parse the command.                       *)
(*                                                                         *)
(* A behaviour is one call with inputs from small sets: the state after it *)
(* is compared with a reference definition of what the call promises.      *)
(* A character is its ASCII code; a byte of memory is below 128 so that    *)
(* every 32-bit word fits TLC's integers.                                  *)
(***************************************************************************)
EXTENDS Integers, Sequences, SequencesExt

CONSTANTS
  MemSize,     \* bytes of the memory under test, a multiple of 4
  ReplySize,   \* reply.size
  Command,     \* the characters of the command message
  Strings,     \* strings gdb_message_add_string is given
  IntValues,   \* values gdb_message_encode_int is given
  ClzZero      \* what CLZ(0) yields: __builtin_clz(0) is undefined

Word == 4                        \* sizeof(mmio_word_t)
Addr == 0..(MemSize - 1)
InitMem == [a \in Addr |-> a + 1]
Delimiters == {44, 59, 58, 0}    \* ',' ';' ':' and the '\0' strchr finds

VARIABLES
  mem,     \* the memory the codecs read and write
  reply,   \* the reply GdbMessage: [buf, used]
  call,    \* the call made and its inputs
  result   \* how it returned ("ok" or "die") and its value

vars == <<mem, reply, call, result>>

Ok(v) == [status |-> "ok", value |-> v]
Die == [status |-> "die", value |-> 0]

\* A reply buffer whose characters past used are stale ('x').
EmptyReply == [buf |-> [i \in 0..(ReplySize - 1) |-> 120], used |-> 0]

-----------------------------------------------------------------------------
(* Characters.                                                             *)

\* from_hex: the table indexed by c & 0x1f; -1 stored in an int8_t is 0xff.
HexValues == <<255, 10, 11, 12, 13, 14, 15, 255,
               255, 255, 255, 255, 255, 255, 255, 255,
               0, 1, 2, 3, 4, 5, 6, 7,
               8, 9, 255, 255, 255, 255, 255, 255>>
FromHex(c) == HexValues[(c % 32) + 1]

\* to_hex: digits[v & 0xf] of "0123456789abcdef".
ToHex(v) == LET d == v % 16 IN IF d < 10 THEN 48 + d ELSE 87 + d

Put(m, c) == [buf |-> [m.buf EXCEPT ![m.used] = c], used |-> m.used + 1]

-----------------------------------------------------------------------------
(* Word access: read32/write32 with be32toh/htobe32.                        *)

Read32(m, a) == m[a] * 2^24 + m[a + 1] * 2^16 + m[a + 2] * 2^8 + m[a + 3]
Write32(m, a, w) ==
  [x \in Addr |-> IF x \in a..(a + 3) THEN (w \div 2^(8 * (a + 3 - x))) % 256
                  ELSE m[x]]
AlignDown(p) == p - (p % Word)

-----------------------------------------------------------------------------
(* gdb_message_encode_bytes.                                               *)

\* Mutant: the word is used in native (little-endian) byte order.
EncodeByte_Native(word, aligned, data) == (word \div 2^(8 * (Word - (aligned - data)))) % 256

EncodeByte(word, aligned, data) == (word \div 2^(8 * ((aligned - data) - 1))) % 256

\* The loop; aligned is the word after the one held in word.
RECURSIVE EncodeLoop(_, _, _, _, _, _)
EncodeLoop(m, r, aligned, data, word, length) ==
  IF length = 0 THEN r
  ELSE LET byte == EncodeByte(word, aligned, data)
           r1 == Put(Put(r, ToHex(byte \div 16)), ToHex(byte % 16))
       IN IF length - 1 # 0 /\ data + 1 = aligned
          THEN EncodeLoop(m, r1, aligned + Word, data + 1, Read32(m, aligned), length - 1)
          ELSE EncodeLoop(m, r1, aligned, data + 1, word, length - 1)

EncodeBytes(data, length) ==
  /\ call = [op |-> "none"]
  /\ call' = [op |-> "encode_bytes", data |-> data, length |-> length, used |-> reply.used]
  /\ IF reply.used + length * 2 > ReplySize
     THEN result' = Die /\ UNCHANGED reply
     ELSE /\ reply' = EncodeLoop(mem, reply, AlignDown(data) + Word, data,
                                 Read32(mem, AlignDown(data)), length)
          /\ result' = Ok(0)
  /\ UNCHANGED mem

-----------------------------------------------------------------------------
(* gdb_message_decode_bytes.                                               *)

\* word <<= 8 in 32 bits, then the two digits.
ShiftIn(word, hi, lo) == (word % 2^24) * 256 + FromHex(hi) * 16 + FromHex(lo)

\* The loop: a word is written once its last byte is in.
RECURSIVE DecodeLoop(_, _, _, _, _, _)
DecodeLoop(m, aligned, data, word, offset, length) ==
  IF length = 0 THEN [m |-> m, aligned |-> aligned, data |-> data, word |-> word]
  ELSE LET w1 == ShiftIn(word, Command[offset + 1], Command[offset + 2])
       IN IF (data + 1) - aligned = Word
          THEN DecodeLoop(Write32(m, aligned, w1), aligned + Word, data + 1, w1, offset + 2, length - 1)
          ELSE DecodeLoop(m, aligned, data + 1, w1, offset + 2, length - 1)

\* Mutant: the final read-modify-write keeps the wrong part of the word.
Finish_KeepHigh(m, aligned, data, word) ==
  LET shift == ((aligned + Word) - data) * 8
  IN IF data = aligned THEN m
     ELSE Write32(m, aligned, (Read32(m, aligned) \div 2^shift) * 2^shift
                              + (word % 2^(32 - shift)))

\* clrsetbits_be32(aligned, ~((1 << shift) - 1), word << shift) when the
\* last word is partly written.
Finish(m, aligned, data, word) ==
  LET shift == ((aligned + Word) - data) * 8
  IN IF data = aligned THEN m
     ELSE Write32(m, aligned, (Read32(m, aligned) % 2^shift)
                              + (word % 2^(32 - shift)) * 2^shift)

\* word = read32(aligned) >> shift, where shift is 32 when data is
\* aligned: undefined in C, it yields the word unchanged (the shift count
\* taken mod 32) or 0, as the build's shifter does.
DecodeBytes(offset, data, length) ==
  /\ call = [op |-> "none"]
  /\ call' = [op |-> "decode_bytes", offset |-> offset, data |-> data, length |-> length]
  /\ UNCHANGED reply
  /\ IF offset + 2 * length > Len(Command)
     THEN result' = Die /\ UNCHANGED mem
     ELSE LET aligned == AlignDown(data)
              shift == ((aligned + Word) - data) * 8
          IN \E word \in IF shift = 32 THEN {Read32(mem, aligned), 0}
                         ELSE {Read32(mem, aligned) \div 2^shift} :
               LET d == DecodeLoop(mem, aligned, data, word, offset, length)
               IN /\ mem' = Finish(d.m, d.aligned, d.data, d.word)
                  /\ result' = Ok(0)

-----------------------------------------------------------------------------
(* gdb_message_encode_zero_bytes, gdb_message_add_string.                  *)

EncodeZeroBytes(length) ==
  /\ call = [op |-> "none"]
  /\ call' = [op |-> "zero_bytes", length |-> length, used |-> reply.used]
  /\ IF reply.used + length * 2 > ReplySize
     THEN result' = Die /\ UNCHANGED reply
     ELSE /\ reply' = [buf |-> [i \in DOMAIN reply.buf |->
                                  IF i >= reply.used /\ i < reply.used + length * 2
                                  THEN 48 ELSE reply.buf[i]],
                       used |-> reply.used + length * 2]
          /\ result' = Ok(0)
  /\ UNCHANGED mem

\* strlcpy(dst, src, n): copies at most n - 1 characters and a '\0' when
\* n > 0, and returns the length of src.
Strlcpy(buf, at, s, n) ==
  LET k == IF Len(s) < n - 1 THEN Len(s) ELSE n - 1
  IN [i \in DOMAIN buf |-> IF n > 0 /\ i >= at /\ i < at + k THEN s[i - at + 1]
                           ELSE IF n > 0 /\ i = at + k THEN 0 ELSE buf[i]]

\* Mutant: the overrun check is `>', forgetting the '\0'.
AddStringOverrun_Greater(used) == used > ReplySize

AddStringOverrun(used) == used >= ReplySize

AddString(s) ==
  /\ call = [op |-> "none"]
  /\ call' = [op |-> "add_string", string |-> s, used |-> reply.used]
  /\ LET r == [buf |-> Strlcpy(reply.buf, reply.used, s, ReplySize - reply.used),
               used |-> reply.used + Len(s)]
     IN IF AddStringOverrun(r.used)
        THEN result' = Die /\ UNCHANGED reply
        ELSE reply' = r /\ result' = Ok(0)
  /\ UNCHANGED mem

-----------------------------------------------------------------------------
(* gdb_message_encode_int, gdb_message_decode_int.                         *)

\* CLZ of a 64-bit uintptr_t; CLZ(0) is any of ClzZero.
BitLength(v) == CHOOSE n \in 0..31 : v < 2^n /\ (n = 0 \/ v >= 2^(n - 1))
Clz(v, z) == IF v = 0 THEN z ELSE 64 - BitLength(v)

\* Mutant: the leading zero bits are rounded up to whole digits.
IntLength_RoundUp(v, z) == 8 * 2 - (Clz(v, z) + 3) \div 4

IntLength(v, z) == 8 * 2 - Clz(v, z) \div 4

RECURSIVE EncodeDigits(_, _, _)
EncodeDigits(r, v, length) ==
  IF length = 0 THEN r
  ELSE EncodeDigits(Put(r, ToHex(v \div 2^((length - 1) * 4))), v, length - 1)

EncodeInt(v) ==
  /\ call = [op |-> "none"]
  /\ call' = [op |-> "encode_int", val |-> v, used |-> reply.used]
  /\ \E z \in ClzZero :
       IF reply.used + IntLength(v, z) > ReplySize
       THEN result' = Die /\ UNCHANGED reply
       ELSE reply' = EncodeDigits(reply, v, IntLength(v, z)) /\ result' = Ok(0)
  /\ UNCHANGED mem

\* val = val << 4 | from_hex(c), for the hex digits the inputs hold.
DecodeInt(offset, length) ==
  /\ call = [op |-> "none"]
  /\ call' = [op |-> "decode_int", offset |-> offset, length |-> length]
  /\ result' = IF length > 8 * 2 THEN Die
               ELSE Ok(FoldLeft(LAMBDA acc, c : acc * 16 + FromHex(c), 0,
                             SubSeq(Command, offset + 1, offset + length)))
  /\ UNCHANGED <<mem, reply>>

-----------------------------------------------------------------------------
(* gdb_message_tokenize.                                                   *)

\* The loop reads buf[offset++] and dies (-1) once offset reaches used.
RECURSIVE TokenEnd(_)
TokenEnd(offset) ==
  IF Command[offset + 1] \in Delimiters THEN offset + 1
  ELSE IF offset + 1 >= Len(Command) THEN -1
  ELSE TokenEnd(offset + 1)

TokenResult(token, end) == [token |-> token, offset |-> end]

Tokenize(offset) ==
  /\ call = [op |-> "none"]
  /\ call' = [op |-> "tokenize", offset |-> offset]
  /\ result' = IF TokenEnd(offset) = -1 THEN Die
               ELSE Ok(TokenResult(offset, TokenEnd(offset)))
  /\ UNCHANGED <<mem, reply>>

-----------------------------------------------------------------------------

Init ==
  /\ mem = InitMem
  /\ \E u \in {0, 5} : reply = [EmptyReply EXCEPT !.used = u]
  /\ call = [op |-> "none"]
  /\ result = [status |-> "none", value |-> 0]

\* Memory is decoded from the hex digits that open the command, or the
\* call dies on the length check.
HexDigits == 2 * MemSize

Next ==
  \/ \E d \in Addr, l \in 0..MemSize : d + l <= MemSize /\ EncodeBytes(d, l)
  \/ \E o \in {0, 1, Len(Command) - 1}, d \in Addr, l \in 0..MemSize :
       /\ d + l <= MemSize
       /\ o + 2 * l <= HexDigits \/ o + 2 * l > Len(Command)
       /\ DecodeBytes(o, d, l)
  \/ \E l \in 0..(ReplySize \div 2 + 1) : EncodeZeroBytes(l)
  \/ \E s \in Strings : AddString(s)
  \/ \E v \in IntValues : EncodeInt(v)
  \/ \E o \in 0..2, l \in {0, 1, 6, 17} : DecodeInt(o, l)
  \/ \E o \in 0..(Len(Command) - 1) : Tokenize(o)

Spec == Init /\ [][Next]_vars

-----------------------------------------------------------------------------
(* Properties: each call against what it promises.                         *)

\* The reply holds printable characters up to used, and used never passes
\* reply.size: a '\0' or a write past the buffer is a broken reply.
TypeOK ==
  /\ mem \in [Addr -> 0..255]
  /\ reply.used \in 0..ReplySize
  /\ \A i \in 0..(reply.used - 1) : reply.buf[i] \in 32..126
  /\ result.status \in {"none", "ok", "die"}

\* The digits of a byte, most significant first.
HexOf(b) == <<ToHex(b \div 16), ToHex(b % 16)>>
Digits(r, from, n) == [i \in 1..n |-> r.buf[from + i - 1]]
ValueOf(ds) == FoldLeft(LAMBDA acc, c : acc * 16 + FromHex(c), 0, ds)

(* gdb_message_encode_bytes: the reply gains exactly the two hex digits of *)
(* every byte of [data, data + length), in order, whatever the alignment  *)
(* of data and however the range spans words, and dies only when the      *)
(* reply cannot hold them.                                                 *)
EncodeBytesCorrect ==
  call.op = "encode_bytes" =>
    LET n == 2 * call.length
    IN /\ (result.status = "die") = (call.used + n > ReplySize)
       /\ result.status = "ok" =>
            /\ reply.used = call.used + n
            /\ Digits(reply, call.used, n)
                 = FlattenSeq([i \in 1..call.length |-> HexOf(InitMem[call.data + i - 1])])

\* The byte the digits at offset encode.
ByteAt(offset) == ValueOf(SubSeq(Command, offset + 1, offset + 2))

(* gdb_message_decode_bytes: after the call memory holds the decoded      *)
(* bytes in [data, data + length) and is unchanged everywhere else: the    *)
(* word-wise writes, including the undefined 32-bit shift of an aligned   *)
(* start and the read-modify-write of a last partial word, never clobber  *)
(* a neighbouring byte.  It dies only when the command is too short.       *)
DecodeBytesCorrect ==
  call.op = "decode_bytes" =>
    /\ (result.status = "die") = (call.offset + 2 * call.length > Len(Command))
    /\ result.status = "ok" =>
         mem = [a \in Addr |->
                  IF a >= call.data /\ a < call.data + call.length
                  THEN ByteAt(call.offset + 2 * (a - call.data))
                  ELSE InitMem[a]]

(* gdb_message_encode_int writes the value in hex with no leading zero     *)
(* (a zero as at most one digit, as CLZ(0) decides), the digits decode    *)
(* back to it, and gdb_message_decode_int reads digits back to the value  *)
(* they denote.                                                            *)
IntCodecCorrect ==
  /\ call.op = "encode_int" /\ result.status = "ok" =>
       LET ds == Digits(reply, call.used, reply.used - call.used)
       IN /\ ValueOf(ds) = call.val
          /\ Len(ds) > 1 => ds[1] # 48
          /\ call.val > 0 => Len(ds) > 0
  /\ call.op = "decode_int" =>
       IF call.length > 16 THEN result = Die
       ELSE result = Ok(ValueOf(SubSeq(Command, call.offset + 1, call.offset + call.length)))

=============================================================================
