------------------------------ MODULE Encoding ------------------------------
(***************************************************************************)
(* Characters of the six encodings: tinybase-encoding.c and the parts of   *)
(* tinybase-strings.c that read, size, encode and decode one character,    *)
(* the lengths of a string, and transcoding.                               *)
(*                                                                         *)
(* A uchar is a code point.  An mb_char, a u32, is the tuple of its four   *)
(* bytes, the lowest first, which is also how it lies in memory.  A string *)
(* is a record [bytes, Size, Enc]: the WriteCur bytes at Base, and Size.   *)
(***************************************************************************)
EXTENDS Integers, Sequences, FiniteSets

Encodings == {"ASCII", "UTF8", "UTF16LE", "UTF16BE", "UTF32LE", "UTF32BE"}
Wide16(Enc) == Enc \in {"UTF16LE", "UTF16BE"}
Wide32(Enc) == Enc \in {"UTF32LE", "UTF32BE"}

\* String(Base, WriteCur, Size, Enc)
String(bytes, size, Enc) == [bytes |-> bytes, Size |-> size, Enc |-> Enc]

\* Base[k]; no valid text makes the code look behind WriteCur.
ByteAt(A, k) == IF k < Len(A.bytes) THEN A.bytes[k + 1] ELSE 0

\* The u32 n as an mb_char, and back for those below 2^31.
Word(n) == <<n % 256, (n \div 256) % 256, (n \div 65536) % 256, n \div 16777216>>
Value(Char) == Char[1] + 256 * Char[2] + 65536 * Char[3] + 16777216 * Char[4]

\* Char <= 0xFFFF
FitsIn16(Char) == Char[3] = 0 /\ Char[4] = 0

GetMultibyteCharSize(Char, Enc) ==
    IF Wide16(Enc) THEN IF FitsIn16(Char) THEN 2 ELSE 4
    ELSE IF Wide32(Enc) \/ Char[4] # 0 THEN 4
    ELSE IF Char[3] # 0 THEN 3 ELSE IF Char[2] # 0 THEN 2 ELSE 1

-----------------------------------------------------------------------------
(* The next character of a string, at offset k.                             *)

UTF8CharSize(Lead) ==
    CASE Lead <= 127      -> 1
      [] Lead \div 32 = 6  -> 2
      [] Lead \div 16 = 14 -> 3
      [] Lead \div 8 = 30  -> 4
      [] OTHER            -> 1

\* By the high byte of the first unit: a surrogate or not
UTF16CharSize(High) == IF High >= 216 /\ High < 224 THEN 4 ELSE 2

\* Mutant: both byte orders look at the second byte.
NextCharSizeLittle(A, k) ==
    CASE A.Enc = "UTF8" -> UTF8CharSize(ByteAt(A, k))
      [] Wide16(A.Enc)  -> UTF16CharSize(ByteAt(A, k + 1))
      [] Wide32(A.Enc)  -> 4
      [] OTHER          -> 1

GetNextCharSize(A, k) ==
    CASE A.Enc = "UTF8"    -> UTF8CharSize(ByteAt(A, k))
      [] A.Enc = "UTF16LE" -> UTF16CharSize(ByteAt(A, k + 1))
      [] A.Enc = "UTF16BE" -> UTF16CharSize(ByteAt(A, k))
      [] Wide32(A.Enc)     -> 4
      [] OTHER             -> 1

\* FlipEndian16x2, FlipEndian32
AdjustEndianness(Char, Enc) ==
    CASE Enc = "UTF16BE" -> <<Char[2], Char[1], Char[4], Char[3]>>
      [] Enc = "UTF32BE" -> <<Char[4], Char[3], Char[2], Char[1]>>
      [] OTHER           -> Char

GetNextChar(A, k) ==
    LET Size == GetNextCharSize(A, k)
    IN  AdjustEndianness([i \in 1..4 |-> IF i <= Size THEN ByteAt(A, k + i - 1) ELSE 0], A.Enc)

-----------------------------------------------------------------------------
(* Code points and characters.                                              *)

UTF8ToUnicode(Char) ==
    LET Low(i) == Char[i] % 64
    IN  IF Char[1] < 128 /\ GetMultibyteCharSize(Char, "UTF8") = 1 THEN Char[1]
        ELSE IF FitsIn16(Char) THEN (Char[1] % 32) * 64 + Low(2)
        ELSE IF Char[4] = 0 THEN (Char[1] % 16) * 4096 + Low(2) * 64 + Low(3)
        ELSE (Char[1] % 8) * 262144 + Low(2) * 4096 + Low(3) * 64 + Low(4)

UnicodeToUTF8(Char) ==
    LET Trail(shift) == ((Char \div shift) % 64) + 128
    IN  IF Char < 128 THEN Word(Char)
        ELSE IF Char < 2048 THEN <<((Char \div 64) % 32) + 192, Trail(1), 0, 0>>
        ELSE IF Char < 65536 THEN <<((Char \div 4096) % 16) + 224, Trail(64), Trail(1), 0>>
        ELSE <<((Char \div 262144) % 8) + 240, Trail(4096), Trail(64), Trail(1)>>

UTF16ToUnicode(Char) ==
    IF FitsIn16(Char) THEN Value(Char)
    ELSE LET A == (Char[1] + 256 * Char[2] - 55296) * 1024
             B == Char[3] + 256 * Char[4] - 56320
         IN  65536 + A + B

UnicodeToUTF16(Char) ==
    IF Char <= 65535 THEN Word(Char)
    ELSE LET A == (Char - 65536) \div 1024 + 55296
             B == ((Char - 65536) % 1024) + 56320
         IN  <<A % 256, A \div 256, B % 256, B \div 256>>

DecodeChar(Char, Enc) ==
    CASE Enc = "UTF8" -> UTF8ToUnicode(Char)
      [] Wide16(Enc)  -> UTF16ToUnicode(Char)
      [] OTHER        -> Value(Char)

EncodeChar(Char, Enc) ==
    CASE Enc = "UTF8" -> UnicodeToUTF8(Char)
      [] Wide16(Enc)  -> UnicodeToUTF16(Char)
      [] OTHER        -> Word(Char)

\* The bytes of an mb_char in memory, in the order of Enc
CharBytes(Char, Enc) ==
    SubSeq(AdjustEndianness(Char, Enc), 1, GetMultibyteCharSize(Char, Enc))

-----------------------------------------------------------------------------
(* The lengths of a string.                                                 *)

UTF8LenCodePoints(A) == Cardinality({k \in DOMAIN A.bytes : A.bytes[k] \div 64 # 2})

UTF16LenCodePoints(A) ==
    LET n == Len(A.bytes)
        from[k \in 0..(n + 4)] == IF k >= n THEN 0 ELSE 1 + from[k + GetNextCharSize(A, k)]
    IN  from[0]

\* Mutant: DEL is printable.
PrintableToDel(Value32) == (Value32 >= 32 /\ Value32 <= 127) \/ Value32 > 159

Printable(Value32) == (Value32 >= 32 /\ Value32 < 127) \/ Value32 > 159

(* The bytes are put together as signed chars: one from 0x80 on sets every
   bit above it, and the result is some value above 0xFFFF.                 *)
SignedValue(Char) == IF \E i \in 1..4 : Char[i] >= 128 THEN 65536 * 256 ELSE Value(Char)

LenPrintChar(A) ==
    LET n == Len(A.bytes)
        from[k \in 0..(n + 4)] ==
            LET Char == SignedValue(GetNextChar(A, k))
                Step == IF Wide16(A.Enc) THEN IF Char > 65535 THEN 4 ELSE 2
                        ELSE GetNextCharSize(A, k)
            IN  IF k >= n THEN 0 ELSE (IF Printable(Char) THEN 1 ELSE 0) + from[k + Step]
    IN  from[0]

AsciiLenPrintChar(A) ==
    Cardinality({k \in DOMAIN A.bytes : A.bytes[k] >= 32 /\ A.bytes[k] < 127})

\* The bytes before the first unit that is zero
LenCString(A) ==
    LET Unit == IF Wide32(A.Enc) THEN 4 ELSE IF Wide16(A.Enc) THEN 2 ELSE 1
        from[k \in 0..(Len(A.bytes) + 4)] ==
            IF \A i \in 0..(Unit - 1) : ByteAt(A, k + i) = 0 THEN k ELSE from[k + Unit]
    IN  from[0]

StringLen(A, LenType) ==
    CASE LenType = "LEN_CODEPOINT" -> CASE A.Enc = "UTF8" -> UTF8LenCodePoints(A)
                                        [] Wide16(A.Enc)  -> UTF16LenCodePoints(A)
                                        [] Wide32(A.Enc)  -> Len(A.bytes) \div 4
                                        [] OTHER          -> Len(A.bytes)
      [] LenType = "LEN_PRINTCHAR" -> IF A.Enc = "ASCII" THEN AsciiLenPrintChar(A)
                                      ELSE LenPrintChar(A)
      [] OTHER                     -> LenCString(A)

StringC(bytes, Enc) ==
    LET A == String(bytes, 0, Enc) IN String(SubSeq(bytes, 1, StringLen(A, "LEN_CSTRING")), 0, Enc)

-----------------------------------------------------------------------------
(* Transcode: character by character; a character that does not fit makes
   the call take back WriteCur and answer false.                            *)

Transcoded(Src, Enc) ==
    LET n == Len(Src.bytes)
        from[k \in 0..(n + 4)] ==
            LET Char == GetNextChar(Src, k)
                Encoded == EncodeChar(DecodeChar(Char, Src.Enc), Enc)
            IN  IF k >= n THEN <<>>
                ELSE CharBytes(Encoded, Enc) \o from[k + GetMultibyteCharSize(Char, Src.Enc)]
    IN  from[0]

\* Mutant: what was written before the string was full stays.
TranscodeKeepsPart(Src, D) ==
    LET out == Transcoded(Src, D.Enc)
    IN  IF Len(D.bytes) + Len(out) <= D.Size THEN [D EXCEPT !.bytes = @ \o out]
        ELSE [D EXCEPT !.bytes = @ \o SubSeq(out, 1, D.Size - Len(D.bytes))]

Transcode(Src, D) ==
    LET out == Transcoded(Src, D.Enc)
    IN  IF Len(D.bytes) + Len(out) <= D.Size THEN [D EXCEPT !.bytes = @ \o out] ELSE D
=============================================================================
