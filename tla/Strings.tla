------------------------------- MODULE Strings -------------------------------
(***************************************************************************)
(* The strings of tinybase-strings.c: a string Dst in one of the encodings *)
(* that characters, arrays, strings of any encoding and numbers are        *)
(* appended to, that is edited and read.  Calls are sequential: one action *)
(* per function.  The functions that only read are pure operators, which   *)
(* the invariants apply to Dst.                                            *)
(*                                                                         *)
(* usz and isz have UszBits bits.  A f64 is a number of thousandths, of    *)
(* those that binary and decimal both represent exactly.                   *)
(***************************************************************************)
EXTENDS BufferQuery, Encoding

CONSTANTS
    Shapes,     \* the pairs <<Enc, Size>> Dst may have
    Chars,      \* the code points that are appended
    Texts,      \* the texts that are appended: sequences of code points
    Counts,     \* the counts of the NTimes functions
    UInts, Ints,
    Floats,     \* triples <<thousandths, DecimalPlaces, InScientificNotation>>
    Pairs,      \* the pairs of code points of ReplaceCharInString
    MaxChars    \* bound: no call on a string that has this many characters

ISZ_MAX == 2 ^ (UszBits - 1) - 1
USZ_MAX == UszMod - 1
USZ_MAX_DIGITS == 20

ASSUME StringsAssumption ==
    /\ Shapes \subseteq Encodings \X (0..(UszMod - 1))
    /\ Chars \subseteq 1..1114111
    /\ \A t \in Texts : t \in Seq(Chars)
    /\ UInts \subseteq 0..ISZ_MAX
    /\ Ints \subseteq (-ISZ_MAX)..ISZ_MAX

VARIABLES
    Dst,
    answer,     \* history: what the last call answered
    content,    \* history: the text the calls have made, in code points
    offered,    \* history: the text the last call has refused to append
    number,     \* history: the number that is all of the text, if one is
    cut         \* history: a call has answered true and left out part of its text

vars == <<Dst, answer, content, offered, number, cut>>

Plain == [kind |-> "none"]

-----------------------------------------------------------------------------
(* What the Unicode standard says: the bytes of a code point, of a text.    *)

StdUTF8(u) ==
    LET n == IF u < 128 THEN 1 ELSE IF u < 2048 THEN 2 ELSE IF u < 65536 THEN 3 ELSE 4
    IN  [i \in 1..n |-> IF i = 1 THEN u \div 64 ^ (n - 1) + <<0, 192, 224, 240>>[n]
                        ELSE 128 + ((u \div 64 ^ (n - i)) % 64)]

StdUnits16(u) ==
    IF u < 65536 THEN <<u>>
    ELSE <<55296 + (u - 65536) \div 1024, 56320 + ((u - 65536) % 1024)>>

\* The units as bytes, n each, in the order of Enc
StdSerial(units, n, Enc) ==
    [i \in 1..(n * Len(units)) |->
        LET place == (i - 1) % n
            power == IF Enc \in {"UTF16BE", "UTF32BE"} THEN (n - 1) - place ELSE place
        IN  (units[(i - 1) \div n + 1] \div 256 ^ power) % 256]

StdChar(u, Enc) ==
    CASE Wide16(Enc) -> StdSerial(StdUnits16(u), 2, Enc)
      [] Wide32(Enc) -> StdSerial(<<u>>, 4, Enc)
      [] OTHER       -> StdUTF8(u)

StdText(t, Enc) ==
    LET upTo[n \in 0..Len(t)] == IF n = 0 THEN <<>> ELSE upTo[n - 1] \o StdChar(t[n], Enc)
    IN  upTo[Len(t)]

\* A string that holds t, and one of ASCII holds ASCII.
Holds(t, Enc) == Enc = "ASCII" => \A i \in DOMAIN t : t[i] < 128

\* Decimal texts: of a natural number, with at least n digits
Decimal(v, n) ==
    LET digits == CHOOSE d \in n..(n + 9) : v < 10 ^ d /\ \A e \in n..(d - 1) : v >= 10 ^ e
    IN  [i \in 1..digits |-> 48 + ((v \div 10 ^ (digits - i)) % 10)]

Abs(v) == IF v < 0 THEN -v ELSE v
Sign(v) == IF v < 0 THEN <<45>> ELSE <<>>

-----------------------------------------------------------------------------
(* Appending bytes: CopyData refuses what does not fit.                     *)

Appended(bytes) ==
    IF Dst.Size - Len(Dst.bytes) >= Len(bytes) THEN [Dst EXCEPT !.bytes = @ \o bytes] ELSE Dst

(* A call that is to append the text t, which ends with Dst' = d and the
   answer ok; short says that d lacks part of t although ok is true.        *)
AppendCall(d, ok, t, num, short) ==
    /\ Len(content) < MaxChars
    /\ Dst' = d
    /\ answer' = ok
    /\ content' = IF ok THEN content \o t ELSE content
    /\ offered' = IF ok THEN <<>> ELSE t
    /\ number' = IF ~ok \/ t = <<>> THEN number ELSE IF content = <<>> THEN num ELSE Plain
    /\ cut' = (ok /\ short)

AppendBytesCut(bytes, t, num, short) ==
    AppendCall(Appended(bytes), Dst.Size - Len(Dst.bytes) >= Len(bytes), t, num, short)

AppendBytes(bytes, t, num) == AppendBytesCut(bytes, t, num, FALSE)

AppendCharToString(u) ==
    /\ Holds(<<u>>, Dst.Enc)
    /\ AppendBytes(CharBytes(EncodeChar(u, Dst.Enc), Dst.Enc), <<u>>, Plain)

Repeat(s, n) == [i \in 1..(n * Len(s)) |-> s[((i - 1) % Len(s)) + 1]]

AppendCharToStringNTimes(u, n) ==
    /\ Holds(<<u>>, Dst.Enc)
    /\ AppendBytes(Repeat(CharBytes(EncodeChar(u, Dst.Enc), Dst.Enc), n), Repeat(<<u>>, n), Plain)

\* An array of the same encoding, with a NUL behind it
AppendArrayToString(t) ==
    /\ Holds(t, Dst.Enc)
    /\ LET Array == StringC(StdText(t, Dst.Enc) \o <<0, 0, 0, 0>>, Dst.Enc)
       IN  AppendBytes(Array.bytes, t, Plain)

AppendDataToString(t) ==
    Holds(t, Dst.Enc) /\ AppendBytes(StdText(t, Dst.Enc), t, Plain)

-----------------------------------------------------------------------------
(* Strings of another encoding are transcoded.                              *)

Source(t, Enc) == String(StdText(t, Enc), 0, Enc)
Possible(t, Enc) == Holds(t, Enc) /\ Holds(t, Dst.Enc)

AppendStringToString(t, Enc) ==
    /\ Possible(t, Enc)
    /\ LET Src == Source(t, Enc)
       IN  IF Enc = Dst.Enc THEN AppendBytes(Src.bytes, t, Plain)
           ELSE AppendCall(Transcode(Src, Dst),
                           Len(Dst.bytes) + Len(Transcoded(Src, Dst.Enc)) <= Dst.Size, t, Plain, FALSE)

(* Across encodings the answers of Transcode are not looked at: the call
   answers true however many of the copies fitted.                          *)
AppendStringToStringNTimes(t, Enc, n) ==
    /\ Possible(t, Enc)
    /\ LET Src == Source(t, Enc)
           loop[i \in 0..n] == IF i = 0 THEN Dst ELSE Transcode(Src, loop[i - 1])
           need == n * Len(Transcoded(Src, Dst.Enc))
       IN  IF Enc = Dst.Enc THEN AppendBytes(Repeat(Src.bytes, n), Repeat(t, n), Plain)
           ELSE AppendCall(loop[n], TRUE, Repeat(t, n), Plain, Len(Dst.bytes) + need > Dst.Size)

-----------------------------------------------------------------------------
(* Numbers.  A character of Digits takes CharSize bytes; the rest are zero. *)

CharSize(Enc) == IF Wide32(Enc) THEN 4 ELSE IF Wide16(Enc) THEN 2 ELSE 1
Offset(Enc) == IF Enc = "UTF32BE" THEN 3 ELSE IF Enc = "UTF16BE" THEN 1 ELSE 0

InCells(chars, Enc) ==
    [i \in 1..(Len(chars) * CharSize(Enc)) |->
        IF (i - 1) % CharSize(Enc) = Offset(Enc) THEN chars[(i - 1) \div CharSize(Enc) + 1] ELSE 0]

NumberOfDigits(Integer) ==
    LET from[v \in 0..Abs(Integer)] == IF v \div 10 = 0 THEN 1 ELSE 1 + from[v \div 10]
    IN  from[Abs(Integer)]

\* The n lowest digits of v
DigitChars(v, n) == [i \in 1..n |-> ((v \div 10 ^ (n - i)) % 10) + 48]

\* Mutant: the room is compared with the digits in bytes, and must exceed them.
RoomForMore(n) == Dst.Size - Len(Dst.bytes) > n * CharSize(Dst.Enc)

RoomFor(n) == Dst.Size - Len(Dst.bytes) >= n

\* For integers the first test counts characters, not bytes; CopyData tests again.
AppendInteger(chars, t, num) ==
    IF RoomFor(Len(chars)) THEN AppendBytes(InCells(chars, Dst.Enc), t, num)
    ELSE AppendCall(Dst, FALSE, t, num, FALSE)

\* Of the characters in Digits, the first TotalChars are appended.
AppendFloatDigits(Digits, TotalChars, t, num) ==
    LET bytes == InCells(SubSeq(Digits, 1, TotalChars), Dst.Enc)
    IN  IF RoomFor(Len(bytes)) THEN AppendBytesCut(bytes, t, num, TotalChars < Len(Digits))
        ELSE AppendCall(Dst, FALSE, t, num, FALSE)

AppendUIntToString(Integer) ==
    AppendInteger(DigitChars(Integer, NumberOfDigits(Integer)), Decimal(Integer, 1),
                  [kind |-> "uint", value |-> Integer])

AppendIntToString(Integer) ==
    AppendInteger(Sign(Integer) \o DigitChars(Abs(Integer), NumberOfDigits(Integer)),
                  Sign(Integer) \o Decimal(Abs(Integer), 1), [kind |-> "int", value |-> Integer])

\* The places that are left of USZ_MAX_DIGITS are the most that are written.
AppendFloatToStringRegular(Float, DecimalPlaces) ==
    LET Hi == Abs(Float) \div 1000
        Lo == Float - Hi * 1000
        Digits == NumberOfDigits(Hi)
        Space == USZ_MAX_DIGITS - Digits - Len(Sign(Float)) - 1
        Places == IF Space <= DecimalPlaces THEN Space ELSE DecimalPlaces
        Fraction == (Abs(Lo) * 10 ^ Places) \div 1000
        Exact == Abs(Float) * 10 ^ DecimalPlaces
        chars == Sign(Float) \o DigitChars(Hi, Digits) \o
                    (IF DecimalPlaces = 0 THEN <<>> ELSE <<46>> \o DigitChars(Fraction, Places))
        text == Sign(Float) \o Decimal(Hi, 1) \o
                    (IF DecimalPlaces = 0 THEN <<>>
                     ELSE <<46>> \o Decimal((Exact \div 1000) % 10 ^ DecimalPlaces, DecimalPlaces))
    IN  AppendFloatDigits(chars, Len(chars), text,
                          IF Exact % 1000 = 0 THEN [kind |-> "float", value |-> Float] ELSE Plain)

(* Scientific notation: (-)I.DDDe(+/-)XXX.  The loops that normalise end with
   the exponent and a number from 1 to 10.  Without decimal places a '0' is
   written for which TotalChars has no room: the last digit of the exponent is
   not appended.                                                            *)
AppendFloatToStringInSN(Float, DecimalPlaces) ==
    LET up[e \in 0..4] == IF Abs(Float) * 10 ^ e < 1000 THEN up[e + 1] ELSE e
        down[e \in 0..4] == IF Abs(Float) \div 10 ^ e > 10000 THEN down[e + 1] ELSE e
        Small == Abs(Float) < 1000
        Exp == IF Small THEN up[0] ELSE down[0]
        Norm == IF Small THEN Abs(Float) * 10 ^ Exp ELSE Abs(Float) \div 10 ^ Exp
        Fraction == ((Norm % 1000) * 10 ^ DecimalPlaces) \div 1000
        Places == IF DecimalPlaces = 0 THEN 1 ELSE DecimalPlaces
        ExpSign == IF Small THEN 45 ELSE 43
        Digits == Sign(Float) \o <<Norm \div 1000 + 48, 46>> \o DigitChars(Fraction, Places)
                     \o <<101, ExpSign>> \o DigitChars(Exp, 3)
        text == Sign(Float) \o Decimal(Norm \div 1000, 1) \o <<46>> \o Decimal(Fraction, Places)
                    \o <<101, ExpSign>> \o Decimal(Exp, 3)
    IN  AppendFloatDigits(Digits, Len(Sign(Float)) + 2 + DecimalPlaces + 5, text,
                          IF Small /\ (Norm * 10 ^ DecimalPlaces) % 1000 = 0
                          THEN [kind |-> "float", value |-> Float] ELSE Plain)

AppendFloatToString(Float, DecimalPlaces, InScientificNotation) ==
    IF InScientificNotation THEN AppendFloatToStringInSN(Float, DecimalPlaces)
    ELSE AppendFloatToStringRegular(Float, DecimalPlaces)

-----------------------------------------------------------------------------
(* Reading numbers and kinds of characters.                                 *)

Between(Char, a, b) == Char[1] >= a /\ Char[1] <= b /\ Char[2] = 0 /\ FitsIn16(Char)
CharIsDigit(Char) == Between(Char, 48, 57)
CharIsLetter(Char) == Between(Char, 97, 122) \/ Between(Char, 65, 90)
CharIsAlphanum(Char) == CharIsLetter(Char) \/ CharIsDigit(Char)
CharIsHexDigit(Char) == CharIsDigit(Char) \/ Between(Char, 65, 70) \/ Between(Char, 97, 102)

\* The characters at every CharSize bytes from k, as these functions see them
Cells(A, k, Enc) ==
    [i \in 1..((Len(A.bytes) - k + CharSize(Enc) - 1) \div CharSize(Enc)) |->
        GetNextChar([A EXCEPT !.Enc = Enc], k + (i - 1) * CharSize(Enc))]

\* UTF-8 is read as ASCII.
AllCells(A, Test(_)) ==
    LET cells == Cells(A, 0, IF A.Enc = "UTF8" THEN "ASCII" ELSE A.Enc)
    IN  \A i \in DOMAIN cells : Test(cells[i])
StringIsDigit(A) == AllCells(A, CharIsDigit)
StringIsLetter(A) == AllCells(A, CharIsLetter)
StringIsAlphanum(A) == AllCells(A, CharIsAlphanum)

Negative(A) == GetNextChar(A, 0) = Word(45)

\* Mutant: the sign is not passed over.
SkipNothing(A) == 0

Skip(A) == IF Negative(A) THEN CharSize(A.Enc) ELSE 0

\* The number that cells spell in base; the loops stop at what is no digit.
AllAre(cells, IsDigit(_)) == \A i \in DOMAIN cells : IsDigit(cells[i])
Spelled(cells, base, Digit(_)) ==
    LET upTo[n \in 0..Len(cells)] ==
            IF n = 0 THEN 0 ELSE (upTo[n - 1] * base + Digit(cells[n])) % UszMod
    IN  upTo[Len(cells)]

DigitValue(Char) == Char[1] - 48

StringToInt(A) ==
    LET cells == Cells(A, Skip(A), A.Enc)
    IN  IF ~AllAre(cells, CharIsDigit) THEN ISZ_MAX
        ELSE (IF Negative(A) THEN -1 ELSE 1) * Spelled(cells, 10, DigitValue)

StringToUInt(A) ==
    LET cells == Cells(A, 0, A.Enc)
    IN  IF AllAre(cells, CharIsDigit) THEN Spelled(cells, 10, DigitValue) ELSE USZ_MAX

\* A lower-case digit counts as its distance from 'A', too.
HexValue(Char) == IF CharIsDigit(Char) THEN Char[1] - 48 ELSE Char[1] - 65 + 10
StringToHex(A) ==
    LET cells == Cells(A, 0, A.Enc)
    IN  IF AllAre(cells, CharIsHexDigit) THEN Spelled(cells, 16, HexValue) ELSE USZ_MAX

(* The three stages of StringToFloat, split at the first '.' and the first
   'e'; the answer is a fraction <<numerator, denominator>> or DBL_MAX.  A '-'
   may stand anywhere in the exponent; a '+' is not accepted.               *)
DBL_MAX == <<1, 0>>
FirstCell(cells, c) ==
    LET at == {i \in DOMAIN cells : cells[i] = Word(c)}
    IN  IF at = {} THEN Len(cells) + 1 ELSE Min(at)

StringToFloat(A) ==
    LET cells == Cells(A, Skip(A), A.Enc)
        e == FirstCell(cells, 101)
        dot == Min({FirstCell(cells, 46), e})
        Exponent == SelectSeq(SubSeq(cells, e + 1, Len(cells)), LAMBDA c : c # Word(45))
        Small == \E i \in (e + 1)..Len(cells) : cells[i] = Word(45)
        Fraction == SubSeq(cells, dot + 1, e - 1)
        Power == 10 ^ Spelled(Exponent, 10, DigitValue)
        Integer == Spelled(SubSeq(cells, 1, dot - 1), 10, DigitValue)
        Top == (IF Negative(A) THEN -1 ELSE 1) *
                   (Integer * 10 ^ Len(Fraction) + Spelled(Fraction, 10, DigitValue))
    IN  IF ~AllAre(SubSeq(cells, 1, dot - 1) \o Fraction \o Exponent, CharIsDigit) THEN DBL_MAX
        ELSE IF Small THEN <<Top, 10 ^ Len(Fraction) * Power>>
        ELSE <<Top * Power, 10 ^ Len(Fraction)>>

-----------------------------------------------------------------------------
(* Searching and replacing, on the buffer under the string.  An mb_char is
   searched for as it lies in memory, whatever the byte order of A.         *)

NeedleBytes(Char, Enc) == SubSeq(Char, 1, GetMultibyteCharSize(Char, Enc))

CharInString(Char, A, Flags) ==
    IF GetMultibyteCharSize(Char, A.Enc) = 1
    THEN ByteInBuffer(Char[1], DataBuffer(A.bytes), Flags, Scalar)
    ELSE DataInBuffer(NeedleBytes(Char, A.Enc), DataBuffer(A.bytes), Flags, Scalar)

StringInString(Needle, A, Flags) ==
    IF Needle.Enc = A.Enc
    THEN BufferInBuffer(DataBuffer(Needle.bytes), DataBuffer(A.bytes), Flags, Scalar)
    ELSE INVALID_IDX

EqualStrings(A, B) == A.Enc = B.Enc /\ EqualBuffers(DataBuffer(A.bytes), DataBuffer(B.bytes))

\* A with its first n bytes cut off, as AdvanceBuffer does
Behind(A, n) == [A EXCEPT !.bytes = SubSeq(@, n + 1, Len(@))]

\* Mutant: the search goes on inside the character that was found.
CountCharInStringOverlap(Char, A) ==
    LET from[k \in 0..Len(A.bytes)] ==
            LET Idx == CharInString(Char, Behind(A, k), {"RETURN_IDX_FIND"})
            IN  IF Idx = INVALID_IDX \/ k + Idx >= Len(A.bytes) THEN 0
                ELSE 1 + from[k + (IF Idx = 0 THEN 1 ELSE Idx)]
    IN  from[0]

CountCharInString(Char, A) ==
    LET from[k \in 0..Len(A.bytes)] ==
            LET Idx == CharInString(Char, Behind(A, k), {"RETURN_IDX_AFTER"})
            IN  IF Idx = INVALID_IDX THEN 0 ELSE 1 + from[k + Idx]
    IN  from[0]

\* Every occurrence from the left, each passed over once it is replaced
Replaced(Old, New, A) ==
    LET n == GetMultibyteCharSize(New, A.Enc)
        from[k \in 0..Len(A.bytes)] ==
            LET rest == Behind(A, k)
                Idx == CharInString(Old, rest, {"RETURN_IDX_FIND"})
            IN  IF Idx = INVALID_IDX THEN rest.bytes
                ELSE SubSeq(rest.bytes, 1, Idx) \o NeedleBytes(New, A.Enc) \o from[k + Idx + n]
    IN  [A EXCEPT !.bytes = from[0]]

(* Characters of different sizes are refused.  The byte order and the offsets
   inside a character are not looked at: only ASCII and UTF-8 are replaced
   here.                                                                    *)
ReplaceCharInString(o, w) ==
    LET Old == EncodeChar(o, Dst.Enc)
        New == EncodeChar(w, Dst.Enc)
        ok == GetMultibyteCharSize(Old, Dst.Enc) = GetMultibyteCharSize(New, Dst.Enc)
    IN  /\ Dst.Enc \in {"ASCII", "UTF8"}
        /\ Holds(<<o, w>>, Dst.Enc)
        /\ Len(content) < MaxChars
        /\ answer' = ok
        /\ Dst' = IF ok THEN Replaced(Old, New, Dst) ELSE Dst
        /\ content' = IF ok THEN [i \in DOMAIN content |-> IF content[i] = o THEN w ELSE content[i]]
                      ELSE content
        /\ offered' = <<>>
        /\ number' = Plain
        /\ UNCHANGED cut

\* Base, WriteCur and Size move over the next character, NumChars times.
AdvanceString(NumChars) ==
    LET after[n \in 0..NumChars] ==
            IF n = 0 THEN Dst
            ELSE LET bytes == GetNextCharSize(after[n - 1], 0)
                 IN  [Behind(after[n - 1], bytes) EXCEPT !.Size = @ - bytes]
    IN  /\ Dst' = after[NumChars]
        /\ content' = SubSeq(content, NumChars + 1, Len(content))
        /\ answer' = TRUE
        /\ offered' = <<>>
        /\ number' = IF NumChars = 0 THEN number ELSE Plain
        /\ UNCHANGED cut

-----------------------------------------------------------------------------
Init ==
    /\ \E s \in Shapes : Dst = String(<<>>, s[2], s[1])
    /\ answer = TRUE /\ content = <<>> /\ offered = <<>> /\ number = Plain /\ cut = FALSE

(* No string is advanced over more than its text; and nothing is said of a
   string whose text is cut: the program ends there.                        *)
Next ==
    /\ ~cut
    /\ \/ \E u \in Chars : AppendCharToString(u) \/ (\E n \in Counts : AppendCharToStringNTimes(u, n))
       \/ \E t \in Texts : AppendArrayToString(t) \/ AppendDataToString(t)
       \/ \E t \in Texts, Enc \in Encodings :
             \/ AppendStringToString(t, Enc)
             \/ \E n \in Counts : AppendStringToStringNTimes(t, Enc, n)
       \/ \E v \in UInts : AppendUIntToString(v)
       \/ \E v \in Ints : AppendIntToString(v)
       \/ \E f \in Floats : AppendFloatToString(f[1], f[2], f[3])
       \/ \E p \in Pairs : ReplaceCharInString(p[1], p[2])
       \/ \E n \in {1, 2} : n <= Len(content) /\ AdvanceString(n)

Spec == Init /\ [][Next]_vars

-----------------------------------------------------------------------------
(* Properties.                                                              *)

(* Whatever is appended, transcoded, replaced and passed over, in whatever
   encoding it came, Dst holds the bytes the Unicode standard gives for the
   text of the calls that answered true: a call that answers false leaves no
   part of its text behind, and one that answers true all of it.  Two kinds of
   call do answer true with part of the text (cut): AppendStringToStringNTimes
   across encodings, for which only some copies fit, and AppendFloatToString in
   scientific notation without decimal places.  Then Dst is a beginning.    *)
TextIntact ==
    LET bytes == StdText(content, Dst.Enc)
    IN  /\ Len(Dst.bytes) <= Dst.Size
        /\ IF cut THEN Len(Dst.bytes) < Len(bytes) ELSE Len(Dst.bytes) = Len(bytes)
        /\ Dst.bytes = SubSeq(bytes, 1, Len(Dst.bytes))

(* A call answers false only if its text does not fit, to the byte.         *)
RefusedOnlyIfFull ==
    ~answer /\ offered # <<>> => Len(Dst.bytes) + Len(StdText(offered, Dst.Enc)) > Dst.Size

(* Reading Dst with GetNextChar, character by character, yields the text,
   StringLen counts its code points and, with a NUL behind it, its bytes.   *)
ReadingYieldsText ==
    LET n == Len(Dst.bytes)
        from[k \in 0..(n + 4)] ==
            IF k >= n THEN <<>>
            ELSE <<DecodeChar(GetNextChar(Dst, k), Dst.Enc)>> \o from[k + GetNextCharSize(Dst, k)]
    IN  ~cut =>
        /\ from[0] = content
        /\ StringLen(Dst, "LEN_CODEPOINT") = Len(content)
        /\ StringC(Dst.bytes \o <<0, 0, 0, 0>>, Dst.Enc).bytes = Dst.bytes

(* The printable characters are counted right: but not the controls from 0x80
   to 0x9F, which count, and not in UTF-16 text with a byte from 0x80 on.   *)
PrintLenRight ==
    ~cut /\ (\A i \in DOMAIN content : content[i] \notin 128..159)
        /\ (Wide16(Dst.Enc) => \A i \in DOMAIN Dst.bytes : Dst.bytes[i] < 128)
    => StringLen(Dst, "LEN_PRINTCHAR") =
           Cardinality({i \in DOMAIN content : content[i] >= 32 /\ content[i] # 127})

(* In ASCII and UTF-8 a character is found where it first and last stands,
   never inside another one, and counted as often as it stands in the text;
   so is a text, and only one of the same encoding is found or equal.       *)
SearchRight == ~cut =>
    /\ \A t \in Texts \ {<<>>}, Enc \in Encodings :
        Possible(t, Enc) /\ Dst.Enc \in {"ASCII", "UTF8"} =>
            /\ EqualStrings(Source(t, Enc), Dst) <=> Enc = Dst.Enc /\ t = content
            /\ (StringInString(Source(t, Enc), Dst, {"RETURN_IDX_FIND"}) # INVALID_IDX)
                  <=> (Enc = Dst.Enc /\ \E k \in 0..(Len(content) - Len(t)) :
                                          SubSeq(content, k + 1, k + Len(t)) = t)
    /\ Dst.Enc \in {"ASCII", "UTF8"} => \A u \in Chars :
        LET at == {i \in DOMAIN content : content[i] = u}
            Char == EncodeChar(u, Dst.Enc)
            Where(i) == Len(StdText(SubSeq(content, 1, i - 1), Dst.Enc))
        IN  Holds(<<u>>, Dst.Enc) =>
                /\ CountCharInString(Char, Dst) = Cardinality(at)
                /\ CharInString(Char, Dst, {"RETURN_IDX_FIND"}) =
                       (IF at = {} THEN INVALID_IDX ELSE Where(Min(at)))
                /\ CharInString(Char, Dst, {"RETURN_IDX_FIND", "SEARCH_REVERSE"}) =
                       (IF at = {} THEN INVALID_IDX ELSE Where(Max(at)))

(* A number that was appended to an empty string reads back as it was, in
   every encoding; a string with other characters in it is refused, and the
   tests for digits and letters agree with the text.                        *)
NumbersReadBack == ~cut =>
    /\ number.kind = "uint" => StringToUInt(Dst) = number.value
    /\ number.kind \in {"uint", "int"} => StringToInt(Dst) = number.value
    /\ number.kind = "float" =>
          LET f == StringToFloat(Dst) IN f # DBL_MAX /\ f[1] * 1000 = number.value * f[2]
    /\ LET Digit == 48..57
           Letter == 65..90 \cup 97..122
           All(S) == \A i \in DOMAIN content : content[i] \in S
       IN  /\ StringIsDigit(Dst) <=> All(Digit)
           /\ StringIsLetter(Dst) <=> All(Letter)
           /\ StringIsAlphanum(Dst) <=> All(Digit \cup Letter)
           /\ ~All(Digit) => StringToUInt(Dst) = USZ_MAX
           /\ ~All(Digit \cup 65..70 \cup 97..102) => StringToHex(Dst) = USZ_MAX
=============================================================================
