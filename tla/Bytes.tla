--------------------------------- MODULE Bytes ---------------------------------
(***************************************************************************)
(* Numbers and texts as bytes: what src/src/token/helpers.ts reads and     *)
(* src/src/tracking-buffer/writable-tracking-buffer.ts writes, and the     *)
(* collations (src/src/collation.ts) that say how characters are encoded.  *)
(*                                                                         *)
(* A text is the sequence of its characters' codes.  Numbers are those TLC *)
(* has, below 2^31; the bytes beyond the fourth repeat the sign.           *)
(***************************************************************************)
EXTENDS Integers, SequencesExt

Byte  == 0..255
Null  == <<-1, -1>>                 \* differs from every sequence of bytes
Unset == -1                         \* of a length, a precision or a scale

-----------------------------------------------------------------------------
(* Numbers *)

LE(n, k) ==
    [i \in 1..k |-> IF i <= 4 THEN (n \div 256^(i - 1)) % 256 ELSE IF n < 0 THEN 255 ELSE 0]
BE(n, k) == Reverse(LE(n, k))

Least    == -2147483647 - 1
Greatest == 2147483647
FromLE(b, sign) ==                  \* Least or Greatest for one beyond
    FoldRight(LAMBDA byte, n : CASE n \in -8388608..8388607 -> byte + 256 * n
                                 [] n < -8388608 -> Least
                                 [] n > 8388607  -> Greatest, b, sign)
Unsigned(b) == FromLE(b, 0)
Signed(b)   == FromLE(b, IF Last(b) >= 128 THEN -1 ELSE 0)

PLP_NULL        == -1               \* 0xFFFFFFFFFFFFFFFF, as a signed number
UNKNOWN_PLP_LEN == -2
MAX             == 65535            \* 0xFFFF: no value, or a length without limit

-----------------------------------------------------------------------------
(* Reads of b from offset p: a value and the next offset, or not enough data *)

NotEnoughData == [enough |-> FALSE, value |-> Null, offset |-> 0]
Result(value, offset) == [enough |-> TRUE, value |-> value, offset |-> offset]
\* (The read is bound by a quantifier, so that it is evaluated once.)
Then(read, F(_, _)) ==
    CHOOSE next \in {IF r.enough THEN F(r.value, r.offset) ELSE NotEnoughData : r \in {read}} : TRUE

TooShortStrict(b, end) == Len(b) <= end             \* fault: one byte too many
TooShort(b, end) == Len(b) < end

Read(b, p, n, Decoded(_)) ==
    IF TooShort(b, p + n) THEN NotEnoughData
    ELSE Result(Decoded(SubSeq(b, p + 1, p + n)), p + n)

ReadBytes(b, p, n)      == Read(b, p, n, LAMBDA bytes : bytes)
ReadUInt8(b, p)         == Read(b, p, 1, Unsigned)
ReadUInt16LE(b, p)      == Read(b, p, 2, Unsigned)
ReadInt16LE(b, p)       == Read(b, p, 2, Signed)
ReadUInt24LE(b, p)      == Read(b, p, 3, Unsigned)
ReadUInt32LE(b, p)      == Read(b, p, 4, Unsigned)
ReadInt32LE(b, p)       == Read(b, p, 4, Signed)
ReadUInt40LE(b, p)      == Read(b, p, 5, Unsigned)
ReadBigInt64LE(b, p)    == Read(b, p, 8, Signed)
ReadBigUInt64LE(b, p)   == Read(b, p, 8, Signed)    \* the largest two as PLP_NULL and so on
ReadUNumeric64LE(b, p)  == Read(b, p, 8, Unsigned)
ReadUNumeric96LE(b, p)  == Read(b, p, 12, Unsigned)
ReadUNumeric128LE(b, p) == Read(b, p, 16, Unsigned)
ReadFloatLE(b, p)       == ReadBytes(b, p, 4)       \* a float is its bits
ReadDoubleLE(b, p)      == ReadBytes(b, p, 8)

Ucs2(text) == FlattenSeq([i \in 1..Len(text) |-> LE(text[i], 2)])
FromUcs2(b) == [i \in 1..(Len(b) \div 2) |-> b[2 * i - 1] + 256 * b[2 * i]]

ReadChars2(b, p, n) == Read(b, p, 2 * n, FromUcs2)
ReadBVarChar(b, p)  == Then(ReadUInt8(b, p), LAMBDA n, q : ReadChars2(b, q, n))
ReadBVarByte(b, p)  == Then(ReadUInt8(b, p), LAMBDA n, q : ReadBytes(b, q, n))
ReadUsVarChar(b, p) == Then(ReadUInt16LE(b, p), LAMBDA n, q : ReadChars2(b, q, n))
ReadUsVarByte(b, p) == Then(ReadUInt16LE(b, p), LAMBDA n, q : ReadBytes(b, q, n))

-----------------------------------------------------------------------------
(* WritableTrackingBuffer.  `written` are the bytes of `buffer` up to the    *)
(* position, `size` is the length of `buffer`.                               *)

NewTrackingBuffer(initialSize) ==
    [compositeBuffer |-> <<>>, written |-> <<>>, size |-> initialSize]
NewBuffer(t, size) ==
    [compositeBuffer |-> t.compositeBuffer \o t.written, written |-> <<>>, size |-> size]
MakeRoomFor(t, requiredLength) ==
    IF t.size - Len(t.written) < requiredLength THEN NewBuffer(t, requiredLength) ELSE t
Write(t, bytes) ==
    LET room == MakeRoomFor(t, Len(bytes)) IN [room EXCEPT !.written = @ \o bytes]
Data(t) == NewBuffer(t, 0).compositeBuffer

\* What is written, piece by piece, to a new buffer
Written(initialSize, pieces) == Data(FoldLeft(Write, NewTrackingBuffer(initialSize), pieces))

BVarchar(text)  == LE(Len(text), 1) \o Ucs2(text)
UsVarchar(text) == LE(Len(text), 2) \o Ucs2(text)
UsVarbyte(b)    == LE(Len(b), 2) \o b

-----------------------------------------------------------------------------
(* Collations *)

UTF8 == 64                          \* Flags.UTF8

NoCollation == [lcid |-> 0, flags |-> 0, version |-> 0, sortId |-> 0]

\* The fields of a collation share bytes, four bits each.
CollationToBuffer(c) ==
    <<c.lcid % 256, (c.lcid \div 256) % 256,
      ((c.lcid \div 65536) % 16) + 16 * (c.flags % 16),
      (c.flags \div 16) + 16 * c.version, c.sortId>>
CollationFromBuffer(b) ==
    [lcid    |-> b[1] + 256 * b[2] + 65536 * (b[3] % 16),
     flags   |-> 16 * (b[4] % 16) + (b[3] \div 16),
     version |-> b[4] \div 16,
     sortId  |-> b[5]]

\* Of the tables, one entry each stands for those with one byte for a character.
codepageByLanguageId == [lcid \in {1033} |-> "CP1252"]
codepageBySortId     == [sortId \in {52} |-> "CP1252"]
Lookup(table, key) == IF key \in DOMAIN table THEN table[key] ELSE "none"
Codepage(c) ==
    CASE (c.flags \div UTF8) % 2 = 1 -> "utf-8"
      [] (c.flags \div UTF8) % 2 = 0 /\ c.sortId # 0 -> Lookup(codepageBySortId, c.sortId)
      [] (c.flags \div UTF8) % 2 = 0 /\ c.sortId = 0 ->
            Lookup(codepageByLanguageId, c.lcid % 65536)

ReadCollation(b, p) == Read(b, p, 5, CollationFromBuffer)

\* iconv-lite, for characters below 0x800; without a code page it is UTF-8.
Encode(text, codepage) ==
    IF codepage = "CP1252" THEN text
    ELSE FlattenSeq([i \in 1..Len(text) |->
            IF text[i] < 128 THEN <<text[i]>>
            ELSE <<192 + (text[i] \div 64), 128 + (text[i] % 64)>>])
Decode(b, codepage) ==
    IF codepage = "CP1252" THEN b
    ELSE FoldLeft(LAMBDA text, byte :
            CASE byte < 128  -> Append(text, byte)
              [] byte >= 192 -> Append(text, byte - 192)
              [] byte \in 128..191 -> Append(Front(text), 64 * Last(text) + byte - 128),
            <<>>, b)

=============================================================================
