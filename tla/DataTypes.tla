------------------------------- MODULE DataTypes -------------------------------
(***************************************************************************)
(* The data types (src/src/data-types): how each validates the value of a  *)
(* parameter, declares its type in SQL, and writes its type and its value. *)
(*                                                                         *)
(* A type is a record.  Types that differ in widths and ranges only have   *)
(* one `kind`, and the methods of a kind read the widths from the record.  *)
(*                                                                         *)
(* Values are sequences: a number is <<n>>, of ones, or of 1/100 for a     *)
(* decimal and of 1/100000 for money; a float is its bits; a date is       *)
(* <<day, ms, ticks>>, counted from 0001-01-01 in the zone it is written   *)
(* in, with so many 100 ns besides; texts and buffers are as in Bytes.     *)
(* A declaration is three characters: the type, its length or precision,   *)
(* and its scale.                                                          *)
(***************************************************************************)
EXTENDS Bytes

Undefined == <<-4, -4>>             \* no value was given
Invalid   == <<-2, -2>>             \* a value of the wrong kind, which is refused
IsNull(value) == value \in {Null, Undefined}        \* `value == null`

\* A parameter: Parameter and ParameterData
Param(name, type, value, output) ==
    [name |-> name, type |-> type, value |-> value, output |-> output,
     length |-> Unset, precision |-> Unset, scale |-> Unset, collation |-> NoCollation]

Given(n) == n \notin {Unset, 0}     \* `if (n)`

-----------------------------------------------------------------------------
(* The types *)

\* Types of columns only: no value can be written.
ReadOnly(id) == [kind |-> "readOnly", id |-> id]

Null_    == ReadOnly(31)
IntN     == ReadOnly(38)
BitN     == ReadOnly(104)
DecimalN == ReadOnly(106)
NumericN == ReadOnly(108)
FloatN   == ReadOnly(109)
MoneyN   == ReadOnly(110)
DateTimeN == ReadOnly(111)
Variant  == ReadOnly(98)
UDT      == ReadOnly(240)
Xml      == ReadOnly(241)

\* Types of `bytes` bytes, whose columns are of type `info`
Fixed(kind, id, info, bytes, least, greatest) ==
    [kind |-> kind, id |-> id, info |-> info, bytes |-> bytes,
     least |-> least, greatest |-> greatest]

\* Days, and what TLC's numbers leave of wider ranges
Day1753 == 639905    Day1900 == 693595    Day1970 == 719162    Day2079 == 759130
Day9999 == 3652058

TinyInt  == Fixed("integer", 48, <<IntN.id, 1>>, 1, 0, 255)
SmallInt == Fixed("integer", 52, <<IntN.id, 2>>, 2, -32768, 32767)
Int_     == Fixed("integer", 56, <<IntN.id, 4>>, 4, Least, Greatest)
BigInt   == Fixed("integer", 127, <<IntN.id, 8>>, 8, Least, Greatest)
Bit      == Fixed("bit", 50, <<BitN.id, 1>>, 1, 0, 1)
Real     == Fixed("bits", 59, <<FloatN.id, 4>>, 4, Least, Greatest)
Float    == Fixed("bits", 62, <<FloatN.id, 8>>, 8, Least, Greatest)
Money    == Fixed("money", 60, <<MoneyN.id, 8>>, 8, Least, Greatest)
SmallMoney == Fixed("smallMoney", 122, <<MoneyN.id, 4>>, 4, Least, Greatest)
DateTime == Fixed("dateTime", 61, <<DateTimeN.id, 8>>, 8, Day1753, Day9999)
SmallDateTime == Fixed("smallDateTime", 58, <<DateTimeN.id, 4>>, 4, Day1900, Day2079)
Date     == Fixed("date", 40, <<40>>, 3, 0, Day9999)
UniqueIdentifier == Fixed("guid", 36, <<36, 16>>, 16, Least, Greatest)

Numbers(id, columnId) == [kind |-> "numeric", id |-> id, columnId |-> columnId]
Decimal  == Numbers(55, DecimalN.id)
Numeric  == Numbers(63, NumericN.id)

\* A time of some scale, with or without a day and an offset
Scaled(id, hasDate, hasOffset) ==
    [kind |-> "scaled", id |-> id, hasDate |-> hasDate, hasOffset |-> hasOffset]
Time     == Scaled(41, FALSE, FALSE)
DateTime2 == Scaled(42, TRUE, FALSE)
DateTimeOffset == Scaled(43, TRUE, TRUE)

\* Texts and buffers.  `width` is the bytes of a character, 0 for a buffer, and
\* `encoded` says that the value is encoded in the code page of the collation.
Sized(kind, id, width, encoded, maximumLength) ==
    [kind |-> kind, id |-> id, width |-> width, encoded |-> encoded,
     maximumLength |-> maximumLength]
VarChar  == Sized("var", 167, 1, TRUE, 4)
NVarChar == Sized("var", 231, 2, FALSE, 2)
VarBinary == Sized("var", 165, 0, FALSE, 4)
Char     == Sized("padded", 175, 1, TRUE, 4)
NChar    == Sized("padded", 239, 2, FALSE, 2)
Binary   == Sized("padded", 173, 0, FALSE, 4)
Text     == Sized("long", 35, 1, TRUE, 0)
NText    == Sized("long", 99, 2, FALSE, 0)
Image    == Sized("long", 34, 0, FALSE, 0)

TVP      == [kind |-> "table", id |-> 243]

ReadOnlyTypes == {Null_, IntN, BitN, DecimalN, NumericN, FloatN, MoneyN, DateTimeN, Variant, UDT, Xml}
FixedTypes == {TinyInt, SmallInt, Int_, BigInt, Bit, Real, Float, Money, SmallMoney,
               DateTime, SmallDateTime, Date, UniqueIdentifier}
TYPE == ReadOnlyTypes \cup FixedTypes \cup {Decimal, Numeric} \cup {Time, DateTime2, DateTimeOffset}
        \cup {VarChar, NVarChar, VarBinary, Char, NChar, Binary, Text, NText, Image} \cup {TVP}
TypeOf(id) == CHOOSE t \in TYPE : t.id = id

-----------------------------------------------------------------------------
(* validate: the value that is kept, or Invalid *)

IsInRange(type, value) ==
    CASE type.kind \in {"integer", "dateTime", "smallDateTime", "date"} ->
            value[1] \in type.least..type.greatest
      [] type.kind = "scaled" -> type.hasDate => value[1] \in 0..Day9999
      [] OTHER -> TRUE

\* A text is encoded in the code page of the connection's collation, if it has one.
ValidateText(type, value, collation) ==
    CASE ~type.encoded -> value
      [] type.encoded /\ Codepage(collation) = "none" -> Invalid
      [] type.encoded /\ Codepage(collation) # "none" -> Encode(value, Codepage(collation))

Validate(type, value, collation) ==
    IF IsNull(value) THEN Null ELSE IF value = Invalid THEN Invalid ELSE
    CASE type.kind = "bit" -> IF value[1] = 0 THEN <<0>> ELSE <<1>>
      [] type.kind \in {"var", "padded", "long"} -> ValidateText(type, value, collation)
      [] OTHER -> IF IsInRange(type, value) THEN value ELSE Invalid

-----------------------------------------------------------------------------
(* resolveLength, resolvePrecision, resolveScale and declaration *)

OrOne(n) == IF n = 0 THEN 1 ELSE n

ResolveLength(p) ==
    CASE p.type.kind = "long" -> IF IsNull(p.value) THEN -1 ELSE Len(p.value)
      [] p.type = Binary -> IF IsNull(p.value) THEN Binary.maximumLength ELSE Len(p.value)
      [] p.type.kind = "guid" -> 16
      [] OTHER -> CASE p.length # Unset -> p.length
                    [] p.length = Unset /\ IsNull(p.value) -> p.type.maximumLength
                    [] p.length = Unset /\ ~IsNull(p.value) ->
                          IF p.type = VarBinary THEN Len(p.value) ELSE OrOne(Len(p.value))

ResolvePrecision(p) ==
    IF p.precision # Unset THEN p.precision ELSE IF p.value = Null THEN 1 ELSE 18
ResolveScale(p) ==
    CASE p.scale # Unset -> p.scale
      [] p.scale = Unset /\ p.type.kind = "numeric" -> 0
      [] p.scale = Unset /\ p.type.kind = "scaled"  -> IF p.value = Null THEN 0 ELSE 7

DeclaredLength(p) ==
    CASE Given(p.length) -> p.length
      [] ~Given(p.length) /\ ~IsNull(p.value) -> OrOne(Len(p.value))
      [] ~Given(p.length) /\ IsNull(p.value) ->
            IF p.value = Null /\ ~p.output THEN 1 ELSE p.type.maximumLength

Declaration(p) ==
    LET n == DeclaredLength(p)
    IN  CASE p.type.kind = "var" -> <<p.type.id, IF n <= p.type.maximumLength THEN n ELSE MAX, 0>>
          [] p.type = Binary -> <<p.type.id, n, 0>>
          [] p.type \in {Char, NChar} ->
                <<p.type.id, IF n < p.type.maximumLength THEN n ELSE p.type.maximumLength, 0>>
          [] p.type.kind = "numeric" -> <<p.type.id, ResolvePrecision(p), ResolveScale(p)>>
          [] p.type.kind = "scaled"  -> <<p.type.id, ResolveScale(p), 0>>
          [] OTHER -> <<p.type.id, 0, 0>>

-----------------------------------------------------------------------------
(* generateTypeInfo *)

NumericLength(precision) ==
    CASE precision <= 9         -> 5
      [] precision \in 10..19   -> 9
      [] precision \in 20..28   -> 13
      [] precision > 28         -> 17
TimeLength(scale) ==
    CASE scale \in 0..2 -> 3 [] scale \in 3..4 -> 4 [] scale \in 5..7 -> 5

\* `length <= maximumLength`, which an undefined length is not
IsShort(p) == p.length # Unset /\ p.length <= p.type.maximumLength

WidthOf(type) == IF type.width = 2 THEN 2 ELSE 1
CollationBytes(p) == IF p.type.width = 0 THEN <<>> ELSE CollationToBuffer(p.collation)

TypeInfo(p) ==
    CASE p.type \in FixedTypes -> p.type.info
      [] p.type.kind = "numeric" ->
            <<p.type.columnId, NumericLength(p.precision), p.precision, p.scale>>
      [] p.type.kind = "scaled" -> <<p.type.id, p.scale>>
      [] p.type.kind = "var" ->
            <<p.type.id>> \o LE(IF IsShort(p) THEN p.length * WidthOf(p.type) ELSE MAX, 2)
                \o CollationBytes(p)
      [] p.type.kind = "padded" ->
            <<p.type.id>> \o LE(p.length * WidthOf(p.type), 2) \o CollationBytes(p)
      [] p.type.kind = "long" -> <<p.type.id>> \o LE(p.length, 4) \o CollationBytes(p)

-----------------------------------------------------------------------------
(* generateParameterLength and generateParameterData *)

Contents(p) == IF p.type.width = 2 THEN Ucs2(p.value) ELSE p.value

ScaledLength(p) ==
    TimeLength(p.scale) + (IF p.type.hasDate THEN 3 ELSE 0) + (IF p.type.hasOffset THEN 2 ELSE 0)

ParameterLength(p) ==
    LET null == IsNull(p.value)
    IN  CASE p.type \in FixedTypes -> IF null THEN <<0>> ELSE <<p.type.bytes>>
          [] p.type.kind = "numeric" -> IF null THEN <<0>> ELSE <<NumericLength(p.precision)>>
          [] p.type.kind = "scaled" -> IF null THEN <<0>> ELSE <<ScaledLength(p)>>
          [] p.type.kind = "var" ->
                IF IsShort(p) THEN LE(IF null THEN MAX ELSE Len(Contents(p)), 2)
                ELSE LE(IF null THEN PLP_NULL ELSE UNKNOWN_PLP_LEN, 8)
          [] p.type.kind = "padded" ->
                LE(CASE null -> MAX
                     [] ~null /\ p.type = Binary -> p.length
                     [] ~null /\ p.type # Binary -> Len(Contents(p)), 2)
          [] p.type.kind = "long" -> LE(IF null THEN -1 ELSE Len(Contents(p)), 4)

\* Toward zero, as writeInt32LE and `value & -1` do
Truncated(n, unit) == IF n < 0 THEN -((-n) \div unit) ELSE n \div unit

MoneyData(n) ==                     \* the high half is rounded down, the low half is not
    LE(IF n < 0 THEN -1 ELSE 0, 4) \o LE(Truncated(n, 10), 4)

FullDay == 25920000       \* a day, in 1/300 of a second
DateTimeDataNoCarry(value) ==                       \* fault: a time of 24 hours
    LE(value[1] - Day1900, 4) \o LE((3 * value[2] + 5) \div 10, 4)
DateTimeData(value) ==
    LET time == (3 * value[2] + 5) \div 10
        full == time = FullDay
    IN  LE(value[1] - Day1900 + (IF full THEN 1 ELSE 0), 4) \o LE(IF full THEN 0 ELSE time, 4)
SmallDateTimeData(value) == LE(value[1] - Day1900, 2) \o LE(value[2] \div 60000, 2)

\* The first three groups of a GUID are written backwards.
GuidOrder == <<4, 3, 2, 1, 6, 5, 8, 7, 9, 10, 11, 12, 13, 14, 15, 16>>
guidToArray(guid) == [i \in 1..16 |-> guid[GuidOrder[i]]]

FixedData(type, value) ==
    CASE type.kind \in {"integer", "bit", "date"} -> LE(value[1], type.bytes)
      [] type.kind = "bits"          -> value
      [] type.kind = "money"         -> MoneyData(value[1])
      [] type.kind = "smallMoney"    -> LE(Truncated(value[1], 10), 4)
      [] type.kind = "dateTime"      -> DateTimeData(value)
      [] type.kind = "smallDateTime" -> SmallDateTimeData(value)
      [] type.kind = "guid"          -> guidToArray(value)

Rounded(n, unit) == (2 * n + unit) \div (2 * unit)
NumericData(p) ==
    LET n == p.value[1]
        size == IF n < 0 THEN -n ELSE n
    IN  <<IF n < 0 THEN 0 ELSE 1>>
        \o LE(Rounded(size * 10^p.scale, 100), NumericLength(p.precision) - 1)

\* The time in units of the scale: of 100 ns divided by 10^(7 - scale).
Timestamp(ms, ticks, scale) ==
    IF scale <= 3
    THEN LET unit == 10^(3 - scale)
         IN  (ms \div unit) + Rounded((ms % unit) * 10000 + ticks, unit * 10000)
    ELSE ms * 10^(scale - 3) + Rounded(ticks, 10^(7 - scale))
TimezoneOffset == 120
ScaledData(p) ==
    LE(Timestamp(p.value[2], p.value[3], p.scale), TimeLength(p.scale))
    \o (IF p.type.hasDate THEN LE(p.value[1], 3) ELSE <<>>)
    \o (IF p.type.hasOffset THEN LE(TimezoneOffset, 2) ELSE <<>>)

\* At most one chunk, none if there is nothing in it, and the terminator
PLPData(bytes) == (IF bytes = <<>> THEN <<>> ELSE LE(Len(bytes), 4) \o bytes) \o LE(0, 4)

BinaryData(p) ==
    LET n == IF p.length < Binary.maximumLength THEN p.length ELSE Binary.maximumLength
    IN  SubSeq(p.value, 1, IF n < Len(p.value) THEN n ELSE Len(p.value))

ParameterData(p) ==
    IF IsNull(p.value) THEN <<>> ELSE
    CASE p.type \in FixedTypes -> FixedData(p.type, p.value)
      [] p.type.kind = "numeric" -> NumericData(p)
      [] p.type.kind = "scaled"  -> ScaledData(p)
      [] p.type.kind = "var"     -> IF IsShort(p) THEN Contents(p) ELSE PLPData(Contents(p))
      [] p.type.kind = "padded"  -> IF p.type = Binary THEN BinaryData(p) ELSE Contents(p)
      [] p.type.kind = "long"    -> Contents(p)

-----------------------------------------------------------------------------
(* Table-valued parameters.  A table is <<name, columns, rows>>; its columns *)
(* are parameters without a value.                                           *)

TableTypeInfo(p) ==
    <<TVP.id>> \o BVarchar(<<>>) \o BVarchar(<<>>)
        \o BVarchar(IF IsNull(p.value) THEN <<>> ELSE p.value[1])
TableLength(p) == LE(IF IsNull(p.value) THEN MAX ELSE Len(p.value[2]), 2)

\* UserType, flags, TYPE_INFO and an empty name
TableColumn(column) == LE(0, 4) \o LE(0, 2) \o TypeInfo(column) \o <<0>>
TableRow(columns, row, collation) ==
    <<1>> \o FlattenSeq([i \in 1..Len(row) |->
        LET param == [columns[i] EXCEPT !.value = Validate(columns[i].type, row[i], collation)]
        IN  ParameterLength(param) \o ParameterData(param)])

TableData(p) ==
    IF IsNull(p.value) THEN <<0, 0>>
    ELSE LET columns == p.value[2]
             rows    == p.value[3]
         IN  FlattenSeq([i \in 1..Len(columns) |-> TableColumn(columns[i])]) \o <<0>>
             \o FlattenSeq([i \in 1..Len(rows) |-> TableRow(columns, rows[i], p.collation)])
             \o <<0>>

-----------------------------------------------------------------------------
(* A parameter with its type, its length and its value *)

Parameter(p) ==
    IF p.type = TVP THEN TableTypeInfo(p) \o TableLength(p) \o TableData(p)
    ELSE TypeInfo(p) \o ParameterLength(p) \o ParameterData(p)

=============================================================================
