------------------------------ MODULE ValueParser ------------------------------
(***************************************************************************)
(* How the type of a column and its values are read                        *)
(* (src/src/metadata-parser.ts and src/src/value-parser.ts).  Each read    *)
(* starts at an offset of the bytes that the parser has, and gives a value *)
(* and the next offset or finds that there are not enough bytes.           *)
(***************************************************************************)
EXTENDS DataTypes

\* Metadata, without the user type, the flags and the names of schemas
Column(type) ==
    [type |-> type, dataLength |-> Unset, precision |-> Unset, scale |-> Unset,
     collation |-> NoCollation, colName |-> <<>>]

\* Numbers that are too large for TLC; no value is like it.
TooLarge == <<-3, -3>>

-----------------------------------------------------------------------------
(* readMetadata *)

ReadSchema(b, p) ==
    Then(ReadUInt8(b, p), LAMBDA present, q :
        IF present # 1 THEN Result(Null, q)
        ELSE Then(ReadBVarChar(b, q), LAMBDA dbname, r :
             Then(ReadBVarChar(b, r), LAMBDA owningSchema, s : ReadUsVarChar(b, s))))

ReadUDTInfo(b, p) ==
    Then(ReadUInt16LE(b, p), LAMBDA maxByteSize, q :
    Then(ReadBVarChar(b, q), LAMBDA dbname, r :
    Then(ReadBVarChar(b, r), LAMBDA owningSchema, s :
    Then(ReadBVarChar(b, s), LAMBDA typeName, t : ReadUsVarChar(b, t)))))

HasNoInfo   == {Null_.id} \cup {t.id : t \in FixedTypes \ {UniqueIdentifier}}
HasByteSize == {IntN.id, FloatN.id, MoneyN.id, BitN.id, DateTimeN.id, UniqueIdentifier.id}
HasChars    == {VarChar.id, Char.id, NVarChar.id, NChar.id}

ReadLengthOfColumn(b, p, id) ==
    CASE id \in HasByteSize -> ReadUInt8(b, p)
      [] id \in HasChars \cup {VarBinary.id, Binary.id} -> ReadUInt16LE(b, p)
      [] id \in {Variant.id, Text.id, NText.id, Image.id} -> ReadUInt32LE(b, p)

ReadSizedColumn(b, p, id) ==
    Then(ReadLengthOfColumn(b, p, id), LAMBDA n, q :
        LET column == [Column(TypeOf(id)) EXCEPT !.dataLength = n]
        IN  IF id \in HasChars \cup {Text.id, NText.id}
            THEN Then(ReadCollation(b, q), LAMBDA c, r :
                    Result([column EXCEPT !.collation = c], r))
            ELSE Result(column, q))

ReadNumericColumn(b, p, id) ==
    Then(ReadUInt8(b, p), LAMBDA n, q :
    Then(ReadUInt8(b, q), LAMBDA precision, r :
    Then(ReadUInt8(b, r), LAMBDA scale, s :
        Result([Column(TypeOf(id)) EXCEPT !.dataLength = n, !.precision = precision,
                                          !.scale = scale], s))))

\* From the number of the type on
ReadTypeInfo(b, p) ==
    Then(ReadUInt8(b, p), LAMBDA id, q :
        CASE id \in HasNoInfo -> Result(Column(TypeOf(id)), q)
          [] id \in {Time.id, DateTime2.id, DateTimeOffset.id} ->
                Then(ReadUInt8(b, q), LAMBDA scale, r :
                    Result([Column(TypeOf(id)) EXCEPT !.scale = scale], r))
          [] id \in {NumericN.id, DecimalN.id} -> ReadNumericColumn(b, q, id)
          [] id = Xml.id -> Then(ReadSchema(b, q), LAMBDA schema, r : Result(Column(Xml), r))
          [] id = UDT.id -> Then(ReadUDTInfo(b, q), LAMBDA info, r : Result(Column(UDT), r))
          [] OTHER -> ReadSizedColumn(b, q, id))

ReadMetadata(b, p) ==
    Then(ReadUInt32LE(b, p), LAMBDA userType, q :
        Then(ReadUInt16LE(b, q), LAMBDA flags, r : ReadTypeInfo(b, r)))

-----------------------------------------------------------------------------
(* Values of a fixed size *)

Number(read) == Then(read, LAMBDA n, q : Result(<<n>>, q))

ReadSmallMoney(b, p) == Then(ReadInt32LE(b, p), LAMBDA n, q : Result(<<10 * n>>, q))
\* The low half has no sign: 2^32 is added to it if the high half is -1.
ReadMoney(b, p) ==
    Then(ReadInt32LE(b, p), LAMBDA high, q :
        Then(ReadInt32LE(b, q), LAMBDA low, r :
            Result(IF (high = 0 /\ low >= 0) \/ (high = -1 /\ low < 0)
                   THEN <<10 * low>> ELSE TooLarge, r)))
ReadBit(b, p) == Then(ReadUInt8(b, p), LAMBDA n, q : Result(<<IF n = 0 THEN 0 ELSE 1>>, q))
ReadUniqueIdentifier(b, p) ==
    Then(ReadBytes(b, p, 16), LAMBDA data, q : Result(guidToArray(data), q))

ReadSmallDateTime(b, p) ==
    Then(ReadUInt16LE(b, p), LAMBDA days, q :
        Then(ReadUInt16LE(b, q), LAMBDA minutes, r :
            Result(<<Day1900 + days, 60000 * minutes, 0>>, r)))
ReadDateTime(b, p) ==
    Then(ReadInt32LE(b, p), LAMBDA days, q :
        Then(ReadInt32LE(b, q), LAMBDA time, r :
            Result(<<Day1900 + days, (20 * time + 3) \div 6, 0>>, r)))
ReadDate(b, p) == Then(ReadUInt24LE(b, p), LAMBDA days, q : Result(<<days, 0, 0>>, q))

\* The values of the types that are read alike in a column of their own, in a column
\* whose values have a length, and in a variant
ReadInteger(b, p, n) ==
    Number(CASE n = 1 -> ReadUInt8(b, p) [] n = 2 -> ReadInt16LE(b, p)
             [] n = 4 -> ReadInt32LE(b, p) [] n = 8 -> ReadBigInt64LE(b, p))

ReadFixed(b, p, type) ==
    CASE type.kind = "integer" -> ReadInteger(b, p, type.bytes)
      [] type.kind = "bit"     -> ReadBit(b, p)
      [] type = Real           -> ReadFloatLE(b, p)
      [] type = Float          -> ReadDoubleLE(b, p)
      [] type = SmallMoney     -> ReadSmallMoney(b, p)
      [] type = Money          -> ReadMoney(b, p)
      [] type = SmallDateTime  -> ReadSmallDateTime(b, p)
      [] type = DateTime       -> ReadDateTime(b, p)
      [] type = Date           -> ReadDate(b, p)
      [] type = UniqueIdentifier -> ReadUniqueIdentifier(b, p)

\* The types of the values of IntN, FloatN, MoneyN, BitN and DateTimeN, by their length
OfLength(id, n) ==
    CHOOSE t \in FixedTypes : t.info[1] = id /\ t.bytes = n

-----------------------------------------------------------------------------
(* Times: in units of the scale *)

TimeOf(n, scale) ==
    IF scale <= 3 THEN <<Day1970, n * 10^(3 - scale), 0>>
    ELSE LET unit == 10^(scale - 3)
         IN  <<Day1970, n \div unit, (n % unit) * 10^(7 - scale)>>

ReadTime(b, p, n, scale) ==
    Then(CASE n = 3 -> ReadUInt24LE(b, p) [] n = 4 -> ReadUInt32LE(b, p)
           [] n = 5 -> ReadUInt40LE(b, p),
         LAMBDA time, q : Result(TimeOf(time, scale), q))
ReadDateTime2(b, p, n, scale) ==
    Then(ReadTime(b, p, n - 3, scale), LAMBDA time, q :
        Then(ReadUInt24LE(b, q), LAMBDA days, r : Result([time EXCEPT ![1] = days], r)))
ReadDateTimeOffset(b, p, n, scale) ==
    Then(ReadDateTime2(b, p, n - 2, scale), LAMBDA date, q :
        Then(ReadUInt16LE(b, q), LAMBDA offset, r : Result(date, r)))

ReadScaled(b, p, type, n, scale) ==
    CASE type = Time           -> ReadTime(b, p, n, scale)
      [] type = DateTime2      -> ReadDateTime2(b, p, n, scale)
      [] type = DateTimeOffset -> ReadDateTimeOffset(b, p, n, scale)

ReadNumeric(b, p, n, scale) ==
    Then(ReadUInt8(b, p), LAMBDA sign, q :
        Then(CASE n = 5 -> ReadUInt32LE(b, q) [] n = 9 -> ReadUNumeric64LE(b, q)
               [] n = 13 -> ReadUNumeric96LE(b, q) [] n = 17 -> ReadUNumeric128LE(b, q),
             LAMBDA size, r :
                Result(<<(IF sign = 1 THEN 1 ELSE -1) * ((100 * size) \div 10^scale)>>, r)))

-----------------------------------------------------------------------------
(* Texts, buffers and variants *)

\* The bytes of a text or a buffer, as a value of the column's type
Characters(type, codepage, bytes) ==
    CASE type \in {VarChar, Char, Text} -> Decode(bytes, codepage)
      [] type \in {NVarChar, NChar, NText, Xml} -> FromUcs2(bytes)
      [] type \in {VarBinary, Binary, Image, UDT} -> bytes

ReadText(b, p, type, codepage, n) ==
    Then(ReadBytes(b, p, n), LAMBDA bytes, q : Result(Characters(type, codepage, bytes), q))

\* A text pointer, of no bytes for null, and a timestamp come before the value.
ReadLong(b, p, column) ==
    Then(ReadUInt8(b, p), LAMBDA pointerLength, q :
        IF pointerLength = 0 THEN Result(Null, q)
        ELSE Then(ReadBytes(b, q, pointerLength), LAMBDA pointer, r :
             Then(ReadBytes(b, r, 8), LAMBDA timestamp, s :
             Then(ReadUInt32LE(b, s), LAMBDA n, t :
                ReadText(b, t, column.type, Codepage(column.collation), n)))))

\* A variant's value comes after its type and after the properties of that type.
ReadVariantValue(b, p, type, n) ==
    CASE type \in FixedTypes -> ReadFixed(b, p, type)
      [] type \in {Time, DateTime2, DateTimeOffset} ->
            Then(ReadUInt8(b, p), LAMBDA scale, q : ReadScaled(b, q, type, n, scale))
      [] type \in {NumericN, DecimalN} ->
            Then(ReadUInt8(b, p), LAMBDA precision, q :
                Then(ReadUInt8(b, q), LAMBDA scale, r : ReadNumeric(b, r, n, scale)))
      [] type \in {VarBinary, Binary} ->
            Then(ReadUInt16LE(b, p), LAMBDA maxLength, q : ReadBytes(b, q, n))
      [] type \in {VarChar, Char, NVarChar, NChar} ->
            Then(ReadUInt16LE(b, p), LAMBDA maxLength, q :
                Then(ReadCollation(b, q), LAMBDA c, r : ReadText(b, r, type, Codepage(c), n)))

ReadVariant(b, p) ==
    Then(ReadUInt32LE(b, p), LAMBDA n, q :
        IF n = 0 THEN Result(Null, q)
        ELSE Then(ReadUInt8(b, q), LAMBDA baseType, r :
             Then(ReadUInt8(b, r), LAMBDA propBytes, s :
                ReadVariantValue(b, s, TypeOf(baseType), n - propBytes - 2))))

-----------------------------------------------------------------------------
(* readValue, and partially length-prefixed (PLP) values *)

\* A length of one byte, 0 for null, before the value
AfterLength(b, p, Value(_, _)) ==
    Then(ReadUInt8(b, p), LAMBDA n, q : IF n = 0 THEN Result(Null, q) ELSE Value(n, q))

ReadValue(b, p, column) ==
    LET type == column.type
    IN  CASE type = Null_ -> Result(Null, p)
          [] type \in FixedTypes \ {Date, UniqueIdentifier} -> ReadFixed(b, p, type)
          [] type \in {Date, UniqueIdentifier} ->
                AfterLength(b, p, LAMBDA n, q : ReadFixed(b, q, type))
          [] type \in {IntN, FloatN, MoneyN, BitN, DateTimeN} ->
                AfterLength(b, p, LAMBDA n, q : ReadFixed(b, q, OfLength(type.id, n)))
          [] type \in {Time, DateTime2, DateTimeOffset} ->
                AfterLength(b, p, LAMBDA n, q : ReadScaled(b, q, type, n, column.scale))
          [] type \in {NumericN, DecimalN} ->
                AfterLength(b, p, LAMBDA n, q : ReadNumeric(b, q, n, column.scale))
          [] type \in {VarChar, Char, NVarChar, NChar, VarBinary, Binary} ->
                Then(ReadUInt16LE(b, p), LAMBDA n, q :
                    IF n = MAX THEN Result(Null, q)
                    ELSE ReadText(b, q, type, Codepage(column.collation), n))
          [] type \in {Text, NText, Image} -> ReadLong(b, p, column)
          [] type = Variant -> ReadVariant(b, p)

IsPLPStream(column) ==
    \/ column.type \in {VarChar, NVarChar, VarBinary} /\ column.dataLength = MAX
    \/ column.type \in {Xml, UDT}

\* What is made of the chunks of a PLP value
PLPValue(column, bytes) == Characters(column.type, Codepage(column.collation), bytes)

=============================================================================
