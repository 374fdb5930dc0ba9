----------------------------- MODULE MCTokenStream -----------------------------
(* Calls with values of every type and batches with results of every type, for *)
(* TLC.  Of a value, the table says what the program must get back.            *)
EXTENDS TokenStream

latin == [lcid |-> 1033, flags |-> 0, version |-> 0, sortId |-> 52]
utf8  == [lcid |-> 1033, flags |-> UTF8, version |-> 2, sortId |-> 0]
other == [lcid |-> 1, flags |-> 0, version |-> 0, sortId |-> 0]     \* no code page

\* A type, the type of its column, a value, and what is told of it; with a length, or a
\* precision and a scale
S(type_, column, given, told) ==
    [param |-> Param(<<97>>, type_, given, FALSE), column |-> column, told |-> told]
OfSize(n, s) == [s EXCEPT !.param.length = n]
PS(precision, scale, s) == [s EXCEPT !.param.precision = precision, !.param.scale = scale]
Scale(scale, s) == [s EXCEPT !.param.scale = scale]
Kept(type_, column, value) == S(type_, column, value, value)

A == 65   E == 233      \* a character below 128, and one above
Guid == <<1, 2, 3, 4, 5, 6, 7, 8, 9, 10, 11, 12, 13, 14, 15, 16>>
Today == 738000
Noon  == 43200000
Midnight == 86400000

Groups == <<
  << Kept(TinyInt, IntN, <<255>>), Kept(TinyInt, IntN, <<0>>), S(TinyInt, IntN, Undefined, Null),
     Kept(SmallInt, IntN, <<-32768>>), Kept(SmallInt, IntN, <<32767>>) >>,
  << Kept(Int_, IntN, <<Least>>), Kept(Int_, IntN, <<Greatest>>), Kept(BigInt, IntN, <<-258>>),
     Kept(BigInt, IntN, <<65537>>), Kept(BigInt, IntN, Null) >>,
  << S(Bit, BitN, <<2>>, <<1>>), Kept(Bit, BitN, <<0>>), Kept(Bit, BitN, Null),
     Kept(Real, FloatN, <<1, 2, 3, 4>>), Kept(Float, FloatN, <<1, 2, 3, 4, 5, 6, 7, 8>>) >>,
  << S(Money, MoneyN, <<123456>>, <<123450>>), S(Money, MoneyN, <<-123456>>, <<-123450>>),
     Kept(Money, MoneyN, Null),
     S(SmallMoney, MoneyN, <<-99999>>, <<-99990>>), Kept(SmallMoney, MoneyN, <<-10>>) >>,
  << S(DateTime, DateTimeN, <<Day1753, 5, 0>>, <<Day1753, 7, 0>>),
     S(DateTime, DateTimeN, <<Today, Midnight - 1, 0>>, <<Today + 1, 0, 0>>),
     S(DateTime, DateTimeN, <<Today, Midnight - 2, 0>>, <<Today, Midnight - 3, 0>>),
     S(SmallDateTime, DateTimeN, <<Day1900, 119999, 0>>, <<Day1900, 60000, 0>>),
     Kept(SmallDateTime, DateTimeN, Null) >>,
  << Kept(Date, Date, <<0, 0, 0>>), S(Date, Date, <<Day9999, Noon, 0>>, <<Day9999, 0, 0>>),
     Kept(Date, Date, Null), Kept(UniqueIdentifier, UniqueIdentifier, Guid),
     Kept(UniqueIdentifier, UniqueIdentifier, Null) >>,
  << S(Decimal, DecimalN, <<12350>>, <<12400>>), S(Decimal, DecimalN, <<-12350>>, <<-12400>>),
     Kept(Decimal, DecimalN, Null), PS(9, 2, Kept(Decimal, DecimalN, <<-1>>)),
     PS(10, 1, S(Decimal, DecimalN, <<1234>>, <<1230>>)) >>,
  << PS(19, 2, Kept(Numeric, NumericN, <<12345>>)), PS(20, 2, Kept(Numeric, NumericN, <<-12345>>)),
     PS(28, 0, Kept(Numeric, NumericN, <<0>>)), PS(29, 3, Kept(Numeric, NumericN, <<5>>)),
     S(Numeric, NumericN, Undefined, Null) >>,
  << Kept(Time, Time, <<Day1970, 100000, 5>>), Scale(0, S(Time, Time, <<Today, 1500, 0>>, <<Day1970, 2000, 0>>)),
     Scale(2, S(Time, Time, <<Today, Noon + 4, 9999>>, <<Day1970, Noon, 0>>)),
     Scale(3, S(Time, Time, <<Today, Noon, 5000>>, <<Day1970, Noon + 1, 0>>)),
     Scale(4, S(Time, Time, <<Today, Midnight - 1, 8999>>, <<Day1970, Midnight - 1, 9000>>)) >>,
  << Kept(DateTime2, DateTime2, <<Day9999, 7, 1>>), Scale(2, Kept(DateTime2, DateTime2, <<0, Noon, 0>>)),
     Kept(DateTime2, DateTime2, Null), Scale(5, Kept(DateTimeOffset, DateTimeOffset, <<Today, 3, 1200>>)),
     Kept(DateTimeOffset, DateTimeOffset, Null) >>,
  << Kept(VarChar, VarChar, <<>>), Kept(VarChar, VarChar, <<A, E>>), Kept(VarChar, VarChar, <<A, A, A, A>>),
     Kept(VarChar, VarChar, <<A, A, A, E, A>>), Kept(VarChar, VarChar, Null) >>,
  << OfSize(3, Kept(VarChar, VarChar, <<A, A>>)), OfSize(5, Kept(VarChar, VarChar, <<A, E>>)),
     OfSize(5, Kept(VarChar, VarChar, Null)), OfSize(2, S(VarChar, VarChar, Undefined, Null)),
     OfSize(5, Kept(VarChar, VarChar, <<>>)) >>,
  << Kept(NVarChar, NVarChar, <<>>), Kept(NVarChar, NVarChar, <<A, 1000>>),
     Kept(NVarChar, NVarChar, <<A, 1000, A>>), Kept(NVarChar, NVarChar, Null),
     OfSize(1, Kept(NVarChar, NVarChar, <<E>>)) >>,
  << Kept(VarBinary, VarBinary, <<>>), Kept(VarBinary, VarBinary, <<0, 1, 2, 3>>),
     Kept(VarBinary, VarBinary, <<0, 1, 2, 3, 4>>), OfSize(9, Kept(VarBinary, VarBinary, Null)),
     OfSize(4, Kept(VarBinary, VarBinary, <<255>>)) >>,
  << Kept(Char, Char, <<A, E>>), Kept(Char, Char, Null), Kept(NChar, NChar, <<E, 1000>>),
     Kept(NChar, NChar, <<>>), OfSize(2, Kept(NChar, NChar, <<A>>)) >>,
  << Kept(Binary, Binary, <<1, 2>>), Kept(Binary, Binary, Null), OfSize(2, Kept(Binary, Binary, <<1, 2>>)),
     OfSize(3, Kept(Char, Char, <<A>>)), S(NChar, NChar, Undefined, Null) >> >>

Long == << Kept(Text, Text, <<A, E>>), Kept(Text, Text, Null), Kept(NText, NText, <<1000, A>>),
           Kept(Image, Image, <<1, 0>>), Kept(Image, Image, <<>>) >>

Refusals ==
    << <<TinyInt, <<256>>>>, <<SmallInt, <<-32769>>>>, <<Int_, Invalid>>, <<Money, Invalid>>,
     <<DateTime, <<Day1753 - 1, 0, 0>>>>, <<SmallDateTime, <<Day2079 + 1, 0, 0>>>>,
     <<Date, <<-1, 0, 0>>>>, <<DateTime2, <<Day9999 + 1, 0, 0>>>>, <<NVarChar, Invalid>>,
     <<UniqueIdentifier, Invalid>> >>

-----------------------------------------------------------------------------
(* Calls, and what they are answered *)

Call(kind, text, parameters, collation) ==
    [kind |-> kind, sqlTextOrProcedure |-> text, parameters |-> parameters, handle |-> <<PreparedHandle>>,
     values |-> [i \in 1..Len(parameters) |-> parameters[i].value], collation |-> collation]

Done(t, count) == Token(t, DoneData(FALSE, count))
ScriptColumn(name, type_) == [colName |-> name, type |-> type_]
Values(values) == [i \in 1..Len(values) |-> [value |-> values[i]]]
ResultSet(columns, rows) ==
    <<Token(Types.colMetadata, columns)>> \o [i \in 1..Len(rows) |-> Token(Types.row, Values(rows[i]))]
    \o <<Done(Types.doneInProc, Len(rows))>>
Ends(outputs) ==
    <<Token(Types.returnStatus, <<0>>)>>
    \o [i \in 1..Len(outputs) |-> Token(Types.returnValue, outputs[i])]
    \o <<Done(Types.doneProc, NoCount)>>

\* The samples as parameters a, b and so on
Name(i) == <<96 + i>>
Parameters(samples, output) ==
    [i \in 1..Len(samples) |-> [samples[i].param EXCEPT !.name = Name(i), !.output = output]]
InRow(samples) ==
    ResultSet([i \in 1..Len(samples) |-> ScriptColumn(<<At>> \o Name(i), samples[i].column)],
            <<[i \in 1..Len(samples) |-> samples[i].told]>>) \o Ends(<<>>)
AsReturnValues(samples) ==
    Ends([i \in 1..Len(samples) |->
            [name |-> Name(i), type |-> samples[i].column, value |-> samples[i].told]])

Inputs(kind, samples, collation) ==
    Exchange(Call(kind, <<83>>, Parameters(samples, FALSE), collation), InRow(samples))
Outputs(kind, samples, collation) ==
    Exchange(Call(kind, <<83>>, Parameters(samples, TRUE), collation), AsReturnValues(samples))
Refused(type_, value, collation) ==
    Exchange(Call("execSql", <<83>>, <<Param(<<97>>, Int_, <<1>>, FALSE),
                                       Param(<<98>>, type_, value, FALSE)>>, collation), <<>>)
Prepare(samples) ==
    Exchange(Call("prepare", <<83>>, Parameters(samples, FALSE), latin),
             Ends(<<[name |-> handle, type |-> IntN, value |-> <<PreparedHandle>>]>>))

InputCalls ==
    [i \in 1..Len(Groups) |-> Inputs("execSql", Groups[i], latin)]
    \o <<Inputs("execSql", Long, latin), Inputs("callProcedure", Long, utf8),
         Inputs("callProcedure", Groups[11], utf8), Inputs("execute", Groups[8], utf8),
         Inputs("execute", Groups[12], utf8), Inputs("execute", Groups[15], utf8)>>
OutputCalls ==
    [i \in 1..Len(Groups) |-> Outputs("callProcedure", Groups[i], latin)]
    \o <<Outputs("execSql", Groups[9], utf8), Outputs("execSql", Groups[11], utf8),
         Outputs("execSql", Groups[13], utf8)>>
RefusedCalls ==
    [i \in 1..Len(Refusals) |-> Refused(Refusals[i][1], Refusals[i][2], latin)]
    \o <<Refused(Text, <<A>>, other)>>
Statements ==
    <<Prepare(<<>>), Prepare(Groups[1]), Prepare(Groups[12]),
      Exchange(Call("unprepare", <<>>, <<>>, latin), Ends(<<>>)),
      Exchange(Call("execSql", <<83, 84, 85>>, <<>>, latin), Ends(<<>>))>>

\* Tables
ATable(columns, rows) == <<(<<84>>), columns, rows>>
TableColumns ==
    <<Param(<<97>>, Int_, Undefined, FALSE),
      [Param(<<98>>, VarChar, Undefined, FALSE) EXCEPT !.length = 4],
      [Param(<<99>>, Decimal, Undefined, FALSE) EXCEPT !.precision = 9, !.scale = 0],
      Param(<<100>>, NVarChar, Undefined, FALSE)>>
TableRows == << << <<1>>, <<A, E>>, <<200>>, <<1000>> >>, <<Null, Null, Null, Null>> >>
InTable(rows) ==
    ResultSet([i \in 1..4 |-> ScriptColumn(<<>>, <<IntN, VarChar, DecimalN, NVarChar>>[i])], rows)
TableCall(rows) ==
    Exchange(Call("callProcedure", <<83>>, <<Param(<<97>>, TVP, ATable(TableColumns, rows), FALSE),
                                            Param(<<98>>, Int_, <<5>>, TRUE)>>, latin),
             InTable(rows) \o Ends(<<[name |-> <<98>>, type |-> IntN, value |-> <<5>>]>>))
TableCalls ==
    <<TableCall(TableRows), TableCall(<<>>),
      Exchange(Call("execSql", <<83>>,
                    <<Param(<<97>>, TVP, ATable(TableColumns, TableRows), FALSE)>>, latin),
               InTable(TableRows) \o Ends(<<>>)),
      Exchange(Call("callProcedure", <<83>>, <<Param(<<97>>, TVP, Null, FALSE)>>, latin),
               ResultSet(<<>>, <<>>) \o Ends(<<>>))>>

-----------------------------------------------------------------------------
(* Bulk loads: a row of the samples, one that is null, and the row again.  A    *)
(* column has the length, the precision and the scale of its sample; a number   *)
(* has a precision and a time a scale (see README: departures).                 *)

GivenRow(samples) == [i \in 1..Len(samples) |-> samples[i].param.value]
ToldRow(samples)   == [i \in 1..Len(samples) |-> samples[i].told]
NullRow(samples)  == [i \in 1..Len(samples) |-> Null]
Bulk(samples, rows, options, order, collation) ==
    [table |-> <<84>>, columns |-> Parameters(samples, FALSE), nullable |-> [i \in 1..Len(samples) |-> i # 2],
     options |-> options, order |-> order, rows |-> rows, collation |-> collation]
BulkCall(bulk, told) ==
    Exchange([kind |-> "execBulkLoad", bulk |-> bulk, told |-> told, parameters |-> <<>>],
             <<Done(Types.done, Len(told))>>)
Loaded(samples, options, order, collation) ==
    BulkCall(Bulk(samples, <<GivenRow(samples), NullRow(samples), GivenRow(samples)>>, options, order, collation),
             <<ToldRow(samples), NullRow(samples), ToldRow(samples)>>)
Unloaded(samples) == BulkCall(Bulk(samples, <<>>, {}, <<>>, latin), <<>>)

BulkLoads ==
    << Loaded(Groups[1] \o Groups[2], {}, <<>>, latin),
       Loaded(Groups[3] \o Groups[4], {"fireTriggers"}, <<"a">>, latin),
       Loaded(Groups[5] \o Groups[6], {"checkConstraints", "lockTable"}, <<"b", "a">>, latin),
       Loaded(<<Groups[7][4], Groups[7][5]>> \o SubSeq(Groups[8], 1, 4), {"keepNulls"}, <<>>, latin),
       Loaded(SubSeq(Groups[9], 2, 5) \o <<Groups[10][2], Groups[10][4]>>, {}, <<>>, latin),
       Loaded(SubSeq(Groups[11], 1, 3) \o Groups[12], {}, <<>>, latin),
       Loaded(<<Groups[11][2], Groups[12][2], Groups[12][5]>>, {}, <<>>, utf8),
       Loaded(SubSeq(Groups[13], 1, 2) \o <<Groups[13][5], Groups[14][2], Groups[14][4], Groups[14][5]>>,
              {}, <<>>, latin),
       Loaded(<<Groups[15][1], Groups[15][3], Groups[15][5], Groups[16][3], Groups[16][4]>>, {}, <<>>, latin),
       Loaded(Long, {}, <<>>, latin), Loaded(Long, {}, <<>>, utf8),
       Unloaded(Groups[1]) >>

-----------------------------------------------------------------------------
(* Batches, and what the server alone sends *)

Batch(s) == Exchange(Call("execSqlBatch", <<83, 69>>, <<>>, latin), s)
Col(type_, info) == [colName |-> <<>>, type |-> type_, info |-> info]
V(bytes, value) == [bytes |-> bytes, value |-> value]
Collated(info) == info \o CollationToBuffer(latin)

Batches == <<
  \* Columns of every fixed size
  << Token(Types.colMetadata,
           << Col(Null_, <<31>>), Col(TinyInt, <<48>>), Col(SmallInt, <<52>>), Col(Int_, <<56>>),
              Col(BigInt, <<127>>), Col(Bit, <<50>>), Col(Real, <<59>>), Col(Float, <<62>>),
              Col(Money, <<60>>), Col(SmallMoney, <<122>>), Col(DateTime, <<61>>),
              Col(SmallDateTime, <<58>>) >>),
     Token(Types.row,
           << V(<<>>, Null), V(<<200>>, <<200>>), V(<<254, 255>>, <<-2>>), V(<<0, 1, 0, 0>>, <<256>>),
              V(<<255, 255, 255, 255, 255, 255, 255, 255>>, <<-1>>), V(<<1>>, <<1>>),
              V(<<1, 2, 3, 4>>, <<1, 2, 3, 4>>), V(<<1, 2, 3, 4, 5, 6, 7, 8>>, <<1, 2, 3, 4, 5, 6, 7, 8>>),
              V(<<255, 255, 255, 255, 254, 255, 255, 255>>, <<-20>>), V(<<1, 0, 0, 0>>, <<10>>),
              V(<<255, 255, 255, 255, 45, 1, 0, 0>>, <<Day1900 - 1, 1003, 0>>),
              V(<<1, 0, 2, 0>>, <<Day1900 + 1, 120000, 0>>) >>),
     Done(Types.done, 1) >>,
  \* Variants
  << Token(Types.colMetadata, << Col(Variant, <<98>> \o LE(8009, 4)) >>),
     Token(Types.row, << V(LE(0, 4), Null) >>),
     Token(Types.row, << V(LE(3, 4) \o <<48, 0, 7>>, <<7>>) >>),
     Token(Types.row, << V(LE(6, 4) \o <<56, 0, 1, 1, 0, 0>>, <<257>>) >>),
     Token(Types.row, << V(LE(10, 4) \o <<60, 0, 0, 0, 0, 0, 3, 0, 0, 0>>, <<30>>) >>),
     Token(Types.row, << V(LE(5, 4) \o <<40, 0, 2, 1, 0>>, <<258, 0, 0>>) >>),
     Token(Types.row, << V(LE(6, 4) \o <<41, 1, 0, 5, 0, 0>>, <<Day1970, 5000, 0>>) >>),
     Token(Types.row, << V(LE(9, 4) \o <<42, 1, 0, 5, 0, 0, 1, 0, 0>>, <<1, 5000, 0>>) >>),
     Token(Types.row, << V(LE(11, 4) \o <<43, 1, 0, 5, 0, 0, 1, 0, 0, 60, 0>>, <<1, 5000, 0>>) >>),
     Token(Types.row, << V(LE(9, 4) \o <<108, 2, 9, 1, 0, 15, 0, 0, 0>>, <<-150>>) >>),
     Token(Types.row, << V(LE(6, 4) \o <<165, 2, 9, 0, 1, 2>>, <<1, 2>>) >>),
     Token(Types.row, << V(LE(11, 4) \o <<167, 7, 9, 0>> \o CollationToBuffer(latin) \o <<A, E>>, <<A, E>>) >>),
     Token(Types.row, << V(LE(11, 4) \o <<167, 7, 9, 0>> \o CollationToBuffer(utf8) \o <<195, 169>>, <<E>>) >>),
     Token(Types.row, << V(LE(11, 4) \o <<231, 7, 9, 0>> \o CollationToBuffer(latin) \o <<232, 3>>, <<1000>>) >>),
     Done(Types.done, 13) >>,
  \* Values in chunks, of a known and of an unknown length; and null
  << Token(Types.colMetadata,
           << Col(Xml, <<241, 1, 1>> \o LE(100, 2) \o <<0>> \o LE(0, 2)),
              Col(UDT, <<240>> \o LE(MAX, 2) \o <<1, 68, 0, 0, 1, 84, 0>> \o LE(0, 2)),
              Col(VarChar, <<167>> \o LE(MAX, 2) \o CollationToBuffer(utf8)) >>),
     Token(Types.row, << V(LE(4, 8) \o LE(1, 4) \o <<A>> \o LE(3, 4) \o <<0, E, 0>> \o LE(0, 4), <<A, E>>),
                         V(LE(-2, 8) \o LE(2, 4) \o <<1, 2>> \o LE(1, 4) \o <<3>> \o LE(0, 4), <<1, 2, 3>>),
                         V(LE(2, 8) \o LE(1, 4) \o <<195>> \o LE(1, 4) \o <<169>> \o LE(0, 4), <<E>>) >>),
     Token(Types.nbcRow, << V(LE(-1, 8), Null), V(<<>>, Null), V(LE(0, 8) \o LE(0, 4), <<>>) >>),
     Done(Types.done, 2) >>,
  \* More columns than a byte of the bitmap has bits, in a procedure
  << Token(Types.info, V(LE(5701, 4) \o <<2, 0>> \o UsVarchar(<<A, A>>) \o BVarchar(<<A>>) \o <<0>> \o LE(1, 4),
                         <<5701, 2, 0, <<A, A>>, <<A>>, <<>>, 1>>)),
     Token(Types.colMetadata, [i \in 1..9 |-> Col(IntN, <<38, 1>>)]),
     Token(Types.nbcRow, [i \in 1..9 |-> IF i \in {1, 8} THEN V(<<1, i>>, <<i>>) ELSE V(<<>>, Null)]),
     Token(Types.nbcRow, [i \in 1..9 |-> IF i \in {9} THEN V(<<1, i>>, <<i>>) ELSE V(<<>>, Null)]),
     Done(Types.doneInProc, 2), Token(Types.returnStatus, <<-7>>), Done(Types.doneProc, NoCount) >>,
  \* Two results
  << Token(Types.colMetadata, << Col(Int_, <<56>>) >>), Token(Types.order, <<1>>),
     Token(Types.row, << V(LE(9, 4), <<9>>) >>), Done(Types.done, 1),
     Token(Types.colMetadata, << Col(BitN, <<104, 1>>),
                                 Col(NText, <<99>> \o LE(8, 4) \o CollationToBuffer(latin)) >>),
     Token(Types.nbcRow, << V(<<>>, Null), V(<<1, 5>> \o LE(0, 8) \o LE(2, 4) \o <<A, 0>>, <<A>>) >>),
     Token(Types.row, << V(<<1, 1>>, <<1>>), V(<<0>>, Null) >>), Done(Types.done, 2) >>,
  \* Environment changes
  << Token(Types.envChange, V(<<1, 1, A, 0, 0>>, <<1, <<A>>>>)),
     Token(Types.envChange, V(<<4, 2, 52, 0, 48, 0, 1, 49, 0>>, <<4, <<40>>>>)),
     Token(Types.envChange, V(<<7, 5>> \o CollationToBuffer(utf8) \o <<0>>, <<7, <<1033, UTF8, 2, 0>>>>)),
     Token(Types.envChange, V(<<7, 0, 0>>, <<7, Null>>)),
     Token(Types.envChange, V(<<8, 2, 1, 2, 0>>, <<8, <<1, 2>>>>)),
     Token(Types.envChange, V(<<20>> \o LE(7, 2) \o <<0, 153, 5, 1, 0, A, 0>> \o LE(0, 2),
                              <<20, <<1433, <<A>>>>>>)),
     Done(Types.done, NoCount) >> >>

Errors(n) ==
    [i \in 1..n |-> Token(Types.error, V(LE(50000 + i, 4) \o <<1, 16>> \o UsVarchar(<<A>>) \o <<0>>
                                           \o BVarchar(<<E>>) \o LE(i, 4),
                                         <<50000 + i, 1, 16, <<A>>, <<>>, <<E>>, i>>))]
    \o <<Token(Types.done, DoneData(TRUE, NoCount))>>

-----------------------------------------------------------------------------
(* Logins.  A notice has what the program is told, and the error it makes.    *)

User == <<117, 115>>   Password == <<112, E, 49>>   Domain == <<68, 79, 77>>
ALogin ==
    [authentication |-> "default", hostname |-> <<104>>, userName |-> User, password |-> Password,
     domain |-> <<>>, token |-> <<>>, appName |-> <<84, 101>>, serverName |-> <<115, 118, 114>>,
     libraryName |-> <<84>>, language |-> <<117, 115, 95>>, database |-> <<100, 98>>,
     readOnlyIntent |-> FALSE, fallbackToDefaultDb |-> FALSE, tdsVersion |-> versions.v7_4,
     packetSize |-> 4096, pid |-> 70000, timeZone |-> -120, encrypt |-> FALSE, version |-> <<16, 1, 300>>,
     serverFedAuth |-> <<>>]
Bare == [ALogin EXCEPT !.password = <<>>, !.language = <<>>, !.database = <<>>, !.readOnlyIntent = TRUE,
                       !.fallbackToDefaultDb = TRUE, !.tdsVersion = versions.v7_2, !.serverFedAuth = <<0>>]
WithToken(authentication, echo) ==
    [ALogin EXCEPT !.authentication = authentication, !.token = <<116, 111>>, !.encrypt = TRUE,
                   !.serverFedAuth = IF echo THEN <<1>> ELSE <<>>]
WithNTLM == [ALogin EXCEPT !.authentication = "ntlm", !.domain = Domain]

Login(kind, login, s) == Exchange([kind |-> kind, login |-> login, challenge |-> <<>>], s)
Notice(t, bytes, value, error) ==
    Token(t, [bytes |-> bytes, value |-> value, error |-> error])

Ack(interface, version, error) ==
    Notice(Types.loginAck, <<interface>> \o BE(version, 4) \o BVarchar(<<A>>) \o <<15, 0, 7, 208>>,
           <<IF interface < 2 THEN <<interface>> ELSE Null,
             IF version = 9 THEN Null ELSE <<version>>, <<A>>, <<15, 0, 7, 208>>>>, error)
Acked(version) == Ack(1, version, "none")
LoginError(number, error) ==
    Notice(Types.error, LE(number, 4) \o <<1, 14>> \o UsVarchar(<<A>>) \o <<0, 0>> \o LE(1, 4),
           <<number, 1, 14, <<A>>, <<>>, <<>>, 1>>, error)
Routed(server) ==
    Notice(Types.envChange,
           <<20>> \o LE(5 + 2 * Len(server), 2) \o <<0, 153, 5>> \o LE(Len(server), 2) \o Ucs2(server) \o LE(0, 2),
           <<20, <<1433, server>>>>, "none")
ToDatabase == Notice(Types.envChange, <<1, 1, A, 0, 0>>, <<1, <<A>>>>, "none")
FeatureData(id, data) == <<id>> \o LE(Len(data), 4) \o data
FeaturesAcked(bytes, value, error) == Notice(Types.featureExtAck, bytes \o <<255>>, value, error)
Utf8Acked    == FeaturesAcked(FeatureData(10, <<1>>), <<Null, <<1>>>>, "none")
FedAuthAcked(error) == FeaturesAcked(FeatureData(2, <<>>) \o FeatureData(10, <<0>>), <<<<>>, <<0>>>>, error)
LoggedIn == Done(Types.done, NoCount)

\* The second information is not known; the texts are in the other order.
FedAuthInfo ==
    Notice(Types.fedAuthInfo,
           LE(3, 4) \o <<1>> \o LE(4, 4) \o LE(33, 4) \o <<9>> \o LE(2, 4) \o LE(31, 4)
           \o <<2>> \o LE(2, 4) \o LE(31, 4) \o <<A, 0>> \o <<E, 0, A, 0>>,
           <<<<A>>, <<E, A>>>>, "none")
Target == <<2, 0, 2, 0, 88, 0, 0, 0, 0, 0>>
Challenge ==
    Magic \o LE(2, 4) \o SecurityField(4, 56) \o LE(33281, 4) \o <<31, 32, 33, 34, 35, 36, 37, 38>>
    \o LE(0, 8) \o SecurityField(Len(Target), 60) \o LE(0, 8) \o <<88, 0, 89, 0>> \o Target
SSPI == Notice(Types.sspi, Challenge, <<Sub(Challenge, 24, 8), <<88, 89>>, Target>>, "none")

Logins ==
    << Login("login7", ALogin, <<ToDatabase, Acked(versions.v7_4), Utf8Acked, LoggedIn>>),
       Login("login7", Bare, <<Acked(versions.v7_2), Routed(<<115, Backslash, 105>>), LoggedIn>>),
       Login("login7", ALogin, <<LoginError(18456, "ELOGIN"), LoggedIn>>),
       Login("login7", ALogin, <<LoginError(18456, "ELOGIN"), LoginError(40613, "transient"), LoggedIn>>),
       Login("login7", ALogin, <<Ack(0, 9, "ETDS"), LoggedIn>>),
       Login("login7", ALogin, <<Ack(2, versions.v7_4, "EINTERFACENOTSUPP"), LoggedIn>>),
       Login("login7", ALogin, <<Acked(versions.v7_3_B), FeaturesAcked(<<>>, <<Null, Null>>, "unknown feature"), LoggedIn>>),
       Login("login7", ALogin, <<FedAuthAcked("not requested"), LoggedIn>>),
       Login("login7", WithToken("password", TRUE), <<FedAuthInfo, LoggedIn>>),
       Login("login7", WithToken("integrated", FALSE), <<FedAuthInfo, LoggedIn>>),
       Login("login7", WithToken("token", TRUE), <<Acked(versions.v7_4), FedAuthAcked("none"), LoggedIn>>),
       Login("login7", WithToken("token", FALSE),
             <<Acked(versions.v7_4), FeaturesAcked(FeatureData(10, <<1>>), <<Null, <<1>>>>, "not acknowledged"),
               LoggedIn>>),
       Login("fedAuthToken", WithToken("password", TRUE),
             <<Acked(versions.v7_4), FeaturesAcked(FeatureData(2, <<7>>), <<<<7>>, Null>>, "extra data"), LoggedIn>>),
       Login("login7", WithNTLM, <<SSPI>>),
       Exchange([kind |-> "ntlm", login |-> WithNTLM, challenge |-> Challenge],
                <<Acked(versions.v7_4), Routed(<<115, 50>>), LoggedIn>>) >>

AllExchanges ==
    Logins \o InputCalls \o OutputCalls \o RefusedCalls \o Statements \o TableCalls \o BulkLoads
    \o [i \in 1..Len(Batches) |-> Batch(Batches[i])]
    \o <<Batch(Errors(0)), Batch(Errors(1)), Batch(Errors(2))>>

\* An environment change that the parser does not know
UnknownChange ==
    <<Batch(<<Token(Types.envChange, V(<<17, 0, 0>>, Null)), Done(Types.done, 1)>>), Batch(Errors(2)),
      Batch(Batches[5])>>

\* (TLC computes what a definition stands for once, but for one that a constant stands
\* for; and it counts how often expressions are evaluated in these, but not under LET.)
MCExchanges == LET all == AllExchanges IN all
WithUnknown == LET all == UnknownChange IN all

=============================================================================
