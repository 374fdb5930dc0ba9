------------------------------- MODULE RpcRequest -------------------------------
(***************************************************************************)
(* The bytes of a request: SQL batches (src/src/sqlbatch-payload.ts),      *)
(* procedure calls (src/src/rpcrequest-payload.ts) and the parameters that *)
(* connection.ts gives them.                                               *)
(*                                                                         *)
(* A call has a kind, a text (SQL, or the name of a procedure),            *)
(* parameters, the handle of a prepared statement and the values it is     *)
(* executed with, and the collation of the connection.  The names of the   *)
(* parameters of the library's own are one character.                      *)
(*                                                                         *)
(* The server (external) decodes a request and answers with its            *)
(* parameters: what is input as the row of a result, what is output as     *)
(* return values.                                                          *)
(***************************************************************************)
EXTENDS ValueParser

At == 64   Comma == 44   Output == 79       \* "@", ", " and " OUTPUT"
statement == <<1>>   params == <<2>>   handle == <<3>>   stmt == <<4>>

txnDescriptor == <<9, 8, 7, 6, 5, 4, 3, 2>>

Procedures == [Sp_ExecuteSql |-> 10, Sp_Prepare |-> 11, Sp_Execute |-> 12, Sp_Unprepare |-> 15]

-----------------------------------------------------------------------------
(* The parameters of a call *)

\* validateParameters, and in execute() the values given to it instead
ValidatedParameters(call) ==
    [i \in 1..Len(call.parameters) |->
        LET p == call.parameters[i]
            value == IF call.kind = "execute" THEN call.values[i] ELSE p.value
        IN  IF call.kind = "prepare" THEN p
            ELSE [p EXCEPT !.value = Validate(p.type, value, call.collation)]]
IsRefused(call) ==
    \E i \in 1..Len(call.parameters) : ValidatedParameters(call)[i].value = Invalid

makeParamsParameter(parameters) ==
    FlattenSeq([i \in 1..Len(parameters) |->
        LET p == parameters[i]
        IN  (IF i > 1 THEN <<Comma>> ELSE <<>>) \o <<At>> \o p.name \o Declaration(p)
            \o (IF p.output THEN <<Output>> ELSE <<>>)])

Input(name, type, value) == Param(name, type, value, FALSE)

execSql(call) ==
    <<Input(statement, NVarChar, call.sqlTextOrProcedure)>>
    \o (IF call.parameters = <<>> THEN <<>>
        ELSE <<Input(params, NVarChar, makeParamsParameter(ValidatedParameters(call)))>>
             \o ValidatedParameters(call))
prepare(call) ==
    <<Param(handle, Int_, Undefined, TRUE),
      Input(params, NVarChar, IF call.parameters = <<>> THEN Null
                              ELSE makeParamsParameter(ValidatedParameters(call))),
      Input(stmt, NVarChar, call.sqlTextOrProcedure)>>
execute(call)   == <<Input(<<>>, Int_, call.handle)>> \o ValidatedParameters(call)
unprepare(call) == <<Input(handle, Int_, call.handle)>>

-----------------------------------------------------------------------------
(* Payloads *)

\* A length of all headers, and the one header with the transaction
AllHeaders == LE(22, 4) \o LE(18, 4) \o LE(2, 2) \o txnDescriptor \o LE(1, 4)

SqlBatchPayload(call) == AllHeaders \o Ucs2(call.sqlTextOrProcedure)

\* The length, precision and scale that are sent, as far as the type has them
SentLength(p) ==
    CASE (p.type.id \div 16) % 4 # 2 -> Unset
      [] (p.type.id \div 16) % 4 = 2 /\ Given(p.length) -> p.length
      [] (p.type.id \div 16) % 4 = 2 /\ ~Given(p.length) ->
            IF p.type.kind \in {"var", "padded", "long", "guid"} THEN ResolveLength(p) ELSE Unset
SentPrecision(p) ==
    IF Given(p.precision) \/ p.type.kind # "numeric" THEN p.precision ELSE ResolvePrecision(p)
SentScale(p) ==
    IF Given(p.scale) \/ p.type.kind \notin {"numeric", "scaled"} THEN p.scale ELSE ResolveScale(p)

GenerateParameterData(p, collation) ==
    Written(4 + 2 * Len(p.name),
            <<BVarchar(IF p.name = <<>> THEN <<>> ELSE <<At>> \o p.name),
              <<IF p.output THEN 1 ELSE 0>> >>)
    \o Parameter([p EXCEPT !.length = SentLength(p), !.precision = SentPrecision(p),
                           !.scale = SentScale(p), !.collation = collation])

RpcRequestPayload(procedure, parameters, collation) ==
    Written(500, <<AllHeaders, procedure, LE(0, 2)>>)
    \o FlattenSeq([i \in 1..Len(parameters) |-> GenerateParameterData(parameters[i], collation)])

ById(id) == LE(MAX, 2) \o LE(id, 2)

Payload(call) ==
    LET c == call.collation
    IN  CASE call.kind = "execSqlBatch" -> SqlBatchPayload(call)
          [] call.kind = "execSql" ->
                RpcRequestPayload(ById(Procedures.Sp_ExecuteSql), execSql(call), c)
          [] call.kind = "prepare" ->
                RpcRequestPayload(ById(Procedures.Sp_Prepare), prepare(call), c)
          [] call.kind = "execute" ->
                RpcRequestPayload(ById(Procedures.Sp_Execute), execute(call), c)
          [] call.kind = "unprepare" ->
                RpcRequestPayload(ById(Procedures.Sp_Unprepare), unprepare(call), c)
          [] call.kind = "callProcedure" ->
                RpcRequestPayload(UsVarchar(call.sqlTextOrProcedure), ValidatedParameters(call), c)

-----------------------------------------------------------------------------
(* The server.  What it receives of a parameter: name, output, the bytes of *)
(* the type, its column, and the bytes of the value.                        *)

Received(name, output, info, column, bytes) ==
    [name |-> name, output |-> output, info |-> info, column |-> column, bytes |-> bytes]
Part(b, from, to) == SubSeq(b, from + 1, to)

\* The end of the value at p
ReceiveValue(b, p, column) ==
    IF IsPLPStream(column)
    THEN Then(ReadBigUInt64LE(b, p), LAMBDA n, q :
            IF n = PLP_NULL THEN Result(Null, q)
            ELSE Then(ReadUInt32LE(b, q), LAMBDA size, r :
                    IF size = 0 THEN Result(<<>>, r)
                    ELSE Then(ReadBytes(b, r, size), LAMBDA chunk, s :
                         Then(ReadUInt32LE(b, s), LAMBDA end, t : Result(chunk, t)))))
    ELSE IF column.type.kind = "long"
    THEN Then(ReadInt32LE(b, p), LAMBDA n, q :
            IF n = -1 THEN Result(Null, q) ELSE ReadBytes(b, q, n))
    ELSE ReadValue(b, p, column)

\* A short value may not be longer than its type.
IsTooLong(b, p, end, column) ==
    /\ column.type.kind \in {"var", "padded"} /\ ~IsPLPStream(column)
    /\ Part(b, p, p + 2) # LE(MAX, 2) /\ end - p - 2 > column.dataLength

\* Up to n things that are read one after the other
ReceiveUpTo(n, b, p, IsEnd(_), Receive(_)) ==
    FoldLeft(LAMBDA read, i :
                Then(read, LAMBDA received, q :
                    IF IsEnd(q) THEN read
                    ELSE Then(Receive(q), LAMBDA one, r : Result(Append(received, one), r))),
             Result(<<>>, p), [i \in 1..n |-> i])

\* A table, with its columns and its rows
ReceiveTableColumn(b, p) ==
    Then(ReadTypeInfo(b, p + 6), LAMBDA column, q :
        Then(ReadBVarChar(b, q), LAMBDA name, r :
            Result(Received(name, FALSE, Part(b, p + 6, q), column, <<>>), r)))
ReceiveRow(b, p, columns) ==
    Then(ReadUInt8(b, p), LAMBDA rowToken, start :
        FoldLeft(LAMBDA read, column :
                    Then(read, LAMBDA bytes, q :
                        Then(ReceiveValue(b, q, column.column), LAMBDA value, r :
                            IF IsTooLong(b, q, r, column.column) THEN NotEnoughData
                            ELSE Result(Append(bytes, Part(b, q, r)), r))),
                 Result(<<>>, start), columns))

Table(columns, rows) == [columns |-> columns, rows |-> rows]
ReceiveTable(b, p) ==
    Then(ReadUInt8(b, p), LAMBDA id, q :
    Then(ReadBVarChar(b, q), LAMBDA databaseName, r :
    Then(ReadBVarChar(b, r), LAMBDA schema, s :
    Then(ReadBVarChar(b, s), LAMBDA typeName, t :
    Then(ReadUInt16LE(b, t), LAMBDA n, u :
        IF n = MAX THEN Result(Table(<<>>, <<>>), u + 2)
        ELSE Then(ReceiveUpTo(n, b, u, LAMBDA v : FALSE, LAMBDA v : ReceiveTableColumn(b, v)),
                  LAMBDA columns, v :
             Then(ReceiveUpTo(8, b, v + 1, LAMBDA w : b[w + 1] = 0,
                              LAMBDA w : ReceiveRow(b, w, columns)),
                  LAMBDA rows, w : Result(Table(columns, rows), w + 1)))))))) 

ReceiveParameter(b, p) ==
    Then(ReadBVarChar(b, p), LAMBDA name, q :
    Then(ReadUInt8(b, q), LAMBDA status, r :
        IF b[r + 1] = TVP.id
        THEN Then(ReceiveTable(b, r), LAMBDA table, s :
                Result(Received(name, FALSE, <<>>, Column(TVP), table), s))
        ELSE Then(ReadTypeInfo(b, r), LAMBDA column, s :
             Then(ReceiveValue(b, s, column), LAMBDA value, t :
                IF IsTooLong(b, s, t, column) THEN NotEnoughData
                ELSE Result(Received(name, status = 1, Part(b, r, s), column, Part(b, s, t)), t)))))

ReceiveParameters(b, p) ==
    ReceiveUpTo(8, b, p, LAMBDA q : q = Len(b), LAMBDA q : ReceiveParameter(b, q))

-----------------------------------------------------------------------------
(* What the server makes of it *)

\* A parameter that is declared as `@name type [OUTPUT]` and is not so sent, or not so wide
FitsDeclaration(p, type, n, scale) ==
    CASE type \in FixedTypes -> p.info = type.info
      [] type.kind = "numeric" -> p.column.precision = n /\ p.column.scale = scale
      [] type.kind = "scaled"  -> p.info = <<type.id, n>>
      [] type.kind \in {"var", "padded"} ->
            /\ p.column.type = type
            /\ n = MAX \/ IsPLPStream(p.column) \/ p.column.dataLength <= n * WidthOf(type)
                       \/ p.bytes = LE(MAX, 2)
      [] type.kind = "long" -> p.column.type = type
      [] type = TVP -> p.column.type = TVP

\* The declarations are read off from left to right.
Declared(text, parameters) ==
    LET end == FoldLeft(LAMBDA i, p :
                    IF /\ i >= 0 /\ Len(text) >= i + 5
                       /\ SubSeq(text, i + 1, i + 2) = p.name
                       /\ FitsDeclaration(p, TypeOf(text[i + 3]), text[i + 4], text[i + 5])
                    THEN i + 5 + (IF p.output THEN 2 ELSE 1) ELSE -1,
                0, parameters)
    IN  parameters = <<>> \/ end = Len(text) + 1

TextOf(p) ==
    IF IsPLPStream(p.column)
    THEN FromUcs2(SubSeq(p.bytes, 13, Len(p.bytes) - 4))
    ELSE FromUcs2(SubSeq(p.bytes, 3, Len(p.bytes)))

PreparedHandle == 7
IsHandle(p) == p.info = Int_.info /\ p.bytes = <<4>> \o LE(PreparedHandle, 4)

\* The parameters that the server answers with, or NotEnoughData if it cannot make
\* sense of the request
ReceivedCall(b) ==
    IF Part(b, 0, 22) # AllHeaders THEN NotEnoughData
    ELSE Then(ReadUInt16LE(b, 22), LAMBDA n, p :
         Then(IF n = MAX THEN ReadUInt16LE(b, p) ELSE ReadChars2(b, p, n), LAMBDA name, q :
         Then(ReceiveParameters(b, q + 2), LAMBDA all, end :
            LET rest(k) == SubSeq(all, k, Len(all))
                Accept(condition, parameters) ==
                    IF end = Len(b) /\ condition THEN Result(parameters, end) ELSE NotEnoughData
            IN  CASE n # MAX -> Accept(TRUE, all)
                  [] n = MAX /\ name = Procedures.Sp_ExecuteSql ->
                        Accept(Len(all) = 1 \/ Declared(TextOf(all[2]), rest(3)), rest(3))
                  [] n = MAX /\ name = Procedures.Sp_Prepare ->
                        Accept(all[1].output /\ Len(all) = 3,
                               <<[all[1] EXCEPT !.bytes = <<4>> \o LE(PreparedHandle, 4)]>>)
                  [] n = MAX /\ name \in {Procedures.Sp_Execute, Procedures.Sp_Unprepare} ->
                        Accept(IsHandle(all[1]), rest(2)))))

=============================================================================
