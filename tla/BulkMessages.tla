------------------------------ MODULE BulkMessages ------------------------------
(***************************************************************************)
(* The bytes of a bulk load (src/src/bulk-load.ts): the SQL that announces *)
(* it, and the message with its columns and its rows.                      *)
(*                                                                         *)
(* A bulk load has a table, columns (parameters without a value, each      *)
(* nullable or not), options that are set or not, an order of columns, the *)
(* collation of the connection, and rows of values.  Of its SQL, the names *)
(* and the declarations are kept.                                          *)
(***************************************************************************)
EXTENDS RpcRequest

FLAGS == [nullable |-> 1, updateableReadWrite |-> 4]

COLMETADATA == 129
ROW  == 209
DONE == 253

\* A column is given a length, a precision and a scale where its type has one and none
\* was given, as for a value that is null.
AddedColumn(p, collation) ==
    LET c == [p EXCEPT !.value = Null, !.collation = collation]
    IN  [c EXCEPT
            !.length = IF /\ p.length = Unset /\ (p.type.id \div 16) % 4 = 2
                          /\ p.type.kind \in {"var", "padded", "long", "guid"}
                       THEN ResolveLength(c) ELSE p.length,
            !.precision = IF p.type.kind = "numeric" THEN ResolvePrecision(c) ELSE p.precision,
            !.scale = IF p.type.kind \in {"numeric", "scaled"} THEN ResolveScale(c) ELSE p.scale]
Columns(bulk) == [i \in 1..Len(bulk.columns) |-> AddedColumn(bulk.columns[i], bulk.collation)]

-----------------------------------------------------------------------------
(* SQL *)

BulkOptions == <<"checkConstraints", "fireTriggers", "keepNulls", "lockTable">>
getOptionsSql(bulk) ==
    SelectSeq(BulkOptions, LAMBDA option : option \in bulk.options)
    \o (IF bulk.order = <<>> THEN <<>> ELSE <<"order">> \o bulk.order)

ColumnSql(column) == [name |-> column.name, declaration |-> Declaration(column)]
getBulkInsertSql(bulk) ==
    [table |-> bulk.table, options |-> getOptionsSql(bulk),
     columns |-> [i \in 1..Len(bulk.columns) |-> ColumnSql(Columns(bulk)[i])]]

getTableCreationSql(bulk) ==
    [table |-> bulk.table,
     columns |-> [i \in 1..Len(bulk.columns) |-> ColumnSql(Columns(bulk)[i])],
     nullable |-> bulk.nullable]

-----------------------------------------------------------------------------
(* The message *)

ColumnFlags(nullable) == FLAGS.updateableReadWrite + (IF nullable THEN FLAGS.nullable ELSE 0)

getColMetaData(bulk) ==
    <<COLMETADATA>> \o LE(Len(bulk.columns), 2)
    \o FlattenSeq([i \in 1..Len(bulk.columns) |->
        LET c == Columns(bulk)[i]
        IN  LE(0, 4) \o LE(ColumnFlags(bulk.nullable[i]), 2) \o TypeInfo(c)
            \o (IF c.type.kind = "long" THEN UsVarchar(bulk.table) ELSE <<>>) \o BVarchar(c.name)])

textPointerAndTimestampBuffer == <<16>> \o LE(0, 16) \o LE(0, 8)
textPointerNullBuffer == <<0>>

BulkValue(column, value) ==
    LET p == [column EXCEPT !.value = Validate(column.type, value, column.collation)]
    IN  CASE p.type.kind = "long" /\ IsNull(p.value) -> textPointerNullBuffer
          [] p.type.kind = "long" /\ ~IsNull(p.value) ->
                textPointerAndTimestampBuffer \o ParameterLength(p) \o ParameterData(p)
          [] p.type.kind # "long" -> ParameterLength(p) \o ParameterData(p)
RowToken(columns, row) ==
    <<ROW>> \o FlattenSeq([i \in 1..Len(columns) |-> BulkValue(columns[i], row[i])])

createDoneToken == <<DONE>> \o LE(0, 12)

\* Without a row, there are no columns either.
BulkLoadPayload(bulk) ==
    (IF bulk.rows = <<>> THEN <<>> ELSE getColMetaData(bulk))
    \o FlattenSeq([i \in 1..Len(bulk.rows) |-> RowToken(Columns(bulk), bulk.rows[i])])
    \o createDoneToken

-----------------------------------------------------------------------------
(* The server (external): what the SQL and the message say                   *)

ReceiveBulkColumn(b, p) ==
    Then(ReadUInt16LE(b, p + 4), LAMBDA flags, q :
    Then(ReadTypeInfo(b, q), LAMBDA column, r :
    Then(IF column.type.kind = "long" THEN ReadUsVarChar(b, r) ELSE Result(<<>>, r), LAMBDA table, s :
    Then(ReadBVarChar(b, s), LAMBDA name, t :
        Result([flags |-> flags, table |-> table,
                received |-> Received(name, FALSE, Part(b, q, r), column, <<>>)], t)))))

ReceiveBulkRow(b, p, columns) ==
    Then(ReadUInt8(b, p), LAMBDA token, start :
        FoldLeft(LAMBDA read, c :
                    Then(read, LAMBDA values, q :
                        Then(IF IsPLPStream(c.received.column) THEN ReceiveValue(b, q, c.received.column)
                             ELSE ReadValue(b, q, c.received.column),
                             LAMBDA value, r :
                                IF IsTooLong(b, q, r, c.received.column) THEN NotEnoughData
                                ELSE Result(Append(values, IF IsPLPStream(c.received.column) /\ value # Null
                                                           THEN PLPValue(c.received.column, value)
                                                           ELSE value), r))),
                 Result(<<>>, start), columns))

\* The message has the columns that the SQL declares, with what was said of them, and rows
\* with the values that were given.
BulkLoadSays(bulk, told, b) ==
    LET sql     == getBulkInsertSql(bulk)
        created == getTableCreationSql(bulk)
        n == Len(bulk.columns)
        IsDeclared(c, i) ==
            /\ c.received.name = sql.columns[i].name /\ c.table \in {<<>>, sql.table}
            /\ LET d == sql.columns[i].declaration IN FitsDeclaration(c.received, TypeOf(d[1]), d[2], d[3])
            /\ c.flags = IF created.nullable[i] THEN 5 ELSE 4
    IN  /\ Range(sql.options) \ {"order"} = bulk.options \cup Range(bulk.order)
        /\ created.columns = sql.columns /\ created.table = sql.table
        /\ SubSeq(b, Len(b) - 12, Len(b)) = <<DONE, 0, 0, 0, 0, 0, 0, 0, 0, 0, 0, 0, 0>>
        /\ told # <<>> =>
            Then(ReadUInt16LE(b, 1), LAMBDA count, p :
            Then(ReceiveUpTo(n, b, p, LAMBDA q : FALSE, LAMBDA q : ReceiveBulkColumn(b, q)), LAMBDA columns, q :
            Then(ReceiveUpTo(8, b, q, LAMBDA r : b[r + 1] = DONE, LAMBDA r : ReceiveBulkRow(b, r, columns)),
                 LAMBDA rows, r :
                    Result(/\ b[1] = COLMETADATA /\ count = n /\ \A i \in 1..n : IsDeclared(columns[i], i)
                           /\ rows = told /\ r = Len(b) - 13, r)))).value = TRUE

=============================================================================
