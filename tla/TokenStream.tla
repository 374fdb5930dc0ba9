------------------------------ MODULE TokenStream ------------------------------
(***************************************************************************)
(* A call and its response: the parser of the response                     *)
(* (src/src/token/stream-parser.ts and the token parsers it calls) and the *)
(* handlers of a request's and of a login's tokens (RequestTokenHandler    *)
(* and Login7TokenHandler, src/src/token/handler.ts).                      *)
(*                                                                         *)
(* The bytes come in chunks that are cut anywhere.  A parser that misses   *)
(* bytes waits for a chunk and starts again where the last complete read   *)
(* ended; what that is differs from token to token.  A small token is read *)
(* again from its first byte, metadata from the column, a row from the     *)
(* value, a partially length-prefixed (PLP) value from its chunk.          *)
(*                                                                         *)
(* The server (external) answers a batch with the tokens of a script, and  *)
(* a procedure call with the parameters that it received in the bytes of   *)
(* the request; the script then says what the program must be told.  It    *)
(* answers a message of a login, or a bulk load, with a script if the      *)
(* message says what the options, or the rows, say, and with an error      *)
(* otherwise.                                                              *)
(***************************************************************************)
EXTENDS BulkMessages, LoginMessages, FiniteSets

CONSTANTS
    Exchanges,      \* calls with their responses: each is an Exchange
    MaxChunk        \* chunks have up to so many bytes, or are all that is left

VARIABLES
    exchange, incoming,     \* the number of the exchange, and the bytes not received yet
    \* Parser: buffer, position, colMetadata; what it reads next (at), of which
    \* token (tokenType), the parts read so far, of how many columns or of which
    \* parameter, the columns that the bitmap says are null, the PLP value that is
    \* being read; and whether it waited within the token
    buffer, position, colMetadata, at, tokenType, parts, columnCount, parameter, bitmap, plp,
    waited,
    ended, crashed,
    request                 \* the request, and what it and its connection emitted

tokenVars  == <<parts, columnCount, parameter, bitmap, plp>>
parserVars == <<buffer, position, colMetadata, at, tokenType, tokenVars, waited>>
vars == <<exchange, incoming, parserVars, ended, crashed, request>>

call   == Exchanges[exchange].call
script == Exchanges[exchange].script

Types ==
    [returnStatus |-> 121, colMetadata |-> 129, order |-> 169, error |-> 170, info |-> 171,
     returnValue |-> 172, loginAck |-> 173, featureExtAck |-> 174, row |-> 209, nbcRow |-> 210,
     envChange |-> 227, sspi |-> 237, fedAuthInfo |-> 238, done |-> 253, doneProc |-> 254,
     doneInProc |-> 255]
DoneTypes == {Types.done, Types.doneProc, Types.doneInProc}
RowTypes  == {Types.row, Types.nbcRow}
\* Tokens that change the connection, or of which it tells the program
Notices   == {Types.info, Types.error, Types.envChange, Types.loginAck, Types.featureExtAck,
              Types.sspi, Types.fedAuthInfo}

Token(t, data) == [type |-> t, data |-> data]
NoToken == Token(0, Null)

-----------------------------------------------------------------------------
(* Tokens that are read again from their first byte *)

DoneData(sqlError, rowCount) == [sqlError |-> sqlError, rowCount |-> rowCount]
NoCount == -1

ReadDone(b, p, t) ==
    Then(ReadUInt16LE(b, p), LAMBDA status, q :
    Then(ReadUInt16LE(b, q), LAMBDA curCmd, r :
    Then(ReadBigUInt64LE(b, r), LAMBDA count, s :
        Result(Token(t, DoneData((status \div 2) % 2 = 1,
                                 IF (status \div 16) % 2 = 1 THEN count ELSE NoCount)), s))))

\* Environment changes: of a text, of a number in digits, of bytes, and the route
TextChanges   == {1, 2, 3, 13}
PACKET_SIZE   == 4
SQL_COLLATION == 7
ByteChanges   == {8, 9, 10, 18}
ROUTING_CHANGE == 20

parseInt(digits) == FoldLeft(LAMBDA n, digit : 10 * n + digit - 48, 0, digits)
CollationValue(bytes) ==
    IF bytes = <<>> THEN Null
    ELSE LET c == CollationFromBuffer(bytes) IN <<c.lcid, c.flags, c.version, c.sortId>>
Route(packet) ==
    <<Unsigned(SubSeq(packet, 2, 3)),
      FromUcs2(SubSeq(packet, 6, 5 + 2 * Unsigned(SubSeq(packet, 4, 5))))>>

\* A new and an old value
ReadChange(change, new, Old(_), Value(_)) ==
    Then(new, LAMBDA newValue, q :
        Then(Old(q), LAMBDA oldValue, r :
            Result(Token(Types.envChange, <<change, Value(newValue)>>), r)))
\* A change of another type is skipped by its length.
ReadEnvChange(b, p) ==
    Then(ReadUsVarByte(b, p), LAMBDA content, end :
        LET change == content[1]
            q      == p + 3
        IN  CASE change \in TextChanges ->
                    ReadChange(change, ReadBVarChar(b, q), LAMBDA r : ReadBVarChar(b, r), LAMBDA v : v)
              [] change = PACKET_SIZE ->
                    ReadChange(change, ReadBVarChar(b, q), LAMBDA r : ReadBVarChar(b, r),
                               LAMBDA v : <<parseInt(v)>>)
              [] change = SQL_COLLATION ->
                    ReadChange(change, ReadBVarByte(b, q), LAMBDA r : ReadBVarByte(b, r), CollationValue)
              [] change \in ByteChanges ->
                    ReadChange(change, ReadBVarByte(b, q), LAMBDA r : ReadBVarByte(b, r), LAMBDA v : v)
              [] change = ROUTING_CHANGE ->
                    ReadChange(change, ReadUsVarByte(b, q), LAMBDA r : ReadUsVarByte(b, r), Route)
              [] OTHER -> Result(NoToken, end))

\* info and error
ReadMessage(b, p, t) ==
    Then(ReadUsVarByte(b, p), LAMBDA content, end :
    Then(ReadUInt32LE(b, p + 2), LAMBDA number, q :
    Then(ReadUInt8(b, q), LAMBDA state, r :
    Then(ReadUInt8(b, r), LAMBDA class, s :
    Then(ReadUsVarChar(b, s), LAMBDA message, u :
    Then(ReadBVarChar(b, u), LAMBDA serverName, v :
    Then(ReadBVarChar(b, v), LAMBDA procName, w :
    Then(ReadUInt32LE(b, w), LAMBDA lineNumber, x :
        Result(Token(t, <<number, state, class, message, serverName, procName, lineNumber>>),
               x)))))))))

ReadOrder(b, p) ==
    Then(ReadUsVarByte(b, p), LAMBDA columns, q : Result(Token(Types.order, FromUcs2(columns)), q))

ReadReturnStatus(b, p) ==
    Then(ReadInt32LE(b, p), LAMBDA n, q : Result(Token(Types.returnStatus, <<n>>), q))

ReadToken(b, p, t) ==
    CASE t \in DoneTypes -> ReadDone(b, p, t)
      [] t = Types.envChange -> ReadEnvChange(b, p)
      [] t \in {Types.info, Types.error} -> ReadMessage(b, p, t)
      [] t = Types.order -> ReadOrder(b, p)
      [] t = Types.returnStatus -> ReadReturnStatus(b, p)
      [] OTHER -> Then(CASE t = Types.loginAck      -> ReadLoginAck(b, p)
                         [] t = Types.featureExtAck -> ReadFeatureExtAck(b, p)
                         [] t = Types.sspi          -> ReadSSPI(b, p)
                         [] t = Types.fedAuthInfo   -> ReadFedAuthInfo(b, p),
                       LAMBDA value, q : Result(Token(t, value), q))

-----------------------------------------------------------------------------
(* The parts of the other tokens *)

\* The parts of the name of a table, of which nothing is made
ReadTableName(b, p, type_) ==
    IF type_ \notin {Text, NText, Image} THEN Result(Null, p)
    ELSE Then(ReadUInt8(b, p), LAMBDA n, q :
            FoldLeft(LAMBDA read, i : Then(read, LAMBDA name, r : ReadUsVarChar(b, r)),
                     Result(Null, q), [i \in 1..n |-> i]))
ReadColumn(b, p) ==
    Then(ReadMetadata(b, p), LAMBDA column, q :
    Then(ReadTableName(b, q, column.type), LAMBDA tableName, r :
    Then(ReadBVarChar(b, r), LAMBDA colName, s :
        Result([column EXCEPT !.colName = colName], s))))

\* The ordinal, the name, the status and the metadata of a return value; an "@" before
\* the name is left out.
ReadParameter(b, p) ==
    Then(ReadUInt16LE(b, p), LAMBDA ordinal, q :
    Then(ReadBVarChar(b, q), LAMBDA name, r :
    Then(ReadUInt8(b, r), LAMBDA status, s :
    Then(ReadMetadata(b, s), LAMBDA column, u :
        Result([column EXCEPT !.colName = IF name # <<>> /\ Head(name) = At THEN Tail(name) ELSE name],
               u)))))

BitmapLength == (Len(colMetadata) + 7) \div 8
IsSet(bytes, i) == (bytes[1 + (i - 1) \div 8] \div 2 ^ ((i - 1) % 8)) % 2 = 1

\* The column of the value that comes next
NextColumn == IF tokenType = Types.returnValue THEN parameter ELSE colMetadata[Len(parts) + 1]

ColumnsLeft == Len(parts) < columnCount
ValuesLeft  == Len(parts) < (IF tokenType = Types.returnValue THEN 1 ELSE Len(colMetadata))
NextIsNull  == bitmap # <<>> /\ bitmap[Len(parts) + 1]

ReadsNothing == (at = "column" /\ ~ColumnsLeft) \/ (at = "value" /\ (~ValuesLeft \/ NextIsNull))

\* What the parser tries to read, from the bytes it has
Attempt ==
    IF ReadsNothing THEN Result(Null, position) ELSE
    CASE at = "type"      -> ReadUInt8(buffer, position)
      [] at = "token"     -> ReadToken(buffer, position, tokenType)
      [] at = "count"     -> ReadUInt16LE(buffer, position)
      [] at = "column"    -> ReadColumn(buffer, position)
      [] at = "parameter" -> ReadParameter(buffer, position)
      [] at = "bitmap"    -> ReadBytes(buffer, position, BitmapLength)
      [] at = "value" /\ IsPLPStream(NextColumn)  -> ReadBigUInt64LE(buffer, position)
      [] at = "value" /\ ~IsPLPStream(NextColumn) -> ReadValue(buffer, position, NextColumn)
      [] at = "chunkLength" -> ReadUInt32LE(buffer, position)
      [] at = "chunk"       -> ReadBytes(buffer, position, plp.chunkLength)

-----------------------------------------------------------------------------
(* The handler: what a token does to the request and its connection *)

Event(token, rst, status) ==
    [type |-> token.type, data |-> token.data, rst |-> rst, status |-> status]

OnErrorMessageLast(r, token) ==                     \* fault: only the last error is kept
    [r EXCEPT !.error = IF r.canceled THEN @ ELSE "request", !.notices = Append(@, token)]
OnErrorMessage(r, token) ==
    [r EXCEPT !.errors = IF r.canceled THEN @ ELSE @ + 1,
              !.error = CASE r.canceled -> @
                          [] ~r.canceled /\ r.errors = 0 -> "request"
                          [] ~r.canceled /\ r.errors > 0 -> "aggregate",
              !.notices = Append(@, token)]

OnRow(r, token) ==
    [r EXCEPT !.rows = Append(@, token.data), !.rst = Append(@, token.data),
              !.events = Append(@, Event(token, <<>>, <<>>))]

OnDone(r, token) ==
    [r EXCEPT !.events = Append(@, Event(token, r.rst, <<>>)),
              !.error = IF token.data.sqlError /\ @ = "none" THEN "unknown" ELSE @,
              !.rowCount = IF token.data.rowCount = NoCount THEN @ ELSE @ + token.data.rowCount,
              !.rst = <<>>]

\* No error is made of the status of a statement in a procedure.
OnDoneInProc(r, token) ==
    [r EXCEPT !.events = Append(@, Event(token, r.rst, <<>>)),
              !.rowCount = IF token.data.rowCount = NoCount THEN @ ELSE @ + token.data.rowCount,
              !.rst = <<>>]

OnDoneProc(r, token) ==
    [OnDone(r, token) EXCEPT !.events = Append(r.events, Event(token, r.rst, r.status)),
                             !.status = <<>>]

HandledByRequest(r, token) ==
    CASE token.type = Types.error -> OnErrorMessage(r, token)
      [] token.type \in {Types.info, Types.envChange} ->
            [r EXCEPT !.notices = Append(@, token)]
      [] token.type \notin Notices /\ r.canceled -> r
      [] token.type \in RowTypes /\ ~r.canceled -> OnRow(r, token)
      [] token.type = Types.done /\ ~r.canceled -> OnDone(r, token)
      [] token.type = Types.doneInProc /\ ~r.canceled -> OnDoneInProc(r, token)
      [] token.type = Types.doneProc /\ ~r.canceled -> OnDoneProc(r, token)
      [] token.type = Types.returnStatus /\ ~r.canceled -> [r EXCEPT !.status = token.data]
      [] token.type \in {Types.colMetadata, Types.order, Types.returnValue} /\ ~r.canceled ->
            [r EXCEPT !.events = Append(@, Event(token, <<>>, <<>>))]

\* A login: a later error replaces an earlier one.
LoginKinds == {"login7", "ntlm", "fedAuthToken"}
IsLogin == call.kind \in LoginKinds
TransientErrors == {4060, 10928, 10929, 40197, 40501, 40613}

\* A version or an interface that is not known is no acknowledgement.
OnLoginAck(r, tdsVersion, interface) ==
    CASE tdsVersion = Null -> [r EXCEPT !.error = "ETDS"]
      [] tdsVersion # Null /\ interface = Null -> [r EXCEPT !.error = "EINTERFACENOTSUPP"]
      [] tdsVersion # Null /\ interface # Null -> [r EXCEPT !.tdsVersion = tdsVersion]

\* Authentication with a token has to be acknowledged, and nothing may be that was not asked for.
FeatureError(fedAuth, utf8Support) ==
    IF call.login.authentication \in FedAuthTypes
    THEN CASE fedAuth = Null -> "not acknowledged"
           [] fedAuth = <<>> -> "none"
           [] OTHER          -> "extra data"
    ELSE CASE fedAuth = Null /\ utf8Support = Null -> "unknown feature"
           [] fedAuth = Null /\ utf8Support # Null -> "none"
           [] fedAuth # Null -> "not requested"
OnFeatureExtAck(r, fedAuth, utf8Support) ==
    [r EXCEPT !.error = IF FeatureError(fedAuth, utf8Support) = "none" THEN @
                        ELSE FeatureError(fedAuth, utf8Support)]

\* The name of an instance is taken off the server's.
Backslash == 92
OnRoutingChange(r, port, server) ==
    LET i == SelectInSeq(server, LAMBDA c : c = Backslash)
    IN  [r EXCEPT !.routing = <<port, IF i = 0 THEN server ELSE SubSeq(server, 1, i - 1)>>]

HandledByLogin(r, token) ==
    LET told == IF token.type \in Notices THEN [r EXCEPT !.notices = Append(@, token)] ELSE r
        data == token.data
    IN  CASE token.type = Types.error ->
                [told EXCEPT !.error = IF data[1] \in TransientErrors THEN "transient" ELSE "ELOGIN"]
          [] token.type = Types.loginAck -> OnLoginAck(told, data[2], data[1])
          [] token.type = Types.featureExtAck -> OnFeatureExtAck(told, data[1], data[2])
          [] token.type = Types.envChange /\ data[1] = ROUTING_CHANGE ->
                OnRoutingChange(told, data[2][1], data[2][2])
          [] OTHER -> told

Handled(r, token) == IF IsLogin THEN HandledByLogin(r, token) ELSE HandledByRequest(r, token)

-----------------------------------------------------------------------------
(* The server.  In a script, a column is its type, the bytes of the type and *)
(* its name; a value, of a row or returned, is its bytes and what they mean; *)
(* so is a notice.                                                           *)

ServerColumn(column) ==
    LE(0, 4) \o LE(0, 2) \o column.info
    \o (IF column.type \in {Text, NText, Image} THEN <<1>> \o UsVarchar(<<84>>) ELSE <<>>)
    \o BVarchar(column.colName)

BitmapByte(values, k) ==
    FoldRight(LAMBDA i, byte : 2 * byte + (IF 8 * k + i <= Len(values) /\ values[8 * k + i].value = Null
                                          THEN 1 ELSE 0),
              <<1, 2, 3, 4, 5, 6, 7, 8>>, 0)
Bitmap(values) == [k \in 1..((Len(values) + 7) \div 8) |-> BitmapByte(values, k - 1)]
ValueBytes(values) == FlattenSeq([i \in 1..Len(values) |-> values[i].bytes])

ServerToken(token) ==
    LET data == token.data
        t    == token.type
    IN  <<t>> \o
        (CASE t \in DoneTypes ->
                LE((IF data.sqlError THEN 2 ELSE 0) + (IF data.rowCount = NoCount THEN 0 ELSE 16), 2)
                \o LE(193, 2) \o LE(IF data.rowCount = NoCount THEN 0 ELSE data.rowCount, 8)
           [] t = Types.fedAuthInfo -> LE(Len(data.bytes), 4) \o data.bytes
           [] t = Types.featureExtAck -> data.bytes
           [] t \in Notices \ {Types.fedAuthInfo, Types.featureExtAck} -> UsVarbyte(data.bytes)
           [] t = Types.order -> UsVarbyte(Ucs2(data))
           [] t = Types.returnStatus -> LE(data[1], 4)
           [] t = Types.colMetadata ->
                LE(Len(data), 2) \o FlattenSeq([c \in 1..Len(data) |-> ServerColumn(data[c])])
           [] t = Types.returnValue ->
                LE(2, 2) \o BVarchar(<<At>> \o data.name) \o <<1>> \o LE(0, 4) \o LE(0, 2)
                \o data.info \o data.bytes
           [] t = Types.row -> ValueBytes(data)
           [] t = Types.nbcRow ->
                Bitmap(data) \o ValueBytes(SelectSeq(data, LAMBDA value : value.value # Null)))

ServerBytes(tokens) == FlattenSeq([i \in 1..Len(tokens) |-> ServerToken(tokens[i])])

\* A result with what was received: columns and rows of bytes.  The server's collation
\* is used where none was given, and long values get a pointer and a timestamp.
ServerInfo(p, collation) ==
    IF /\ p.column.type.id \in HasChars \cup {Text.id, NText.id} /\ p.column.collation = NoCollation
    THEN SubSeq(p.info, 1, Len(p.info) - 5) \o CollationToBuffer(collation)
    ELSE p.info
Echoed(column, bytes) ==
    CASE column.type.kind # "long" -> bytes
      [] column.type.kind = "long" /\ bytes = LE(-1, 4) -> <<0>>
      [] column.type.kind = "long" /\ bytes # LE(-1, 4) -> <<1, 5>> \o LE(0, 8) \o bytes
Echo(columns, rows, collation) ==
    <<Token(Types.colMetadata,
            [i \in 1..Len(columns) |-> [type |-> columns[i].column.type, colName |-> columns[i].name,
                                        info |-> ServerInfo(columns[i], collation)]])>>
    \o [r \in 1..Len(rows) |->
            Token(Types.row, [i \in 1..Len(columns) |->
                [bytes |-> Echoed(columns[i].column, rows[r][i]), value |-> <<>>]])]
    \o <<Token(Types.doneInProc, DoneData(FALSE, Len(rows)))>>

\* What is not a table is input as one row, and output as return values.
EchoOf(parameters, collation) ==
    LET tables  == SelectSeq(parameters, LAMBDA p : p.column.type = TVP)
        inputs  == SelectSeq(parameters, LAMBDA p : p.column.type # TVP /\ ~p.output)
        outputs == SelectSeq(parameters, LAMBDA p : p.output)
    IN  (IF inputs = <<>> THEN <<>>
         ELSE Echo(inputs, <<[i \in 1..Len(inputs) |-> inputs[i].bytes]>>, collation))
        \o FlattenSeq([i \in 1..Len(tables) |->
                        Echo(tables[i].bytes.columns, tables[i].bytes.rows, collation)])
        \o <<Token(Types.returnStatus, <<0>>)>>
        \o [i \in 1..Len(outputs) |->
                Token(Types.returnValue, [name |-> Tail(outputs[i].name), info |-> outputs[i].info,
                                          bytes |-> outputs[i].bytes])]
        \o <<Token(Types.doneProc, DoneData(FALSE, NoCount))>>

Rejection == <<Token(Types.error, [bytes |-> LE(0, 4) \o <<1, 16>> \o LE(0, 2) \o <<0, 0>> \o LE(0, 4)]),
               Token(Types.done, DoneData(TRUE, NoCount))>>

\* The messages of a login, and what they have to say
FedAuthRequired(login) == extractOptions(ServerPrelogin(login)).fedAuthRequired = <<1>>
LoginMessage(c) ==
    CASE c.kind = "login7"       -> Login7Payload(c.login, FedAuthRequired(c.login))
      [] c.kind = "ntlm"         -> createResponse(c.login, parseChallenge(c.challenge))
      [] c.kind = "fedAuthToken" -> FedAuthTokenMessage(c.login.token)
SaysTheLogin(c, b) ==
    CASE c.kind = "login7" ->
            /\ PreloginSays(c.login, createOptions(PreloginOptions(c.login.encrypt, c.login.version)))
            /\ Login7Says(c.login, b)
      [] c.kind = "ntlm"         -> NTLMSays(c.login, c.challenge, b)
      [] c.kind = "fedAuthToken" -> FedAuthTokenSays(c.login, b)

Message(c) ==
    CASE c.kind \in LoginKinds    -> LoginMessage(c)
      [] c.kind = "execBulkLoad" -> BulkLoadPayload(c.bulk)
      [] c.kind \notin LoginKinds \cup {"execBulkLoad"} -> Payload(c)

\* What the server answers the message b with, if it is to answer with a script
Response(c, tokens, b) ==
    CASE c.kind \in LoginKinds -> IF SaysTheLogin(c, b) THEN tokens ELSE Rejection
      [] c.kind = "execBulkLoad" -> IF BulkLoadSays(c.bulk, c.told, b) THEN tokens ELSE Rejection
      [] c.kind = "execSqlBatch" ->
         IF /\ Part(b, 0, 22) = AllHeaders
            /\ FromUcs2(Part(b, 22, Len(b))) = c.sqlTextOrProcedure
         THEN tokens ELSE Rejection
      [] OTHER -> CHOOSE echoed \in {IF received.enough THEN EchoOf(received.value, c.collation) ELSE Rejection :
                            received \in {ReceivedCall(b)}} : TRUE

\* A call, the script of its response, and the response: none if a value is refused
Exchange(c, tokens) ==
    LET refused == c.kind \notin LoginKinds /\ IsRefused(c)
    IN  [call |-> c, script |-> tokens, refused |-> refused,
         response |-> IF refused THEN <<>>
                      ELSE CHOOSE bytes \in {ServerBytes(Response(c, tokens, b)) : b \in {Message(c)}} : TRUE]

-----------------------------------------------------------------------------
(* The parser *)

NoPLP == [expected |-> 0, data |-> <<>>, chunkLength |-> 0]

NewRequest ==
    [canceled |-> FALSE, error |-> "none", errors |-> 0, rst |-> <<>>, rows |-> <<>>,
     rowCount |-> 0, status |-> <<>>, events |-> <<>>, notices |-> <<>>,
     tdsVersion |-> Null, routing |-> Null]

\* A call is refused if a value is; else it is sent, and the server answers.
MakeRequest ==
    IF Exchanges[exchange].refused
    THEN incoming = <<>> /\ ended = TRUE /\ request = [NewRequest EXCEPT !.error = "EPARAM"]
    ELSE incoming = Exchanges[exchange].response /\ ended = FALSE /\ request = NewRequest

Init ==
    /\ exchange \in DOMAIN Exchanges
    /\ MakeRequest
    /\ buffer = <<>> /\ position = 0 /\ colMetadata = <<>>
    /\ at = "type" /\ tokenType = 0 /\ waited = FALSE
    /\ parts = <<>> /\ columnCount = 0 /\ parameter = Column(Null_)
    /\ bitmap = <<>> /\ plp = NoPLP
    /\ crashed = FALSE

\* The bytes from `position` on are kept, and a chunk is added to them.
WaitForChunkKeepsPosition ==                        \* fault: as if the buffer only grew
    /\ ~crashed /\ incoming # <<>> /\ ~Attempt.enough
    /\ \E n \in ((1..MaxChunk) \cap (1..Len(incoming))) \cup {Len(incoming)} :
        /\ buffer' = SubSeq(buffer, position + 1, Len(buffer)) \o SubSeq(incoming, 1, n)
        /\ incoming' = SubSeq(incoming, n + 1, Len(incoming))
    /\ position' = position
    /\ waited' = (at # "type")
    /\ UNCHANGED <<exchange, colMetadata, at, tokenType, tokenVars, ended, crashed, request>>
WaitForChunk ==
    /\ ~crashed /\ incoming # <<>> /\ ~Attempt.enough
    /\ \E n \in ((1..MaxChunk) \cap (1..Len(incoming))) \cup {Len(incoming)} :
        /\ buffer' = SubSeq(buffer, position + 1, Len(buffer)) \o SubSeq(incoming, 1, n)
        /\ incoming' = SubSeq(incoming, n + 1, Len(incoming))
    /\ position' = 0
    /\ waited' = (at # "type")
    /\ UNCHANGED <<exchange, colMetadata, at, tokenType, tokenVars, ended, crashed, request>>

\* The parser goes on from what it has read.
Reads(read) == position' = read.offset
Same  == UNCHANGED <<exchange, incoming, buffer, ended, crashed>>

\* The token goes to the handler, and the parser to the next one.
Yield(token) ==
    /\ request' = Handled(request, token)
    /\ at' = "type"
    /\ waited' = FALSE
    /\ parts' = <<>> /\ bitmap' = <<>> /\ plp' = NoPLP

ReadType(read) ==
    /\ at = "type" /\ Reads(read)
    /\ tokenType' = read.value
    /\ at' = CASE read.value = Types.colMetadata -> "count"
               [] read.value = Types.row         -> "value"
               [] read.value = Types.nbcRow      -> "bitmap"
               [] read.value = Types.returnValue -> "parameter"
               [] OTHER -> "token"
    /\ Same /\ UNCHANGED <<colMetadata, tokenVars, waited, request>>

\* An environment change that is skipped is no token.  It is not yielded if it was
\* read at once; if the parser waited, it is a promise that is yielded, and the
\* handler looks for a name in the undefined that comes of it.
ReadSmallToken(read) ==
    /\ at = "token" /\ Reads(read)
    /\ IF read.value = NoToken
       THEN /\ crashed' = waited
            /\ at' = "type" /\ waited' = FALSE
            /\ UNCHANGED <<parts, bitmap, plp, request>>
       ELSE Yield(read.value) /\ UNCHANGED crashed
    /\ UNCHANGED <<exchange, incoming, buffer, ended, colMetadata, tokenType, columnCount, parameter>>

ReadColumnCount(read) ==
    /\ at = "count" /\ Reads(read)
    /\ columnCount' = read.value
    /\ at' = "column"
    /\ Same /\ UNCHANGED <<colMetadata, tokenType, parts, parameter, bitmap, plp, waited, request>>

ReadNextColumn(read) ==
    /\ at = "column" /\ ColumnsLeft /\ Reads(read)
    /\ parts' = Append(parts, read.value)
    /\ Same
    /\ UNCHANGED <<colMetadata, at, tokenType, columnCount, parameter, bitmap, plp, waited, request>>

ColumnsEnd ==
    /\ at = "column" /\ ~ColumnsLeft
    /\ colMetadata' = parts
    /\ Yield(Token(Types.colMetadata, [i \in 1..Len(parts) |-> <<parts[i].type.id, parts[i].colName>>]))
    /\ Same /\ UNCHANGED <<position, tokenType, columnCount, parameter>>

ReadBitmap(read) ==
    /\ at = "bitmap" /\ Reads(read)
    /\ bitmap' = [i \in 1..Len(colMetadata) |-> IsSet(read.value, i)]
    /\ at' = "value"
    /\ Same /\ UNCHANGED <<colMetadata, tokenType, parts, columnCount, parameter, plp, waited, request>>

ReadMetadataOfParameter(read) ==
    /\ at = "parameter" /\ Reads(read)
    /\ parameter' = read.value
    /\ at' = "value"
    /\ Same /\ UNCHANGED <<colMetadata, tokenType, parts, columnCount, bitmap, plp, waited, request>>

-----------------------------------------------------------------------------
(* Values, of a row or of a return value *)

AddValue(value) == parts' = Append(parts, value)
ValueSame == Same /\ UNCHANGED <<colMetadata, tokenType, columnCount, parameter, bitmap, waited, request>>

NullByBitmap ==
    /\ at = "value" /\ ValuesLeft /\ NextIsNull
    /\ AddValue(Null)
    /\ ValueSame /\ UNCHANGED <<position, at, plp>>

ReadPlainValue(read) ==
    /\ at = "value" /\ ValuesLeft /\ ~NextIsNull /\ ~IsPLPStream(NextColumn) /\ Reads(read)
    /\ AddValue(read.value)
    /\ ValueSame /\ UNCHANGED <<at, plp>>

ReadPLPLength(read) ==
    /\ at = "value" /\ ValuesLeft /\ ~NextIsNull /\ IsPLPStream(NextColumn) /\ Reads(read)
    /\ IF read.value = PLP_NULL
       THEN AddValue(Null) /\ UNCHANGED <<at, plp>>
       ELSE /\ plp' = [NoPLP EXCEPT !.expected = read.value]
            /\ at' = "chunkLength"
            /\ UNCHANGED parts
    /\ ValueSame

ReadChunkLength(read) ==
    /\ at = "chunkLength" /\ Reads(read) /\ read.value # 0
    /\ plp' = [plp EXCEPT !.chunkLength = read.value]
    /\ at' = "chunk"
    /\ ValueSame /\ UNCHANGED parts

ReadChunk(read) ==
    /\ at = "chunk" /\ Reads(read)
    /\ plp' = [plp EXCEPT !.data = @ \o read.value]
    /\ at' = "chunkLength"
    /\ ValueSame /\ UNCHANGED parts

\* The parser fails if the chunks are not as long as the length said.
PLPEnds(read) ==
    /\ at = "chunkLength" /\ Reads(read) /\ read.value = 0
    /\ crashed' = (plp.expected \notin {UNKNOWN_PLP_LEN, Len(plp.data)})
    /\ AddValue(PLPValue(NextColumn, plp.data))
    /\ plp' = NoPLP
    /\ at' = "value"
    /\ UNCHANGED <<exchange, incoming, buffer, ended, colMetadata, tokenType, columnCount, parameter,
                   bitmap, waited, request>>

ValuesEnd ==
    /\ at = "value" /\ ~ValuesLeft
    /\ Yield(Token(tokenType, IF tokenType = Types.returnValue
                         THEN <<parameter.colName, parameter.type.id, parts[1]>> ELSE parts))
    /\ Same /\ UNCHANGED <<position, colMetadata, tokenType, columnCount, parameter>>

-----------------------------------------------------------------------------
(* The end of the message, and the program *)

End ==
    /\ ~crashed /\ ~ended /\ at = "type" /\ incoming = <<>> /\ position = Len(buffer)
    /\ ended' = TRUE
    /\ UNCHANGED <<exchange, incoming, parserVars, crashed, request>>

Cancel ==
    /\ ~IsLogin /\ ~request.canceled /\ ~ended
    /\ request' = [request EXCEPT !.canceled = TRUE]
    /\ UNCHANGED <<exchange, incoming, parserVars, ended, crashed>>

Parse ==
    \E read \in {Attempt} : ~crashed /\ read.enough /\
        (\/ ReadType(read) \/ ReadSmallToken(read) \/ ReadColumnCount(read)
         \/ ReadNextColumn(read) \/ ColumnsEnd \/ ReadBitmap(read)
         \/ ReadMetadataOfParameter(read) \/ NullByBitmap \/ ReadPlainValue(read)
         \/ ReadPLPLength(read) \/ ReadChunkLength(read) \/ ReadChunk(read)
         \/ PLPEnds(read) \/ ValuesEnd)

Next == WaitForChunk \/ Parse \/ End \/ Cancel

\* The server sends its whole response, and the event loop runs the parser.  At most
\* one of these actions is enabled.
Spec == Init /\ [][Next]_vars /\ WF_vars(Parse \/ End \/ WaitForChunk)

-----------------------------------------------------------------------------
(* Properties *)

\* The parser's state is well formed: it stays within the buffer, and the values it
\* has are never more than the columns it knows (buffer and position of
\* stream-parser.ts, colMetadata).
TypeOK ==
    /\ exchange \in DOMAIN Exchanges
    /\ incoming \in Seq(Byte) /\ buffer \in Seq(Byte)
    /\ position \in 0..Len(buffer)
    /\ at \in {"type", "token", "count", "column", "parameter", "bitmap", "value",
               "chunkLength", "chunk"}
    /\ at # "type" => tokenType \in {Types[t] : t \in DOMAIN Types}
    /\ tokenType \in RowTypes /\ at # "type" => Len(parts) <= Len(colMetadata)
    /\ bitmap # <<>> => Len(bitmap) = Len(colMetadata)
    /\ waited \in BOOLEAN /\ ended \in BOOLEAN /\ crashed \in BOOLEAN
    /\ request.error \in IF IsLogin
                         THEN {"none", "ELOGIN", "transient", "ETDS", "EINTERFACENOTSUPP", "not acknowledged",
                               "extra data", "unknown feature", "not requested"}
                         ELSE {"none", "EPARAM", "request", "aggregate", "unknown"}

\* What the program is told of a token of the script
Told(token) ==
    CASE token.type = Types.colMetadata ->
            [i \in 1..Len(token.data) |-> <<token.data[i].type.id, token.data[i].colName>>]
      [] token.type \in RowTypes -> [i \in 1..Len(token.data) |-> token.data[i].value]
      [] token.type = Types.returnValue ->
            <<token.data.name, token.data.type.id, token.data.value>>
      [] token.type \in Notices -> token.data.value
      [] OTHER -> token.data

EventTokens ==
    SelectSeq(script, LAMBDA token : ~IsLogin /\ token.type \notin Notices \cup {Types.returnStatus})
NoticeTokens == SelectSeq(script, LAMBDA token : token.type \in Notices)
RowsSinceDone(tokens, i) ==
    LET done == {0} \cup {j \in 1..(i - 1) : tokens[j].type \in DoneTypes}
        last == CHOOSE j \in done : \A k \in done : k <= j
        rows == SelectSeq(SubSeq(tokens, last + 1, i - 1), LAMBDA token : token.type \in RowTypes)
    IN  [r \in 1..Len(rows) |-> Told(rows[r])]

IsEvent(event, tokens, i) ==
    /\ event.type = tokens[i].type
    /\ event.data = Told(tokens[i])
    /\ event.rst = IF event.type \in DoneTypes THEN RowsSinceDone(tokens, i) ELSE <<>>

\* However the bytes of a response are cut into chunks, and whenever the request is
\* canceled, its events tell the first tokens of the response, and all of them when the
\* response has ended: every value in its column, with the rows of its own statement.
\* A value that was given as a parameter is told as it was given, but for what its type
\* does not keep (the data types, rpcrequest-payload.ts, value-parser.ts, the retries of
\* the token parsers, RequestTokenHandler).
EventsAreTheResponse ==
    LET tokens  == EventTokens
        notices == NoticeTokens
    IN  /\ Len(request.events) <= Len(tokens) /\ Len(request.notices) <= Len(notices)
        /\ \A i \in 1..Len(request.events) : IsEvent(request.events[i], tokens, i)
        /\ \A i \in 1..Len(request.notices) :
              request.notices[i] = Token(notices[i].type, Told(notices[i]))
        /\ ended => Len(request.notices) = Len(notices)
        /\ ended /\ ~request.canceled => Len(request.events) = Len(tokens)

\* What a login has learnt from its response: the version of the acknowledgement, if it
\* has one that it may have, the error that came last, and the server it is sent to.
LoginOutcome ==
    LET notices == NoticeTokens
        told(t) == {i \in 1..Len(notices) : notices[i].type = t}
        faults  == {0} \cup {i \in 1..Len(notices) : notices[i].data.error # "none"}
        fault   == CHOOSE i \in faults : \A j \in faults : j <= i
        acks    == {i \in told(Types.loginAck) : notices[i].data.error = "none"}
        routes  == {i \in told(Types.envChange) : notices[i].data.value[1] = ROUTING_CHANGE}
    IN  /\ request.error = IF fault = 0 THEN "none" ELSE notices[fault].data.error
        /\ acks = {} => request.tdsVersion = Null
        /\ \A i \in acks : request.tdsVersion = Told(notices[i])[2]
        /\ routes = {} => request.routing = Null
        /\ \A i \in routes :
              LET to == Told(notices[i])[2]
                  host == request.routing[2]
              IN  /\ request.routing[1] = to[1] /\ Backslash \notin {host[k] : k \in 1..Len(host)}
                  /\ to[2] = host \/ IsPrefix(host \o <<Backslash>>, to[2])

\* What the callback of a request that was not canceled is given: an error exactly if a
\* value of the call is not valid or the server reported one, and the rows and the
\* number of rows of all statements (validateParameters, and request.error, rowCount and
\* rows in handler.ts and onEndOfMessage).  What a login is given, if its messages said
\* what the options say (the login payloads, Login7TokenHandler).
OutcomeIsTheResponse ==
    /\ ended /\ IsLogin => LoginOutcome
    /\ ended /\ ~IsLogin /\ ~request.canceled =>
        LET of(t) == SelectSeq(script, LAMBDA token : token.type = t)
            rows  == SelectSeq(script, LAMBDA token : token.type \in RowTypes)
            done  == SelectSeq(script, LAMBDA token : token.type \in DoneTypes)
            failed == \E i \in 1..Len(done) :
                         done[i].type # Types.doneInProc /\ done[i].data.sqlError
        IN  /\ request.error = CASE script = <<>> -> "EPARAM"
                                 [] Len(of(Types.error)) > 1 -> "aggregate"
                                 [] Len(of(Types.error)) = 1 -> "request"
                                 [] OTHER -> IF failed THEN "unknown" ELSE "none"
            /\ request.rows = [i \in 1..Len(rows) |-> Told(rows[i])]
            /\ request.rowCount =
                FoldSeq(LAMBDA token, n : n + (IF token.data.rowCount = NoCount THEN 0
                                               ELSE token.data.rowCount), 0, done)

\* Every response is read to its end: no parser waits for a byte that is not part of
\* its token, and none fails (NotEnoughDataError and waitForChunk, stream-parser.ts).
ResponseIsRead == <>ended

=============================================================================
