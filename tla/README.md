# A formal model of tedious

tedious is a client for the TDS protocol of SQL Server, written for Node.js.
This directory holds TLA+ modules that model its protocol logic, the TLC
configurations that check them on small instances, and proofs that hold for
every instance. Paths are relative to the root of the repository, which is
mounted as `src/` (so the sources themselves are under `src/src/`).

Contents: 1 the system; 2 the modules; 3 how they correspond to the code;
4 the runs, their bounds and fairness; 5 what is proved; 6 where the code
departs from what it says; 7 what is not modelled; 8 the plan.

## 1. The system

| component | state | operations | interacts through |
|---|---|---|---|
| Request execution (`connection.ts` from `makeRequest` on, `request.ts`) | `state`, `closed`, `request`, request and cancel timers, `resetConnectionOnNextRequest`; on each Request `canceled`, `paused`, `error` and its listeners | `makeRequest`, `cancel`, `reset`, `close`, `Request.cancel/pause/resume`, timers, socket events | events of Request, `MessageIO`, the token parser |
| Connection establishment and login (`connection.ts`, `token/handler.ts`) | `state`, connect and retry timers, `routingData`, `curTransientRetryCount`, `loginError` | `connect`, the states INITIALIZED to LOGGED_IN, REROUTING, TRANSIENT_FAILURE_RETRY | promises (instance lookup, connector, TLS, `getToken`), timers, the token handlers |
| Connector (`connector.ts`) | the sockets being tried | `connectInParallel`, `connectInSequence`, `lookupAllAddresses` | a promise, an AbortSignal |
| Instance lookup (`instance-lookup.ts`, `sender.ts`, `utils/with-timeout.ts`) | retries left, one timer per attempt, sockets of the sender | `instanceLookup`, `sendInParallel` | a promise, an AbortSignal |
| Message framing (`incoming-message-stream.ts`, `outgoing-message-stream.ts`, `packet.ts`, `message-io.ts`) | buffered bytes, the current message, packet ids | split into packets, reassemble, back pressure, TLS handshake | Node.js streams |
| Token stream (`token/`) | the buffer and the position in it, the columns of the result, what was read of the token so far | incremental parsing, one handler per state of the connection | chunks of a message, async iteration, pause and resume |
| Configuration and session settings (`connection.ts`) | `this.config`; the settings of the session at the server | the constructor, `getInitialSql`, `sendInitialSql`, `reset`, isolation levels | the initial SQL, `reset`, the begin of a transaction |
| Transactions (`transaction.ts`, `connection.ts`) | `inTransaction`, `transactionDescriptors`, `transactionDepth` | `beginTransaction` ... `transaction` | environment changes in the token stream |
| Bulk load (`bulk-load.ts`, `bulk-load-payload.ts`) | columns, `executionStarted`, `canceled`, `timer` | `addColumn`, `execBulkLoad`, the row transform | two requests on the connection |
| Prepared statements and parameters (`connection.ts`, `request.ts`, `rpcrequest-payload.ts`) | on each Request `handle`, `error`, `canceled`, `preparing`, its listeners, its parameters | `prepare`, `execute`, `unprepare`, `execSql`, `callProcedure` | events of Request |
| Data types, value and metadata parsers, buffers (`data-types/`, `value-parser.ts`, `metadata-parser.ts`, `tracking-buffer/`, `collation.ts`) | none but the tracking buffer's | codecs of values and of their types | called by the payloads and by the token parsers |
| Login payloads (`login7-payload.ts`, `prelogin-payload.ts`, `ntlm*.ts`) | none | codecs of the messages of a login | called by the login |
| Always Encrypted (`always-encrypted/`) | the cache of keys | encryption of parameters and values, metadata of keys | crypto, key vaults |

Everything runs on one thread: Node.js calls one callback at a time and
empties its queues of ticks and microtasks before it takes the next event. The
hard behaviours are therefore not data races but *orders of callbacks*:

- a request can be completed by its response, by a cancel, by the request or
  the cancel timer, by `close()` and by three socket events, in any order;
- a cancel means something else in each of four phases (the payload flows, the
  message is ended but not flushed, it is sent, the response is parsed), and
  each phase registers and removes listeners;
- an ATTENTION is answered by a message *of its own*, behind the response, so
  that the client has to know which message it is reading;
- what was received before `close()` still runs through the parser after it;
- promise continuations do not look at the state again;
- a chunk of a response may end anywhere, within a length or a character;
- the session of the server has settings that the client cannot see: what the
  initial SQL has set, requests, transactions and resets change;
- a value goes through five functions that each take its length, scale or
  precision from somewhere else, and comes back through two more.

What makes request execution correct: every accepted request has its callback
called exactly once, with a result that belongs to it; one runs at a time;
nothing of one (message, acknowledgement, listener, timer, reader) is there
when the next starts; a cancel for which an attention was sent never ends as a
success; everything ends, given what the code's timers promise.

Of the login: the promise of `connect` is kept exactly once, every way to fail
leads to FINAL with timers cleared, retries and reroutes are bounded. Of the
connector and the lookup: one winner, every other socket closed, one outcome.
Of the framing: what is written is what is read, whatever the chunks. Of the
transactions: depth and descriptor follow the server's, and what is reported is
what became durable. Of the settings: a session is as the configuration asks
after the login and after every reset, and a transaction has the isolation
level that was asked for it. Of the bulk load: rows only after the columns, one
callback for two requests, and an outcome that tells what the table holds. Of
the prepared statements: a call's outcome is its own, and a handle is one the
server made for the request. Of the token stream and everything below it: what
the program is told is what was sent, whatever the chunks, and a value that is
sent and returned is the value that was given.

## 2. The modules

| module | what it is |
|---|---|
| `RequestService` | abstract: executions are made one at a time, called back once, the one in progress at the latest when the connection ends |
| `RequestExecution` | the code: request execution on a logged in connection, down to the messages on the wire |
| `MCRequestExecution` | for TLC |
| `RequestExecutionProofs` | theorems about `RequestExecution`: the callbacks |
| `RequestWireProofs` | theorems about `RequestExecution`: the messages and what they say |
| `ConnectionLifecycle` | abstract: an attempt to connect ends once, well or badly; a connection is up after a good end only and down for good after a bad one |
| `ConnectionLogin` | the code: from `connect()` to LOGGED_IN or FINAL, with reroutes, retries, timers and `close()` |
| `MCConnectionLogin` | for TLC |
| `ConnectionLoginProofs` | theorems about `ConnectionLogin` |
| `AbortablePromise` | abstract: a promise with an AbortSignal settles once, with at most one socket left |
| `Connector`, `InstanceLookup` | the code: `connectInParallel`, `connectInSequence`; `instanceLookup` with `sendInParallel` and `withTimeout` |
| `Dialing` | both composed as `initialiseConnection` does, under one signal; implements `AbortablePromise` |
| `DialingProofs` | theorems about `Dialing` |
| `MessageChannel` | abstract: messages are handed over one at a time, in order, in full unless they are ignored |
| `MessageFraming` | the code: packets, streams, back pressure; implements `MessageChannel` |
| `MessageFramingProofs` | theorems about `MessageFraming` |
| `Transactions` | the code: nested transactions against a server that keeps them |
| `TransactionsProofs` | theorems about `Transactions` and `Session`, with `Configuration` |
| `Configuration` | the code: what the constructor makes of a configuration, and the initial SQL |
| `Session` | both composed: a connection from its configuration to its transactions, with the settings of the session |
| `MCSession` | for TLC: the configurations |
| `BulkLoad` | the code: the two requests of a bulk load and the streams that feed it |
| `BulkLoadProofs` | theorems about `BulkLoad` |
| `PreparedStatements` | the code: requests that are used again |
| `PreparedStatementsProofs` | theorems about `PreparedStatements` |
| `Bytes` | the code: numbers, texts, the tracking buffer, collations |
| `DataTypes` | the code: what each data type makes of a parameter |
| `ValueParser` | the code: how the type of a column and its values are read |
| `RpcRequest` | the code: the bytes of the calls; external: a server that decodes them |
| `BulkMessages` | the code: the SQL and the message of a bulk load; external: a server that decodes them |
| `LoginMessages` | the code: PRELOGIN, LOGIN7, NTLM, the tokens of a login; external: a server that takes them apart |
| `TokenStream` | the code: the parser of a response with its handlers, after any of these calls |
| `MCTokenStream` | for TLC: the exchanges |

`RequestExecution` starts where `ConnectionLogin` ends: its `Init` is a
connection in LOGGED_IN whose socket is up, with no timer and nobody reading,
which is what `ReadyForRequests` states of every connection that gets there.
Two modules rather than one, because the two parts share only `state`, `closed`
and the socket, and never run at the same time.

`Dialing` is what `ConnectionLogin` takes for a promise: its assumption that an
aborted attempt of the built-in connectors yields no socket is part of
`ImplementsPromise` there. `MessageFraming` is what `RequestExecution` takes for
a wire: whole messages, in order, with an ignore bit. `BulkLoad`,
`Transactions` and `PreparedStatements` take a request for its message and its
answer or acknowledgement, which is what `RequestExecution` provides. The byte
level is one tower, `Bytes`, `DataTypes`, `ValueParser`, `RpcRequest`,
`BulkMessages` and `LoginMessages` beside them, with `TokenStream` on top: the
lower modules have operators and no state, and one run sends what the encoders
write through a server and back through the parser.

## 3. How they correspond to the code

### RequestExecution

An action is one callback of the event loop with all the promise continuations
it leads to. Reading a message that is already in memory takes several
microtasks, some of which the code takes in another state handler; these steps
are actions of their own (`ReadResponse`, `ReadAcknowledgement`,
`Acknowledged`, `NotAcknowledged`), and `Urgent` keeps everything else from
happening before them.

| variables | code |
|---|---|
| `state`, `closed`, `request`, `requestTimer`, `cancelTimer`, `resetConnectionOnNextRequest` | the fields of Connection; `request` is the number of the execution rather than the object, so that two executions of one Request are told apart |
| `req[r]` | `canceled`, `paused`, `error` of a Request, and in `on` which of the connection's listeners are registered on it |
| `out` | the Message that `makeRequest` writes: payload still flowing (`streaming`) or ended and not flushed (`ending`), its ignore and reset bits |
| `reader`, `parser` | the enter handler that awaits `readMessage()`, and the token parser on the message read first |
| `socket`, `toServer`, `serving`, `incoming` | the wire; `incoming` holds what `IncomingMessageStream` has and nobody has finished reading |
| `made`, `exec[e]`, `crashed` | history: how each execution ended; the exception the code would throw |

| actions | code |
|---|---|
| `Execute`, `Reset` | `makeRequest`, with its two refusals, and `reset` |
| `PayloadEnds`, `PayloadFails`, `MessageFinishes` | the events of the payload stream and of the message |
| `UserCancel`, `ConnectionCancel`, `RequestTimerFires` | `Request.cancel`, `Connection.cancel` and `requestTimeout`, all through `Cancel`, which runs whichever of the three cancel listeners is registered |
| `CancelTimerFires` | `cancelTimeout` |
| `Pause`, `Resume` | `Request.pause`, `resume` and the listeners of SENT_CLIENT_REQUEST |
| `ReadResponse`, `ErrorToken`, `EndOfMessage`, `EndOfDrainedMessage` | SENT_CLIENT_REQUEST |
| `ReadAcknowledgement`, `Acknowledged`, `NotAcknowledged` | SENT_ATTENTION |
| `Close`, `SocketFails`, `SocketEnds`, `SocketCloses` | `close`, `socketError`, `socketEnd`, `socketClose` and FINAL |
| `Server...` | external: one response for each request message, which may arrive in two parts and hold an ERROR; one acknowledgement for each attention, after the response; in order |

Abstracted away: the rows and tokens of a response other than ERROR and the
end; the contents of a payload; the wording of errors (they are codes).

Two things the model leaves out on purpose. `AcceptRequest` has the guard
`out = NoMessage`: with `cancelTimeout` set it always holds (`QuietWhenLoggedIn`),
without it a second open message could be written. And the handlers of row and
error events, which the program supplies, are actions of the program
(`UserCancel`, `Close`, ...) that come between the callbacks, not inside one.

### ConnectionLogin

An action is again one callback with its continuations. What the code awaits
(the instance lookup, the connector, `wrapWithTls`, `startTls`, `getToken`,
`readMessage`) settles in an action of its own, later or never, so that every
timer, socket event and `close()` can come first.

| variables | code |
|---|---|
| `config` | the configuration: authentication, encryption, `instanceName` or port, whether `options.connector` is given |
| `state`, `closed`, `connectTimer`, `retryTimer`, `loginError`, `routingData`, `curTransientRetryCount` | the fields of Connection; a timer is armed or not |
| `attempt`, `token` | the promises of `initialiseConnection` and of `getToken` under way |
| `sock`, `ended`, `target` | `this.socket` (`destroyed`: destroyed, 'close' still to come), the end of its incoming stream, the server it goes to |
| `reader`, `parse`, `handler` | the enter handler that awaits a message, how much of it there is (`partial`, `whole`), what its tokens told the token handler |
| `outcome`, `connects`, `ends`, `closedEarly`, `reroutes`, `sentTo` | history: what the listener of `connect()` was told, how often 'connect' and 'end' were emitted, whether `close()` came while connecting, what servers asked for |

| actions | code |
|---|---|
| `Connect`, `LookupSucceeds`, `LookupFails`, `ConnectorConnects`, `WrapSucceeds`, `AttemptFails`, `AbortedAttemptFails` | `connect`, `initialiseConnection`, `connectOnPort`, `wrapWithTls`, `socketHandlingForSendPreLogin` |
| `PreloginAnswered`, `TlsNegotiated` | SENT_PRELOGIN with `startTls`, and `sendLogin7Packet` |
| `Login7Tokens`, `InitialSqlTokens` | what `Login7TokenHandler` and `InitialSqlTokenHandler` make of an answer |
| `LoginAcknowledged`, `LoginRouted`, `LoginChallenged`, `TokenRequested`, `LoginRetried`, `LoginFailed`, `InitialSqlProcessed` | the rest of the enter handlers of SENT_LOGIN7_WITH_STANDARD_LOGIN, _NTLM, _FEDAUTH and LOGGED_IN_SENDING_INITIAL_SQL, once the parser has ended, with REROUTING and TRANSIENT_FAILURE_RETRY |
| `TokenArrives`, `TokenFails` | the continuation of `getToken` |
| `ConnectTimerFires`, `RetryTimerFires` | `connectTimeout`, `retryTimeout` |
| `SocketFails`, `SocketEnds`, `SocketCloses`, `Close` | `socketError`, `socketEnd`, `socketClose`, `close` |

An answer is read in two steps, its tokens and the end of its parser, because
it may arrive in parts and because the program hears events (`infoMessage`,
`errorMessage`, `databaseChange`, ...) in between and may call `close()` from
them. An answer that is there as a whole is read to its end before anything
else happens (`Idle`), an answer of which a part is there may be overtaken.

Assumed of what is outside: a server gives one kind of answer at a time
(acknowledged, rerouted, challenged, told where to get a token, refused), a
challenge only to NTLM and the token authority only to a federated login; the
SET statements of the initial SQL have no result set (with one, the code would
close the connection and then report 'connect' as a success); an aborted attempt of the
built-in connectors settles with an error and yields no socket.

### Connector, InstanceLookup, Dialing

An action is one callback of a lookup, a socket, a timer or the signal, with
the continuations it leads to. `phase`, `count` or `addresses` (how many the
lookup of the name returned), `sock` or `sockets`, `heard` and `abortHeard`
(which listeners are there), `errors` or `errorCount`, and `i` of the loop of
the lookup are the variables of the two functions. `Start`, `LookupAnswers`,
`LookupFails`, `Connects`, `FailsInParallel`, `FailsInSequence`, `WinnerFails`,
`Abort` are the callbacks of `connector.ts`; `Attempt`, `Responds`,
`SocketFails`, `TimerFires`, `Throw`, `GoOn` those of `instance-lookup.ts` with
`sender.ts`. `dns.lookup` with `all: true` never gives an empty list, so there
is always one address. What the browser answers is reduced to whether the
instance is in it.

### MessageFraming

Two streams with what they hold (`bl`, `packets`, `chunks`, `held`) and when they ask
their source to wait. `MessageData` and `MessageEnd` are the 'data' and 'end'
listeners of `_write`; `ReadResumes` is `_read`; `ProcessPacket` is one turn of the
loop of `processBufferedData`, and `waiting` says for what it waits: a chunk,
the drain of the message, its end. `Pipe(TRUE)` is a packet with a broken
length. Bytes are numbered per message.

### Transactions

`Transaction`, `BeginTransaction`, `Work`, `Reset`, `EndTransaction` are the
program, which waits for each request; `TxDone` is the callback that
`transaction()` gives it; `Answer` reads a response with the environment
change of a transaction in it, one at most; `Server...` are external: a stack of transactions and savepoints with
the work in them. Since 7.2 the server sends environment changes for the
outermost transaction only; before it sends none and the connection counts.
The program stops working in a transaction that was rolled back under it.

`Cancel` is `onCancel` of `makeRequest`, or `_cancelAfterRequestSent`, for the
program or the request timer, in one of three `Ways`. "ignored": the message
goes out with the ignore bit, the server answers it without executing it
(`ServerSkips`), and the program is told an error. "unnoticed": so it is, but
the payload had ended, no error is left to be told, and the callback says that
the request is done. "sent": an attention follows the message; the server may have
executed the request before it (`ServerExecutes`) or not (`ServerSkips`), and the
program is told that it was canceled either way. A cancel may come at any time until the
answer, those with the ignore bit until the message is sent.

`strayed` marks that the program was told otherwise than the server did of a
transaction: a begin that was executed and told as canceled, a commit or a
rollback that was canceled and not executed (the helper only passes `txErr` on, or
tells that the commit was done), a begin or a savepoint that was ignored and told as done. It also marks a
connection before 7.2 that met what its depth does not follow (a response with
an error, a cancel, a transaction that ends inside another or by a reset).
`DoneIsDurable`, `FailedLeavesNothing` and `NothingLeftOpen` are claimed until
then, and section 6 says what becomes of them after; what the connection itself
believes (`DescriptorsAgree`) and the settings are claimed under all cancels
since 7.2, and only without `strayed` before (`Followed`). The histories say
what each call was told (`result`), which open calls it was made within
(`within`) and whose work became durable or was lost (`durable`, `lost`).
`doubt` has the work within a commit that was canceled or whose answer a lost
connection took: the program cannot know, and `FailedLeavesNothing` says nothing
of it. With `cancelTimeout: 0` an acknowledgement may be read for a response
(section 6); the module is about connections with a cancel timeout.

### Configuration, Session

A JavaScript value is its `typeof` and a number (`Value`). `Booleans`, `Flags`, `Texts`,
`Numbers` and `Levels` are the options by the check they go through, `HasType` and
`InRange` are the checks, `AcceptsOptions` and `AcceptsAuthentication` the
constructor up to the errors it throws, `Options`, `Default` and
`Authentication` what it keeps in `this.config`. `GetInitialSql` gives each statement
its place in the order of the source (`Order`), and leaves the place of one that is
not sent empty.

`Session` adds to `Transactions` the variables `config` (the argument), `built`
(`this.config`), `loggedIn` and `settings`, the session at the server. `Construct` is the
constructor, `SendInitialSql` the state LOGGED_IN_SENDING_INITIAL_SQL,
`ServerSets` a step of the server of `Transactions` with what it does to the
settings: the level of a begin (`BeginLevel`), the SET of a savepoint, the
initial SQL again after a reset, of which the last statement for a setting counts
(`Executed`). `ProgramSets` is a batch of the program. What
lies between, the login, is `ConnectionLogin`. A setting that is `Null` is
whatever the server has by itself. `Ask` keeps two histories: which settings the
program has changed since the last reset, and in which open calls another level
was asked for since, or their own was refused, or went with a begin that was
ignored and told as done. `ConfigurationAssumption` says of the arguments of the
constructor what JavaScript does: every option and credential is some value,
undefined where it was left out. It excludes no argument that the checks look at.

### BulkLoad

`TransformRow`, `InvalidRow`, `RowsEnd`, `RowsFail` are the callbacks of the row
stream and of `RowTransform`; `PipeChunk`, `PayloadEnds`, `PayloadFails`,
`MessageFinishes`, `IteratorCloses` those of the payload and its message, the last one a part of
Node.js that closes the iterator of a destroyed stream; `InsertAnswered` is the
callback of the INSERT BULK request, which makes the second, and whose own
payload and message are `InsertFlows`. The server answers a bulk message when it has all of it.

A cancel does what it does in each phase of the message. While the payload flows
(`CancelStreaming`, `CancelInsert`) the payload stream is destroyed and the message ends with
the ignore bit; `request.error` is set by the 'error' event of that stream, which
for the rows comes only when the iterator of the row transform could be closed
(`IteratorCloses`), and then the answer may have come already. Between the end of the payload
and 'finish' of the message (`CancelEnded`) the ignore bit is set and no error
follows. After 'finish' (`CancelSent`) an attention goes out. The request timer
(`RequestTimeout`) cancels in the same way and then sets the error itself, in
every phase.

### PreparedStatements

One call at a time per request and any number of requests, of which one is
active on the connection. Of its message, `message` says whether the payload
flows, has ended, or is sent, which is what a cancel depends on: an error by
the payload stream, none, or that of the acknowledgement (`CancelMessage`,
`Completes`); the server does not do a message that it is to ignore
(`ServerIgnores`). `unheard` marks a call that was canceled where no error is told.
`listeners` counts the 'returnValue' listeners that
`prepare()` adds and nothing removes before the request ends its preparation;
`suspect` marks a request with a call before this one that failed, or an output heard by such a
listener, of which an old error may be told again (section 6). The server never
uses a handle twice. With `"handle"` in `OutputNames`, that is an output parameter of this
name, a late listener would overwrite `request.handle`: see section 6.

### Bytes to TokenStream

A message is a sequence of bytes. A parser reads at a position and gives a
value and the next position, or not enough data (`Result`, `NotEnoughData`,
`Then`), like `Result` and `NotEnoughDataError` in `token/helpers.ts`.

| operators | code |
|---|---|
| `Read...`, `Write`, `Written`, `CollationToBuffer`, ... (`Bytes`) | `token/helpers.ts`, the tracking buffer with the gaps of its growing, `collation.ts` |
| `Validate`, `Declaration`, `ResolveLength`, `ResolvePrecision`, `ResolveScale`, `TypeInfo`, `ParameterLength`, `ParameterData` (`DataTypes`) | the methods of the same names in `data-types/*.ts`; types that differ in numbers only share a `kind` |
| `ReadMetadata`, `ReadValue` and below (`ValueParser`) | `metadata-parser.ts`, `value-parser.ts` |
| `execSql`, `prepare`, `execute`, `unprepare`, `Payload` (`RpcRequest`) | the calls of `connection.ts`, `rpcrequest-payload.ts`, `sqlbatch-payload.ts` |
| `AddedColumn`, `getBulkInsertSql`, `getColMetaData`, `RowToken`, ... (`BulkMessages`) | `bulk-load.ts` |
| `createOptions`, `extractOptions`, `Login7Payload`, `createResponse`, `parseChallenge`, `ReadLoginAck`, ... (`LoginMessages`) | `prelogin-payload.ts`, `login7-payload.ts`, `ntlm.ts`, `ntlm-payload.ts`, the token parsers of a login |
| `ReadType` to `ValuesEnd`, one action for each read that can be repeated (`TokenStream`) | the parsers of `token/` |
| `HandledByRequest`, `HandledByLogin` | `RequestTokenHandler`, `Login7TokenHandler` |

`WaitForChunk` is `Parser.waitForChunk`: the bytes before the position are
dropped, and the read that failed is tried again. How much is repeated differs
per token, and so do the actions: a small token begins again at its first byte,
columns at the column, rows at the value, PLP values at their chunk.

The server of these modules is a second implementation of the protocol,
written from the outside: it decodes a call by its type information, checks the
declarations of `sp_executesql` against it, and sends the parameters back as a
row or as return values; of a login it compares each field at its offset with
the options of the connection. It answers with an error if something does not
fit, which the exchange does not expect, so that a wrong byte shows as a
violation of `EventsAreTheResponse` or `OutcomeIsTheResponse`.

Abstracted: values are small (see bounds), a float is its bits, dates are days,
milliseconds and ticks in the time zone they are written in (`useUTC` and time
zones are left out), a code page is one of CP1252 and UTF-8, names are short, and the layouts are
those since TDS 7.2. Rows come as arrays and as `rowCollectionOnDone` and
`rowCollectionOnRequestCompletion` would collect them; `useColumnNames` and
column name replacers are left out. `pause()` is in `RequestExecution`. The
hashes, the nonce and the time of NTLM are external; the NTLM challenge and the
response to it are two exchanges, of which the second starts from the challenge.

## 4. The runs

| run | instance | shows |
|---|---|---|
| `request_timed` | 1 user request, 1 reset request, 2 executions, both timeouts; 0.2 million states | four safety invariants, `AttentionIsBounded`, `CompletesWithServer` |
| `request_untimed` | the same, 3 executions, no cancel timeout; 1.8 million states | `ResetCarriesFlag`, implementation of `RequestService` |
| `login_promise` | all 36 configurations, 2 retries, 1 reroute; 0.2 million states | three safety invariants, implementation of `ConnectionLifecycle`, `ConnectSettles` |
| `dialing` | 3 addresses, 4 attempts of the lookup; 1500 states | `AddressesAccountedFor`, implementation of `AbortablePromise`, `DialingSettles` |
| `framing` | 2 messages of up to 2 bytes, headers of 2, packets of 3 and 4; 0.1 million states | `TruncatedIsMarked`, `WellPacked`, implementation of `MessageChannel`, `Arrives` |
| `transactions` | 12 configurations; 3 transactions, 2 deep, 2 requests that work, resets or cancels, TDS 7.1 and 7.2; 3.0 million states | `AcceptedIsUsable`, `SettingsAsAsked`, `IsolatedAsAsked`, `DescriptorsAgree`, `DoneIsDurable`, `FailedLeavesNothing`, `NothingLeftOpen` |
| `bulk_load` | 3 rows, up to 2 columns; 5400 states | `OutcomeIsTheTable`, `CalledBack`, `RowStreamReleased` |
| `statements` | 2 requests, 4 calls; 2.1 million states | `OutcomeIsItsOwn`, `HandleIsPrepared` |
| `token_stream` | 97 exchanges, chunks of 1, 2 or all bytes; 0.1 million states | `EventsAreTheResponse`, `OutcomeIsTheResponse`, `ResponseIsRead` |
| `untimed_cancel_desync`, `transaction_left_open`, `unknown_env_change` | as small as shows it | three departures, see 6 |

### Bounds

Of request execution: `MaxExecs` caps the executions: what one execution can leave behind
for the next needs two, and the flag that a refused reset leaves in between needs three.
Without a cancel timeout an acknowledgement may be read for a response (6); what has to
hold even then is checked there, with the steps that only happen then
(`NotAcknowledged`), and the rest with both timeouts.
Requests are reused (that an object is executed twice is part of the code's
contract for prepared statements) and there are two objects, so that a canceled
one does not end the run: a canceled Request is refused for ever after. The
timeouts only matter as zero or not. The wire holds at most one request and
one attention per execution, so it needs no bound.

Of the login: `MaxRetries` is the option of the program; 2 lets a retry succeed,
fail and be used up, with reroutes before and after. `MaxReroutes` is the only
artificial bound: servers could reroute for ever, and the code has no limit.
One reroute followed by retries and two connections shows what is left over from
the first; what a second one needs (that `routingData` is set again) is the
same. The configuration is chosen in `Init`, so one run checks them all.

Of dialing: three addresses give a winner, a loser that failed and one that is
under way; `Retries` is 3 in the code.

Of the framing: packets hold one or two bytes, so that messages of 0, 1 and 2
bytes are empty, short, exactly full and more than one packet; the size may
change in between; a header of two may be cut. The high water marks are 1, so
that every stream says to wait as soon as it holds something.

Of the transactions: two deep is a savepoint in a transaction, three in all let
one follow another. `Cancelable` are the operations that may be canceled or
time out: in `transactions` all of them, in `transaction_left_open` the begin only,
so that the trace is about that. `MaxWork` counts the requests that work, the resets and the cancels
together: with 2, work is done and then a request around it is canceled, in each of the three
ways, or two requests are. A call gives no level or SERIALIZABLE; the
configurations have the others and NO_CHANGE as their defaults, so that two levels of
one nesting differ. Three of the twelve configurations are taken and go on
to transactions (all undefined, all null, all off with TDS 7.1), one more has
NTLM; the others are each refused for another reason. The program may change one setting.

Of the bulk load: with three rows and a transform that holds two chunks some
rows are sent, some are in the stream and some are not taken yet. A cancel of the
bulk load or of its INSERT BULK, a timeout and the loss of the connection come at any point, and in any order.

Of the statements: four calls are a preparation, two executions and what comes
after them, of one request or of two. Output parameters are not called
"handle" (section 6).

Of the bytes: the longest short value has 4 bytes or 2 characters instead of
8000 or 4000, so that the boundary to PLP values is met with texts of 2, 3, 4
and 5. Numbers are those of TLC, below 2^31: of larger columns the bytes beyond
the fourth are the sign, and the bounds of `bigint` and `money` are not met.
Decimals are in hundredths, of all four lengths by precision. Times with scale 7
are shortly after midnight, where
their count stays below 2^31. Every type has its limits, one beyond each (which is
refused), zero, null, undefined and, where there is one, a value with more
digits than its scale. A chunk has 1 byte, 2, or all that is left, so that
every position is the end of some chunk, also twice within one value.

Deadlock is not checked: what has ended, with nothing left to be executed, stops.

### The properties

`request_timed` and `request_untimed`:

- `QuietWhenLoggedIn`: in LOGGED_IN there is nothing on the wire, no reader, no
  parser, no timer. This is what keeps the responses of two requests apart;
- `AnsweredByOwnResponse`: the end-of-message that completes an execution is
  that of its own response;
- `AttentionIsHonoured`: after an ATTENTION the outcome is canceled, timed out
  or lost, never done;
- `ErrorIsReported`: an error of the server that was not told to ignore the
  request is not reported as success;
- `ResetCarriesFlag`: the request of `reset()` is the one with the reset bit;
- `ImplementsService`: executions are called back once, one at a time, and none
  is left when the connection ends;
- `AttentionIsBounded`, `CompletesWithServer`: see fairness.

`login_promise`:

- `ImplementsLifecycle`: the listener of `connect()` is told once; a connection
  is up only after success, and is not up again after it was lost. In the
  mapping LOGGED_IN is up whatever was reported before, so that a connection
  that comes back is a violation and not hidden; left aside (`LeftAside`) are
  those the program closed while connecting, of which only the outcome is
  promised, and those revived by a connector of the program, see 6;
- `FailureReleases`: a failure by timeout, lookup, connector,
  TLS, refused login or lost socket leaves no timer, attempt or open socket;
- `ReadyForRequests`: what `RequestExecution` assumes at its start;
- `GoesWhereSent`: `routingData` survives until the connection it is meant for,
  whatever lies between;
- `ConnectSettles`: an attempt to connect ends, with an answer or the timeout.

Some of these exempt `options.connector`, a function of the program that
nothing aborts.

`dialing`:

- `ImplementsPromise`: in whatever order the answers, errors, timers and the
  abort come, one outcome, every socket closed by then but the one it resolves
  with, and none opened later;
- `AddressesAccountedFor`: a socket that may still report an error has a
  listener for it, and an attempt fails when all addresses have failed, not
  before. The winner of `connectInParallel` keeps its listener; in
  `sendInParallel` the count is of events, and two of one socket count twice;
- `DialingSettles`: without help of the connect timer.

`framing`: `ImplementsChannel` and `Arrives` say that the reader gets each
message in order and in full, and gets it at all; `TruncatedIsMarked` that a
message of which bytes were dropped says so in its last packet; `WellPacked`
that packets are full but for the last, numbered, and of one size.

`transactions`: `DescriptorsAgree` between requests, under cancels of any
request. `DoneIsDurable` and
`FailedLeavesNothing` relate what the callbacks were told to what is durable at
the server, with savepoints and the transactions around them, and
`NothingLeftOpen` says that no transaction stays open once all have ended; the three
hold until the program is told otherwise than the server did (`strayed`), whatever is
canceled without that: work, resets, isolation levels, savepoints that were
set or not, begins that were not executed, commits and rollbacks that were.
`transaction_left_open` checks `DoneWorkIsDurable`, which is `DoneIsDurable` without that
exception, and finds it violated.
`AcceptedIsUsable` relates the checks of the constructor to what is done with
its result: one of port and instance name, credentials of the right type,
and initial SQL that the server can execute. `SettingsAsAsked`: whatever came
before, a session that is connected or reset has every setting of its
configuration, with null left to the server, but for those that the program has
changed since. `IsolatedAsAsked`: in an open transaction the level is that of the innermost
call that gave one, over savepoints, nested begins and failures.

`bulk_load`: `OutcomeIsTheTable` (success means every row in order, failure
none unless the server had all of it, a timeout is never a success), `CalledBack` once,
`RowStreamReleased`. The one success that is none is spelled out in the property: the program
canceled, the message was ignored, and the table is empty.

`statements`: `OutcomeIsItsOwn` (what is reported as done was done by the
server, unless it was canceled where no error is told, and only a call's own failure is reported, as long as no earlier one
left something behind), `HandleIsPrepared`.

`token_stream`: `EventsAreTheResponse` says, at every step and under every cut,
that the events so far are the first of the response and in the end all of
them; with parameters that are sent and returned, that a value comes back as it
was given, but for what its type does not keep, which the exchange says.
`OutcomeIsTheResponse` is about the callback, and about what a login has
learnt. `ResponseIsRead`: no parser waits for a byte that is not part of its
token.

### Fairness

Fairness of `login_promise` (`FairSpec`): an answer that is there is read to its end
(weak fairness), a timer that is armed fires and a destroyed socket emits
'close' (strong fairness: other callbacks may come in between any number of
times, but each is taken from its queue in turn). Neither the network, nor the
servers, nor the program, nor any promise has to do anything: `ConnectSettles`
is what the timers alone guarantee.

Fairness of `request_timed`. `ClientRuns`: the event loop runs the callbacks of the parser and the
reader that are ready (weak fairness of the two kinds of step). `TimersFire`: a timer
that stays armed fires. `MessagesFlow`: a payload ends, and a message that was ended is
flushed; a socket that takes nothing any more is covered by the cancel timer
only after 'finish', see 6. None of these lets the program do anything, nor
the peer. `AttentionIsBounded` holds under these alone: the cancel timer bounds the
attention even if the server is silent. `CompletesWithServer` states what it
needs as its antecedent: a server that goes on (`ServerRuns`) and a program
that resumes what it pauses and does not alternate pause and resume so fast that the
parser never runs (`ProgramResumes`, hence the strong fairness of the parser's steps in it).

Fairness of `dialing`: the name of a server is looked up, with one result or
the other, each TCP socket connects or fails, and the timer of an attempt fires;
neither the browser nor the connect timer has to do anything. Of `framing`: the
event loop calls back, the socket takes packets and delivers bytes, and the
reader of a message reads it; nothing is assumed of the program that writes. Of
`bulk_load`: the row stream goes on while it is read from, streams and callbacks
run, and the server answers what it has in full. Of `token_stream`: the server
sends the whole response and the event loop runs the parser.

## 5. What is proved

`RequestExecutionProofs` proves, for every set of requests, any number of
executions and any timeouts (from `RequestAssumption` and `BoundAssumption`
only):

- `TypeCorrect`: `Spec => []TypeOK`;
- `AtMostOnce`: `Spec => []CalledBackAtMostOnce`;
- `NothingLeftPending`: `Spec => []NothingPendingOnceClosed`;
- `Implementation`: `Spec => ImplementsService`, the refinement of
  `RequestService`.

They rest on one inductive invariant, `IndInv`, of four parts:

- `TypeOK`;
- `Bookkeeping`: `this.request` is the only execution made that has not been
  called back, and there is one only on a connection that is up. This is what
  the theorems follow from, but the steps that complete a request need to know
  that they happen with the right one in place, hence
- `OneReader`: at most one of a reader and a parser is active, except that
  SENT_ATTENTION waits while the response in front of it is drained; and an
  `onEnd` listener on a parser means that no reader waits. Without it
  `EndOfMessage` could go to LOGGED_IN under a waiting reader, which would then
  complete a request that is not there;
- `CancelReachesParser`: the third cancel listener is registered only while the
  response is parsed. Without it a cancel could start a second reader.

`NextBookkeeping`, `NextOneReader` and `NextCancelReachesParser` take one step
per action; lemmas like `CancelEffect` and `ShutdownHistory` state what a
helper does to the fields a part is about, so that each action cites one of
them. `IndInv` was first checked by TLC. `StepOfService` maps each action
to a step of `RequestService` or to a stutter.

`RequestWireProofs` goes on to what is on the wire. For any requests, executions
and timeouts:

- `ResetFlagSent`: `Spec => []ResetCarriesFlag`, with `MessageKnown` (the message
  that is written belongs to an execution made, and only its Request listens for
  a cancel of it) and `ResetsFlagged`;

and, if `CancelTimeout > 0`:

- `NothingLeftOfARequest`: `Spec => []QuietWhenLoggedIn`;
- `OwnResponse`: `Spec => []AnsweredByOwnResponse`;
- `AttentionHonoured`: `Spec => []AttentionIsHonoured`;
- `ErrorReported`: `Spec => []ErrorIsReported`.

The hypothesis is the code's default (`DEFAULT_CANCEL_TIMEOUT`, 5000) and cannot
be dropped: with `cancelTimeout: 0` all four fail (section 6,
`untimed_cancel_desync`).

The invariant, `WireInv`, adds to `IndInv` that on a connection that is up a
request is in one of the `Phases`: `Sending`, `Awaiting`, `Parsing`, `Draining`,
`AwaitingAck`, `ReadingAck`, or there is none (`Quiet`). A phase fixes the state,
the reader, the parser, the listeners of the Request, and the stages that the
messages under way can be in (`Underway`, `Served`, `Answering`, `Answered`,
`AnsweredTwice`, `OnlyAttention`, `OnlyAck`). `QuietWhenLoggedIn` by itself is not
inductive: that nothing is left at the end of a response depends on how many
messages each earlier step left under way. Each phase has a lemma for
each step it takes (`CanceledWhileParsing`, `ResponseEnded`, `AttentionOver`, ...), and
`StepKinds` says that every other step closes the connection or leaves the
request alone (`Unaffected`). On the phases rest `History` (what is written of an
execution is consistent with its outcome), `ReadersKnown` (what is read or
written goes on for an execution that is not done) and `ErrorKept` (the error of
the Request remembers the ERROR token until the callback). TLC checked all of
them first, for two user requests and for one with `reset()`.

`ConnectionLoginProofs` proves, for every set of configurations and any
`MaxRetries` and `MaxReroutes` (from `ConfigAssumption` and `LimitAssumption`), each
invariant that `login_promise` checks and the refinement:

- `TypeCorrect`, `FailedForGood`, `ConnectEventOnce`, `FailureReleasesAll`,
  `LoggedInIsReady`, `RoutesKept`, `RetriesEnd`, `EndEventOnce`;
- `Implementation`: `Spec => ImplementsLifecycle`.

The inductive invariant `LoginInv` says that one thing at a time leads on: an
attempt, the retry timer, a token asked for or an answer that is read
(`OneThingInv`). Only the bound of the retries can do without it: a failure is
final because what could still log in is one of these four, and each of the
actions that report a failure ends the one that is there. The other parts say what
`closed` implies (`ClosedInv`: the timers were cleared then), whom an answer is
read for (`ReaderInv`), what is left once the outcome is known (`OutcomeInv`) or not
known (`PendingInv`), and keep the counts (`RetryInv`, `RouteInv`, `EventsInv`).
`NextLoginInv` takes one step per action; TLC checked every part first.
`StepOfLifecycle` cites `StateUnderway` (whatever may lead on belongs to an
attempt, as long as its outcome is open) and one of three lemmas for most actions: the program sees
nothing of the step (`Unseen`), the attempt fails or its failure is not heard
any more (`Failing`), or the connection ends afterwards (`Ending`).

`DialingProofs` proves, for any number of addresses and of attempts (from
`AddressAssumption` and `RetryAssumption`):

- `TypeCorrect` and `AddressesKept`, the two invariants that `dialing` checks;
- `Implementation`: `Spec => ImplementsPromise`.

That the connector gives up with the last address and not before rests on what it does
not count: in parallel the errors and the listeners that are left add up to the
addresses (`ParallelInv`), in sequence the one address that is listened to
comes after those that have failed (`SequenceInv`). `SocketInv` and `PhaseInv`
say that sockets are tried while the connector is connecting, that one at most
is open and then it has resolved, and that it hears the signal exactly while it
is looking up or connecting; `LookupInv` that the lookup has sockets only while it
sends, and neither sends nor looks up under a signal that has aborted.
`InvShape` reads off what the promise looks like in such a state, and
`LookupKeeps`, `DialKeeps` and `AbortKeeps` what a step does to a settled one.

`TransactionsProofs` proves, for any number of transactions and any depth (from
`VersionAssumption`, `LevelAssumption` and `BoundAssumption`):

- `TypeCorrect`: `Spec => []TypeOK`;
- `ConnectionAgrees`: `Spec => []DescriptorsAgree`, whatever is canceled;
- `NoneLeftOpen`: `Spec => []NothingLeftOpen`,
- `WorkIsDurable`: `Spec => []DoneIsDurable` and
- `NothingFailedIsDurable`: `Spec => []FailedLeavesNothing`, whatever is canceled, in
  whichever way. There is no hypothesis on `Cancelable`. What the code does not give
  is in the properties, which claim nothing once the program was told otherwise than the server did
  (`strayed`): a begin that times out may leave its transaction open, and so may a commit
  (section 6, `transaction_left_open`);
- `SessionIsTransactions`: `SessionSpec => Spec`, so that the five hold for the
  specification that the run checks;

and of the session, whatever may be canceled (from `ChangedAssumption` and
`ConfigurationAssumption` as well), for any configurations:

- `SessionTypeCorrect`: `SessionSpec => []SessionTypeOK`;
- `AcceptedCanBeUsed`: `SessionSpec => []AcceptedIsUsable`;
- `SettingsAreAsAsked`: `SessionSpec => []SettingsAsAsked`;
- `LevelIsAsAsked`: `SessionSpec => []IsolatedAsAsked`.

None of the properties is inductive, since what the connection believes and
what the server has differ while a response is under way. `AgreeInv` says how. The
shape of the program's nested calls is `IndInv` (`FramesInv`, `RequestInv`,
`SavepointInv`, `DepthInv`: which request is for which frame). `SinceInv` compares the server
with the descriptors as they will be once the response under way is read
(`DescriptorsAfter`, `InTransactionAfter`). `CountInv` bounds the server's
transactions by the frames that have a begin of their own (`Count`), less the one
whose begin or end the server has not executed or the program not heard of
(`Pending`), as long as that is only a matter of time (`Claim`: connected and not
`strayed`), and adds that the outermost frame named the transaction and that
all savepoints are younger: without it a rollback to a name could hit the wrong
one. `BeforeInv` has equality before 7.2, where the connection counts by itself.

That the server has no more transactions than the program is not enough for what becomes of work:
as long as there is a transaction, every frame with a begin has its own, so that
`CountInv` has equality there. On top of it `FateInv` follows the work, from the log of the
server to durable or lost:

- `WithinInv`: a call is within those that were open when it was made, the frames
  from the outermost to its own, and none of these has been told anything yet;
- `MarksInv`: the log up to the mark of a savepoint has no work of its frame, and after the
  mark, while the frame is open, nothing else. A rollback to the savepoint
  therefore takes back what was done within the frame, no more and no less;
- `SavesInv`: every nested call has its savepoint at the server, but for one that
  is being set or was refused;
- `AnswerInv` and `LogInv`: without a connection everything fails, a commit that is not
  skipped fails only where there is no transaction, and what the server has not committed belongs to
  the transaction that is open;
- `LostInv`: work is lost only within a call that has failed or is bound to. The
  loss comes first (a rollback that the server did, a transaction rolled back under the program, the
  network) and the callback later, over any number of steps, which is why `Failing` looks
  ahead: a call whose rollback is under way, and the outermost one once its
  transaction is gone without a commit;
- `FailedInv`: the reverse, no work within a call that was told it failed is durable
  or can become so, unless in doubt.

Of the session, `BuiltInv` says that what was built is what the constructor makes
of a configuration that it took. What it takes is a matter of cases over the
options: `OptionOfSetting` and `SettingCanBeSet` go through the kinds of settings,
`InitialSqlIsLegal` and `InitialSqlSets` conclude that the server refuses no
statement of the initial SQL and that every setting has its value after it, since
each has one place in the order. `SettingsInv` keeps that over requests and resets.
`IsolationInv` says of the level what
`IsolatedAsAsked` does, but while requests are under way as well: the level
of the innermost call that gave one is set, or superseded, or that call is the
innermost of all and its request is not answered, or was refused or ignored (`Unset`).
`SupersededInv` makes that inductive when calls end: a call that becomes the
innermost to have given a level was superseded by the one that ended.
`AskedInv` says that a level under way counts as a change of the setting. The
transactions enter by `AgreeInv`, through `SessionIsTransactions`: a server that
had no transaction gets one only by the begin of the outermost call (`FirstBegins`).

Proved and no longer checked by a run, since the theorems hold for all
instances: `CalledBackAtMostOnce`, `NothingPendingOnceClosed`, `FailureIsFinal`,
`CompletedOnce`, `EndedOnce`, `RetriesBounded`, and the type invariants of
`RequestExecution`, `ConnectionLogin` and `Dialing`.

`PreparedStatementsProofs` proves, for any requests and any number of calls (from
`NoneAssumption` and `BoundAssumption`):

- `TypeCorrect`: `Spec => []TypeOK`;
- `ToldItsOwn`: `Spec => []OutcomeIsItsOwn`;
- `KeepsItsHandle`: `Spec => []HandleIsPrepared`, if no output parameter is named
  `handle`. It cannot be dropped: a listener that `prepare()` left behind would take
  such a value for the handle (section 6).

Since no call resets `request.error`, that an error belongs to the call it is told of needs to
say of every error where it came from (`ErrorInv`: the program has been told of
it or is about to be, the request is marked, or the server's response to the call under way has it,
or its payload had it and the message is ignored). `AnswerInv` is the reverse: a response without
an error, and without an attention, is to a call that was done or that is `unheard`.
`PendingInv` says that a request waits for one thing and that it is told by the
event exactly when it is prepared; `HandleInv` that handles are not shared, so
that unpreparing one request leaves the handles of the others open.

`BulkLoadProofs` proves, for any number of rows, columns and chunks that the
transform holds (from `SizeAssumption`):

- `TypeCorrect`: `Spec => []TypeOK`;
- `ToldWhatIsInTheTable`: `Spec => []OutcomeIsTheTable`;
- `CalledBackOnce`: `Spec => []CalledOnce`, the part of `CalledBack` that is a
  safety property: the callback is not called twice, and not while a request of
  the bulk load is under way.

What a message holds when it ends depends on every row before. `ContentInv` says it
at any time: what was piped and what is still in the transform, one after the
other, is the metadata, the rows that the program gave, in order, and DONE once
there are no more. A row that is added at the back (`HoldsMore`) and a chunk that is
piped from the front (`Piped`) both keep it, and `MessageWhole` reads off that a
message that is ended without the ignore bit is all of it. `StartInv` says when the
transform ends: with the row stream and not before. `MessageInv` says that a message has
the ignore bit only if the request has an error, which the callback is told, or was canceled,
and `TableInv`
says what the server has done by the time it answers; a message that is open
or ignored has never reached the table. `OutcomeInv` is inductive only because no
request is under way any more when the callback was called (`RequestInv`).
Whether the error of a cancel comes before the answer is left open by all of these, which
is why the theorem needs the exception that the property names.

`MessageFramingProofs` proves, for any number of messages, any header, sizes of
packets and marks of the buffers (from `SizeAssumption`), every safety property that
`framing` checks:

- `TypeCorrect`: `Spec => []TypeOK`;
- `PacketsWellFormed`: `Spec => []WellPacked`;
- `CutShortIsMarked`: `Spec => []TruncatedIsMarked`;
- `Implementation`: `Spec => ImplementsChannel`, the refinement of `MessageChannel`.

On the outgoing side `TurnInv` says that messages are written one after the other
and that one whose last packet was pushed has been emitted in full. `CurrentInv`
ties the stream's own fields to the packet it pushed last: `packetNumber` to its
id, `length` to its size, and `bl` holds the bytes that come next. The packet
size may change between two packets of the connection, and these two say why it does not
within a message. `PacketsInv` (`GoesOn`) says of every packet that it goes on where
the one before it stopped, and `EmittedInv` that every byte emitted of a message
that is not ignored is in a packet or in `bl`; from both follows that a last packet
without the ignore bit leaves nothing out. `DataPushed` takes the bytes that
fill packets apart (`FullPackets`), with the arithmetic in lemmas of their own.

On the incoming side `InInv` compares what is under way, the chunks
received and those on the wire as one sequence, with the packets that are not
read yet. Where each of them ends would be a sum over the packets before, so that
`Framed` asks for a function `off` that has these ends instead; that ends never
decrease is a conjunct of its own, since it follows from the others by
induction only. A packet read moves to the next `q`, a packet piped makes `off` longer,
and a chunk cut leaves it alone, since `chunks \o wire` does not change.
`Received` says what the reader has of the first `q` packets. A packet
may arrive with a length that is too short for a header (`FramedAt`); the stream
fails there, and nothing of that packet is handed over.

`StepImplements` maps `WriteData`, `EndMessage` and `IgnoreMessage` to `Write`, `End`
and `Ignore`, `ReadData` to `Deliver` and `IncomingEnd` to `Finish`; every other
step is a stutter. `Ignore` is allowed by the channel only as long as the message
was not handed over, which is where both sides meet (`IgnoreInTime`).

Only model-checked:

- everything about liveness (`AttentionIsBounded`, `CompletesWithServer`,
  `ConnectSettles`, `DialingSettles`, `Arrives`, `CalledBack`,
  `RowStreamReleased`, `ResponseIsRead`), which is out of reach of the prover;
- the properties of `TokenStream`, `EventsAreTheResponse`, `OutcomeIsTheResponse`
  and its type invariant: what they compare are values that codecs compute from
  bytes, by recursion and folds over sequences, and a proof would be by induction
  over that data, which the provers cannot do. For the same reason nothing is
  proved of `DataTypes`, `ValueParser`, `RpcRequest`, `BulkMessages` and `LoginMessages`.

## 6. Where the code departs from what it says

With a run and a finding:

- *A cancel without cancelTimeout misreads the wire.* SENT_CLIENT_REQUEST knows
  that an attention is out by `this.cancelTimer`, which is never set if
  `options.cancelTimeout` is 0 (`connection.ts` 2129, 3664). The response then
  ends the request in LOGGED_IN and the acknowledgement is taken for the next
  response (`untimed_cancel_desync`).
- *A begin that is canceled or times out may leave its transaction open.* If the server
  has executed it nothing rolls it back, and the next `transaction()` only sets a savepoint in it,
  whose success is reported and never committed
  (`connection.ts` 3088, `transaction_left_open`). The same comes of other cancels, below.
- *An environment change of an unknown type, cut by a chunk, fails the handler*
  (`token/stream-parser.ts` 47, `unknown_env_change`). No other exchange has one.

Contained in the behaviours of the models, without a run of their own:

- *close() while a response is parsed.* The parser goes on with what was
  received; at the end of the message `onEndOfMessage` finds no request
  (`connection.ts` 3708);
- *a refused reset leaves its flag* to the next request (`connection.ts` 3197);
- `request.cancel()` after `close()` while a response streams: the listeners are
  still there, arm the cancel timer and leave FINAL for SENT_ATTENTION; the
  timer's `socketError` then finds no request (`connection.ts` 1745, 3683, 3773);
- a cancel after the payload has ended and before 'finish' sets the ignore bit
  but, the payload stream having ended, no error: the program is told
  that the request is done (`connection.ts` 3127). Of a bulk load it is told so with an
  empty table, where `test/integration/bulk-load-test.js` 1149 expects 'Canceled.' of a cancel; of a
  `prepare` it has no handle, or an old one;
- the same of a bulk load canceled while rows flow, if the answer comes before the iterator
  of the row transform is closed, which waits for a row (`connection.ts` 3155);
- *a commit or rollback that is canceled, or times out, before the server executes it* leaves the
  transaction, or the work after the savepoint, as it was: `txDone` only passes the error on
  (`connection.ts` 3054, 3066). The connection knows that it is in a transaction and
  the next `transaction()` sets a savepoint in it, as after a begin that was left open; the
  commit of a transaction around it makes durable what was reported as failed. Canceled before
  'finish' of its message, such a commit is even told as done;
- a begin or a savepoint that is ignored and told as done: what follows is done outside
  of a transaction, or a rollback to the savepoint fails and its work stays (`connection.ts` 3073, 3086);
- a cancel before 'finish' starts no timer, and the request timer that fires
  then is not started again: with a silent server such a request is in
  progress for ever (`connection.ts` 3122, 2190);
- `request.error` is not cleared when a Request is executed again
  (`connection.ts` 3713);
- *close() while connecting does not stop the connector.* The 'end' event is
  emitted; then the socket arrives, `closed` is reset (`connection.ts` 2005) and the
  login goes on, without a connect timer;
- *a timeout does not stop a connector of the program.* It has no signal, and
  nothing asks afterwards whether the attempt was aborted (`connection.ts` 2072);
- `close()` while the retry timer is armed: cleanup has run already, so the timer is not
  cleared and connects again, and no 'end' is emitted (`connection.ts` 1951, 2153);
- after a reroute or a retry, an attempt that fails before it has a socket
  emits no 'end', `closed` being set still (`connection.ts` 1951);
- `getToken` rejects after the connect timeout: 'connect' is emitted a second
  time (`connection.ts` 3559), hence the antecedent of `CompletedOnce`;
- a failed instance lookup leaves the state CONNECTING (`connection.ts` 1932);
- nothing bounds the number of reroutes, each with a new connect timer;
- `close()` from an event in the middle of an answer: the rest of the answer
  still leads on to REROUTING, TRANSIENT_FAILURE_RETRY or LOGGED_IN;
- the loop of the instance lookup has no break: having got a response it asks
  again, until it has counted its attempts (`instance-lookup.ts` 56);
- a bulk load that is canceled before it is executed still sends its INSERT
  BULK, and leaves the row stream of the program open (`connection.ts` 2735);
  one without rows sends no column metadata (`bulk-load.ts` 173); `firstRowWritten` is never
  set, so that every row is validated, as intended or not (`bulk-load.ts` 184);
- an isolation level outlives the transaction or the nested call it was asked for,
  until the next begin with a level or a reset: the server does not take it
  back and nothing sends another, though `connection.ts` 556 says "All
  out-of-transaction queries are executed with this setting";
- NO_CHANGE as `connectionIsolationLevel` becomes read committed
  (`connection.ts` 3211); as `isolationLevel`, before 7.2, it leaves a SET
  statement without a level, and every begin fails (`transaction.ts` 131);
- an error in the initial SQL is an 'errorMessage' and no more: the connection is reported
  as connected without its settings (`token/handler.ts` 163);
- a range check passes NaN, as a port (`connection.ts` 1578) and as `datefirst`; a
  date format or language is not looked into; an instance name may be
  empty, of which the lookup then makes an error;
- when the level after a savepoint is refused, the callback of `transaction()` gets both an
  error and `txDone` (`connection.ts` 3080);
- an error, or a return value named "handle", of an earlier call of a Request
  is heard by a later one (`connection.ts` 2804; `suspect` in
  `PreparedStatements`, and `OutputNames` for the second);
- an acknowledged login ignores the error that its feature acknowledgement made
  (`connection.ts` 3395).

Values for which the encoders depart from what was given. They are no inputs of
`token_stream`, which has their neighbours on both sides:

- `money` between -0.0001 and 0: the high half is rounded down and the low half is
  0, which is -429496.7296 (`money.ts` 39);
- `time`, `datetime2` and `datetimeoffset` that round up to 24 hours are not
  carried to the next day (`datetime2.ts` 75; `datetime.ts` carries), and a
  `datetime` in the last millisecond of the year 9999 is;
- a `binary` shorter than its given length, or than its column in a bulk load:
  the length is announced and the bytes are not there (`binary.ts` 47);
- a `length` of 0: the declaration takes it for none, the type information does not;
- columns of a bulk load without a precision are (1,0) and without a scale 0,
  since both are resolved from a null value (`bulk-load.ts` 435); columns
  of a table-valued parameter without a length are sent as PLP values, without
  a collation;
- the data types read `nanosecondDelta` (`datetime2.ts` 74, `datetimeoffset.ts` 68,
  `time.ts` 67), and the value parser sets `nanosecondsDelta` (`value-parser.ts` 669 to 761): a
  time that was received loses its ticks when it is sent. The models write `ticks` for
  both, since the exchanges give the first and compare the second, and send nothing that was received;
- a value that `validateParameters` has encoded stays encoded, and a text is refused
  as no string when the request is executed again (`request.ts` 464);
- `prepare()` declares values that were not validated, most of them undefined, at
  their maximum length; a declaration of a table-valued parameter that is null
  throws;
- of a login: without a host name its length would be written as an offset
  (`login7-payload.ts` 190; `os.hostname()` is never empty), the offsets after
  SSPI do not count it (326; what follows is always empty), and with
  `tdsVersion` "8_0", which is a smaller number than "7_4", UTF-8 is not asked
  for (415);
- of NTLM: the time stamp adds seconds to milliseconds (`ntlm-payload.ts` 111)
  and the length of the response leaves out its blob (29);
- of a variant, the maximum length is read before the collation
  (`value-parser.ts` 536); the model's server writes them so;
- `fedAuthRequired` is never reset, not even for the server of a reroute
  (`connection.ts` 3279).

## 7. What is not modelled

- Always Encrypted (`always-encrypted/`): cryptography and key vaults. The request
  that asks for the metadata of parameters is there, and nothing outside that
  directory calls it.
- TLS: the handshake in `startTls` and `wrapWithTls` is a promise that settles or not;
  its packets are not framed.
- The tokens of TDS before 7.2, `useUTC` and time zones, floating point
  arithmetic, the tables of collations and code pages (one entry each), the
  payloads of the transaction manager.
- `useColumnNames`, column name replacers, the handlers of the attention and of
  the initial SQL beyond what `RequestExecution` and `ConnectionLogin` have of them.
- What settings do: `enableImplicitTransactions`, which lets the server begin
  transactions by itself, and `abortTransactionOnError` are sent, and their
  effect is left out.
- Debug output, the wording and the classes of errors, `toString` of payloads
  and packets, diagnostics.
- The authority that gives tokens, SQL Server, SQL Server Browser, DNS and
  Node.js streams and timers are external: modelled as the code uses them.
- `lib/`, which is compiled from `src/`; tests, benchmarks, examples.

## 8. Plan

Done: request execution, login, dialing, framing, configuration, transactions, bulk loads,
prepared statements, the byte level from values to responses.

What would come next, in this order:

1. The composition of `RequestExecution` with `MessageFraming`, so that the
   ignore bit and the acknowledgement meet on one wire.
2. Refusals of the server to a reset, after which a session may be left without
   its settings, in `Session`.
3. The key cache of Always Encrypted.
