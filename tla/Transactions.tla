----------------------------- MODULE Transactions -----------------------------
(***************************************************************************)
(* Transactions of a connection: beginTransaction, commitTransaction,      *)
(* rollbackTransaction, saveTransaction and the helper transaction() of    *)
(* src/src/connection.ts, and what the environment changes in a response   *)
(* do (RequestTokenHandler, src/src/token/handler.ts).  Before TDS 7.2     *)
(* there are none, and the connection keeps a depth instead.               *)
(*                                                                         *)
(* The program calls transaction() or begins a transaction of its own,     *)
(* works in it, nests another one or ends it, and waits for each request.  *)
(* It stops working in a transaction that was rolled back under it.  An    *)
(* open call is a frame; frames are numbered, and named by their number.   *)
(* The server is external: it executes a request as a whole and answers.   *)
(***************************************************************************)
EXTENDS Integers, Sequences, SequencesExt

CONSTANTS
    Versions,       \* values of options.tdsVersion, of {"7_1", "7_2"}
    IsolationLevels,\* values of isolationLevel, of 0 (NO_CHANGE) to 5 and -1: not given
    MaxFrames,      \* bound: calls of transaction() or beginTransaction
    MaxDepth,       \* bound: how deep they are nested
    MaxWork,        \* bound: requests that work, resets and cancels
    Cancelable      \* bound: the operations that may be canceled or time out

Operations == {"begin", "save", "isolation", "work", "rollback", "commit", "reset"}

ASSUME VersionAssumption == Versions \subseteq {"7_1", "7_2"} /\ Cancelable \subseteq Operations
ASSUME LevelAssumption   == IsolationLevels \subseteq -1..5
ASSUME BoundAssumption   == MaxFrames \in Nat /\ MaxDepth \in Nat /\ MaxWork \in Nat

VARIABLES
    tdsVersion,
    \* Connection; connected: not in FINAL
    inTransaction, transactionDescriptors, transactionDepth, isSqlBatch, connected,
    \* the request under way and its response
    request, response,
    \* the program: open frames, the innermost last; frames and work so far
    frames, made, worked,
    \* the server: @@trancount, the descriptor and the name of the transaction,
    \* descriptors used; its work (numbers of frames) and savepoints
    trancount, descriptor, tranName, descriptors, log, savepoints,
    \* history: what each frame was told, the frames it is within (itself as well),
    \* frames with work that is durable or lost or in doubt, and whether the program
    \* was told otherwise than the server did of a transaction, or a connection
    \* before 7.2 met what its depth does not follow
    result, within, durable, lost, doubt, strayed

clientVars  == <<inTransaction, transactionDescriptors, transactionDepth, isSqlBatch, connected>>
wireVars    == <<request, response>>
programVars == <<frames, made, worked, result, within>>
serverVars  == <<trancount, descriptor, tranName, descriptors, log, savepoints>>
fateVars    == <<durable, lost, doubt>>
vars == <<tdsVersion, clientVars, wireVars, programVars, serverVars, fateVars, strayed>>

-----------------------------------------------------------------------------
(* Types *)

Frames == 1..MaxFrames
Kinds  == {"begin", "save", "manual"}
None   == [op |-> "none"]
Anonymous == 0                          \* the name of a manual transaction: ''
NoLevel   == -1                         \* no isolation level is given
NoTransaction == 0                      \* the descriptor of eight zero bytes
EnvChanges == {"none", "begin", "commit", "rollback"}      \* one at most in a response

\* How a request is canceled: its message is cut short by the ignore bit, and the
\* program is told; or so late that it is not told, when the payload has ended and the
\* message is not finished; or by an attention.
Ways == {"ignored", "unnoticed", "sent"}

Requests  == [op : Operations, name : Frames \cup {Anonymous}, level : -1..5, descriptor : Nat,
              cancel : Ways \cup {"none"}]
Responses == [error : BOOLEAN, env : EnvChanges]
FrameRecord == [id : Frames, kind : Kinds, level : IsolationLevels,
                phase : {"starting", "open", "ending"}]
Savepoint   == [name : Frames, mark : Nat]

TypeOK ==
    /\ tdsVersion \in Versions
    /\ inTransaction \in BOOLEAN /\ isSqlBatch \in BOOLEAN /\ connected \in BOOLEAN
    /\ transactionDescriptors \in Seq(Nat) /\ Len(transactionDescriptors) > 0
    /\ transactionDepth \in Nat
    /\ request = None \/ request \in Requests
    /\ response = None \/ response \in Responses
    /\ frames \in Seq(FrameRecord)
    /\ made \in 0..MaxFrames /\ worked \in Nat
    /\ trancount \in Nat /\ descriptor \in Nat /\ descriptors \in Nat
    /\ tranName \in Frames \cup {Anonymous}
    /\ log \in Seq(Frames) /\ savepoints \in Seq(Savepoint)
    /\ result \in [Frames -> {"none", "ok", "failed"}] /\ within \in [Frames -> SUBSET Frames]
    /\ durable \cup lost \cup doubt \subseteq Frames /\ strayed \in BOOLEAN

Init ==
    /\ tdsVersion \in Versions
    /\ inTransaction = FALSE /\ transactionDescriptors = <<NoTransaction>>
    /\ transactionDepth = 0 /\ isSqlBatch = FALSE /\ connected = TRUE
    /\ request = None /\ response = None
    /\ frames = <<>> /\ made = 0 /\ worked = 0
    /\ trancount = 0 /\ descriptor = NoTransaction /\ tranName = Anonymous
    /\ descriptors = 0 /\ log = <<>> /\ savepoints = <<>>
    /\ result = [f \in Frames |-> "none"] /\ within = [f \in Frames |-> {}]
    /\ durable = {} /\ lost = {} /\ doubt = {} /\ strayed = FALSE

-----------------------------------------------------------------------------
(* The connection *)

Old == tdsVersion = "7_1"
CurrentTransactionDescriptor == Last(transactionDescriptors)

\* makeRequest; before 7.2 everything is an SQL batch, from 7.2 on begin,
\* commit, rollback and save are requests to the transaction manager.
Send(operation, name, level) ==
    /\ request' = [op |-> operation, name |-> name, level |-> level,
                   descriptor |-> CurrentTransactionDescriptor, cancel |-> "none"]
    /\ isSqlBatch' = (Old \/ operation \in {"isolation", "work", "reset"})

Idle == request = None

\* RequestTokenHandler: what an environment change does to descriptors and to
\* inTransaction
DescriptorsAfterKept(ds, change) ==                     \* fault: a rollback keeps it
    CASE change = "begin"  -> Append(ds, descriptor)
      [] change = "commit" -> SubSeq(ds, 1, 1)
      [] OTHER -> ds
DescriptorsAfter(ds, change) ==
    CASE change = "begin" -> Append(ds, descriptor)
      [] change \in {"commit", "rollback"} -> SubSeq(ds, 1, 1)
      [] OTHER -> ds

InTransactionAfter(flag, change) == IF change = "none" THEN flag ELSE change = "begin"

\* The callbacks before 7.2: the depth after a request, and inTransaction
DepthAfterBegin(operation) ==                           \* fault: not for a savepoint
    CASE operation = "begin" -> transactionDepth + 1
      [] operation \in {"commit", "rollback"} -> transactionDepth - 1
      [] OTHER -> transactionDepth
DepthAfter(operation) ==
    CASE operation \in {"begin", "save"} -> transactionDepth + 1
      [] operation \in {"commit", "rollback"} -> transactionDepth - 1
      [] OTHER -> transactionDepth
EmulatedInTransaction(operation, flag) ==
    CASE operation = "begin" /\ transactionDepth = 0 -> TRUE
      [] operation \in {"commit", "rollback"} /\ transactionDepth = 1 -> FALSE
      [] operation = "reset" -> FALSE
      [] OTHER -> flag

-----------------------------------------------------------------------------
(* The program *)

Top == Last(frames)
Push(kind, level) ==
    /\ made' = made + 1
    /\ frames' = Append(frames, [id |-> made + 1, kind |-> kind, level |-> level,
                                 phase |-> "starting"])
    /\ within' = [within EXCEPT ![made + 1] = {frame.id : frame \in ToSet(frames')}]
Become(phase) == frames' = [frames EXCEPT ![Len(frames)].phase = phase]
Pop(outcome) ==
    /\ frames' = Front(frames)
    /\ result' = [result EXCEPT ![Top.id] = outcome]

Usable   == frames # <<>> => Top.phase = "open" /\ inTransaction
MayBegin == Idle /\ connected /\ Usable /\ made < MaxFrames /\ Len(frames) < MaxDepth

\* transaction(): begins a transaction, or sets a savepoint in the one there is.
NestedKindBegin == "begin"                              \* fault: never a savepoint
NestedKind == IF inTransaction THEN "save" ELSE "begin"

Transaction(level) ==
    /\ MayBegin
    /\ Push(NestedKind, level)
    /\ Send(NestedKind, made + 1, level)
    /\ UNCHANGED <<tdsVersion, inTransaction, transactionDescriptors, transactionDepth,
                   connected, response, worked, result, serverVars, fateVars, strayed>>

\* beginTransaction, without a name
BeginTransaction(level) ==
    /\ MayBegin
    /\ Push("manual", level)
    /\ Send("begin", Anonymous, level)
    /\ UNCHANGED <<tdsVersion, inTransaction, transactionDescriptors, transactionDepth,
                   connected, response, worked, result, serverVars, fateVars, strayed>>

\* A request that changes data
Work ==
    /\ Idle /\ connected /\ frames # <<>> /\ Usable /\ worked < MaxWork
    /\ worked' = worked + 1
    /\ Send("work", Top.id, NoLevel)
    /\ UNCHANGED <<tdsVersion, inTransaction, transactionDescriptors, transactionDepth,
                   connected, response, frames, made, result, within, serverVars,
                   fateVars, strayed>>

Reset ==
    /\ Idle /\ connected /\ worked < MaxWork
    /\ frames # <<>> => Top.phase = "open"
    /\ worked' = worked + 1
    /\ Send("reset", Anonymous, NoLevel)
    /\ UNCHANGED <<tdsVersion, inTransaction, transactionDescriptors, transactionDepth,
                   connected, response, frames, made, result, within, serverVars,
                   fateVars, strayed>>

\* commitTransaction or rollbackTransaction, in a frame that ends by it
EndBy(operation, name) ==
    /\ connected
    /\ Become("ending")
    /\ Send(operation, name, NoLevel)
    /\ UNCHANGED <<inTransaction, transactionDescriptors, transactionDepth, connected,
                   response, made, result, within>>

\* In FINAL makeRequest refuses, and the callback is told.
Refused ==
    /\ ~connected
    /\ Pop("failed")
    /\ UNCHANGED <<clientVars, wireVars, made, within>>

\* txDone(err) of the innermost frame
TxDoneErrorSilent ==                                    \* fault: left to the server
    Pop("failed") /\ UNCHANGED <<clientVars, wireVars, made, within>>
TxDoneError ==
    \/ inTransaction /\ connected /\ EndBy("rollback", Top.id)
    \/ /\ ~(inTransaction /\ connected)
       /\ Pop("failed")
       /\ UNCHANGED <<clientVars, wireVars, made, within>>

\* txDone(null): a savepoint is left to the transaction around it.
TxDoneSuccess ==
    \/ /\ Top.kind = "save"
       /\ transactionDepth' = IF Old THEN transactionDepth - 1 ELSE transactionDepth
       /\ Pop("ok")
       /\ UNCHANGED <<inTransaction, transactionDescriptors, isSqlBatch, connected,
                      wireVars, made, within>>
    \/ Top.kind = "begin" /\ (EndBy("commit", Top.id) \/ Refused)

TxDone ==
    /\ Idle /\ frames # <<>> /\ Top.phase = "open" /\ Top.kind \in {"begin", "save"}
    /\ TxDoneError \/ TxDoneSuccess
    /\ UNCHANGED <<tdsVersion, worked, serverVars, fateVars, strayed>>

\* commitTransaction or rollbackTransaction of a transaction of the program
EndTransaction ==
    /\ Idle /\ frames # <<>> /\ Top.phase = "open" /\ Top.kind = "manual"
    /\ \/ \E operation \in {"commit", "rollback"} : EndBy(operation, Anonymous)
       \/ Refused
    /\ UNCHANGED <<tdsVersion, worked, serverVars, fateVars, strayed>>

\* onCancel of makeRequest, for the program or for the request timer
Cancel(way) ==
    /\ ~Idle /\ connected /\ request.op \in Cancelable /\ request.cancel = "none"
    /\ worked < MaxWork /\ worked' = worked + 1
    /\ way \in {"ignored", "unnoticed"} => response = None
    /\ request' = [request EXCEPT !.cancel = way]
    /\ UNCHANGED <<tdsVersion, clientVars, response, frames, made, result, within, serverVars,
                   fateVars, strayed>>

-----------------------------------------------------------------------------
(* The server (external).  An environment change tells of an outermost      *)
(* transaction only, and only since 7.2.                                    *)

Respond(error, env) == response' = [error |-> error, env |-> IF Old THEN "none" ELSE env]

\* Nothing happens, with or without an error
Unaffected(error) ==
    /\ Respond(error, "none")
    /\ UNCHANGED <<serverVars, durable, lost>>

RollBackAll ==
    /\ trancount' = 0 /\ descriptor' = NoTransaction /\ tranName' = Anonymous
    /\ log' = <<>> /\ savepoints' = <<>>
    /\ lost' = lost \cup ToSet(log)
    /\ UNCHANGED <<descriptors, durable>>

ServerBegins ==
    /\ request.op = "begin"
    /\ trancount' = trancount + 1
    /\ \/ /\ trancount = 0
          /\ descriptors' = descriptors + 1 /\ descriptor' = descriptors + 1
          /\ tranName' = request.name
          /\ Respond(FALSE, "begin")
       \/ /\ trancount > 0
          /\ Respond(FALSE, "none")
          /\ UNCHANGED <<descriptors, descriptor, tranName>>
    /\ UNCHANGED <<log, savepoints, durable, lost>>

ServerSaves ==
    /\ request.op = "save" /\ trancount > 0
    /\ savepoints' = Append(savepoints, [name |-> request.name, mark |-> Len(log)])
    /\ Respond(FALSE, "none")
    /\ UNCHANGED <<trancount, descriptor, tranName, descriptors, log, durable, lost>>

ServerCommits ==
    /\ request.op = "commit" /\ trancount > 0
    /\ trancount' = trancount - 1
    /\ \/ /\ trancount = 1
          /\ durable' = durable \cup ToSet(log)
          /\ descriptor' = NoTransaction /\ tranName' = Anonymous
          /\ log' = <<>> /\ savepoints' = <<>>
          /\ Respond(FALSE, "commit")
          /\ UNCHANGED <<descriptors, lost>>
       \/ /\ trancount > 1
          /\ Respond(FALSE, "none")
          /\ UNCHANGED <<descriptor, tranName, descriptors, log, savepoints, durable, lost>>

\* A rollback without a name, or with that of the outermost transaction
ServerRollsBack ==
    /\ request.op = "rollback" /\ trancount > 0
    /\ request.name \in {Anonymous, tranName}
    /\ RollBackAll
    /\ Respond(FALSE, "rollback")

ServerRollsBackTo(s) ==
    /\ request.op = "rollback" /\ savepoints[s].name = request.name
    /\ log' = SubSeq(log, 1, savepoints[s].mark)
    /\ lost' = lost \cup ToSet(SubSeq(log, savepoints[s].mark + 1, Len(log)))
    /\ savepoints' = SubSeq(savepoints, 1, s)
    /\ Respond(FALSE, "none")
    /\ UNCHANGED <<trancount, descriptor, tranName, descriptors, durable>>

\* Work is part of the transaction, or done at once; it may fail, by itself or
\* with the whole transaction.
ServerWorks ==
    /\ request.op = "work"
    /\ \/ /\ trancount > 0
          /\ log' = Append(log, request.name)
          /\ Respond(FALSE, "none")
          /\ UNCHANGED <<trancount, descriptor, tranName, descriptors, savepoints,
                         durable, lost>>
       \/ /\ trancount = 0
          /\ durable' = durable \cup {request.name}
          /\ Respond(FALSE, "none")
          /\ UNCHANGED <<serverVars, lost>>
       \/ Unaffected(TRUE)
       \/ trancount > 0 /\ RollBackAll /\ Respond(TRUE, "rollback")

ServerResets ==
    /\ request.op = "reset"
    /\ \/ trancount > 0 /\ RollBackAll /\ Respond(FALSE, "rollback")
       \/ trancount = 0 /\ Unaffected(FALSE)

\* A request that is not possible, or a begin, savepoint or level that fails
ServerRefuses ==
    \/ request.op \in {"begin", "save", "isolation"} /\ Unaffected(TRUE)
    \/ request.op = "isolation" /\ Unaffected(FALSE)
    \/ request.op \in {"commit", "rollback"} /\ trancount = 0 /\ Unaffected(TRUE)
    \/ /\ request.op = "rollback" /\ request.name \notin {Anonymous, tranName}
       /\ \A s \in DOMAIN savepoints : savepoints[s].name # request.name
       /\ Unaffected(TRUE)

\* Before 7.2: the end of a transaction that the depth does not follow
RolledBackUnder ==
    /\ trancount > 0 /\ trancount' = 0
    /\ request.op = "reset" \/ transactionDepth > 1

\* A message with the ignore bit is answered and not executed; an attention may
\* come before the request is executed.
Ignored == request.cancel \in {"ignored", "unnoticed"}

ServerExecutes ==
    /\ ~Idle /\ response = None /\ connected /\ ~Ignored
    /\ \/ ServerBegins \/ ServerSaves \/ ServerCommits \/ ServerRollsBack \/ ServerWorks
       \/ ServerResets \/ ServerRefuses
       \/ \E s \in DOMAIN savepoints : ServerRollsBackTo(s)
    /\ strayed' = (strayed \/ (Old /\ (response'.error \/ RolledBackUnder)))
    /\ UNCHANGED <<tdsVersion, clientVars, request, programVars, doubt>>

\* The program goes on as if it had ended a transaction, or believes that it has
\* begun one or set a savepoint.
ServerSkips ==
    /\ ~Idle /\ response = None /\ connected /\ request.cancel # "none"
    /\ Unaffected(request.cancel # "unnoticed")
    /\ strayed' = \/ strayed \/ Old \/ request.op \in {"commit", "rollback"}
                  \/ request.op \in {"begin", "save"} /\ request.cancel = "unnoticed"
    /\ UNCHANGED <<tdsVersion, clientVars, request, programVars, doubt>>

\* The frames with work that counts in a frame
Within(frame) == {f \in durable \cup ToSet(log) : frame.id \in within[f]}

\* The connection is lost: the server rolls back, and a request under way fails,
\* executed or not.
ConnectionLost ==
    /\ connected
    /\ connected' = FALSE
    /\ RollBackAll
    /\ response' = IF Idle THEN None ELSE [error |-> TRUE, env |-> "none"]
    /\ doubt' = doubt \cup (IF ~Idle /\ request.op = "commit" THEN Within(Top) ELSE {})
    /\ UNCHANGED <<tdsVersion, inTransaction, transactionDescriptors, transactionDepth,
                   isSqlBatch, request, programVars, strayed>>

-----------------------------------------------------------------------------
(* The response: its environment change, the end of the message and then   *)
(* the callback of the request                                              *)

\* onEndOfMessage, before 7.2: an error is taken for the end of the transaction.
\* An attention that is acknowledged is no such end.
AfterError(flag, error) ==
    IF Old /\ connected /\ error /\ isSqlBatch /\ request.cancel # "sent" THEN FALSE ELSE flag

Tokens(error) ==
    LET flag == AfterError(InTransactionAfter(inTransaction, response.env), error)
    IN  /\ transactionDescriptors' = DescriptorsAfter(transactionDescriptors, response.env)
        /\ inTransaction' = IF Old THEN EmulatedInTransaction(request.op, flag) ELSE flag
        /\ transactionDepth' = IF Old THEN DepthAfter(request.op) ELSE transactionDepth

BegunAtOnce(error) ==                                   \* fault: a savepoint has no level
    /\ request.op \in {"begin", "save"}
    /\ IF error THEN Pop("failed") ELSE Become("open") /\ UNCHANGED result
    /\ request' = None /\ UNCHANGED isSqlBatch

\* A begin or a save, or the isolation level after it, is answered: the program
\* has its transaction, or the helper gives up.
Begun(error) ==
    \/ /\ request.op \in {"begin", "save"} /\ error
       /\ Pop("failed")
       /\ request' = None /\ UNCHANGED isSqlBatch
    \/ /\ request.op = "save" /\ ~error /\ Top.level > 0
       /\ Send("isolation", Anonymous, Top.level)
       /\ UNCHANGED <<frames, result>>
    \/ /\ \/ request.op = "begin" /\ ~error
          \/ request.op = "save" /\ ~error /\ Top.level <= 0
          \/ request.op = "isolation"
       /\ Become("open")
       /\ request' = None /\ UNCHANGED <<isSqlBatch, result>>

\* A commit or rollback is answered: the frame ends.
EndedUnheard(error) ==                                  \* fault: txErr is not passed on
    /\ request.op \in {"commit", "rollback"}
    /\ Pop(IF request.op = "commit" THEN "ok" ELSE "failed")
    /\ request' = None /\ UNCHANGED isSqlBatch
Ended(error) ==
    /\ request.op \in {"commit", "rollback"}
    /\ Pop(IF request.op = "commit" /\ ~error THEN "ok" ELSE "failed")
    /\ request' = None /\ UNCHANGED isSqlBatch

Done ==
    /\ request.op \in {"work", "reset"}
    /\ request' = None /\ UNCHANGED <<isSqlBatch, frames, result>>

\* A canceled request is told as failed, once it is answered or the attention is
\* acknowledged, and what the server did before is still told in the response: then
\* the program does not know of a transaction that was begun.
Answer ==
    LET canceled == connected /\ request.cancel \in {"ignored", "sent"}
        error    == response.error \/ canceled
    IN  /\ response # None
        /\ Tokens(error)
        /\ Begun(error) \/ Ended(error) \/ Done
        /\ strayed' = \/ strayed
                      \/ canceled /\ (Old \/ (request.op = "begin" /\ ~response.error))
        /\ doubt' = doubt \cup (IF canceled /\ request.op = "commit" THEN Within(Top) ELSE {})
        /\ response' = None
        /\ UNCHANGED <<tdsVersion, connected, made, worked, within, serverVars, durable, lost>>

-----------------------------------------------------------------------------
Next ==
    \/ \E level \in IsolationLevels : Transaction(level) \/ BeginTransaction(level)
    \/ Work \/ Reset \/ TxDone \/ EndTransaction
    \/ \E way \in Ways : Cancel(way)
    \/ ServerExecutes \/ ServerSkips \/ ConnectionLost
    \/ Answer

Spec == Init /\ [][Next]_vars

-----------------------------------------------------------------------------
(* Properties *)

Followed == ~Old \/ ~strayed
Sure     == connected /\ Idle /\ Followed

\* Between requests the connection is in a transaction exactly when the server
\* is, and since 7.2 its current descriptor is the server's; a request bears the
\* descriptor of the transaction that it is for.
DescriptorsAgree ==
    /\ Sure => inTransaction = (trancount > 0)
    /\ ~Old /\ connected /\ (Idle \/ response = None) =>
          CurrentTransactionDescriptor = descriptor
    /\ ~Old /\ connected /\ ~Idle /\ response = None => request.descriptor = descriptor

\* What the server did for the program in a transaction that was reported as done, and
\* in transactions that were done around it, is durable (transaction, txDone).
DoneWorkIsDurable ==
    \A f \in 1..made :
        (\A g \in within[f] : result[g] = "ok") => f \notin lost \cup ToSet(log)

\* So it is until the program is told otherwise than the server did of a transaction:
\* until a begin is executed and told as canceled, a commit or rollback is canceled and
\* not executed, or a begin or savepoint is not executed and told as done.
DoneIsDurable == ~strayed => DoneWorkIsDurable

\* Nothing is durable of a transaction that was reported as failed, or that is in
\* one that failed, but for a commit that was canceled or whose answer did not arrive,
\* and until the program is told otherwise than the server did.
FailedLeavesNothing ==
    ~strayed =>
        \A f \in durable \ doubt : \A g \in within[f] : result[g] # "failed"

\* When every transaction has ended, no transaction is left open at the server, to be
\* joined by later requests, until the program is told otherwise than the server did.
NothingLeftOpen ==
    connected /\ Idle /\ ~strayed /\ frames = <<>> =>
        trancount = 0 /\ (Old => transactionDepth = 0)

=============================================================================
