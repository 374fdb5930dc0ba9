------------------------ MODULE PreparedStatementsProofs ------------------------
(***************************************************************************)
(* Theorems about PreparedStatements: that what the program is told of a   *)
(* call is what became of it, and that a request that was reported as      *)
(* prepared has a handle.  A request keeps its error and its listeners     *)
(* from call to call, so the invariants say where an error comes from      *)
(* (ErrorInv), whose the handles are (HandleInv), and what becomes of a    *)
(* message that fails or is canceled before it is finished (MessageInv).   *)
(***************************************************************************)
EXTENDS PreparedStatements, SequenceTheorems, TLAPS

\* A request waits for one thing, its tick or the response, and is told by the
\* event exactly when it is being prepared; then it listens for the handle.
PendingInv ==
    /\ \A i, j \in 1..Len(ticks) : ticks[i].request = ticks[j].request => i = j
    /\ \A i \in 1..Len(ticks) : ~served[ticks[i].request]
    /\ active # None => \A i \in 1..Len(ticks) : ticks[i].request # Current
    /\ \A r \in Requests : asked[r] = "prepare" => preparing[r] /\ listeners[r] > 0

\* Handles and listeners are made by calls.
CountInv ==
    /\ Len(prepared) + (IF active # None /\ ~answered THEN 1 ELSE 0) <= made
    /\ \A r \in Requests : listeners[r] <= made

\* The handle of a request was made for it, and is what its call bears.
HandleInv ==
    /\ \A r \in Requests : handle[r] # NoHandle =>
          handle[r] \in 1..Len(prepared) /\ prepared[handle[r]].request = r
    /\ active # None /\ ~answered => active.handle = handle[Current]

\* The error of a request is that of the call under way, or an earlier call has
\* failed with it, or a prepare() put it there.
ErrorInv ==
    \A r \in Requests : error[r] # "none" =>
        \/ canceled[r] \/ suspect[r]
        \/ asked[r] = "none" /\ outcome[r].error # "none"
        \/ \E i \in 1..Len(ticks) : ticks[i].request = r
        \/ active # None /\ Current = r /\ (answered \/ message = "ignored") /\ ~served[r]

\* A response without an error, and without an attention, is to what the server did,
\* or to what was canceled where no error is told of it.
AnswerInv ==
    active # None /\ answered /\ ~Attention /\ error[Current] = "none"
        => served[Current] \/ unheard[Current]

\* The server answers a message that it has all of, and does not do one that it is
\* to ignore: that one has failed or was canceled.
MessageInv ==
    /\ \A r \in Requests : unheard[r] => canceled[r]
    /\ active # None =>
          /\ ~answered => ~served[Current]
          /\ answered \/ canceled[Current] => message \in {"sent", "ignored"}
          /\ message = "ignored" =>
                ~served[Current] /\ (error[Current] # "none" \/ unheard[Current])

IndInv == TypeOK /\ PendingInv /\ CountInv /\ HandleInv /\ ErrorInv /\ AnswerInv /\ MessageInv

\* It leaves the request with a handle that is open, unless it was unprepared.
AnsweredInv ==
    active # None /\ answered /\ active.call \in {"prepare", "execute"} /\ ~canceled[Current]
        /\ error[Current] = "none" => IsOpen(handle[Current])

-----------------------------------------------------------------------------
(* What a call of the program may come to *)

Told(call, err) ==
    [call |-> call, error |-> err, via |-> IF call = "prepare" THEN "event" ELSE "callback"]

Tells(r, call, err) ==
    /\ outcome' = [outcome EXCEPT ![r] = Told(call, err)]
    /\ asked' = [asked EXCEPT ![r] = "none"]
    /\ preparing' = [preparing EXCEPT ![r] = FALSE]

Refused(r, call) ==
    /\ active # None
    /\ Tells(r, call, "refused")
    /\ UNCHANGED <<active, message, answered, ticks, error>>

Queued(r, call, err) ==
    /\ ticks' = Append(ticks, [request |-> r, error |-> err])
    /\ error' = error \/ error' = [error EXCEPT ![r] = err]
    /\ asked' = [asked EXCEPT ![r] = call]
    /\ preparing' = [preparing EXCEPT ![r] = (call = "prepare")]
    /\ UNCHANGED <<active, message, answered, outcome>>

Sent(r, call) ==
    /\ active = None /\ ~canceled[r]
    /\ active' = [request |-> r, call |-> call, handle |-> handle[r]]
    /\ message' = "streaming" /\ answered' = FALSE
    /\ asked' = [asked EXCEPT ![r] = call]
    /\ preparing' = [preparing EXCEPT ![r] = (call = "prepare")]
    /\ UNCHANGED <<ticks, outcome, error>>

Listens(r, call) ==
    listeners' = IF call = "prepare" THEN [listeners EXCEPT ![r] = @ + 1] ELSE listeners

Called(r, call) ==
    /\ Begins(r) /\ Listens(r, call)
    /\ \/ Refused(r, call) \/ Sent(r, call)
       \/ \E err \in {"canceled", "invalid"} : Queued(r, call, err)

LEMMA CallKinds ==
  ASSUME TypeOK, NEW r \in Requests, Prepare(r) \/ Execute(r) \/ Unprepare(r) \/ ExecSql(r)
  PROVE  \E call \in Calls : Called(r, call)
  <1>1. Begins(r) /\ asked[r] = "none" /\ preparing[r] = FALSE
    <2>1. Begins(r) /\ asked[r] = "none"
      BY DEF Prepare, Execute, Unprepare, ExecSql, ValidateThenMake, Begins
    <2>2. preparing[r] \in BOOLEAN /\ (preparing[r] => asked[r] = "prepare")
      BY DEF TypeOK
    <2>3. asked[r] # "prepare"
      BY <2>1
    <2>4. QED
      BY <2>1, <2>2, <2>3, Zenon
  <1>2. ASSUME NEW call \in Calls, MakeRequest(r, call, call = "prepare"), UNCHANGED error
        PROVE  Refused(r, call) \/ Sent(r, call) \/ Queued(r, call, "canceled")
    <2>1. CASE active # None
      BY <1>2, <2>1 DEF MakeRequest, callVars, CallBack, Refused, Tells, Told
    <2>2. CASE active = None /\ canceled[r]
      BY <1>2, <2>2 DEF MakeRequest, callVars, Tick, Waits, Queued
    <2>3. CASE active = None /\ ~canceled[r]
      BY <1>2, <2>3 DEF MakeRequest, Waits, Sent
    <2>4. QED
      BY <2>1, <2>2, <2>3
  <1>3. CASE Prepare(r)
    <2>1. Listens(r, "prepare") /\ MakeRequest(r, "prepare", "prepare" = "prepare")
             /\ UNCHANGED error
      BY <1>3 DEF Prepare, Listens
    <2>2. "prepare" \in Calls
      BY DEF Calls
    <2>3. QED
      BY <1>1, <1>2, <2>1, <2>2 DEF Called
  <1>4. ASSUME NEW call \in {"execute", "execSql"}, ValidateThenMake(r, call)
        PROVE  Called(r, call) /\ call \in Calls
    <2>1. Listens(r, call) /\ call \in Calls /\ (call = "prepare") = FALSE
      BY <1>4 DEF ValidateThenMake, Listens, Calls
    <2>2. CASE MakeRequest(r, call, FALSE) /\ UNCHANGED error
      BY <1>1, <1>2, <2>1, <2>2 DEF Called
    <2>3. CASE ~(MakeRequest(r, call, FALSE) /\ UNCHANGED error)
      <3>1. Queued(r, call, "invalid")
        <4>1. preparing' = [preparing EXCEPT ![r] = (call = "prepare")]
          <5>1. preparing' = preparing
            BY <1>4, <2>3 DEF ValidateThenMake
          <5>2. preparing = [preparing EXCEPT ![r] = FALSE]
            BY <1>1 DEF TypeOK
          <5>3. QED
            BY <5>1, <5>2, <2>1, Zenon
        <4>2. QED
          BY <4>1, <1>4, <2>3 DEF ValidateThenMake, callVars, Queued, Tick, Waits
      <3>2. QED
        BY <1>1, <2>1, <3>1 DEF Called
    <2>4. QED
      BY <2>2, <2>3
  <1>5. CASE Execute(r) \/ ExecSql(r)
    BY <1>4, <1>5 DEF Execute, ExecSql
  <1>6. CASE Unprepare(r)
    <2>1. /\ Listens(r, "unprepare") /\ "unprepare" \in Calls
          /\ ("unprepare" = "prepare") = FALSE
      BY <1>6 DEF Unprepare, Listens, Calls
    <2>2. MakeRequest(r, "unprepare", FALSE) /\ UNCHANGED error
      BY <1>6 DEF Unprepare
    <2>3. QED
      BY <1>1, <1>2, <2>1, <2>2 DEF Called
  <1>7. QED
    BY <1>3, <1>5, <1>6
-----------------------------------------------------------------------------
(* Types *)

TicksType == Seq([request : Requests, error : Failures])

LEMMA TickTyped ==
  ASSUME TypeOK, NEW i \in 1..Len(ticks)
  PROVE  ticks[i].request \in Requests /\ ticks[i].error \in Failures
  <1>1. ticks \in TicksType
    BY DEF TypeOK, TicksType
  <1>2. ticks[i] \in [request : Requests, error : Failures]
    BY <1>1, ElementOfSeq DEF TicksType
  <1>3. QED
    BY <1>2

LEMMA HeadAndTail ==
  ASSUME TypeOK, ticks # <<>>
  PROVE  /\ Head(ticks).request \in Requests /\ Head(ticks).error \in Failures
         /\ Head(ticks) = ticks[1] /\ 1 \in 1..Len(ticks)
         /\ Tail(ticks) \in TicksType /\ Len(Tail(ticks)) = Len(ticks) - 1
         /\ \A i \in 1..Len(Tail(ticks)) : i + 1 \in 1..Len(ticks) /\ Tail(ticks)[i] = ticks[i + 1]
         /\ \A i \in 1..Len(ticks) : ticks[i].request \in Requests
  <1>1. ticks \in TicksType
    BY DEF TypeOK, TicksType
  <1>2. Len(ticks) \in Nat /\ Len(ticks) > 0
    BY <1>1 DEF TicksType
  <1>3. Head(ticks) = ticks[1] /\ 1 \in 1..Len(ticks)
    BY <1>1, <1>2 DEF TicksType
  <1>4. \A i \in 1..Len(ticks) : ticks[i].request \in Requests /\ ticks[i].error \in Failures
    BY TickTyped
  <1>5. Tail(ticks) \in TicksType /\ Len(Tail(ticks)) = Len(ticks) - 1
    BY <1>1 DEF TicksType
  <1>6. \A i \in 1..Len(Tail(ticks)) : i + 1 \in 1..Len(ticks) /\ Tail(ticks)[i] = ticks[i + 1]
    BY <1>1, <1>2 DEF TicksType
  <1>7. QED
    BY <1>3, <1>4, <1>5, <1>6

LEMMA CurrentTyped ==
  ASSUME TypeOK, active # None
  PROVE  /\ Current \in Requests /\ active.call \in Calls
         /\ active.handle \in Handles \cup {NoHandle}
         /\ asked[Current] = active.call /\ asked[Current] # "none"
  BY DEF TypeOK, Active, Current, Calls

LEMMA TellsTyped ==
  ASSUME TypeOK, NEW r \in Requests, NEW call \in Calls, NEW err \in Failures \cup {"none"},
         Tells(r, call, err)
  PROVE  /\ outcome' \in [Requests -> [call : Calls \cup {"none"},
                            via : {"none", "event", "callback"}, error : Failures \cup {"none"}]]
         /\ asked' \in [Requests -> Calls \cup {"none"}]
         /\ preparing' \in [Requests -> BOOLEAN]
         /\ \A q \in Requests : preparing'[q] => asked'[q] = "prepare"
         /\ \A q \in Requests : q # r => /\ asked'[q] = asked[q] /\ outcome'[q] = outcome[q]
                                         /\ preparing'[q] = preparing[q]
         /\ asked'[r] = "none" /\ outcome'[r] = Told(call, err) /\ preparing'[r] = FALSE
  <1>1. Told(call, err) \in [call : Calls \cup {"none"},
                via : {"none", "event", "callback"}, error : Failures \cup {"none"}]
    BY DEF Told
  <1>2. /\ outcome' \in [Requests -> [call : Calls \cup {"none"},
                via : {"none", "event", "callback"}, error : Failures \cup {"none"}]]
        /\ asked' \in [Requests -> Calls \cup {"none"}]
        /\ preparing' \in [Requests -> BOOLEAN]
    BY <1>1 DEF Tells, TypeOK
  <1>3. /\ \A q \in Requests : q # r => /\ asked'[q] = asked[q] /\ outcome'[q] = outcome[q]
                                        /\ preparing'[q] = preparing[q]
        /\ asked'[r] = "none" /\ outcome'[r] = Told(call, err) /\ preparing'[r] = FALSE
    BY DEF Tells, TypeOK
  <1>4. \A q \in Requests : preparing[q] => asked[q] = "prepare"
    BY DEF TypeOK
  <1>5. QED
    BY <1>2, <1>3, <1>4, Zenon

\* What the callback of a request tells: the call, by the event or the callback
LEMMA CallBackTells ==
  ASSUME TypeOK, PendingInv, NEW r \in Requests, NEW err, asked[r] # "none",
         CallBack(r, asked[r], preparing[r], err)
  PROVE  Tells(r, asked[r], err)
  <1>1. preparing[r] <=> asked[r] = "prepare"
    BY DEF TypeOK, PendingInv
  <1>2. (IF preparing[r] THEN "event" ELSE "callback")
           = (IF asked[r] = "prepare" THEN "event" ELSE "callback")
    BY <1>1, Zenon
  <1>3. QED
    BY <1>2, Zenon DEF CallBack, Tells, Told

LEMMA CalledTyped ==
  ASSUME IndInv, NEW r \in Requests, NEW call \in Calls, Called(r, call)
  PROVE  TypeOK'
  <1>1. /\ TypeOK /\ made \in Nat /\ made < MaxCalls /\ made' = made + 1
        /\ asked[r] = "none" /\ r \in Requests /\ MaxCalls \in Nat
        /\ UNCHANGED <<canceled, handle, prepared>>
    BY BoundAssumption DEF Called, Begins, IndInv, TypeOK
  <1>2. made' \in 0..MaxCalls
    BY <1>1
  <1>3. /\ served' \in [Requests -> BOOLEAN] /\ suspect' \in [Requests -> BOOLEAN]
        /\ unheard' \in [Requests -> BOOLEAN]
    BY <1>1 DEF Called, Begins, TypeOK
  <1>4. listeners' \in [Requests -> 0..MaxCalls]
    <2>1. listeners[r] \in Nat /\ listeners[r] + 1 <= MaxCalls
      BY <1>1 DEF IndInv, CountInv, TypeOK
    <2>2. listeners[r] + 1 \in 0..MaxCalls
      BY <2>1, <1>1
    <2>3. QED
      BY <2>2, <1>1 DEF Called, Listens, TypeOK
  <1>5. \A i \in 1..Len(ticks) : ticks[i].request \in Requests /\ ticks[i].request # r
    BY <1>1, TickTyped DEF TypeOK
  <1>6. active # None => Current # r /\ Current \in Requests
    BY <1>1, CurrentTyped
  <1>7. CASE Refused(r, call)
    <2>1. Tells(r, call, "refused") /\ "refused" \in Failures \cup {"none"}
      BY <1>7 DEF Refused, Failures
    <2>2. /\ outcome' \in [Requests -> [call : Calls \cup {"none"},
                  via : {"none", "event", "callback"}, error : Failures \cup {"none"}]]
          /\ asked' \in [Requests -> Calls \cup {"none"}]
          /\ preparing' \in [Requests -> BOOLEAN]
          /\ \A q \in Requests : preparing'[q] => asked'[q] = "prepare"
          /\ \A q \in Requests : q # r => asked'[q] = asked[q]
      BY <1>1, <2>1, TellsTyped, Zenon
    <2>3. active' = active /\ message' = message /\ answered' = answered /\ ticks' = ticks
             /\ error' = error
      BY <1>7 DEF Refused
    <2>4. \A i \in 1..Len(ticks) : asked'[ticks[i].request] # "none"
      BY <1>1, <1>5, <2>2 DEF TypeOK
    <2>5. active # None => asked'[Current] = active.call
      BY <1>1, <1>6, <2>2 DEF TypeOK
    <2>6. QED
      BY <1>1, <1>2, <1>3, <1>4, <2>2, <2>3, <2>4, <2>5 DEF TypeOK, Current
  <1>8. ASSUME NEW err \in {"canceled", "invalid"}, Queued(r, call, err)
        PROVE  TypeOK'
    <2>1. [request |-> r, error |-> err] \in [request : Requests, error : Failures]
      BY <1>8 DEF Failures
    <2>2. /\ ticks' \in TicksType /\ Len(ticks') = Len(ticks) + 1 /\ Len(ticks) \in Nat
          /\ \A i \in 1..Len(ticks) : ticks'[i] = ticks[i]
          /\ ticks'[Len(ticks) + 1].request = r
      BY <1>1, <1>8, <2>1 DEF Queued, TypeOK, TicksType
    <2>3. /\ error' \in [Requests -> Failures \cup {"none"}]
          /\ asked' \in [Requests -> Calls \cup {"none"}]
          /\ preparing' \in [Requests -> BOOLEAN]
      BY <1>1, <1>8 DEF Queued, TypeOK, Failures
    <2>4. active' = active /\ message' = message /\ answered' = answered /\ outcome' = outcome
      BY <1>8 DEF Queued
    <2>5. asked'[r] = call /\ \A q \in Requests : q # r => asked'[q] = asked[q]
      BY <1>1, <1>8 DEF Queued, TypeOK
    <2>6. \A q \in Requests : preparing'[q] => asked'[q] = "prepare"
      <3>1. \A q \in Requests : q # r => preparing'[q] = preparing[q]
        BY <1>1, <1>8 DEF Queued, TypeOK
      <3>2. preparing'[r] = (call = "prepare")
        BY <1>1, <1>8 DEF Queued, TypeOK
      <3>3. \A q \in Requests : preparing[q] => asked[q] = "prepare"
        BY <1>1 DEF TypeOK
      <3>4. QED
        BY <2>5, <3>1, <3>2, <3>3, Zenon
    <2>7. \A i \in 1..Len(ticks') : asked'[ticks'[i].request] # "none"
      <3>1. \A i \in 1..Len(ticks) : asked[ticks[i].request] # "none"
        BY <1>1 DEF TypeOK
      <3>2. call # "none"
        BY DEF Calls
      <3>3. \A i \in 1..Len(ticks') : i \in 1..Len(ticks) \/ i = Len(ticks) + 1
        BY <2>2
      <3>4. QED
        BY <1>5, <2>2, <2>5, <3>1, <3>2, <3>3
    <2>8. active # None => asked'[Current] = active.call
      BY <1>1, <1>6, <2>5 DEF TypeOK
    <2>9. QED
      BY <1>1, <1>2, <1>3, <1>4, <2>2, <2>3, <2>4, <2>6, <2>7, <2>8
         DEF TypeOK, TicksType, Current
  <1>9. CASE Sent(r, call)
    <2>1. active' \in Active /\ active' # None /\ message' = "streaming" /\ answered' \in BOOLEAN
      <3>1. active' \in Active
        BY <1>1, <1>9 DEF Sent, Active, TypeOK
      <3>2. QED
        BY <1>9, <3>1, NoneAssumption DEF Sent
    <2>2. /\ asked' \in [Requests -> Calls \cup {"none"}]
          /\ preparing' \in [Requests -> BOOLEAN]
      BY <1>1, <1>9 DEF Sent, TypeOK
    <2>3. ticks' = ticks /\ outcome' = outcome /\ error' = error
      BY <1>9 DEF Sent
    <2>4. asked'[r] = call /\ \A q \in Requests : q # r => asked'[q] = asked[q]
      BY <1>1, <1>9 DEF Sent, TypeOK
    <2>5. \A q \in Requests : preparing'[q] => asked'[q] = "prepare"
      <3>1. \A q \in Requests : q # r => preparing'[q] = preparing[q]
        BY <1>1, <1>9 DEF Sent, TypeOK
      <3>2. preparing'[r] = (call = "prepare")
        BY <1>1, <1>9 DEF Sent, TypeOK
      <3>3. \A q \in Requests : preparing[q] => asked[q] = "prepare"
        BY <1>1 DEF TypeOK
      <3>4. preparing'[r] => asked'[r] = "prepare"
        BY <2>4, <3>2, Zenon
      <3>5. QED
        BY <2>4, <3>1, <3>3, <3>4, Zenon
    <2>6. \A i \in 1..Len(ticks) : asked'[ticks[i].request] # "none"
      BY <1>1, <1>5, <2>4 DEF TypeOK
    <2>7. active'.request = r /\ active'.call = call
      BY <1>9 DEF Sent
    <2>8. QED
      BY <1>1, <1>2, <1>3, <1>4, <2>1, <2>2, <2>3, <2>4, <2>5, <2>6, <2>7
         DEF TypeOK, Current
  <1>10. QED
    BY <1>7, <1>8, <1>9 DEF Called

-----------------------------------------------------------------------------
(* What a response may bring *)

Serves(done) == served' = [served EXCEPT ![Current] = done]

Prepares ==
    /\ active.call = "prepare" /\ Serves(TRUE)
    /\ prepared' = Append(prepared, [request |-> Current, open |-> TRUE])
    /\ handle' = IF ~canceled[Current] /\ listeners[Current] > 0
                 THEN [handle EXCEPT ![Current] = Len(prepared) + 1] ELSE handle
    /\ UNCHANGED <<error, suspect>>

\* An output that prepare() hears
Hears ==
    /\ handle' = handle \/ handle' = [handle EXCEPT ![Current] = NoHandle]
    /\ "handle" \notin OutputNames => handle' = handle
    /\ error' = error \/ error' = [error EXCEPT ![Current] = "unexpected"]
    /\ suspect' = [suspect EXCEPT ![Current] = TRUE]

Executes ==
    /\ active.call \in {"execute", "execSql"} /\ Serves(TRUE)
    /\ active.call = "execute" => IsOpen(active.handle)
    /\ prepared' = prepared
    /\ UNCHANGED <<handle, error, suspect>> \/ Hears

Unprepares ==
    /\ active.call = "unprepare" /\ Serves(TRUE) /\ IsOpen(active.handle)
    /\ prepared' = [prepared EXCEPT ![active.handle].open = FALSE]
    /\ UNCHANGED <<handle, error, suspect>>

\* It refuses what it was asked, or ignores the message.
Fails ==
    /\ Serves(FALSE)
    /\ error' = IF canceled[Current] \/ message = "ignored" THEN error ELSE [error EXCEPT ![Current] = "server"]
    /\ UNCHANGED <<prepared, handle, suspect>>

LEMMA Responses ==
  ASSUME TypeOK, ServerAnswers
  PROVE  /\ active # None /\ ~answered /\ answered' = TRUE
         /\ UNCHANGED <<preparing, canceled, listeners, active, message, ticks, made, asked, outcome,
                       unheard>>
         /\ Prepares \/ Executes \/ Unprepares \/ Fails
        /\ message \in {"sent", "ignored"} /\ (message = "ignored" => Fails)
  <1>1. /\ active # None /\ ~answered /\ answered' = TRUE
        /\ UNCHANGED <<preparing, canceled, listeners, active, message, ticks, made, asked, outcome,
                       unheard>>
        /\ message \in {"sent", "ignored"}
    BY DEF ServerAnswers
  <1>2. Current \in Requests /\ suspect \in [Requests -> BOOLEAN]
    BY <1>1, CurrentTyped DEF TypeOK
  <1>3. suspect = [suspect EXCEPT ![Current] = suspect[Current]]
    BY <1>2
  <1>4. CASE message = "sent" /\ active.call = "prepare" /\ ServerPrepares
    <2>1. suspect' = [suspect EXCEPT ![Current] = suspect[Current]]
      <3>1. (suspect[Current] \/ ((~canceled[Current] /\ listeners[Current] > 0)
                                    /\ active.call # "prepare")) = suspect[Current]
        <4>1. suspect[Current] \in BOOLEAN /\ (active.call # "prepare") = FALSE
          BY <1>2, <1>4
        <4>2. QED
          BY <4>1, Zenon
      <3>2. QED
        BY <1>4, <3>1, Zenon DEF ServerPrepares, ReturnValue
    <2>2. QED
      BY <1>1, <1>3, <1>4, <2>1 DEF ServerPrepares, ReturnValue, Served, Prepares, Serves
  <1>5. CASE message = "sent" /\ active.call \in {"execute", "execSql"} /\ ServerExecutes
    <2>1. ASSUME NEW name \in OutputNames, ReturnValue(name, NoHandle)
          PROVE  UNCHANGED <<handle, error, suspect>> \/ Hears
      <3>1. CASE ~canceled[Current] /\ listeners[Current] > 0
        <4>1. suspect' = [suspect EXCEPT ![Current] = TRUE]
          <5>1. (suspect[Current] \/ ((~canceled[Current] /\ listeners[Current] > 0)
                                    /\ active.call # "prepare")) = TRUE
            BY <1>2, <1>5, <3>1
          <5>2. QED
            BY <2>1, <5>1, Zenon DEF ReturnValue
        <4>2. QED
          BY <2>1, <3>1, <4>1 DEF ReturnValue, Hears
      <3>2. CASE ~(~canceled[Current] /\ listeners[Current] > 0)
        <4>1. suspect' = [suspect EXCEPT ![Current] = suspect[Current]]
          <5>1. (~canceled[Current] /\ listeners[Current] > 0) = FALSE
            BY <3>2
          <5>2. suspect[Current] \in BOOLEAN
            BY <1>2
          <5>3. (suspect[Current] \/ ((~canceled[Current] /\ listeners[Current] > 0)
                                    /\ active.call # "prepare")) = suspect[Current]
            BY <5>1, <5>2, Zenon
          <5>4. QED
            BY <2>1, <5>3, Zenon DEF ReturnValue
        <4>2. QED
          BY <1>3, <2>1, <3>2, <4>1 DEF ReturnValue
      <3>3. QED
        BY <3>1, <3>2
    <2>2. QED
      BY <1>1, <1>5, <2>1 DEF ServerExecutes, NoToken, Served, Executes, Serves
  <1>6. CASE message = "sent" /\ active.call = "unprepare" /\ ServerUnprepares
    BY <1>1, <1>6 DEF ServerUnprepares, NoToken, Served, Unprepares, Serves
  <1>7. CASE message = "sent" /\ ServerRefuses
    BY <1>1, <1>7 DEF ServerRefuses, ErrorToken, Served, Fails, Serves
  <1>8. CASE message = "ignored" /\ ServerIgnores
    BY <1>1, <1>8 DEF ServerIgnores, NoToken, Served, Fails, Serves
  <1>9. QED
    BY <1>1, <1>4, <1>5, <1>6, <1>7, <1>8 DEF ServerAnswers

LEMMA AnswersTyped ==
  ASSUME IndInv, ServerAnswers
  PROVE  TypeOK'
  <1>1. /\ TypeOK /\ active # None /\ ~answered /\ answered' = TRUE
        /\ UNCHANGED <<preparing, canceled, listeners, active, message, ticks, made, asked, outcome,
                       unheard>>
        /\ Prepares \/ Executes \/ Unprepares \/ Fails
        /\ message \in {"sent", "ignored"} /\ (message = "ignored" => Fails)
    BY Responses DEF IndInv
  <1>2. Current \in Requests /\ active.handle \in Handles \cup {NoHandle}
    BY <1>1, CurrentTyped
  <1>3. served' \in [Requests -> BOOLEAN]
    BY <1>1, <1>2 DEF TypeOK, Prepares, Executes, Unprepares, Fails, Serves
  <1>4. error' \in [Requests -> Failures \cup {"none"}]
    BY <1>1, <1>2 DEF TypeOK, Prepares, Executes, Unprepares, Fails, Hears, Failures
  <1>5. suspect' \in [Requests -> BOOLEAN]
    BY <1>1, <1>2 DEF TypeOK, Prepares, Executes, Unprepares, Fails, Hears
  <1>6. prepared' \in Seq([request : Requests, open : BOOLEAN])
    <2>1. prepared \in Seq([request : Requests, open : BOOLEAN])
      BY <1>1 DEF TypeOK
    <2>2. CASE Prepares
      <3>1. [request |-> Current, open |-> TRUE] \in [request : Requests, open : BOOLEAN]
        BY <1>2
      <3>2. QED
        BY <2>1, <2>2, <3>1 DEF Prepares
    <2>3. CASE Unprepares
      <3>1. active.handle \in 1..Len(prepared)
        BY <2>3 DEF Unprepares, IsOpen
      <3>2. prepared[active.handle] \in [request : Requests, open : BOOLEAN]
        BY <2>1, <3>1, ElementOfSeq
      <3>3. [prepared[active.handle] EXCEPT !.open = FALSE] \in [request : Requests, open : BOOLEAN]
        BY <3>2
      <3>4. QED
        BY <2>1, <2>3, <3>1, <3>3, ExceptSeq DEF Unprepares
    <2>4. QED
      BY <1>1, <2>1, <2>2, <2>3 DEF Executes, Fails
  <1>7. handle' \in [Requests -> Handles \cup {NoHandle}]
    <2>1. handle \in [Requests -> Handles \cup {NoHandle}]
      BY <1>1 DEF TypeOK
    <2>2. CASE Prepares
      <3>1. Len(prepared) + 1 <= made /\ made <= MaxCalls /\ Len(prepared) \in Nat /\ made \in Nat
        BY <1>1, BoundAssumption DEF IndInv, CountInv, TypeOK
      <3>2. Len(prepared) + 1 \in Handles
        BY <3>1, BoundAssumption DEF Handles
      <3>3. QED
        BY <1>2, <2>1, <2>2, <3>2 DEF Prepares
    <2>3. QED
      BY <1>1, <1>2, <2>1, <2>2 DEF Executes, Unprepares, Fails, Hears
  <1>8. QED
    BY <1>1, <1>3, <1>4, <1>5, <1>6, <1>7 DEF TypeOK, Current

\* The queued callback of a request
LEMMA Ticks ==
  ASSUME TypeOK, PendingInv, RunTick
  PROVE  \E r \in Requests, err \in Failures :
            /\ ticks # <<>> /\ r = ticks[1].request /\ err = ticks[1].error
            /\ asked[r] \in Calls /\ Tells(r, asked[r], err)
            /\ ticks' = Tail(ticks)
            /\ UNCHANGED <<handle, error, canceled, listeners, active, message, answered, prepared,
                         made, served, unheard, suspect>>
  <1>1. ticks # <<>>
    BY DEF RunTick
  <1>2. /\ Head(ticks).request \in Requests /\ Head(ticks).error \in Failures
        /\ Head(ticks) = ticks[1] /\ 1 \in 1..Len(ticks)
    BY <1>1, HeadAndTail
  <1>3. asked[Head(ticks).request] \in Calls
    BY <1>2 DEF TypeOK
  <1>4. asked[Head(ticks).request] # "none"
    BY <1>3 DEF Calls
  <1>5. Tells(Head(ticks).request, asked[Head(ticks).request], Head(ticks).error)
    BY <1>2, <1>4, CallBackTells DEF RunTick
  <1>6. /\ ticks' = Tail(ticks)
        /\ UNCHANGED <<handle, error, canceled, listeners, active, message, answered, prepared,
                         made, served, unheard, suspect>>
    BY DEF RunTick, callVars
  <1>7. QED
    BY <1>1, <1>2, <1>3, <1>5, <1>6

\* The end of a response
LEMMA Ends ==
  ASSUME TypeOK, PendingInv, Completes
  PROVE  \E err \in Failures \cup {"none"} :
            /\ active # None /\ answered /\ Tells(Current, active.call, err)
            /\ err = IF Attention THEN "canceled" ELSE error[Current]
            /\ active' = None /\ message' = "none" /\ answered' = FALSE
            /\ UNCHANGED <<handle, error, canceled, listeners, ticks, prepared, made, served,
                         unheard, suspect>>
  <1>1. active # None /\ Current \in Requests /\ asked[Current] = active.call
           /\ asked[Current] # "none"
    BY CurrentTyped DEF Completes
  <1>2. (IF Attention THEN "canceled" ELSE error[Current]) \in Failures \cup {"none"}
    BY <1>1 DEF TypeOK, Failures
  <1>3. Tells(Current, active.call, IF Attention THEN "canceled" ELSE error[Current])
    BY <1>1, CallBackTells DEF Completes
  <1>4. QED
    BY <1>1, <1>2, <1>3 DEF Completes

(* A cancel, and the steps of the message *)

MessageGoes == PayloadEnds \/ PayloadFails \/ MessageFinishes \/ \E r \in Requests : Cancel(r)

\* They keep an answer, and set the error of the call under way only if it has none
\* yet, and then its message is to be ignored.
Gone ==
    /\ UNCHANGED <<preparing, handle, listeners, active, answered, ticks, prepared, made,
                   asked, outcome, suspect, served>>
    /\ error' \in [Requests -> Failures \cup {"none"}]
    /\ canceled' \in [Requests -> BOOLEAN] /\ unheard' \in [Requests -> BOOLEAN]
    /\ message' \in {"none", "streaming", "ending", "sent", "ignored"}
    /\ active = None <=> message' = "none"
    /\ message \in {"sent", "ignored"} => message' = message
    /\ \A q \in Requests :
          /\ canceled[q] => canceled'[q]
          /\ unheard[q] => unheard'[q]
          /\ error'[q] # error[q] =>
                /\ error[q] = "none" /\ active # None /\ Current = q
                /\ message' = "ignored" /\ ~answered

LEMMA Goes ==
  ASSUME IndInv, MessageGoes
  PROVE  Gone /\ MessageInv'
  <1>1. TypeOK /\ MessageInv
    BY DEF IndInv
  <1>2. active # None => Current \in Requests /\ active.request = Current
    BY <1>1, CurrentTyped DEF Current
  <1>3. ASSUME PayloadEnds \/ MessageFinishes
        PROVE  Gone /\ MessageInv'
    <2>1. /\ active # None /\ message \in {"streaming", "ending"}
          /\ message' \in {"ending", "sent"} /\ error' = error
          /\ UNCHANGED <<preparing, handle, canceled, listeners, active, answered, ticks, prepared,
                         made, asked, outcome, suspect, served, unheard>>
      BY <1>3 DEF PayloadEnds, MessageFinishes, MessageStep, programVars
    <2>2. ~answered /\ ~canceled[Current]
      BY <1>1, <2>1 DEF MessageInv
    <2>3. MessageInv'
      BY <1>1, <2>1, <2>2 DEF MessageInv, Current
    <2>4. QED
      BY <1>1, <2>1, <2>3 DEF TypeOK, Gone
  <1>4. ASSUME PayloadFails
        PROVE  Gone /\ MessageInv'
    <2>1. /\ active # None /\ message = "streaming"
          /\ message' = "ignored" /\ error' = SetError(Current, "unsent")
          /\ UNCHANGED <<preparing, handle, canceled, listeners, active, answered, ticks, prepared,
                         made, asked, outcome, suspect, served, unheard>>
      BY <1>4 DEF PayloadFails, MessageStep, programVars
    <2>2. ~answered /\ ~canceled[Current] /\ ~served[Current]
      BY <1>1, <2>1 DEF MessageInv
    <2>3. /\ error' \in [Requests -> Failures \cup {"none"}] /\ error'[Current] # "none"
          /\ \A q \in Requests : error'[q] # error[q] => error[q] = "none" /\ q = Current
      BY <1>1, <1>2, <2>1 DEF SetError, TypeOK, Failures
    <2>4. MessageInv'
      BY <1>1, <2>1, <2>2, <2>3 DEF MessageInv, Current
    <2>5. QED
      BY <1>1, <2>1, <2>2, <2>3, <2>4 DEF TypeOK, Gone
  <1>5. ASSUME NEW r \in Requests, Cancel(r)
        PROVE  Gone /\ MessageInv'
    <2>1. /\ ~canceled[r] /\ canceled' = [canceled EXCEPT ![r] = TRUE]
          /\ UNCHANGED <<preparing, handle, listeners, active, answered, ticks, prepared, made,
                         asked, outcome, suspect, served>>
      BY <1>5 DEF Cancel, programVars
    <2>2. /\ canceled' \in [Requests -> BOOLEAN] /\ canceled'[r]
          /\ \A q \in Requests : (canceled[q] => canceled'[q])
                                 /\ (q # r => canceled'[q] = canceled[q])
      BY <1>1, <2>1 DEF TypeOK
    <2>3. ~unheard[r]
      BY <1>1, <2>1 DEF MessageInv
    <2>4. /\ unheard' \in [Requests -> BOOLEAN]
          /\ \A q \in Requests : (unheard[q] => unheard'[q]) /\ (q # r => unheard'[q] = unheard[q])
      BY <1>1, <1>5, <2>3 DEF Cancel, CancelMessage, TypeOK
    <2>5. \A q \in Requests : unheard'[q] => canceled'[q]
      BY <1>1, <2>2, <2>4 DEF MessageInv
    <2>6. CASE active # None /\ Current = r /\ message \in {"streaming", "ending"}
      <3>1. ~answered /\ ~served[r] /\ message' = "ignored"
        BY <1>1, <1>2, <1>5, <2>6 DEF MessageInv, Cancel, CancelMessage
      <3>2. /\ error' \in [Requests -> Failures \cup {"none"}]
            /\ \A q \in Requests : error'[q] # error[q] => error[q] = "none" /\ q = r
            /\ message = "streaming" => error'[r] # "none"
        BY <1>1, <1>2, <1>5, <2>6 DEF Cancel, CancelMessage, SetError, TypeOK, Failures
      <3>3. message = "ending" => unheard'[r]
        BY <1>1, <1>2, <1>5, <2>6 DEF Cancel, CancelMessage, TypeOK
      <3>4. MessageInv'
        BY <2>1, <2>5, <2>6, <3>1, <3>2, <3>3 DEF MessageInv, Current
      <3>5. QED
        BY <1>1, <2>1, <2>2, <2>4, <2>6, <3>1, <3>2, <3>4 DEF TypeOK, Gone
    <2>7. CASE ~(active # None /\ Current = r /\ message \in {"streaming", "ending"})
      <3>1. message' = message /\ error' = error
        BY <1>2, <1>5, <2>7 DEF Cancel, CancelMessage, Current
      <3>2. active # None /\ Current = r => message \in {"sent", "ignored"}
        BY <1>1, <2>7 DEF TypeOK
      <3>3. MessageInv'
        BY <1>1, <1>2, <2>1, <2>2, <2>4, <2>5, <3>1, <3>2 DEF MessageInv, Current
      <3>4. QED
        BY <1>1, <2>1, <2>2, <2>4, <3>1, <3>3 DEF TypeOK, Gone
    <2>8. QED
      BY <2>6, <2>7
  <1>6. QED
    BY <1>3, <1>4, <1>5 DEF MessageGoes

LEMMA GoesKeep ==
  ASSUME IndInv, MessageGoes
  PROVE  TypeOK' /\ PendingInv' /\ CountInv' /\ HandleInv' /\ ErrorInv' /\ AnswerInv' /\ MessageInv'
  <1>1. TypeOK /\ PendingInv /\ CountInv /\ HandleInv /\ ErrorInv /\ AnswerInv /\ MessageInv
    BY DEF IndInv
  <1>2. Gone /\ MessageInv'
    BY Goes
  <1>3. active # None => Current \in Requests
    BY <1>1, CurrentTyped
  <1>4. TypeOK'
    BY <1>1, <1>2 DEF TypeOK, Gone, Current
  <1>5. PendingInv' /\ CountInv' /\ HandleInv'
    BY <1>1, <1>2 DEF PendingInv, CountInv, HandleInv, Gone, Current
  <1>6. ErrorInv'
    <2>1. SUFFICES ASSUME NEW q \in Requests, error'[q] # "none"
                   PROVE  \/ canceled'[q] \/ suspect[q]
                          \/ asked[q] = "none" /\ outcome[q].error # "none"
                          \/ \E i \in 1..Len(ticks) : ticks[i].request = q
                          \/ active # None /\ Current = q /\ (answered \/ message' = "ignored")
                                /\ ~served[q]
      BY <1>2 DEF ErrorInv, Gone, Current
    <2>2. CASE error'[q] # error[q]
      BY <1>1, <1>2, <2>2 DEF MessageInv, Gone
    <2>3. CASE error'[q] = error[q]
      BY <1>1, <1>2, <2>1, <2>3 DEF ErrorInv, Gone
    <2>4. QED
      BY <2>2, <2>3
  <1>7. AnswerInv'
    <2>1. SUFFICES ASSUME active # None, answered, ~(canceled'[Current] /\ message' = "sent"),
                          error'[Current] = "none"
                   PROVE  served[Current] \/ unheard'[Current]
      BY <1>2 DEF AnswerInv, Attention, Gone, Current
    <2>2. message' = message /\ error'[Current] = error[Current]
      BY <1>1, <1>2, <1>3, <2>1 DEF MessageInv, Gone
    <2>3. ~Attention
      BY <1>2, <1>3, <2>1, <2>2 DEF Attention, Gone
    <2>4. QED
      BY <1>1, <1>2, <1>3, <2>1, <2>2, <2>3 DEF AnswerInv, Gone
  <1>8. QED
    BY <1>2, <1>4, <1>5, <1>6, <1>7

LEMMA NextTyped ==
  ASSUME IndInv, [Next]_vars
  PROVE  TypeOK'
  <1>1. TypeOK /\ PendingInv
    BY DEF IndInv
  <1>2. ASSUME NEW r \in Requests, Prepare(r) \/ Execute(r) \/ Unprepare(r) \/ ExecSql(r)
        PROVE  TypeOK'
    BY <1>1, <1>2, CallKinds, CalledTyped
  <1>3. ASSUME MessageGoes
        PROVE  TypeOK'
    BY <1>3, GoesKeep
  <1>4. CASE RunTick
    <2>1. PICK r \in Requests, err \in Failures :
            /\ ticks # <<>> /\ r = ticks[1].request /\ err = ticks[1].error
            /\ asked[r] \in Calls /\ Tells(r, asked[r], err)
            /\ ticks' = Tail(ticks)
            /\ UNCHANGED <<handle, error, canceled, listeners, active, message, answered, prepared,
                         made, served, unheard, suspect>>
      BY <1>1, <1>4, Ticks
    <2>2. /\ outcome' \in [Requests -> [call : Calls \cup {"none"},
                  via : {"none", "event", "callback"}, error : Failures \cup {"none"}]]
          /\ asked' \in [Requests -> Calls \cup {"none"}]
          /\ preparing' \in [Requests -> BOOLEAN]
          /\ \A q \in Requests : preparing'[q] => asked'[q] = "prepare"
          /\ \A q \in Requests : q # r => asked'[q] = asked[q]
      BY <1>1, <2>1, TellsTyped, Zenon
    <2>3. /\ ticks' \in TicksType /\ 1 \in 1..Len(ticks)
          /\ \A i \in 1..Len(ticks') : i + 1 \in 1..Len(ticks) /\ ticks'[i] = ticks[i + 1]
      BY <1>1, <2>1, HeadAndTail
    <2>4. \A i \in 1..Len(ticks') :
             ticks'[i].request \in Requests /\ ticks'[i].request # r
                /\ asked[ticks'[i].request] # "none"
      <3>1. SUFFICES ASSUME NEW i \in 1..Len(ticks')
                     PROVE  /\ ticks'[i].request \in Requests /\ ticks'[i].request # r
                            /\ asked[ticks'[i].request] # "none"
        OBVIOUS
      <3>2. i + 1 \in 1..Len(ticks) /\ ticks'[i] = ticks[i + 1] /\ i + 1 # 1
        BY <2>3
      <3>3. ticks[i + 1].request # ticks[1].request
        BY <1>1, <2>3, <3>2 DEF PendingInv
      <3>4. ticks[i + 1].request \in Requests /\ asked[ticks[i + 1].request] # "none"
        BY <1>1, <3>2, TickTyped DEF TypeOK
      <3>5. QED
        BY <2>1, <3>2, <3>3, <3>4
    <2>5. \A i \in 1..Len(ticks') : asked'[ticks'[i].request] # "none"
      BY <2>2, <2>4
    <2>6. active # None => asked'[Current] = active.call
      <3>1. active # None => Current \in Requests /\ asked[Current] = active.call /\ Current # r
        BY <1>1, <2>1, <2>3, CurrentTyped DEF PendingInv
      <3>2. QED
        BY <2>2, <3>1
    <2>7. QED
      BY <1>1, <2>1, <2>2, <2>3, <2>5, <2>6 DEF TypeOK, TicksType, Current
  <1>5. CASE Completes
    <2>1. PICK err \in Failures \cup {"none"} :
            /\ active # None /\ answered /\ Tells(Current, active.call, err)
            /\ active' = None /\ message' = "none" /\ answered' = FALSE
            /\ UNCHANGED <<handle, error, canceled, listeners, ticks, prepared, made, served,
                         unheard, suspect>>
      BY <1>1, <1>5, Ends
    <2>2. Current \in Requests /\ active.call \in Calls
      BY <1>1, <2>1, CurrentTyped
    <2>3. /\ outcome' \in [Requests -> [call : Calls \cup {"none"},
                  via : {"none", "event", "callback"}, error : Failures \cup {"none"}]]
          /\ asked' \in [Requests -> Calls \cup {"none"}]
          /\ preparing' \in [Requests -> BOOLEAN]
          /\ \A q \in Requests : preparing'[q] => asked'[q] = "prepare"
          /\ \A q \in Requests : q # Current => asked'[q] = asked[q]
      BY <1>1, <2>1, <2>2, TellsTyped, Zenon
    <2>4. \A i \in 1..Len(ticks) : asked'[ticks[i].request] # "none"
      <3>1. SUFFICES ASSUME NEW i \in 1..Len(ticks)
                     PROVE  asked'[ticks[i].request] # "none"
        OBVIOUS
      <3>2. ticks[i].request \in Requests /\ asked[ticks[i].request] # "none"
        BY <1>1, TickTyped DEF TypeOK
      <3>3. ticks[i].request # Current
        BY <1>1, <2>1 DEF PendingInv
      <3>4. QED
        BY <2>3, <3>2, <3>3
    <2>5. QED
      BY <1>1, <2>1, <2>3, <2>4 DEF TypeOK
  <1>6. CASE UNCHANGED vars
    BY <1>1, <1>6 DEF vars, requestVars, callVars, programVars, TypeOK, Current
  <1>7. QED
    BY <1>2, <1>3, <1>4, <1>5, <1>6, AnswersTyped DEF Next, MessageGoes

-----------------------------------------------------------------------------
(* A call keeps the invariants *)

\* What a call changes of each request
Changes(r, call) ==
    /\ asked[r] = "none" /\ served'[r] = FALSE /\ unheard'[r] = FALSE
    /\ suspect'[r] <=> suspect[r] \/ outcome[r].error # "none"
    /\ \A q \in Requests : q # r =>
          /\ served'[q] = served[q] /\ suspect'[q] = suspect[q] /\ unheard'[q] = unheard[q]
          /\ listeners'[q] = listeners[q] /\ outcome'[q] = outcome[q]
          /\ asked'[q] = asked[q] /\ preparing'[q] = preparing[q] /\ error'[q] = error[q]
    /\ listeners'[r] \in Nat /\ listeners[r] \in Nat /\ listeners'[r] <= listeners[r] + 1
    /\ call = "prepare" => listeners'[r] > 0
    /\ UNCHANGED <<canceled, handle, prepared>>
    /\ made' = made + 1 /\ made \in Nat
    /\ \A i \in 1..Len(ticks) : ticks[i].request \in Requests \ {r}
    /\ active # None => Current \in Requests \ {r}

LEMMA CalledChanges ==
  ASSUME IndInv, NEW r \in Requests, NEW call \in Calls, Called(r, call)
  PROVE  Changes(r, call)
  <1>1. TypeOK /\ asked[r] = "none" /\ made' = made + 1 /\ made \in Nat
           /\ UNCHANGED <<canceled, handle, prepared>>
    BY BoundAssumption DEF Called, Begins, IndInv, TypeOK
  <1>2. /\ served'[r] = FALSE /\ unheard'[r] = FALSE
        /\ \A q \in Requests : q # r =>
              served'[q] = served[q] /\ suspect'[q] = suspect[q] /\ unheard'[q] = unheard[q]
    BY <1>1 DEF Called, Begins, TypeOK
  <1>3. suspect'[r] <=> suspect[r] \/ outcome[r].error # "none"
    BY <1>1 DEF Called, Begins, TypeOK
  <1>4. \A q \in Requests : listeners[q] \in Nat
    BY <1>1, BoundAssumption DEF TypeOK
  <1>5. /\ \A q \in Requests : q # r => listeners'[q] = listeners[q]
        /\ listeners'[r] \in Nat /\ listeners[r] \in Nat /\ listeners'[r] <= listeners[r] + 1
        /\ call = "prepare" => listeners'[r] > 0
    BY <1>1, <1>4 DEF Called, Listens, TypeOK
  <1>6. \A q \in Requests : q # r => /\ outcome'[q] = outcome[q] /\ asked'[q] = asked[q]
                                     /\ preparing'[q] = preparing[q] /\ error'[q] = error[q]
    BY <1>1 DEF Called, Refused, Tells, Queued, Sent, TypeOK
  <1>7. \A i \in 1..Len(ticks) : ticks[i].request \in Requests \ {r}
    BY <1>1, TickTyped DEF TypeOK
  <1>8. active # None => Current \in Requests \ {r}
    BY <1>1, CurrentTyped
  <1>9. QED
    BY <1>1, <1>2, <1>3, <1>5, <1>6, <1>7, <1>8 DEF Changes

LEMMA CalledPending ==
  ASSUME IndInv, NEW r \in Requests, NEW call \in Calls, Called(r, call)
  PROVE  PendingInv'
  <1>1. Changes(r, call)
    BY CalledChanges
  <1>2. TypeOK /\ PendingInv
    BY DEF IndInv
  <1>3. \A i \in 1..Len(ticks) : ~served'[ticks[i].request]
    BY <1>1, <1>2 DEF Changes, PendingInv
  <1>4. ASSUME asked'[r] = "prepare" => preparing'[r] /\ listeners'[r] > 0
        PROVE  \A q \in Requests : asked'[q] = "prepare" => preparing'[q] /\ listeners'[q] > 0
    BY <1>1, <1>2, <1>4 DEF Changes, PendingInv
  <1>5. CASE Refused(r, call)
    <2>1. asked'[r] = "none" /\ UNCHANGED <<ticks, active>>
      BY <1>2, <1>5 DEF Refused, Tells, TypeOK
    <2>2. \A q \in Requests : asked'[q] = "prepare" => preparing'[q] /\ listeners'[q] > 0
      BY <1>4, <2>1
    <2>3. QED
      BY <1>2, <1>3, <2>1, <2>2 DEF PendingInv, Current
  <1>6. ASSUME asked' = [asked EXCEPT ![r] = call],
               preparing' = [preparing EXCEPT ![r] = (call = "prepare")]
        PROVE  \A q \in Requests : asked'[q] = "prepare" => preparing'[q] /\ listeners'[q] > 0
    <2>1. asked'[r] = call /\ preparing'[r] = (call = "prepare")
      BY <1>2, <1>6 DEF TypeOK
    <2>2. asked'[r] = "prepare" => preparing'[r] /\ listeners'[r] > 0
      BY <1>1, <2>1, Zenon DEF Changes
    <2>3. QED
      BY <1>4, <2>2
  <1>7. CASE Sent(r, call)
    <2>1. UNCHANGED ticks /\ active'.request = r
      BY <1>7 DEF Sent
    <2>2. \A q \in Requests : asked'[q] = "prepare" => preparing'[q] /\ listeners'[q] > 0
      BY <1>6, <1>7 DEF Sent
    <2>3. QED
      BY <1>1, <1>2, <1>3, <2>1, <2>2 DEF Changes, PendingInv, Current
  <1>8. ASSUME NEW err \in {"canceled", "invalid"}, Queued(r, call, err)
        PROVE  PendingInv'
    <2>1. [request |-> r, error |-> err] \in [request : Requests, error : Failures]
      BY <1>8 DEF Failures
    <2>2. /\ Len(ticks') = Len(ticks) + 1 /\ Len(ticks) \in Nat
          /\ \A i \in 1..Len(ticks) : ticks'[i] = ticks[i]
          /\ ticks'[Len(ticks) + 1].request = r
      BY <1>2, <1>8, <2>1 DEF Queued, TypeOK, TicksType
    <2>3. \A q \in Requests : asked'[q] = "prepare" => preparing'[q] /\ listeners'[q] > 0
      BY <1>6, <1>8 DEF Queued
    <2>4. active' = active
      BY <1>8 DEF Queued
    <2>5. \A i \in 1..Len(ticks') : i \in 1..Len(ticks) \/ i = Len(ticks) + 1
      BY <2>2
    <2>6. \A i, j \in 1..Len(ticks') : ticks'[i].request = ticks'[j].request => i = j
      BY <1>1, <1>2, <2>2, <2>5 DEF Changes, PendingInv
    <2>7. \A i \in 1..Len(ticks') : ~served'[ticks'[i].request]
      BY <1>1, <1>3, <2>2, <2>5 DEF Changes
    <2>8. active # None => \A i \in 1..Len(ticks') : ticks'[i].request # Current
      BY <1>1, <1>2, <2>2, <2>5 DEF Changes, PendingInv
    <2>9. QED
      BY <2>3, <2>4, <2>6, <2>7, <2>8 DEF PendingInv, Current
  <1>9. QED
    BY <1>5, <1>7, <1>8 DEF Called

LEMMA CalledCounts ==
  ASSUME IndInv, NEW r \in Requests, NEW call \in Calls, Called(r, call)
  PROVE  CountInv' /\ HandleInv' /\ AnswerInv' /\ MessageInv'
  <1>1. Changes(r, call)
    BY CalledChanges
  <1>2. TypeOK /\ CountInv /\ HandleInv /\ AnswerInv /\ MessageInv /\ Len(prepared) \in Nat
    BY DEF IndInv, TypeOK
  <1>3. \A q \in Requests : listeners[q] \in Nat
    BY <1>2, BoundAssumption DEF TypeOK
  <1>4. \A q \in Requests : listeners'[q] <= made'
    BY <1>1, <1>2, <1>3 DEF Changes, CountInv
  <1>5. \A q \in Requests : unheard'[q] => canceled'[q]
    BY <1>1, <1>2 DEF Changes, MessageInv
  <1>6. CASE UNCHANGED <<active, message, answered>>
    <2>1. CountInv' /\ HandleInv'
      BY <1>1, <1>2, <1>4, <1>6 DEF Changes, CountInv, HandleInv, Current
    <2>2. active # None => /\ error'[Current] = error[Current] /\ served'[Current] = served[Current]
                           /\ unheard'[Current] = unheard[Current] /\ canceled' = canceled
      BY <1>1 DEF Changes
    <2>3. AnswerInv' /\ MessageInv'
      BY <1>2, <1>5, <1>6, <2>2 DEF AnswerInv, MessageInv, Attention, Current
    <2>4. QED
      BY <2>1, <2>3
  <1>7. CASE Sent(r, call)
    <2>1. /\ active = None /\ answered' = FALSE /\ message' = "streaming" /\ ~canceled[r]
          /\ active'.request = r /\ active'.handle = handle[r]
      BY <1>7 DEF Sent
    <2>2. Len(prepared) <= made
      BY <1>2, <2>1 DEF CountInv
    <2>3. CountInv'
      BY <1>1, <1>2, <1>4, <2>2 DEF Changes, CountInv
    <2>4. HandleInv' /\ AnswerInv'
      BY <1>1, <1>2, <2>1 DEF Changes, HandleInv, AnswerInv, Current
    <2>5. MessageInv'
      BY <1>1, <1>5, <2>1 DEF Changes, MessageInv, Current
    <2>6. QED
      BY <2>3, <2>4, <2>5
  <1>8. QED
    BY <1>6, <1>7 DEF Called, Refused, Queued

LEMMA CalledErrors ==
  ASSUME IndInv, NEW r \in Requests, NEW call \in Calls, Called(r, call)
  PROVE  ErrorInv'
  <1>1. Changes(r, call)
    BY CalledChanges
  <1>2. TypeOK /\ ErrorInv
    BY DEF IndInv
  <1>3. ASSUME error'[r] # "none"
        PROVE  canceled'[r] \/ suspect'[r] \/ \E i \in 1..Len(ticks') : ticks'[i].request = r
    <2>1. CASE error' = error
      BY <1>1, <1>2, <1>3, <2>1 DEF Changes, ErrorInv
    <2>2. CASE error' # error
      <3>1. PICK err \in {"canceled", "invalid"} : Queued(r, call, err)
        BY <2>2 DEF Called, Refused, Sent
      <3>2. [request |-> r, error |-> err] \in [request : Requests, error : Failures]
        BY DEF Failures
      <3>3. /\ Len(ticks') = Len(ticks) + 1 /\ Len(ticks) \in Nat
            /\ ticks'[Len(ticks) + 1].request = r
        BY <1>2, <3>1, <3>2 DEF Queued, TypeOK, TicksType
      <3>4. Len(ticks) + 1 \in 1..Len(ticks')
        BY <3>3
      <3>5. QED
        BY <3>3, <3>4
    <2>3. QED
      BY <2>1, <2>2
  <1>4. ASSUME NEW q \in Requests, q # r, error'[q] # "none"
        PROVE  \/ canceled'[q] \/ suspect'[q]
               \/ asked'[q] = "none" /\ outcome'[q].error # "none"
               \/ \E i \in 1..Len(ticks') : ticks'[i].request = q
               \/ active' # None /\ active'.request = q
                     /\ (answered' \/ message' = "ignored") /\ ~served'[q]
    <2>1. \/ canceled[q] \/ suspect[q]
          \/ asked[q] = "none" /\ outcome[q].error # "none"
          \/ \E i \in 1..Len(ticks) : ticks[i].request = q
          \/ active # None /\ Current = q /\ (answered \/ message = "ignored") /\ ~served[q]
      BY <1>1, <1>2, <1>4 DEF Changes, ErrorInv
    <2>2. CASE \E i \in 1..Len(ticks) : ticks[i].request = q
      <3>1. PICK i \in 1..Len(ticks) : ticks[i].request = q
        BY <2>2
      <3>2. i \in 1..Len(ticks') /\ ticks'[i] = ticks[i]
        <4>1. CASE ticks' = ticks
          BY <4>1
        <4>2. ASSUME NEW err \in {"canceled", "invalid"}, Queued(r, call, err)
              PROVE  i \in 1..Len(ticks') /\ ticks'[i] = ticks[i]
          <5>1. [request |-> r, error |-> err] \in [request : Requests, error : Failures]
            BY DEF Failures
          <5>2. QED
            BY <1>2, <4>2, <5>1 DEF Queued, TypeOK, TicksType
        <4>3. QED
          BY <4>1, <4>2 DEF Called, Refused, Sent
      <3>3. QED
        BY <3>1, <3>2
    <2>3. CASE active # None /\ Current = q /\ (answered \/ message = "ignored") /\ ~served[q]
      <3>1. active' = active /\ answered' = answered /\ message' = message
        BY <2>3 DEF Called, Refused, Sent, Queued
      <3>2. QED
        BY <1>1, <1>4, <2>3, <3>1 DEF Changes, Current
    <2>4. QED
      BY <1>1, <1>4, <2>1, <2>2, <2>3 DEF Changes
  <1>5. QED
    BY <1>3, <1>4 DEF ErrorInv, Current

-----------------------------------------------------------------------------
(* The responses keep the invariants *)

LEMMA AnswersKeep ==
  ASSUME IndInv, ServerAnswers
  PROVE  PendingInv' /\ CountInv' /\ HandleInv' /\ ErrorInv' /\ AnswerInv' /\ MessageInv'
  <1>1. /\ active # None /\ ~answered /\ answered' = TRUE
        /\ UNCHANGED <<preparing, canceled, listeners, active, message, ticks, made, asked, outcome,
                       unheard>>
        /\ Prepares \/ Executes \/ Unprepares \/ Fails
        /\ message \in {"sent", "ignored"} /\ (message = "ignored" => Fails)
    BY Responses DEF IndInv
  <1>2. /\ TypeOK /\ PendingInv /\ CountInv /\ HandleInv /\ ErrorInv /\ MessageInv
        /\ Len(prepared) \in Nat /\ made \in Nat
    <2>1. TypeOK /\ PendingInv /\ CountInv /\ HandleInv /\ ErrorInv /\ MessageInv
      BY DEF IndInv
    <2>2. Len(prepared) \in Nat /\ made \in Nat
      BY <2>1, BoundAssumption DEF TypeOK
    <2>3. QED
      BY <2>1, <2>2
  <1>3. Current \in Requests /\ asked[Current] = active.call /\ asked[Current] # "none"
    BY <1>1, <1>2, CurrentTyped
  <1>4. \A q \in Requests : q # Current =>
           /\ served'[q] = served[q] /\ error'[q] = error[q] /\ handle'[q] = handle[q]
           /\ suspect'[q] = suspect[q]
    BY <1>1, <1>2, <1>3 DEF Prepares, Executes, Hears, Unprepares, Fails, Serves, TypeOK
  <1>5. Prepares \/ Executes \/ Unprepares => message = "sent"
    <2>1. Fails => ~served'[Current]
      BY <1>2, <1>3 DEF Fails, Serves, TypeOK
    <2>2. Prepares \/ Executes \/ Unprepares => served'[Current]
      BY <1>2, <1>3 DEF Prepares, Executes, Unprepares, Serves, TypeOK
    <2>3. QED
      BY <1>1, <2>1, <2>2
  <1>6. PendingInv'
    <2>1. \A i \in 1..Len(ticks) : ticks[i].request # Current /\ ticks[i].request \in Requests
      BY <1>1, <1>2, TickTyped DEF PendingInv
    <2>2. \A i \in 1..Len(ticks) : ~served'[ticks[i].request]
      BY <1>2, <1>4, <2>1 DEF PendingInv
    <2>3. QED
      BY <1>1, <1>2, <2>1, <2>2 DEF PendingInv, Current
  <1>7. CountInv'
    <2>1. Len(prepared') \in Nat /\ Len(prepared') <= Len(prepared) + 1
      <3>1. prepared \in Seq([request : Requests, open : BOOLEAN])
        BY <1>2 DEF TypeOK
      <3>2. CASE Prepares
        <4>1. [request |-> Current, open |-> TRUE] \in [request : Requests, open : BOOLEAN]
          BY <1>3
        <4>2. QED
          BY <3>1, <3>2, <4>1 DEF Prepares
      <3>3. CASE ~Prepares
        <4>1. prepared' = prepared \/ prepared' = [prepared EXCEPT ![active.handle].open = FALSE]
          BY <1>1, <3>3 DEF Executes, Unprepares, Fails
        <4>2. Len(prepared') = Len(prepared)
          BY <3>1, <4>1
        <4>3. QED
          BY <1>2, <4>2
      <3>4. QED
        BY <3>2, <3>3
    <2>2. QED
      BY <1>1, <1>2, <2>1 DEF CountInv
  <1>8. HandleInv'
    <2>1. prepared \in Seq([request : Requests, open : BOOLEAN])
      BY <1>2 DEF TypeOK
    <2>2. CASE Prepares
      <3>1. [request |-> Current, open |-> TRUE] \in [request : Requests, open : BOOLEAN]
        BY <1>3
      <3>2. /\ Len(prepared') = Len(prepared) + 1
            /\ \A k \in 1..Len(prepared) : prepared'[k] = prepared[k]
            /\ prepared'[Len(prepared) + 1].request = Current
        BY <2>1, <2>2, <3>1 DEF Prepares
      <3>3. handle'[Current] = handle[Current] \/ handle'[Current] = Len(prepared) + 1
        BY <1>2, <1>3, <2>2 DEF Prepares, TypeOK
      <3>4. ASSUME NEW q \in Requests, handle'[q] # NoHandle
            PROVE  handle'[q] \in 1..Len(prepared') /\ prepared'[handle'[q]].request = q
        BY <1>2, <1>4, <3>2, <3>3, <3>4 DEF HandleInv
      <3>5. QED
        BY <1>1, <3>4 DEF HandleInv
    <2>3. CASE ~Prepares
      <3>1. /\ Len(prepared') = Len(prepared)
            /\ \A k \in 1..Len(prepared) : prepared'[k].request = prepared[k].request
        <4>1. prepared' = prepared \/ prepared' = [prepared EXCEPT ![active.handle].open = FALSE]
          BY <1>1, <2>3 DEF Executes, Unprepares, Fails
        <4>2. \A k \in 1..Len(prepared) : prepared[k] \in [request : Requests, open : BOOLEAN]
          BY <2>1, ElementOfSeq
        <4>3. QED
          BY <2>1, <4>1, <4>2
      <3>2. handle'[Current] = handle[Current] \/ handle'[Current] = NoHandle
        BY <1>1, <1>2, <1>3, <2>3 DEF Executes, Hears, Unprepares, Fails, TypeOK
      <3>3. ASSUME NEW q \in Requests, handle'[q] # NoHandle
            PROVE  handle'[q] \in 1..Len(prepared') /\ prepared'[handle'[q]].request = q
        BY <1>2, <1>4, <3>1, <3>2, <3>3 DEF HandleInv
      <3>4. QED
        BY <1>1, <3>3 DEF HandleInv
    <2>4. QED
      BY <2>2, <2>3
  \* Before the response the request had no error of its own.
  <1>9. error[Current] # "none" =>
           canceled[Current] \/ suspect[Current] \/ message = "ignored"
    BY <1>1, <1>2, <1>3 DEF ErrorInv, PendingInv
  <1>10. error'[Current] # "none" => canceled[Current] \/ suspect'[Current] \/ ~served'[Current]
    <2>1. CASE Prepares \/ Unprepares
      BY <1>5, <1>9, <2>1 DEF Prepares, Unprepares
    <2>2. CASE Executes
      <3>1. CASE UNCHANGED <<handle, error, suspect>>
        BY <1>5, <1>9, <2>2, <3>1
      <3>2. CASE Hears
        BY <1>2, <1>3, <3>2 DEF Hears, TypeOK
      <3>3. QED
        BY <2>2, <3>1, <3>2 DEF Executes
    <2>3. CASE Fails
      BY <1>2, <1>3, <2>3 DEF Fails, Serves, TypeOK
    <2>4. QED
      BY <1>1, <2>1, <2>2, <2>3
  <1>11. ErrorInv'
    BY <1>1, <1>2, <1>3, <1>4, <1>10 DEF ErrorInv, Current
  <1>12. AnswerInv'
    <2>1. ASSUME ~Attention, error'[Current] = "none"
          PROVE  served'[Current] \/ unheard[Current]
      <3>1. CASE message = "sent"
        <4>1. ~canceled[Current]
          BY <2>1, <3>1 DEF Attention
        <4>2. ~Fails
          BY <1>2, <1>3, <2>1, <3>1, <4>1 DEF Fails, TypeOK
        <4>3. QED
          BY <1>1, <1>2, <1>3, <4>2 DEF Prepares, Executes, Unprepares, Serves, TypeOK
      <3>2. CASE message = "ignored"
        <4>1. error' = error
          BY <1>1, <3>2 DEF Fails
        <4>2. QED
          BY <1>1, <1>2, <2>1, <3>2, <4>1 DEF MessageInv
      <3>3. QED
        BY <1>1, <3>1, <3>2
    <2>2. QED
      BY <1>1, <2>1 DEF AnswerInv, Attention, Current
  <1>13. MessageInv'
    <2>1. message = "ignored" => /\ error'[Current] = error[Current]
                                 /\ ~served'[Current]
      BY <1>1, <1>2, <1>3 DEF Fails, Serves, TypeOK
    <2>2. QED
      BY <1>1, <1>2, <2>1 DEF MessageInv, Current
  <1>14. QED
    BY <1>6, <1>7, <1>8, <1>11, <1>12, <1>13

LEMMA TicksKeep ==
  ASSUME IndInv, RunTick
  PROVE  PendingInv' /\ CountInv' /\ HandleInv' /\ ErrorInv' /\ AnswerInv' /\ MessageInv'
  <1>1. /\ TypeOK /\ PendingInv /\ CountInv /\ HandleInv /\ ErrorInv /\ AnswerInv
        /\ MessageInv
    BY DEF IndInv
  <1>2. PICK r \in Requests, err \in Failures :
          /\ ticks # <<>> /\ r = ticks[1].request /\ err = ticks[1].error
          /\ asked[r] \in Calls /\ Tells(r, asked[r], err)
          /\ ticks' = Tail(ticks)
          /\ UNCHANGED <<handle, error, canceled, listeners, active, message, answered, prepared,
                         made, served, unheard, suspect>>
    BY <1>1, Ticks
  <1>3. /\ \A q \in Requests : q # r => /\ asked'[q] = asked[q] /\ outcome'[q] = outcome[q]
                                        /\ preparing'[q] = preparing[q]
        /\ asked'[r] = "none" /\ outcome'[r] = Told(asked[r], err)
    <2>1. asked[r] \in Calls /\ Tells(r, asked[r], err) /\ err \in Failures \cup {"none"}
      BY <1>2
    <2>2. QED
      BY <1>1, <2>1, TellsTyped, Zenon
  <1>4. /\ 1 \in 1..Len(ticks)
        /\ \A i \in 1..Len(ticks') : i + 1 \in 1..Len(ticks) /\ ticks'[i] = ticks[i + 1]
        /\ Len(ticks') = Len(ticks) - 1 /\ Len(ticks) \in Nat
    BY <1>1, <1>2, HeadAndTail DEF TypeOK
  <1>5. PendingInv'
    <2>1. \A i, j \in 1..Len(ticks') : ticks'[i].request = ticks'[j].request => i = j
      BY <1>1, <1>4 DEF PendingInv
    <2>2. \A i \in 1..Len(ticks') : ~served[ticks'[i].request]
      BY <1>1, <1>4 DEF PendingInv
    <2>3. active # None => \A i \in 1..Len(ticks') : ticks'[i].request # Current
      BY <1>1, <1>4 DEF PendingInv
    <2>4. \A q \in Requests : asked'[q] = "prepare" => preparing'[q] /\ listeners[q] > 0
      BY <1>1, <1>3 DEF PendingInv
    <2>5. QED
      BY <1>2, <2>1, <2>2, <2>3, <2>4 DEF PendingInv, Current
  <1>6. CountInv' /\ HandleInv' /\ AnswerInv' /\ MessageInv'
    BY <1>1, <1>2 DEF CountInv, HandleInv, AnswerInv, MessageInv, Attention, Current
  <1>7. outcome'[r].error # "none"
    BY <1>2, <1>3 DEF Told, Failures
  <1>8. ASSUME NEW q \in Requests, q # r, NEW i \in 1..Len(ticks), ticks[i].request = q
        PROVE  \E j \in 1..Len(ticks') : ticks'[j].request = q
    <2>1. i # 1 /\ i \in Nat
      BY <1>2, <1>8
    <2>2. i - 1 \in 1..Len(ticks') /\ (i - 1) + 1 = i
      BY <1>4, <2>1
    <2>3. ticks'[i - 1] = ticks[i]
      BY <1>4, <2>2
    <2>4. QED
      BY <1>8, <2>2, <2>3
  <1>9. ErrorInv'
    <2>1. ASSUME NEW q \in Requests, q # r, error[q] # "none"
          PROVE  \/ canceled[q] \/ suspect[q]
                 \/ asked'[q] = "none" /\ outcome'[q].error # "none"
                 \/ \E i \in 1..Len(ticks') : ticks'[i].request = q
                 \/ active # None /\ Current = q /\ (answered \/ message = "ignored") /\ ~served[q]
      BY <1>1, <1>3, <1>8, <2>1 DEF ErrorInv
    <2>2. QED
      BY <1>2, <1>3, <1>7, <2>1 DEF ErrorInv, Current
  <1>10. QED
    BY <1>5, <1>6, <1>9

LEMMA EndsKeep ==
  ASSUME IndInv, Completes
  PROVE  PendingInv' /\ CountInv' /\ HandleInv' /\ ErrorInv' /\ AnswerInv' /\ MessageInv'
  <1>1. TypeOK /\ PendingInv /\ CountInv /\ HandleInv /\ ErrorInv /\ MessageInv
    BY DEF IndInv
  <1>2. PICK err \in Failures \cup {"none"} :
          /\ active # None /\ answered /\ Tells(Current, active.call, err)
          /\ err = IF Attention THEN "canceled" ELSE error[Current]
          /\ active' = None /\ message' = "none" /\ answered' = FALSE
          /\ UNCHANGED <<handle, error, canceled, listeners, ticks, prepared, made, served,
                         unheard, suspect>>
    BY <1>1, Ends
  <1>3. Current \in Requests /\ active.call \in Calls
    BY <1>1, <1>2, CurrentTyped
  <1>4. /\ \A q \in Requests : q # Current => /\ asked'[q] = asked[q] /\ outcome'[q] = outcome[q]
                                              /\ preparing'[q] = preparing[q]
        /\ asked'[Current] = "none" /\ outcome'[Current] = Told(active.call, err)
    BY <1>1, <1>2, <1>3, TellsTyped, Zenon
  <1>5. PendingInv'
    <2>1. \A q \in Requests : asked'[q] = "prepare" => preparing'[q] /\ listeners[q] > 0
      BY <1>1, <1>4 DEF PendingInv
    <2>2. QED
      BY <1>1, <1>2, <2>1 DEF PendingInv
  <1>6. CountInv' /\ HandleInv' /\ AnswerInv' /\ MessageInv'
    BY <1>1, <1>2 DEF CountInv, HandleInv, AnswerInv, MessageInv, Attention
  <1>7. error[Current] # "none" => canceled[Current] \/ outcome'[Current].error # "none"
    BY <1>2, <1>4 DEF Told
  <1>8. ErrorInv'
    BY <1>1, <1>2, <1>4, <1>7 DEF ErrorInv
  <1>9. QED
    BY <1>5, <1>6, <1>8

LEMMA InitIndInv == Init => IndInv
  <1>1. SUFFICES ASSUME Init PROVE IndInv
    OBVIOUS
  <1>2. TypeOK
    <2>1. NoOutcome \in [call : Calls \cup {"none"}, via : {"none", "event", "callback"},
                         error : Failures \cup {"none"}]
      BY DEF NoOutcome
    <2>2. ticks = <<>> /\ prepared = <<>> /\ Len(ticks) = 0
      BY <1>1 DEF Init
    <2>3. ticks \in TicksType /\ prepared \in Seq([request : Requests, open : BOOLEAN])
      BY <2>2, EmptySeq DEF TicksType
    <2>4. \A r \in Requests : preparing[r] => asked[r] = "prepare"
      BY <1>1 DEF Init
    <2>5. /\ preparing \in [Requests -> BOOLEAN] /\ canceled \in [Requests -> BOOLEAN]
          /\ served \in [Requests -> BOOLEAN] /\ suspect \in [Requests -> BOOLEAN]
          /\ unheard \in [Requests -> BOOLEAN]
          /\ handle \in [Requests -> Handles \cup {NoHandle}]
          /\ error \in [Requests -> Failures \cup {"none"}]
          /\ asked \in [Requests -> Calls \cup {"none"}]
      BY <1>1 DEF Init
    <2>6. /\ listeners \in [Requests -> 0..MaxCalls] /\ made \in 0..MaxCalls
          /\ outcome \in [Requests -> [call : Calls \cup {"none"},
                  via : {"none", "event", "callback"}, error : Failures \cup {"none"}]]
      <3>1. /\ listeners = [r \in Requests |-> 0] /\ made = 0
            /\ outcome = [r \in Requests |-> NoOutcome]
        BY <1>1 DEF Init
      <3>2. listeners \in [Requests -> 0..MaxCalls] /\ made \in 0..MaxCalls
        BY <3>1, BoundAssumption
      <3>3. outcome \in [Requests -> [call : Calls \cup {"none"},
                  via : {"none", "event", "callback"}, error : Failures \cup {"none"}]]
        BY <2>1, <3>1
      <3>4. QED
        BY <3>2, <3>3
    <2>7. active = None /\ message = "none" /\ answered = FALSE
      BY <1>1 DEF Init
    <2>8. /\ active \in Active \cup {None} /\ answered \in BOOLEAN
          /\ active # None => asked[Current] = active.call
          /\ message \in {"none", "streaming", "ending", "sent", "ignored"}
          /\ active = None <=> message = "none"
      BY <2>7
    <2>9. \A i \in 1..Len(ticks) : asked[ticks[i].request] # "none"
      BY <2>2
    <2>10. QED
      BY <2>3, <2>4, <2>5, <2>6, <2>8, <2>9, Zenon DEF TypeOK, TicksType
  <1>3. Len(ticks) = 0 /\ Len(prepared) = 0
    BY <1>1 DEF Init
  <1>4. PendingInv
    BY <1>1, <1>3 DEF Init, PendingInv
  <1>5. CountInv /\ HandleInv /\ ErrorInv /\ AnswerInv /\ MessageInv
    BY <1>1, <1>3 DEF Init, CountInv, HandleInv, ErrorInv, AnswerInv, MessageInv
  <1>6. QED
    BY <1>2, <1>4, <1>5 DEF IndInv

LEMMA NextIndInv == IndInv /\ [Next]_vars => IndInv'
  <1>1. SUFFICES ASSUME IndInv, [Next]_vars PROVE IndInv'
    OBVIOUS
  <1>2. TypeOK /\ TypeOK'
    BY <1>1, NextTyped DEF IndInv
  <1>3. ASSUME NEW r \in Requests, Prepare(r) \/ Execute(r) \/ Unprepare(r) \/ ExecSql(r)
        PROVE  PendingInv' /\ CountInv' /\ HandleInv' /\ ErrorInv' /\ AnswerInv' /\ MessageInv'
    BY <1>1, <1>2, <1>3, CallKinds, CalledPending, CalledCounts, CalledErrors
  <1>4. ASSUME UNCHANGED vars
        PROVE  PendingInv' /\ CountInv' /\ HandleInv' /\ ErrorInv' /\ AnswerInv' /\ MessageInv'
    BY <1>1, <1>4 DEF vars, requestVars, callVars, programVars, IndInv, PendingInv, CountInv, HandleInv,
                      ErrorInv, AnswerInv, MessageInv, Attention, Current
  <1>5. QED
    BY <1>1, <1>2, <1>3, <1>4, GoesKeep, TicksKeep, EndsKeep, AnswersKeep
       DEF Next, IndInv, MessageGoes

-----------------------------------------------------------------------------
(* What the program is told *)

LEMMA NextOutcome == IndInv /\ OutcomeIsItsOwn /\ [Next]_vars => OutcomeIsItsOwn'
  <1>1. SUFFICES ASSUME IndInv, OutcomeIsItsOwn, [Next]_vars PROVE OutcomeIsItsOwn'
    OBVIOUS
  <1>2. TypeOK /\ PendingInv /\ ErrorInv /\ AnswerInv /\ MessageInv
    BY <1>1 DEF IndInv
  <1>3. ASSUME NEW r \in Requests, Prepare(r) \/ Execute(r) \/ Unprepare(r) \/ ExecSql(r)
        PROVE  OutcomeIsItsOwn'
    <2>1. PICK call \in Calls : Called(r, call)
      BY <1>2, <1>3, CallKinds
    <2>2. Changes(r, call)
      BY <1>1, <2>1, CalledChanges
    <2>3. CASE Refused(r, call)
      <3>1. outcome'[r] = Told(call, "refused")
        BY <1>2, <2>3 DEF Refused, Tells, TypeOK
      <3>2. QED
        BY <1>1, <2>2, <3>1 DEF OutcomeIsItsOwn, Changes, Told
    <2>4. CASE ~Refused(r, call)
      <3>1. asked'[r] # "none"
        BY <1>2, <2>1, <2>4 DEF Called, Queued, Sent, TypeOK, Calls
      <3>2. QED
        BY <1>1, <2>2, <3>1 DEF OutcomeIsItsOwn, Changes
    <2>5. QED
      BY <2>3, <2>4
  <1>4. CASE MessageGoes \/ UNCHANGED vars
    <2>1. Gone \/ UNCHANGED vars
      BY <1>1, <1>4, Goes
    <2>2. /\ UNCHANGED <<asked, outcome, served, suspect>>
          /\ \A q \in Requests : unheard[q] => unheard'[q]
      BY <2>1 DEF Gone, vars, requestVars, callVars, programVars
    <2>3. QED
      BY <1>1, <2>2 DEF OutcomeIsItsOwn
  <1>5. CASE RunTick
    <2>1. PICK r \in Requests, err \in Failures :
            /\ ticks # <<>> /\ r = ticks[1].request /\ err = ticks[1].error
            /\ asked[r] \in Calls /\ Tells(r, asked[r], err)
            /\ ticks' = Tail(ticks)
            /\ UNCHANGED <<handle, error, canceled, listeners, active, message, answered, prepared,
                         made, served, unheard, suspect>>
      BY <1>2, <1>5, Ticks
    <2>2. asked[r] \in Calls /\ Tells(r, asked[r], err) /\ err \in Failures \cup {"none"}
             /\ err # "none"
      BY <2>1 DEF Failures
    <2>3. /\ \A q \in Requests : q # r => asked'[q] = asked[q] /\ outcome'[q] = outcome[q]
          /\ outcome'[r] = Told(asked[r], err)
      BY <1>2, <2>2, TellsTyped, Zenon
    <2>4. ~served[r]
      BY <1>2, <2>1, HeadAndTail DEF PendingInv
    <2>5. QED
      BY <1>1, <2>1, <2>2, <2>3, <2>4 DEF OutcomeIsItsOwn, Told
  <1>6. CASE ServerAnswers
    <2>1. /\ active # None /\ UNCHANGED <<asked, outcome, unheard>>
          /\ Prepares \/ Executes \/ Unprepares \/ Fails
        /\ message \in {"sent", "ignored"} /\ (message = "ignored" => Fails)
      BY <1>2, <1>6, Responses
    <2>2. Current \in Requests /\ asked[Current] # "none"
      BY <1>2, <2>1, CurrentTyped
    <2>3. \A q \in Requests : q # Current => served'[q] = served[q] /\ suspect'[q] = suspect[q]
      BY <1>2, <2>1, <2>2 DEF Prepares, Executes, Hears, Unprepares, Fails, Serves, TypeOK
    <2>4. QED
      BY <1>1, <2>1, <2>2, <2>3 DEF OutcomeIsItsOwn
  <1>7. CASE Completes
    <2>1. PICK err \in Failures \cup {"none"} :
            /\ active # None /\ answered /\ Tells(Current, active.call, err)
            /\ err = IF Attention THEN "canceled" ELSE error[Current]
            /\ active' = None /\ message' = "none" /\ answered' = FALSE
            /\ UNCHANGED <<handle, error, canceled, listeners, ticks, prepared, made, served,
                         unheard, suspect>>
      BY <1>2, <1>7, Ends
    <2>2. Current \in Requests /\ active.call \in Calls /\ asked[Current] # "none"
      BY <1>2, <2>1, CurrentTyped
    <2>3. /\ \A q \in Requests : q # Current => asked'[q] = asked[q] /\ outcome'[q] = outcome[q]
          /\ outcome'[Current] = Told(active.call, err)
      BY <1>2, <2>1, <2>2, TellsTyped, Zenon
    <2>4. err = "none" => served[Current] \/ unheard[Current]
      BY <1>2, <2>1 DEF AnswerInv
    <2>5. served[Current] /\ ~suspect[Current] => err \in {"none", "canceled"}
      BY <1>2, <2>1, <2>2 DEF ErrorInv, PendingInv, MessageInv, Attention
    <2>6. QED
      BY <1>1, <2>1, <2>2, <2>3, <2>4, <2>5 DEF OutcomeIsItsOwn, Told
  <1>8. QED
    BY <1>1, <1>3, <1>4, <1>5, <1>6, <1>7 DEF Next, MessageGoes

-----------------------------------------------------------------------------
(* The handle *)

LEMMA NextHandle ==
  ASSUME "handle" \notin OutputNames, IndInv, AnsweredInv, HandleIsPrepared, [Next]_vars
  PROVE  AnsweredInv' /\ HandleIsPrepared'
  <1>1. TypeOK /\ PendingInv /\ HandleInv /\ AnswerInv /\ MessageInv
    BY DEF IndInv
  <1>2. active # None => Current \in Requests /\ active.call \in Calls /\ asked[Current] # "none"
    BY <1>1, CurrentTyped
  <1>3. ASSUME NEW r \in Requests, Prepare(r) \/ Execute(r) \/ Unprepare(r) \/ ExecSql(r)
        PROVE  AnsweredInv' /\ HandleIsPrepared'
    <2>1. PICK call \in Calls : Called(r, call)
      BY <1>1, <1>3, CallKinds
    <2>2. Changes(r, call)
      BY <2>1, CalledChanges
    <2>3. asked'[r] # "none" \/ outcome'[r].error # "none"
      BY <1>1, <2>1 DEF Called, Refused, Tells, Told, Queued, Sent, TypeOK, Calls
    <2>4. HandleIsPrepared'
      BY <2>2, <2>3 DEF HandleIsPrepared, IsOpen, Changes
    <2>5. (active' = active /\ answered' = answered) \/ ~answered'
      BY <2>1 DEF Called, Refused, Queued, Sent
    <2>6. AnsweredInv'
      BY <2>2, <2>5 DEF AnsweredInv, IsOpen, Changes, Current
    <2>7. QED
      BY <2>4, <2>6
  <1>4. ASSUME MessageGoes
        PROVE  AnsweredInv' /\ HandleIsPrepared'
    <2>1. Gone
      BY <1>4, Goes
    <2>2. HandleIsPrepared'
      BY <2>1 DEF HandleIsPrepared, IsOpen, Gone
    <2>3. AnsweredInv'
      <3>1. active # None /\ answered => error'[Current] = error[Current]
        BY <1>2, <2>1 DEF Gone
      <3>2. QED
        BY <1>2, <2>1, <3>1 DEF AnsweredInv, IsOpen, Gone, Current
    <2>4. QED
      BY <2>2, <2>3
  <1>5. CASE RunTick
    <2>1. PICK r \in Requests, err \in Failures :
            /\ ticks # <<>> /\ r = ticks[1].request /\ err = ticks[1].error
            /\ asked[r] \in Calls /\ Tells(r, asked[r], err)
            /\ ticks' = Tail(ticks)
            /\ UNCHANGED <<handle, error, canceled, listeners, active, message, answered, prepared,
                         made, served, unheard, suspect>>
      BY <1>1, <1>5, Ticks
    <2>2. asked[r] \in Calls /\ Tells(r, asked[r], err) /\ err \in Failures \cup {"none"}
             /\ err # "none"
      BY <2>1 DEF Failures
    <2>3. /\ \A q \in Requests : q # r => asked'[q] = asked[q] /\ outcome'[q] = outcome[q]
          /\ outcome'[r] = Told(asked[r], err)
      BY <1>1, <2>2, TellsTyped, Zenon
    <2>4. QED
      BY <2>1, <2>2, <2>3 DEF AnsweredInv, HandleIsPrepared, IsOpen, Current, Told
  <1>6. CASE ServerAnswers
    <2>1. /\ active # None /\ ~answered /\ answered' = TRUE
          /\ UNCHANGED <<preparing, canceled, listeners, active, message, ticks, made, asked, outcome,
                       unheard>>
          /\ Prepares \/ Executes \/ Unprepares \/ Fails
        /\ message \in {"sent", "ignored"} /\ (message = "ignored" => Fails)
      BY <1>1, <1>6, Responses
    <2>2. /\ Current \in Requests /\ asked[Current] = active.call /\ asked[Current] # "none"
          /\ active.handle = handle[Current]
      BY <1>1, <2>1, CurrentTyped DEF HandleInv
    <2>3. \A q \in Requests : q # Current => handle'[q] = handle[q]
      BY <1>1, <2>1, <2>2 DEF Prepares, Executes, Hears, Unprepares, Fails, TypeOK
    <2>4. /\ prepared \in Seq([request : Requests, open : BOOLEAN]) /\ Len(prepared) \in Nat
          /\ \A k \in 1..Len(prepared) : prepared[k] \in [request : Requests, open : BOOLEAN]
      <3>1. prepared \in Seq([request : Requests, open : BOOLEAN])
        BY <1>1 DEF TypeOK
      <3>2. Len(prepared) \in Nat
        BY <3>1, LenProperties
      <3>3. \A k \in 1..Len(prepared) : prepared[k] \in [request : Requests, open : BOOLEAN]
        BY <3>1, ElementOfSeq
      <3>4. QED
        BY <3>1, <3>2, <3>3
    <2>5. \/ prepared' = prepared
          \/ Prepares /\ Len(prepared') = Len(prepared) + 1
                      /\ \A k \in 1..Len(prepared) : prepared'[k] = prepared[k]
                      /\ prepared'[Len(prepared) + 1].open
          \/ Unprepares /\ Len(prepared') = Len(prepared)
                        /\ \A k \in 1..Len(prepared) :
                              k # active.handle => prepared'[k] = prepared[k]
      <3>1. CASE Prepares
        <4>1. [request |-> Current, open |-> TRUE] \in [request : Requests, open : BOOLEAN]
          BY <2>2
        <4>2. QED
          <5>1. prepared' = Append(prepared, [request |-> Current, open |-> TRUE])
            BY <3>1 DEF Prepares
          <5>2. /\ Len(prepared') = Len(prepared) + 1
                /\ \A k \in 1..Len(prepared) : prepared'[k] = prepared[k]
                /\ prepared'[Len(prepared) + 1] = [request |-> Current, open |-> TRUE]
            BY <2>4, <4>1, <5>1, AppendProperties
          <5>3. QED
            BY <3>1, <5>2
      <3>2. CASE Unprepares
        <4>1. prepared' = [prepared EXCEPT ![active.handle].open = FALSE]
          BY <3>2 DEF Unprepares
        <4>2. /\ Len(prepared') = Len(prepared)
              /\ \A k \in 1..Len(prepared) : k # active.handle => prepared'[k] = prepared[k]
          BY <2>4, <4>1
        <4>3. QED
          BY <3>2, <4>2
      <3>3. QED
        BY <2>1, <3>1, <3>2 DEF Executes, Fails
    <2>6. ASSUME NEW q \in Requests, q # Current, IsOpen(handle[q]), prepared[handle[q]].request = q
          PROVE  handle'[q] \in 1..Len(prepared') /\ prepared'[handle'[q]] = prepared[handle[q]]
      <3>1. handle[q] \in 1..Len(prepared)
        BY <2>6 DEF IsOpen
      <3>2. Unprepares => handle[q] # active.handle
        <4>1. Unprepares => active.handle \in 1..Len(prepared) /\ active.handle # NoHandle
          BY <2>4 DEF Unprepares, IsOpen, NoHandle
        <4>2. Unprepares => prepared[active.handle].request = Current
          BY <1>1, <2>2, <4>1 DEF HandleInv
        <4>3. QED
          BY <2>6, <4>2
      <3>3. QED
        BY <2>3, <2>4, <2>5, <2>6, <3>1, <3>2
    <2>7. HandleIsPrepared'
      BY <2>1, <2>2, <2>6 DEF HandleIsPrepared, IsOpen
    <2>8. ASSUME active.call \in {"prepare", "execute"}, ~canceled[Current],
                 error'[Current] = "none"
          PROVE  handle'[Current] \in 1..Len(prepared') /\ prepared'[handle'[Current]].open
      <3>1. ~Unprepares /\ ~Fails
        <4>1. CASE message = "ignored"
          <5>1. error' = error /\ ~unheard[Current]
            BY <1>1, <2>1, <2>2, <2>8, <4>1 DEF Fails, MessageInv
          <5>2. QED
            BY <1>1, <2>1, <2>8, <4>1, <5>1 DEF MessageInv
        <4>2. CASE message = "sent"
          BY <1>1, <2>2, <2>8, <4>2 DEF Unprepares, Fails, TypeOK
        <4>3. QED
          BY <2>1, <4>1, <4>2
      <3>2. CASE Prepares
        <4>1. listeners[Current] > 0
          BY <1>1, <2>2, <3>2 DEF PendingInv, Prepares
        <4>2. handle'[Current] = Len(prepared) + 1
          BY <1>1, <2>2, <2>8, <3>2, <4>1 DEF Prepares, TypeOK
        <4>3. [request |-> Current, open |-> TRUE] \in [request : Requests, open : BOOLEAN]
          BY <2>2
        <4>4. Len(prepared') = Len(prepared) + 1 /\ prepared'[Len(prepared) + 1].open
          BY <2>4, <3>2, <4>3 DEF Prepares
        <4>5. QED
          BY <2>4, <4>2, <4>4
      <3>3. CASE Executes
        BY <2>2, <2>8, <3>3 DEF Executes, Hears, IsOpen
      <3>4. QED
        BY <2>1, <3>1, <3>2, <3>3
    <2>9. AnsweredInv'
      BY <2>1, <2>8 DEF AnsweredInv, IsOpen, Current
    <2>10. QED
      BY <2>7, <2>9
  <1>7. CASE Completes
    <2>1. PICK err \in Failures \cup {"none"} :
            /\ active # None /\ answered /\ Tells(Current, active.call, err)
            /\ err = IF Attention THEN "canceled" ELSE error[Current]
            /\ active' = None /\ message' = "none" /\ answered' = FALSE
            /\ UNCHANGED <<handle, error, canceled, listeners, ticks, prepared, made, served,
                         unheard, suspect>>
      BY <1>1, <1>7, Ends
    <2>2. /\ \A q \in Requests : q # Current => asked'[q] = asked[q] /\ outcome'[q] = outcome[q]
          /\ outcome'[Current] = Told(active.call, err)
      BY <1>1, <1>2, <2>1, TellsTyped, Zenon
    <2>3. ASSUME active.call \in {"prepare", "execute"}, err = "none", ~unheard[Current]
          PROVE  IsOpen(handle[Current]) /\ prepared[handle[Current]].request = Current
      <3>1. IsOpen(handle[Current])
        <4>1. message # "ignored" /\ message \in {"sent", "ignored"}
          BY <1>1, <2>1, <2>3 DEF MessageInv
        <4>2. QED
          BY <2>1, <2>3, <4>1 DEF AnsweredInv, Attention
      <3>2. handle[Current] # NoHandle
        BY <1>1, <3>1 DEF IsOpen, NoHandle, TypeOK
      <3>3. QED
        BY <1>1, <1>2, <2>1, <3>1, <3>2 DEF HandleInv
    <2>4. QED
      BY <2>1, <2>2, <2>3 DEF AnsweredInv, HandleIsPrepared, IsOpen, Told
  <1>8. CASE UNCHANGED vars
    BY <1>8 DEF vars, requestVars, callVars, programVars, AnsweredInv, HandleIsPrepared, IsOpen, Current
  <1>9. QED
    BY <1>3, <1>4, <1>5, <1>6, <1>7, <1>8 DEF Next, MessageGoes

-----------------------------------------------------------------------------
(* Theorems *)

\* The state of the requests and of the connection is well formed.
THEOREM TypeCorrect == Spec => []TypeOK
  <1>1. IndInv => TypeOK
    BY DEF IndInv
  <1>2. QED
    BY <1>1, InitIndInv, NextIndInv, PTL DEF Spec

\* What the program is told of a call is what the server did for it, whatever the
\* request was used for before and whenever it is canceled, but between the end of its
\* payload and the 'finish' of its message: its old error and its old listeners are
\* heard again only after a failure or an output that a prepare() heard.
THEOREM ToldItsOwn == Spec => []OutcomeIsItsOwn
  <1>1. Init => OutcomeIsItsOwn
    BY DEF Init, OutcomeIsItsOwn
  <1>2. QED
    BY <1>1, InitIndInv, NextIndInv, NextOutcome, PTL DEF Spec

\* A request that was reported as prepared, or as executed, and was not canceled where
\* no error is told, has an open handle that the server made for it, if no procedure
\* has an output parameter named handle.
THEOREM KeepsItsHandle ==
  ASSUME "handle" \notin OutputNames
  PROVE  Spec => []HandleIsPrepared
  <1>1. Init => AnsweredInv /\ HandleIsPrepared
    BY DEF Init, AnsweredInv, HandleIsPrepared, NoOutcome
  <1>2. IndInv /\ AnsweredInv /\ HandleIsPrepared /\ [Next]_vars
           => AnsweredInv' /\ HandleIsPrepared'
    BY NextHandle
  <1>3. QED
    BY <1>1, <1>2, InitIndInv, NextIndInv, PTL DEF Spec


=============================================================================
