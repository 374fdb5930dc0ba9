-------------------------- MODULE TransactionsProofs --------------------------
(***************************************************************************)
(* What is proved of transactions: that the connection and the server      *)
(* agree on the transaction that requests are for, that none is left open  *)
(* behind the program, and that what it is told of a transaction is what   *)
(* becomes of the work in it; and of a session: that what the constructor  *)
(* takes can be used, that the settings are those that were asked for, and *)
(* that a transaction has the isolation level that was.                    *)
(***************************************************************************)
EXTENDS Session, SequenceTheorems, FiniteSetTheorems, TLAPS

-----------------------------------------------------------------------------
(* The inductive invariant *)

Starts == {"begin", "save", "isolation"}
Ends   == {"commit", "rollback"}

\* What the server knows the transaction or the savepoint of a frame by
NameOf(frame) == IF frame.kind = "manual" THEN Anonymous ELSE frame.id

\* The frames around the innermost one are open, and the later ones are nested
\* in a transaction there is.
FramesInv ==
    /\ \A i \in 1..Len(frames) :
          /\ i < Len(frames) => frames[i].phase = "open"
          /\ 1 < i => frames[i].kind # "begin"
          /\ frames[i].id <= made
    /\ \A i, j \in 1..Len(frames) : i < j => frames[i].id < frames[j].id

PhaseDuring(op) == CASE op \in Starts -> "starting"
                     [] op \in Ends   -> "ending"
                     [] OTHER         -> "open"

\* The request under way is for the innermost frame.
RequestInv ==
    /\ Idle => response = None
    /\ frames = <<>> => request.op \in {"none", "reset"}
    /\ frames # <<>> =>
          /\ Top.phase = PhaseDuring(request.op)
          /\ request.op \in {"begin", "commit"} => Top.kind # "save"
          /\ request.op \in {"save", "isolation"} => Top.kind = "save"
          /\ request.op \in {"begin", "save", "commit", "rollback"} =>
                request.name = NameOf(Top)
          /\ request.op = "work" => request.name = Top.id

\* The savepoints are in the order they were set in, and within the log.
SavepointInv ==
    /\ trancount = 0 => savepoints = <<>> /\ log = <<>>
    /\ \A s \in 1..Len(savepoints) :
          savepoints[s].mark <= Len(log) /\ savepoints[s].name <= made
    /\ \A s, t \in 1..Len(savepoints) : s <= t => savepoints[s].mark <= savepoints[t].mark

\* Before 7.2 the depth counts the frames whose begin has been answered, if not more.
Starting == IF request.op \in {"begin", "save"} THEN 1 ELSE 0
DepthInv == Old => transactionDepth >= Len(frames) - Starting

IndInv == TypeOK /\ FramesInv /\ RequestInv /\ SavepointInv /\ DepthInv

-----------------------------------------------------------------------------
(* What the connection and the server agree on *)

Env == IF response = None THEN "none" ELSE response.env

\* Since 7.2: the connection has, or will have with the response under way, the
\* descriptor of the server's transaction, and knows whether there is one.
SinceInv ==
    ~Old /\ connected =>
        /\ transactionDescriptors[1] = NoTransaction
        /\ (descriptor = NoTransaction) <=> (trancount = 0)
        /\ Last(DescriptorsAfter(transactionDescriptors, Env)) = descriptor
        /\ InTransactionAfter(inTransaction, Env) = (trancount > 0)
        /\ request.op \in {"save", "isolation"} => Env = "none"
        /\ ~Idle /\ response = None => request.descriptor = descriptor
        /\ request.op = "begin" /\ response = None /\ Len(frames) > 1 => inTransaction

\* The frames with a begin of their own, and whether the server has not yet begun,
\* or has already ended, the innermost one
Begins(fs) == {i \in 1..Len(fs) : fs[i].kind # "save"}
Count(fs)  == Cardinality(Begins(fs))
Pending ==
    IF /\ frames # <<>> /\ Top.kind # "save"
       /\ \/ request.op = "begin" /\ (response = None \/ response.error)
          \/ request.op \in Ends /\ response # None
    THEN 1 ELSE 0

\* Until the program is told otherwise than the server did
Claim == connected /\ ~strayed

\* The server has as many transactions as frames, or was rolled back and has none;
\* the outermost frame began the one there is.
CountInv ==
    Claim =>
        /\ trancount + Pending <= Count(frames)
        /\ trancount > 0 => trancount + Pending = Count(frames)
        /\ frames # <<>> =>
              /\ frames[1].kind # "save"
              /\ trancount > 0 => tranName = NameOf(frames[1])
              /\ \A s \in 1..Len(savepoints) : savepoints[s].name > frames[1].id

\* Before 7.2 the depth is that of the frames, and there is a transaction for each.
BeforeInv ==
    Old /\ Claim =>
        /\ trancount + Pending = Count(frames)
        /\ transactionDepth = Len(frames) - Starting
        /\ inTransaction = (transactionDepth > 0)
        /\ response # None => /\ response.env = "none" /\ ~response.error
                              /\ request.op = "reset" => frames = <<>>

AgreeInv == IndInv /\ SinceInv /\ CountInv /\ BeforeInv

-----------------------------------------------------------------------------
(* Frames *)

LEMMA SubSeqFromOne ==
  ASSUME NEW S, NEW s \in Seq(S), NEW n \in Nat, n <= Len(s)
  PROVE  /\ SubSeq(s, 1, n) \in Seq(S) /\ Len(SubSeq(s, 1, n)) = n
         /\ \A i \in 1..n : SubSeq(s, 1, n)[i] = s[i]
  <1>1. \A i \in 1..n : s[i] \in S
    BY ElementOfSeq, LenProperties
  <1>2. /\ SubSeq(s, 1, n) \in Seq(S)
        /\ Len(SubSeq(s, 1, n)) = IF 1 <= n THEN n - 1 + 1 ELSE 0
        /\ \A i \in 1..n - 1 + 1 : SubSeq(s, 1, n)[i] = s[1 + i - 1]
    BY <1>1, SubSeqProperties
  <1>3. QED
    BY <1>2

\* A call opens a frame.
LEMMA Pushed ==
  ASSUME TypeOK, NEW kind \in Kinds, NEW level \in IsolationLevels, made < MaxFrames,
         Push(kind, level)
  PROVE  \E f \in FrameRecord :
            /\ f.id = made + 1 /\ f.kind = kind /\ f.level = level /\ f.phase = "starting"
            /\ frames' = Append(frames, f) /\ frames' \in Seq(FrameRecord)
            /\ Len(frames') = Len(frames) + 1 /\ frames' # <<>>
            /\ \A i \in 1..Len(frames) : frames'[i] = frames[i]
            /\ frames'[Len(frames) + 1] = f /\ Top' = f /\ Front(frames') = frames
  <1> DEFINE f == [id |-> made + 1, kind |-> kind, level |-> level, phase |-> "starting"]
  <1>1. f \in FrameRecord /\ frames' = Append(frames, f) /\ frames \in Seq(FrameRecord)
    BY BoundAssumption DEF TypeOK, FrameRecord, Frames, Push
  <1>2. f.id = made + 1 /\ f.kind = kind /\ f.level = level /\ f.phase = "starting"
    OBVIOUS
  <1> HIDE DEF f
  <1>3. /\ Len(frames') = Len(frames) + 1 /\ frames' \in Seq(FrameRecord) /\ frames' # <<>>
        /\ \A i \in 1..Len(frames) : frames'[i] = frames[i]
        /\ frames'[Len(frames) + 1] = f
    BY <1>1, AppendProperties
  <1>4. Top' = f /\ Front(frames') = frames
    BY <1>1, <1>3 DEF Top, Last, Front
  <1>5. QED
    BY <1>1, <1>2, <1>3, <1>4

\* A frame ends.
LEMMA Popped ==
  ASSUME TypeOK, frames # <<>>, NEW outcome, Pop(outcome)
  PROVE  /\ frames' \in Seq(FrameRecord) /\ frames' = Front(frames)
         /\ Len(frames') = Len(frames) - 1 /\ Len(frames) \in Nat \ {0}
         /\ \A i \in 1..Len(frames') : frames'[i] = frames[i]
         /\ frames' # <<>> => Top' = frames[Len(frames) - 1]
  <1>1. Len(frames) \in Nat \ {0} /\ \A i \in 1..Len(frames) : frames[i] \in FrameRecord
    BY EmptySeq, ElementOfSeq DEF TypeOK
  <1>2. frames' = SubSeq(frames, 1, Len(frames) - 1)
    BY DEF Pop, Front
  <1>3. /\ frames' \in Seq(FrameRecord) /\ Len(frames') = Len(frames) - 1
        /\ \A i \in 1..Len(frames') : frames'[i] = frames[i]
    <2>1. frames \in Seq(FrameRecord) /\ Len(frames) - 1 \in Nat
          /\ Len(frames) - 1 <= Len(frames)
      BY <1>1 DEF TypeOK
    <2>2. QED
      BY <1>2, <2>1, SubSeqFromOne
  <1>4. frames' # <<>> => Top' = frames[Len(frames) - 1]
    BY <1>1, <1>3, EmptySeq DEF Top, Last
  <1>5. QED
    BY <1>1, <1>2, <1>3, <1>4 DEF Front

\* The innermost frame is open, or about to end.
LEMMA Became ==
  ASSUME TypeOK, frames # <<>>, NEW phase \in {"starting", "open", "ending"}, Become(phase)
  PROVE  /\ frames' \in Seq(FrameRecord) /\ frames' # <<>> /\ Len(frames') = Len(frames)
         /\ Len(frames) \in Nat \ {0}
         /\ \A i \in 1..Len(frames) - 1 : frames'[i] = frames[i]
         /\ \A i \in 1..Len(frames) : /\ frames'[i].id = frames[i].id
                                      /\ frames'[i].kind = frames[i].kind
                                      /\ frames'[i].level = frames[i].level
         /\ Top' = frames'[Len(frames)] /\ Top = frames[Len(frames)]
         /\ Top'.phase = phase
  <1> DEFINE n == Len(frames)
             f == [frames[n] EXCEPT !.phase = phase]
  <1>1. n \in Nat \ {0} /\ frames[n] \in FrameRecord
    BY EmptySeq, ElementOfSeq DEF TypeOK
  <1>2. /\ f \in FrameRecord /\ f.phase = phase
        /\ f.id = frames[n].id /\ f.kind = frames[n].kind /\ f.level = frames[n].level
    BY <1>1 DEF FrameRecord
  <1>3. frames' = [frames EXCEPT ![n] = f]
    BY DEF Become
  <1> HIDE DEF f
  <1>4. /\ frames' \in Seq(FrameRecord) /\ Len(frames') = n
        /\ \A i \in 1..n : frames'[i] = IF i = n THEN f ELSE frames[i]
    BY <1>1, <1>2, <1>3, ExceptSeq DEF TypeOK
  <1>5. frames' # <<>>
    BY <1>1, <1>4, EmptySeq
  <1>6. QED
    BY <1>1, <1>2, <1>4, <1>5 DEF Top, Last
-----------------------------------------------------------------------------
(* Requests *)

LEMMA NotNone ==
  /\ None.op = "none"
  /\ \A r \in Requests : r # None /\ r.op \in Operations /\ r.op # "none"
  /\ \A r \in Responses : r # None
  BY DEF None, Requests, Responses, Operations

LEMMA SentRequest ==
  ASSUME TypeOK, NEW operation \in Operations, NEW name \in Frames \cup {Anonymous},
         NEW level \in -1..5, Send(operation, name, level)
  PROVE  /\ request' \in Requests /\ request' # None
         /\ request'.op = operation /\ request'.name = name /\ request'.level = level
         /\ request'.descriptor = CurrentTransactionDescriptor
         /\ isSqlBatch' \in BOOLEAN
  <1>1. CurrentTransactionDescriptor \in Nat
    BY ElementOfSeq, LenProperties DEF TypeOK, CurrentTransactionDescriptor, Last
  <1>2. /\ request' = [op |-> operation, name |-> name, level |-> level,
                       descriptor |-> CurrentTransactionDescriptor, cancel |-> "none"]
        /\ isSqlBatch' \in BOOLEAN
    BY DEF Send
  <1>3. request' \in Requests
    BY <1>1, <1>2 DEF Requests
  <1>4. QED
    BY <1>2, <1>3, NotNone

LEMMA Elements ==
  ASSUME TypeOK
  PROVE  /\ made \in Nat /\ Frames \subseteq Nat
         /\ Len(frames) \in Nat /\ Len(log) \in Nat /\ Len(savepoints) \in Nat
         /\ \A i \in 1..Len(frames) : /\ frames[i] \in FrameRecord
                                      /\ frames[i].id \in Frames /\ frames[i].id \in Nat
         /\ \A s \in 1..Len(savepoints) : /\ savepoints[s] \in Savepoint
                                          /\ savepoints[s].name \in Nat
                                          /\ savepoints[s].mark \in Nat
  <1>1. \A i \in 1..Len(frames) : frames[i] \in FrameRecord
    BY ElementOfSeq DEF TypeOK
  <1>2. \A s \in 1..Len(savepoints) : savepoints[s] \in Savepoint
    BY ElementOfSeq DEF TypeOK
  <1>3. Len(frames) \in Nat /\ Len(log) \in Nat /\ Len(savepoints) \in Nat
    BY LenProperties DEF TypeOK
  <1>4. made \in Nat /\ Frames \subseteq Nat
    BY BoundAssumption DEF TypeOK, Frames
  <1>5. \A f \in FrameRecord : f.id \in Frames
    BY DEF FrameRecord
  <1>6. \A s \in Savepoint : s.name \in Frames /\ s.mark \in Nat
    BY DEF Savepoint
  <1>7. QED
    BY <1>1, <1>2, <1>3, <1>4, <1>5, <1>6

\* Work is of frames.
LEMMA InFrames ==
  ASSUME TypeOK
  PROVE  ToSet(log) \subseteq Frames
  BY ElementOfSeq, LenProperties DEF TypeOK, ToSet

\* The innermost frame
LEMMA TopFrame ==
  ASSUME TypeOK, frames # <<>>
  PROVE  /\ Len(frames) \in Nat \ {0} /\ Len(frames) \in 1..Len(frames)
         /\ Top = frames[Len(frames)] /\ Top \in FrameRecord
         /\ Top.id \in Frames /\ NameOf(Top) \in Frames \cup {Anonymous}
  <1>1. Len(frames) \in Nat \ {0}
    BY EmptySeq DEF TypeOK
  <1>2. Top = frames[Len(frames)] /\ Top \in FrameRecord
    BY <1>1, ElementOfSeq DEF TypeOK, Top, Last
  <1>3. QED
    BY <1>1, <1>2 DEF FrameRecord, NameOf

\* What the variables of the server, and those that a step leaves alone, add
LEMMA SameServer ==
  ASSUME IndInv, UNCHANGED <<serverVars, fateVars, strayed>>, made' >= made, made' \in Nat
  PROVE  /\ SavepointInv'
         /\ trancount' \in Nat /\ descriptor' \in Nat /\ descriptors' \in Nat
         /\ tranName' \in Frames \cup {Anonymous}
         /\ log' \in Seq(Frames) /\ savepoints' \in Seq(Savepoint)
         /\ durable' \cup lost' \cup doubt' \subseteq Frames /\ strayed' \in BOOLEAN
  <1>1. UNCHANGED <<trancount, descriptor, tranName, descriptors, log, savepoints, durable,
                    lost, doubt, strayed>>
    BY DEF serverVars, fateVars
  <1>2. \A s \in 1..Len(savepoints) : savepoints[s].name \in Nat
    BY Elements DEF IndInv
  <1>3. made \in Nat /\ \A x \in Nat : x <= made => x <= made'
    BY BoundAssumption DEF IndInv, TypeOK
  <1>4. SavepointInv'
    BY <1>1, <1>2, <1>3 DEF IndInv, SavepointInv
  <1>5. QED
    BY <1>1, <1>4 DEF IndInv, TypeOK

-----------------------------------------------------------------------------
(* The steps of the program *)

\* A call begins a transaction, or sets a savepoint in the one there is.
LEMMA OpensFrame ==
  ASSUME IndInv, NEW level \in IsolationLevels, Transaction(level) \/ BeginTransaction(level)
  PROVE  \E kind \in Kinds, op \in {"begin", "save"}, name \in Frames \cup {Anonymous} :
            /\ Push(kind, level) /\ Send(op, name, level)
            /\ op = IF kind = "save" THEN "save" ELSE "begin"
            /\ name = IF kind = "manual" THEN Anonymous ELSE made + 1
            /\ frames # <<>> => kind # "begin"
            /\ kind = "save" => inTransaction
  <1> USE DEF IndInv
  <1>1. made + 1 \in Frames
    BY BoundAssumption DEF TypeOK, Frames, Transaction, BeginTransaction, MayBegin
  <1>2. CASE Transaction(level)
    <2>1. Push(NestedKind, level) /\ Send(NestedKind, made + 1, level) /\ Usable
      BY <1>2 DEF Transaction, MayBegin
    <2>2. /\ NestedKind \in {"begin", "save"} /\ (frames # <<>> => NestedKind = "save")
          /\ NestedKind = "save" => inTransaction
      BY <2>1 DEF NestedKind, Usable
    <2>3. QED
      BY <1>1, <2>1, <2>2 DEF Kinds
  <1>3. CASE BeginTransaction(level)
    BY <1>3 DEF BeginTransaction, Kinds
  <1>4. QED
    BY <1>2, <1>3

LEMMA BeginsKeepInv ==
  ASSUME IndInv, NEW level \in IsolationLevels, Transaction(level) \/ BeginTransaction(level)
  PROVE  IndInv'
  <1> USE DEF IndInv
  <1>1. PICK kind \in Kinds, op \in {"begin", "save"}, name \in Frames \cup {Anonymous} :
           /\ Push(kind, level) /\ Send(op, name, level)
           /\ op = IF kind = "save" THEN "save" ELSE "begin"
           /\ name = IF kind = "manual" THEN Anonymous ELSE made + 1
           /\ frames # <<>> => kind # "begin"
    BY OpensFrame
  <1>2. /\ Idle /\ made < MaxFrames /\ (frames # <<>> => Top.phase = "open")
        /\ UNCHANGED <<tdsVersion, inTransaction, transactionDescriptors, transactionDepth,
                       connected, response, worked, result>>
        /\ UNCHANGED <<serverVars, fateVars, strayed>>
    BY DEF Transaction, BeginTransaction, MayBegin, Usable
  <1>3. /\ made' = made + 1 /\ made' \in 0..MaxFrames /\ made \in Nat
        /\ level \in -1..5 /\ op \in Operations
    BY <1>1, <1>2, BoundAssumption, LevelAssumption DEF TypeOK, Push, Operations
  <1>4. PICK f \in FrameRecord :
            /\ f.id = made + 1 /\ f.kind = kind /\ f.phase = "starting"
            /\ frames' \in Seq(FrameRecord)
            /\ Len(frames') = Len(frames) + 1 /\ frames' # <<>>
            /\ \A i \in 1..Len(frames) : frames'[i] = frames[i]
            /\ frames'[Len(frames) + 1] = f /\ Top' = f
    BY <1>1, <1>2, Pushed
  <1>5. /\ request' \in Requests /\ request' # None
        /\ request'.op = op /\ request'.name = name /\ isSqlBatch' \in BOOLEAN
    BY <1>1, <1>3, SentRequest
  <1>6. within' \in [Frames -> SUBSET Frames]
    <2>1. ToSet(frames') \subseteq FrameRecord
      BY <1>4, ElementOfSeq, LenProperties DEF ToSet
    <2>2. PICK S : within' = [within EXCEPT ![made + 1] = S]
                   /\ S = {frame.id : frame \in ToSet(frames')}
      BY <1>1 DEF Push
    <2>3. S \subseteq Frames
      BY <2>1, <2>2 DEF FrameRecord
    <2>4. QED
      BY <2>2, <2>3 DEF TypeOK
  <1>7. TypeOK' /\ SavepointInv'
    <2>1. made' >= made /\ made' \in Nat
      BY <1>3
    <2>2. /\ SavepointInv'
          /\ trancount' \in Nat /\ descriptor' \in Nat /\ descriptors' \in Nat
          /\ tranName' \in Frames \cup {Anonymous}
          /\ log' \in Seq(Frames) /\ savepoints' \in Seq(Savepoint)
          /\ durable' \cup lost' \cup doubt' \subseteq Frames /\ strayed' \in BOOLEAN
      BY <1>2, <2>1, SameServer
    <2>3. QED
      BY <1>2, <1>3, <1>4, <1>5, <1>6, <2>2 DEF TypeOK
  <1>8. FramesInv'
    <2>1. Len(frames) \in Nat /\ \A i \in 1..Len(frames) : frames[i].id \in Nat
      BY Elements
    <2>2. \A i \in 1..Len(frames') : i \in 1..Len(frames) \/ i = Len(frames) + 1
      BY <1>4, <2>1
    <2>3. \A i \in 1..Len(frames) : frames[i].phase = "open"
      BY <1>2, <2>1, TopFrame, EmptySeq DEF FramesInv
    <2>4. ASSUME NEW i \in 1..Len(frames')
          PROVE  /\ i < Len(frames') => frames'[i].phase = "open"
                 /\ 1 < i => frames'[i].kind # "begin"
                 /\ frames'[i].id <= made'
      <3>1. CASE i \in 1..Len(frames)
        BY <1>3, <1>4, <2>1, <2>3, <3>1 DEF FramesInv
      <3>2. CASE i = Len(frames) + 1
        BY <1>1, <1>3, <1>4, <2>1, <3>2, EmptySeq DEF TypeOK
      <3>3. QED
        BY <2>2, <3>1, <3>2
    <2>5. ASSUME NEW i \in 1..Len(frames'), NEW j \in 1..Len(frames'), i < j
          PROVE  frames'[i].id < frames'[j].id
      <3>1. i \in 1..Len(frames)
        BY <1>4, <2>1, <2>5
      <3>2. CASE j \in 1..Len(frames)
        BY <1>4, <2>5, <3>1, <3>2 DEF FramesInv
      <3>3. CASE j = Len(frames) + 1
        BY <1>3, <1>4, <2>1, <3>1, <3>3 DEF FramesInv
      <3>4. QED
        BY <2>2, <3>2, <3>3
    <2>6. QED
      BY <2>4, <2>5 DEF FramesInv
  <1>9. RequestInv'
    BY <1>1, <1>3, <1>4, <1>5 DEF RequestInv, Idle, PhaseDuring, Starts, Ends, NameOf
  <1>10. DepthInv'
    <2>1. Starting = 0 /\ Starting' = 1 /\ Old' = Old
      BY <1>1, <1>2, <1>5, NotNone DEF Starting, Idle, Old
    <2>2. QED
      BY <1>2, <1>4, <2>1, LenProperties DEF DepthInv, TypeOK
  <1>11. QED
    BY <1>7, <1>8, <1>9, <1>10
\* The innermost frame ends, and no request is under way.
LEMMA EndsFrame ==
  ASSUME IndInv, frames # <<>>, NEW outcome \in {"ok", "failed"}, Pop(outcome),
         made' = made, request' = None, response' = None
  PROVE  /\ frames' \in Seq(FrameRecord) /\ result' \in [Frames -> {"none", "ok", "failed"}]
         /\ Len(frames') = Len(frames) - 1 /\ FramesInv' /\ RequestInv'
  <1> USE DEF IndInv
  <1>1. /\ frames' \in Seq(FrameRecord)
        /\ Len(frames') = Len(frames) - 1 /\ Len(frames) \in Nat \ {0}
        /\ \A i \in 1..Len(frames') : frames'[i] = frames[i]
        /\ frames' # <<>> => Top' = frames[Len(frames) - 1]
    BY Popped
  <1>2. result' \in [Frames -> {"none", "ok", "failed"}]
    BY DEF Pop, TypeOK
  <1>3. FramesInv'
    <2>1. \A i \in 1..Len(frames') : i \in 1..Len(frames) /\ i < Len(frames)
      BY <1>1
    <2>2. \A i \in 1..Len(frames') :
             /\ frames'[i].phase = "open"
             /\ 1 < i => frames'[i].kind # "begin"
             /\ frames'[i].id <= made'
      BY <1>1, <2>1 DEF FramesInv
    <2>3. \A i, j \in 1..Len(frames') : i < j => frames'[i].id < frames'[j].id
      BY <1>1, <2>1 DEF FramesInv
    <2>4. QED
      BY <2>2, <2>3 DEF FramesInv
  <1>4. frames' # <<>> => Top'.phase = "open"
    <2>1. SUFFICES ASSUME frames' # <<>>
                   PROVE  Top'.phase = "open"
      OBVIOUS
    <2>2. Len(frames) - 1 \in 1..Len(frames) /\ Len(frames) - 1 < Len(frames)
      BY <1>1, <2>1, EmptySeq
    <2>3. QED
      BY <1>1, <2>1, <2>2 DEF FramesInv
  <1>5. RequestInv'
    BY <1>4, NotNone DEF RequestInv, Idle, PhaseDuring, Starts, Ends
  <1>6. QED
    BY <1>1, <1>2, <1>3, <1>5

\* The innermost frame becomes open or ending.
LEMMA TurnsFrame ==
  ASSUME IndInv, frames # <<>>, NEW phase \in {"open", "ending"}, Become(phase), made' = made
  PROVE  /\ frames' \in Seq(FrameRecord) /\ frames' # <<>> /\ Len(frames') = Len(frames)
         /\ FramesInv' /\ Top'.phase = phase /\ Top'.kind = Top.kind /\ Top'.id = Top.id
         /\ NameOf(Top') = NameOf(Top)
  <1> USE DEF IndInv
  <1>1. /\ frames' \in Seq(FrameRecord) /\ frames' # <<>> /\ Len(frames') = Len(frames)
        /\ Len(frames) \in Nat \ {0}
        /\ \A i \in 1..Len(frames) - 1 : frames'[i] = frames[i]
        /\ \A i \in 1..Len(frames) : /\ frames'[i].id = frames[i].id
                                     /\ frames'[i].kind = frames[i].kind
        /\ Top' = frames'[Len(frames)] /\ Top = frames[Len(frames)]
        /\ Top'.phase = phase
    BY Became
  <1>2. FramesInv'
    BY <1>1 DEF FramesInv
  <1>3. Top'.kind = Top.kind /\ Top'.id = Top.id
    BY <1>1
  <1>4. QED
    BY <1>1, <1>2, <1>3 DEF NameOf

\* A request in an open frame, or a reset
LEMMA WorksKeepInv ==
  ASSUME IndInv, Work \/ Reset
  PROVE  IndInv'
  <1> USE DEF IndInv
  <1>1. PICK op \in {"work", "reset"}, name \in Frames \cup {Anonymous} :
           Send(op, name, NoLevel) /\ (op = "work" => frames # <<>> /\ name = Top.id)
    <2>1. CASE Work
      BY <2>1, TopFrame DEF Work
    <2>2. CASE Reset
      BY <2>2 DEF Reset
    <2>3. QED
      BY <2>1, <2>2
  <1>2. /\ Idle /\ worked' = worked + 1 /\ (frames # <<>> => Top.phase = "open")
        /\ UNCHANGED <<tdsVersion, inTransaction, transactionDescriptors, transactionDepth,
                       connected, response, frames, made, result, within>>
        /\ UNCHANGED <<serverVars, fateVars, strayed>>
    BY DEF Work, Reset, Usable
  <1>3. /\ request' \in Requests /\ request' # None
        /\ request'.op = op /\ request'.name = name /\ isSqlBatch' \in BOOLEAN
    BY <1>1, SentRequest DEF NoLevel, Operations
  <1>4. made' >= made /\ made' \in Nat
    BY <1>2, Elements
  <1>5. TypeOK' /\ SavepointInv'
    <2>1. /\ SavepointInv'
          /\ trancount' \in Nat /\ descriptor' \in Nat /\ descriptors' \in Nat
          /\ tranName' \in Frames \cup {Anonymous}
          /\ log' \in Seq(Frames) /\ savepoints' \in Seq(Savepoint)
          /\ durable' \cup lost' \cup doubt' \subseteq Frames /\ strayed' \in BOOLEAN
      BY <1>2, <1>4, SameServer
    <2>2. QED
      BY <1>2, <1>3, <2>1 DEF TypeOK
  <1>6. FramesInv'
    BY <1>2 DEF FramesInv
  <1>7. RequestInv'
    BY <1>1, <1>2, <1>3 DEF RequestInv, Idle, PhaseDuring, Starts, Ends, Top
  <1>8. DepthInv'
    BY <1>1, <1>2, <1>3, NotNone DEF DepthInv, Starting, Idle, Old
  <1>9. QED
    BY <1>5, <1>6, <1>7, <1>8

\* The innermost frame is ended by a request, as a savepoint, or where there is no
\* transaction or no connection any more.
LEMMA ClosesFrame ==
  ASSUME IndInv, TxDone \/ EndTransaction
  PROVE  \/ \E op \in Ends : EndBy(op, NameOf(Top)) /\ (op = "commit" => Top.kind # "save")
         \/ /\ \E outcome \in {"ok", "failed"} : Pop(outcome)
            /\ \/ ~(inTransaction /\ connected) /\ transactionDepth' = transactionDepth
               \/ /\ Top.kind = "save"
                  /\ transactionDepth' = IF Old THEN transactionDepth - 1 ELSE transactionDepth
            /\ UNCHANGED <<inTransaction, transactionDescriptors, isSqlBatch, connected,
                           request, response, made, within>>
  <1>1. CASE TxDone
    <2>1. CASE TxDoneError
      BY <1>1, <2>1 DEF TxDone, TxDoneError, Ends, NameOf, clientVars, wireVars
    <2>2. CASE TxDoneSuccess
      BY <1>1, <2>2 DEF TxDone, TxDoneSuccess, Refused, Ends, NameOf, clientVars, wireVars
    <2>3. QED
      BY <1>1, <2>1, <2>2 DEF TxDone
  <1>2. CASE EndTransaction
    BY <1>2 DEF EndTransaction, Refused, Ends, NameOf, clientVars, wireVars
  <1>3. QED
    BY <1>1, <1>2

LEMMA EndsKeepInv ==
  ASSUME IndInv, TxDone \/ EndTransaction
  PROVE  IndInv'
  <1> USE DEF IndInv
  <1>1. /\ Idle /\ frames # <<>> /\ Top.phase = "open" /\ request = None /\ response = None
        /\ tdsVersion' = tdsVersion /\ worked' = worked
        /\ UNCHANGED <<serverVars, fateVars, strayed>>
    BY DEF TxDone, EndTransaction, Idle, RequestInv
  <1>2. \/ \E op \in Ends : EndBy(op, NameOf(Top)) /\ (op = "commit" => Top.kind # "save")
        \/ /\ \E outcome \in {"ok", "failed"} : Pop(outcome)
           /\ \/ transactionDepth' = transactionDepth
              \/ transactionDepth' = IF Old THEN transactionDepth - 1 ELSE transactionDepth
           /\ UNCHANGED <<inTransaction, transactionDescriptors, isSqlBatch, connected,
                          request, response, made, within>>
    BY ClosesFrame
  <1>3. made' = made /\ UNCHANGED <<inTransaction, transactionDescriptors, connected, within>>
    BY <1>2 DEF EndBy
  <1>4. /\ SavepointInv'
        /\ trancount' \in Nat /\ descriptor' \in Nat /\ descriptors' \in Nat
        /\ tranName' \in Frames \cup {Anonymous}
        /\ log' \in Seq(Frames) /\ savepoints' \in Seq(Savepoint)
        /\ durable' \cup lost' \cup doubt' \subseteq Frames /\ strayed' \in BOOLEAN
    <2>1. made' >= made /\ made' \in Nat
      BY <1>3, Elements
    <2>2. QED
      BY <1>1, <2>1, SameServer
  <1>5. Len(frames) \in Nat \ {0} /\ Starting = 0 /\ Old' = Old
        /\ NameOf(Top) \in Frames \cup {Anonymous}
    BY <1>1, TopFrame, NotNone DEF Starting, Old
  <1>6. CASE \E op \in Ends : EndBy(op, NameOf(Top)) /\ (op = "commit" => Top.kind # "save")
    <2>1. PICK op \in Ends : EndBy(op, NameOf(Top)) /\ (op = "commit" => Top.kind # "save")
      BY <1>6
    <2>2. /\ Become("ending") /\ Send(op, NameOf(Top), NoLevel)
          /\ UNCHANGED <<inTransaction, transactionDescriptors, transactionDepth, connected,
                         response, made, result, within>>
      BY <2>1 DEF EndBy
    <2>3. /\ frames' \in Seq(FrameRecord) /\ frames' # <<>> /\ Len(frames') = Len(frames)
          /\ FramesInv' /\ Top'.phase = "ending" /\ Top'.kind = Top.kind
          /\ NameOf(Top') = NameOf(Top)
      BY <1>1, <1>3, <2>2, TurnsFrame
    <2>4. /\ request' \in Requests /\ request' # None /\ request'.op = op
          /\ request'.name = NameOf(Top) /\ isSqlBatch' \in BOOLEAN
      BY <1>5, <2>2, SentRequest DEF Ends, Operations, NoLevel
    <2>5. TypeOK'
      BY <1>1, <1>3, <1>4, <2>2, <2>3, <2>4 DEF TypeOK
    <2>6. RequestInv'
      BY <1>1, <2>1, <2>2, <2>3, <2>4 DEF RequestInv, Idle, PhaseDuring, Starts, Ends
    <2>7. DepthInv'
      <3>1. Starting' = 0
        BY <2>4 DEF Starting, Ends
      <3>2. QED
        BY <1>1, <1>5, <2>2, <2>3, <3>1 DEF DepthInv
    <2>8. QED
      BY <1>4, <2>3, <2>5, <2>6, <2>7
  <1>7. CASE /\ \E outcome \in {"ok", "failed"} : Pop(outcome)
             /\ \/ transactionDepth' = transactionDepth
                \/ transactionDepth' = IF Old THEN transactionDepth - 1 ELSE transactionDepth
             /\ UNCHANGED <<inTransaction, transactionDescriptors, isSqlBatch, connected,
                            request, response, made, within>>
    <2>1. PICK outcome \in {"ok", "failed"} : Pop(outcome)
      BY <1>7
    <2>2. /\ frames' \in Seq(FrameRecord) /\ result' \in [Frames -> {"none", "ok", "failed"}]
          /\ Len(frames') = Len(frames) - 1 /\ FramesInv' /\ RequestInv'
      BY <1>1, <1>3, <1>7, <2>1, EndsFrame
    <2>3. DepthInv' /\ transactionDepth' \in Nat
      <3>1. Starting' = 0
        BY <1>1, <1>7, NotNone DEF Starting
      <3>2. QED
        BY <1>1, <1>5, <1>7, <2>2, <3>1 DEF DepthInv, TypeOK
    <2>4. TypeOK'
      BY <1>1, <1>3, <1>4, <1>7, <2>2, <2>3 DEF TypeOK
    <2>5. QED
      BY <1>4, <2>2, <2>3, <2>4
  <1>8. QED
    BY <1>2, <1>6, <1>7

-----------------------------------------------------------------------------
(* The steps of the server *)

LEMMA RolledBack ==
  ASSUME IndInv, RollBackAll
  PROVE  /\ trancount' = 0 /\ descriptor' = NoTransaction /\ tranName' = Anonymous
         /\ descriptors' \in Nat /\ log' = <<>> /\ savepoints' = <<>>
         /\ log' \in Seq(Frames) /\ savepoints' \in Seq(Savepoint)
         /\ durable' \cup lost' \subseteq Frames
         /\ made' = made => SavepointInv'
  <1> USE DEF IndInv
  <1>1. /\ trancount' = 0 /\ descriptor' = NoTransaction /\ tranName' = Anonymous
        /\ log' = <<>> /\ savepoints' = <<>> /\ lost' = lost \cup ToSet(log)
        /\ descriptors' = descriptors /\ durable' = durable
    BY DEF RollBackAll
  <1>2. ToSet(log) \subseteq Frames
    BY ElementOfSeq, LenProperties DEF TypeOK, ToSet
  <1>3. SavepointInv'
    BY <1>1, EmptySeq DEF SavepointInv
  <1>4. /\ descriptors' \in Nat /\ durable' \cup lost' \subseteq Frames
    BY <1>1, <1>2 DEF TypeOK
  <1>5. log' \in Seq(Frames) /\ savepoints' \in Seq(Savepoint)
    BY <1>1, EmptySeq
  <1>6. QED
    BY <1>1, <1>3, <1>4, <1>5

\* What the request says, when there is one
LEMMA RequestUnderWay ==
  ASSUME IndInv, ~Idle
  PROVE  /\ request \in Requests /\ request.op \in Operations
         /\ request.name \in Frames \cup {Anonymous}
         /\ request.op # "reset" => frames # <<>>
         /\ request.op = "save" => request.name = Top.id /\ request.name \in Frames
         /\ request.op = "work" => request.name = Top.id /\ request.name \in Frames
         /\ frames # <<>> => Top.id \in Frames /\ Top.id <= made
  <1> USE DEF IndInv
  <1>1. /\ request \in Requests /\ request.op \in Operations /\ request.op # "none"
        /\ request.name \in Frames \cup {Anonymous}
    BY NotNone DEF TypeOK, Idle, Requests
  <1>2. request.op # "reset" => frames # <<>>
    BY <1>1 DEF RequestInv
  <1>3. frames # <<>> => Top.id \in Frames /\ Top.id <= made
    BY TopFrame DEF FramesInv
  <1>4. request.op \in {"save", "work"} => request.name = Top.id
    BY <1>1, <1>2 DEF RequestInv, NameOf
  <1>5. QED
    BY <1>1, <1>2, <1>3, <1>4

\* The end of a list of savepoints
LEMMA SavepointSet ==
  ASSUME IndInv, NEW name \in Frames, name <= made, trancount > 0,
         savepoints' = Append(savepoints, [name |-> name, mark |-> Len(log)]),
         UNCHANGED <<trancount, log, made>>
  PROVE  savepoints' \in Seq(Savepoint) /\ SavepointInv'
  <1> USE DEF IndInv
  <1> DEFINE p == [name |-> name, mark |-> Len(log)]
  <1>1. /\ Len(log) \in Nat /\ Len(savepoints) \in Nat
        /\ \A s \in 1..Len(savepoints) : savepoints[s].mark \in Nat /\ savepoints[s].name \in Nat
    BY Elements
  <1>2. p \in Savepoint /\ p.name = name /\ p.mark = Len(log)
    BY <1>1 DEF Savepoint
  <1>3. savepoints' = Append(savepoints, p) /\ savepoints \in Seq(Savepoint)
    BY DEF TypeOK
  <1> HIDE DEF p
  <1>4. /\ savepoints' \in Seq(Savepoint) /\ Len(savepoints') = Len(savepoints) + 1
        /\ \A s \in 1..Len(savepoints) : savepoints'[s] = savepoints[s]
        /\ savepoints'[Len(savepoints) + 1] = p
    BY <1>2, <1>3, AppendProperties
  <1>5. \A s \in 1..Len(savepoints') : s \in 1..Len(savepoints) \/ s = Len(savepoints) + 1
    BY <1>1, <1>4
  <1>6. ASSUME NEW s \in 1..Len(savepoints')
        PROVE  savepoints'[s].mark <= Len(log') /\ savepoints'[s].name <= made'
    BY <1>1, <1>2, <1>4, <1>5 DEF SavepointInv
  <1>7. ASSUME NEW s \in 1..Len(savepoints'), NEW t \in 1..Len(savepoints'), s <= t
        PROVE  savepoints'[s].mark <= savepoints'[t].mark
    <2>1. CASE t \in 1..Len(savepoints)
      <3>1. s \in 1..Len(savepoints)
        BY <1>1, <1>4, <1>7, <2>1
      <3>2. QED
        BY <1>4, <1>7, <2>1, <3>1 DEF SavepointInv
    <2>2. CASE t = Len(savepoints) + 1
      BY <1>2, <1>4, <1>6, <2>2
    <2>3. QED
      BY <1>5, <2>1, <2>2
  <1>8. (trancount = 0 => savepoints = <<>> /\ log = <<>>)' 
    BY DEF TypeOK
  <1>9. QED
    BY <1>4, <1>6, <1>7, <1>8 DEF SavepointInv

\* Work grows the log.
LEMMA LogGrows ==
  ASSUME IndInv, NEW name \in Frames, trancount > 0, log' = Append(log, name),
         UNCHANGED <<trancount, savepoints, made>>
  PROVE  log' \in Seq(Frames) /\ SavepointInv'
  <1> USE DEF IndInv
  <1>1. log' \in Seq(Frames) /\ Len(log') = Len(log) + 1
    BY AppendProperties DEF TypeOK
  <1>2. /\ Len(log) \in Nat
        /\ \A s \in 1..Len(savepoints) : savepoints[s].mark \in Nat
    BY Elements
  <1>3. \A s \in 1..Len(savepoints') : /\ savepoints'[s].mark <= Len(log')
                                       /\ savepoints'[s].name <= made'
    BY <1>1, <1>2 DEF SavepointInv
  <1>4. QED
    BY <1>1, <1>3 DEF SavepointInv, TypeOK

\* A rollback to a savepoint cuts the log and the savepoints after it.
LEMMA SavepointTaken ==
  ASSUME IndInv, NEW s \in DOMAIN savepoints, ServerRollsBackTo(s), made' = made
  PROVE  /\ log' \in Seq(Frames) /\ savepoints' \in Seq(Savepoint) /\ SavepointInv'
         /\ lost' \subseteq Frames
  <1> USE DEF IndInv
  <1> DEFINE m == savepoints[s].mark
  <1>1. /\ log \in Seq(Frames) /\ savepoints \in Seq(Savepoint) /\ Len(savepoints) \in Nat
        /\ Len(log) \in Nat /\ s \in 1..Len(savepoints) /\ m \in Nat
    BY Elements, LenProperties DEF TypeOK
  <1>2. m <= Len(log)
    BY <1>1 DEF SavepointInv
  <1>3. /\ log' = SubSeq(log, 1, m) /\ savepoints' = SubSeq(savepoints, 1, s)
        /\ lost' = lost \cup ToSet(SubSeq(log, m + 1, Len(log)))
        /\ trancount' = trancount
    BY DEF ServerRollsBackTo
  <1> HIDE DEF m
  <1>4. log' \in Seq(Frames) /\ Len(log') = m
    BY <1>1, <1>2, <1>3, SubSeqFromOne
  <1>5. /\ savepoints' \in Seq(Savepoint) /\ Len(savepoints') = s
        /\ \A t \in 1..s : savepoints'[t] = savepoints[t]
    <2>1. s \in Nat /\ s <= Len(savepoints)
      BY <1>1
    <2>2. QED
      BY <1>1, <1>3, <2>1, SubSeqFromOne
  <1>6. ToSet(SubSeq(log, m + 1, Len(log))) \subseteq Frames
    <2>1. \A i \in m + 1..Len(log) : log[i] \in Frames
      BY <1>1, <1>2, ElementOfSeq
    <2>2. SubSeq(log, m + 1, Len(log)) \in Seq(Frames)
      BY <1>1, <1>2, <2>1, SubSeqProperties
    <2>3. QED
      BY <2>2, ElementOfSeq, LenProperties DEF ToSet
  <1>7. \A t \in 1..s : t \in 1..Len(savepoints) /\ t <= s
    BY <1>1
  <1>8. trancount # 0
    BY <1>1, EmptySeq DEF SavepointInv
  <1>9. \A t \in 1..Len(savepoints') : /\ savepoints'[t].mark <= Len(log')
                                       /\ savepoints'[t].name <= made'
    BY <1>1, <1>4, <1>5, <1>7 DEF SavepointInv, m
  <1>10. \A t, u \in 1..Len(savepoints') : t <= u => savepoints'[t].mark <= savepoints'[u].mark
    BY <1>5, <1>7 DEF SavepointInv
  <1>11. SavepointInv'
    BY <1>3, <1>8, <1>9, <1>10 DEF SavepointInv
  <1>12. QED
    BY <1>3, <1>4, <1>5, <1>6, <1>11 DEF TypeOK

LEMMA Responded ==
  ASSUME NEW error \in BOOLEAN, NEW env \in EnvChanges, Respond(error, env)
  PROVE  /\ response' \in Responses /\ response' # None /\ response'.error = error
         /\ response'.env = IF Old THEN "none" ELSE env
  <1>1. response' \in Responses
    BY DEF Respond, Responses, EnvChanges
  <1>2. QED
    BY <1>1, NotNone DEF Respond

\* What a request leaves the server in
LEMMA ServerOutcome ==
  ASSUME IndInv, ~Idle, ServerExecutes
  PROVE  /\ trancount' \in Nat /\ descriptor' \in Nat /\ descriptors' \in Nat
         /\ tranName' \in Frames \cup {Anonymous}
         /\ log' \in Seq(Frames) /\ savepoints' \in Seq(Savepoint)
         /\ durable' \cup lost' \subseteq Frames /\ response' \in Responses
         /\ SavepointInv'
  <1> USE DEF IndInv
  <1>1. /\ request \in Requests /\ request.name \in Frames \cup {Anonymous}
        /\ request.op = "save" => request.name \in Frames /\ request.name <= made
        /\ request.op = "work" => request.name \in Frames
        /\ made' = made
    BY RequestUnderWay DEF ServerExecutes, programVars
  <1>2. /\ "none" \in EnvChanges /\ "begin" \in EnvChanges /\ "commit" \in EnvChanges
        /\ "rollback" \in EnvChanges /\ TRUE \in BOOLEAN /\ FALSE \in BOOLEAN
    BY DEF EnvChanges
  <1>3. ASSUME NEW error \in BOOLEAN, Unaffected(error)
        PROVE  /\ UNCHANGED <<trancount, descriptor, tranName, descriptors, log, savepoints,
                              durable, lost>>
               /\ SavepointInv' /\ response' \in Responses
    <2>1. UNCHANGED <<trancount, descriptor, tranName, descriptors, log, savepoints,
                      durable, lost>>
      BY <1>3 DEF Unaffected, serverVars
    <2>2. SavepointInv'
      BY <1>1, <2>1 DEF SavepointInv
    <2>3. response' \in Responses
      BY <1>2, <1>3, Responded DEF Unaffected
    <2>4. QED
      BY <2>1, <2>2, <2>3
  <1>4. CASE ServerBegins
    <2>1. /\ response' \in Responses /\ trancount' = trancount + 1
          /\ UNCHANGED <<log, savepoints, durable, lost>>
      BY <1>2, <1>4, Responded DEF ServerBegins
    <2>2. descriptor' \in Nat /\ descriptors' \in Nat /\ tranName' \in Frames \cup {Anonymous}
      <3>1. \/ /\ descriptors' = descriptors + 1 /\ descriptor' = descriptors + 1
               /\ tranName' = request.name
            \/ UNCHANGED <<descriptors, descriptor, tranName>>
        BY <1>4 DEF ServerBegins
      <3>2. /\ descriptors \in Nat /\ descriptor \in Nat
            /\ tranName \in Frames \cup {Anonymous}
        BY DEF TypeOK
      <3>3. QED
        BY <1>1, <3>1, <3>2
    <2>3. SavepointInv'
      BY <1>1, <2>1 DEF SavepointInv, TypeOK
    <2>4. QED
      BY <2>1, <2>2, <2>3 DEF TypeOK
  <1>5. CASE ServerSaves
    <2>1. /\ request.op = "save" /\ trancount > 0 /\ Respond(FALSE, "none")
          /\ savepoints' = Append(savepoints, [name |-> request.name, mark |-> Len(log)])
          /\ UNCHANGED <<trancount, descriptor, tranName, descriptors, log, durable, lost>>
      BY <1>5 DEF ServerSaves
    <2>2. savepoints' \in Seq(Savepoint) /\ SavepointInv'
      BY <1>1, <2>1, SavepointSet
    <2>3. response' \in Responses
      BY <1>2, <2>1, Responded
    <2>4. QED
      BY <2>1, <2>2, <2>3 DEF TypeOK
  <1>6. CASE ServerCommits
    <2>1. response' \in Responses
      BY <1>2, <1>6, Responded DEF ServerCommits
    <2>2. ToSet(log) \subseteq Frames
      BY ElementOfSeq, LenProperties DEF TypeOK, ToSet
    <2>3. /\ trancount > 0 /\ trancount' = trancount - 1
          /\ \/ /\ trancount = 1 /\ log' = <<>> /\ savepoints' = <<>>
                /\ descriptor' = NoTransaction /\ tranName' = Anonymous
                /\ durable' = durable \cup ToSet(log)
                /\ UNCHANGED <<descriptors, lost>>
             \/ /\ trancount > 1
                /\ UNCHANGED <<descriptor, tranName, descriptors, log, savepoints, durable, lost>>
      BY <1>6 DEF ServerCommits
    <2>4. log' \in Seq(Frames) /\ savepoints' \in Seq(Savepoint)
      BY <2>3, EmptySeq DEF TypeOK
    <2>5. SavepointInv'
      <3>1. CASE trancount = 1
        BY <2>3, <3>1, EmptySeq DEF SavepointInv
      <3>2. CASE trancount > 1
        BY <1>1, <2>3, <3>2, SMTT(30) DEF SavepointInv, TypeOK
      <3>3. QED
        BY <2>3, <3>1, <3>2
    <2>6. /\ trancount' \in Nat /\ descriptor' \in Nat /\ descriptors' \in Nat
          /\ tranName' \in Frames \cup {Anonymous} /\ durable' \cup lost' \subseteq Frames
      BY <2>2, <2>3 DEF TypeOK, NoTransaction
    <2>7. QED
      BY <2>1, <2>4, <2>5, <2>6
  <1>7. ASSUME RollBackAll
        PROVE  /\ trancount' \in Nat /\ descriptor' \in Nat /\ descriptors' \in Nat
               /\ tranName' \in Frames \cup {Anonymous}
               /\ log' \in Seq(Frames) /\ savepoints' \in Seq(Savepoint)
               /\ durable' \cup lost' \subseteq Frames /\ SavepointInv'
    BY <1>1, <1>7, RolledBack DEF NoTransaction
  <1>8. CASE ServerRollsBack
    <2>1. response' \in Responses
      BY <1>2, <1>8, Responded DEF ServerRollsBack
    <2>2. QED
      BY <1>7, <1>8, <2>1 DEF ServerRollsBack
  <1>9. CASE \E s \in DOMAIN savepoints : ServerRollsBackTo(s)
    <2>1. PICK s \in DOMAIN savepoints : ServerRollsBackTo(s)
      BY <1>9
    <2>2. /\ log' \in Seq(Frames) /\ savepoints' \in Seq(Savepoint) /\ SavepointInv'
          /\ lost' \subseteq Frames
      BY <1>1, <2>1, SavepointTaken
    <2>3. /\ Respond(FALSE, "none")
          /\ UNCHANGED <<trancount, descriptor, tranName, descriptors, durable>>
      BY <2>1 DEF ServerRollsBackTo
    <2>4. response' \in Responses
      BY <1>2, <2>3, Responded
    <2>5. QED
      BY <2>2, <2>3, <2>4 DEF TypeOK
  <1>10. CASE ServerWorks
    <2>1. response' \in Responses
      BY <1>2, <1>3, <1>10, Responded DEF ServerWorks
    <2>2. CASE /\ trancount > 0
               /\ log' = Append(log, request.name)
               /\ UNCHANGED <<trancount, descriptor, tranName, descriptors, savepoints,
                              durable, lost>>
      <3>1. request.name \in Frames
        BY <1>1, <1>10 DEF ServerWorks
      <3>2. log' \in Seq(Frames) /\ SavepointInv'
        BY <1>1, <2>2, <3>1, LogGrows
      <3>3. QED
        BY <2>1, <2>2, <3>2 DEF TypeOK
    <2>3. CASE durable' = durable \cup {request.name} /\ UNCHANGED <<serverVars, lost>>
      <3>1. UNCHANGED <<trancount, descriptor, tranName, descriptors, log, savepoints>>
        BY <2>3 DEF serverVars
      <3>2. SavepointInv'
        BY <1>1, <3>1 DEF SavepointInv
      <3>3. request.name \in Frames
        BY <1>1, <1>10 DEF ServerWorks
      <3>4. QED
        BY <2>1, <2>3, <3>1, <3>2, <3>3 DEF TypeOK
    <2>4. CASE Unaffected(TRUE)
      BY <1>3, <2>4 DEF TypeOK
    <2>5. CASE RollBackAll
      BY <1>7, <2>1, <2>5
    <2>6. QED
      BY <1>10, <2>2, <2>3, <2>4, <2>5 DEF ServerWorks
  <1>11. CASE ServerResets
    <2>1. CASE RollBackAll /\ Respond(FALSE, "rollback")
      BY <1>2, <1>7, <2>1, Responded
    <2>2. CASE Unaffected(FALSE)
      BY <1>2, <1>3, <2>2 DEF TypeOK
    <2>3. QED
      BY <1>11, <2>1, <2>2 DEF ServerResets
  <1>12. CASE ServerRefuses
    <2>1. PICK error \in BOOLEAN : Unaffected(error)
      BY <1>2, <1>12 DEF ServerRefuses
    <2>2. QED
      BY <1>3, <2>1 DEF TypeOK
  <1>13. QED
    BY <1>4, <1>5, <1>6, <1>8, <1>9, <1>10, <1>11, <1>12 DEF ServerExecutes

LEMMA ServerKeepsInv ==
  ASSUME IndInv, ServerExecutes
  PROVE  IndInv'
  <1> USE DEF IndInv
  <1>1. /\ ~Idle /\ request.op \in Operations
        /\ UNCHANGED <<tdsVersion, inTransaction, transactionDescriptors, transactionDepth,
                       isSqlBatch, connected, request, frames, made, worked, result, within,
                       doubt>>
        /\ strayed' \in BOOLEAN
    BY RequestUnderWay DEF ServerExecutes, clientVars, programVars, TypeOK
  <1>2. /\ trancount' \in Nat /\ descriptor' \in Nat /\ descriptors' \in Nat
        /\ tranName' \in Frames \cup {Anonymous}
        /\ log' \in Seq(Frames) /\ savepoints' \in Seq(Savepoint)
        /\ durable' \cup lost' \subseteq Frames /\ response' \in Responses
        /\ SavepointInv'
    BY <1>1, ServerOutcome
  <1>3. TypeOK'
    BY <1>1, <1>2 DEF TypeOK
  <1>4. FramesInv'
    BY <1>1 DEF FramesInv
  <1>5. RequestInv'
    BY <1>1 DEF RequestInv, Idle, Top
  <1>6. DepthInv'
    BY <1>1 DEF DepthInv, Starting, Old
  <1>7. QED
    BY <1>2, <1>3, <1>4, <1>5, <1>6

\* A request that is skipped changes nothing at the server.
LEMMA SkipsNothing ==
  ASSUME IndInv, ServerSkips
  PROVE  /\ ~Idle /\ response = None /\ connected
         /\ UNCHANGED <<tdsVersion, inTransaction, transactionDescriptors, transactionDepth,
                        isSqlBatch, connected, request, frames, made, worked, result, within,
                        trancount, descriptor, tranName, descriptors, log, savepoints,
                        durable, lost, doubt>>
         /\ response' \in Responses /\ response' # None /\ response'.env = "none"
         /\ response'.error = (request.cancel # "unnoticed")
         /\ strayed' \in BOOLEAN /\ (strayed => strayed')
         /\ ~strayed' => /\ ~Old /\ request.op \notin {"commit", "rollback"}
                         /\ request.op \in {"begin", "save"} => response'.error
  <1>1. \E error \in BOOLEAN : /\ error = (request.cancel # "unnoticed")
                               /\ Respond(error, "none")
    BY DEF ServerSkips, Unaffected
  <1>2. /\ response' \in Responses /\ response' # None /\ response'.env = "none"
        /\ response'.error = (request.cancel # "unnoticed")
    <2>1. "none" \in EnvChanges
      BY DEF EnvChanges
    <2>2. QED
      BY <1>1, <2>1, Responded
  <1>3. /\ ~Idle /\ response = None /\ connected
        /\ UNCHANGED <<tdsVersion, inTransaction, transactionDescriptors, transactionDepth,
                       isSqlBatch, connected, request, frames, made, worked, result, within,
                       trancount, descriptor, tranName, descriptors, log, savepoints,
                       durable, lost, doubt>>
        /\ strayed' = \/ strayed \/ Old \/ request.op \in {"commit", "rollback"}
                      \/ request.op \in {"begin", "save"} /\ request.cancel = "unnoticed"
    BY DEF ServerSkips, Unaffected, clientVars, programVars, serverVars
  <1>4. strayed' \in BOOLEAN
    BY <1>3
  <1>5. QED
    BY <1>2, <1>3, <1>4

LEMMA SkipKeepsInv ==
  ASSUME IndInv, ServerSkips
  PROVE  IndInv'
  <1> USE DEF IndInv
  <1>1. /\ ~Idle
        /\ UNCHANGED <<tdsVersion, inTransaction, transactionDescriptors, transactionDepth,
                       isSqlBatch, connected, request, frames, made, worked, result, within,
                       trancount, descriptor, tranName, descriptors, log, savepoints,
                       durable, lost, doubt>>
        /\ response' \in Responses /\ strayed' \in BOOLEAN
    BY SkipsNothing
  <1>2. TypeOK'
    BY <1>1 DEF TypeOK
  <1>3. FramesInv' /\ SavepointInv'
    BY <1>1 DEF FramesInv, SavepointInv
  <1>4. RequestInv' /\ DepthInv'
    BY <1>1 DEF RequestInv, Idle, Top, DepthInv, Starting, Old
  <1>5. QED
    BY <1>2, <1>3, <1>4

\* Canceling changes of the request only that it is canceled.
LEMMA CancelsRequest ==
  ASSUME IndInv, NEW way \in Ways, Cancel(way)
  PROVE  /\ ~Idle /\ ~Idle' /\ request' \in Requests
         /\ request'.op = request.op /\ request'.name = request.name
         /\ request'.level = request.level /\ request'.descriptor = request.descriptor
         /\ UNCHANGED <<tdsVersion, inTransaction, transactionDescriptors, transactionDepth,
                        isSqlBatch, connected, response, frames, made, result, within,
                        trancount, descriptor, tranName, descriptors, log, savepoints,
                        durable, lost, doubt, strayed>>
         /\ worked' \in Nat
  <1>1. request \in Requests /\ worked \in Nat
    BY DEF IndInv, TypeOK, Cancel, Idle
  <1>2. /\ ~Idle /\ request' = [request EXCEPT !.cancel = way] /\ worked' = worked + 1
        /\ UNCHANGED <<tdsVersion, inTransaction, transactionDescriptors, transactionDepth,
                       isSqlBatch, connected, response, frames, made, result, within,
                       trancount, descriptor, tranName, descriptors, log, savepoints,
                       durable, lost, doubt, strayed>>
    BY DEF Cancel, clientVars, serverVars, fateVars
  <1>3. /\ request' \in Requests /\ request'.op = request.op /\ request'.name = request.name
        /\ request'.level = request.level /\ request'.descriptor = request.descriptor
    BY <1>1, <1>2 DEF Requests
  <1>4. QED
    BY <1>1, <1>2, <1>3, NotNone DEF Idle

LEMMA CancelKeepsInv ==
  ASSUME IndInv, NEW way \in Ways, Cancel(way)
  PROVE  IndInv'
  <1> USE DEF IndInv
  <1>1. /\ ~Idle /\ ~Idle' /\ request' \in Requests
        /\ request'.op = request.op /\ request'.name = request.name
        /\ UNCHANGED <<tdsVersion, inTransaction, transactionDescriptors, transactionDepth,
                       isSqlBatch, connected, response, frames, made, result, within,
                       trancount, descriptor, tranName, descriptors, log, savepoints,
                       durable, lost, doubt, strayed>>
        /\ worked' \in Nat
    BY CancelsRequest
  <1>2. TypeOK'
    BY <1>1 DEF TypeOK
  <1>3. FramesInv' /\ SavepointInv'
    BY <1>1 DEF FramesInv, SavepointInv
  <1>4. RequestInv' /\ DepthInv'
    BY <1>1 DEF RequestInv, Top, DepthInv, Starting, Old
  <1>5. QED
    BY <1>2, <1>3, <1>4

LEMMA LossKeepsInv ==
  ASSUME IndInv, ConnectionLost
  PROVE  IndInv'
  <1> USE DEF IndInv
  <1>1. /\ connected' = FALSE /\ RollBackAll
        /\ response' = IF Idle THEN None ELSE [error |-> TRUE, env |-> "none"]
        /\ doubt' \subseteq doubt \cup durable \cup ToSet(log)
        /\ UNCHANGED <<tdsVersion, inTransaction, transactionDescriptors, transactionDepth,
                       isSqlBatch, request, frames, made, worked, result, within, strayed>>
    BY DEF ConnectionLost, programVars, Within
  <1>2. /\ trancount' = 0 /\ descriptor' = NoTransaction /\ tranName' = Anonymous
        /\ descriptors' \in Nat
        /\ log' \in Seq(Frames) /\ savepoints' \in Seq(Savepoint)
        /\ durable' \cup lost' \subseteq Frames /\ SavepointInv'
    BY <1>1, RolledBack
  <1>3. response' = None \/ response' \in Responses
    BY <1>1 DEF Responses, EnvChanges
  <1>4. TypeOK'
    <2>1. doubt' \subseteq Frames
      BY <1>1, InFrames DEF TypeOK
    <2>2. QED
      BY <1>1, <1>2, <1>3, <2>1 DEF TypeOK, NoTransaction
  <1>5. FramesInv'
    BY <1>1 DEF FramesInv
  <1>6. RequestInv'
    BY <1>1 DEF RequestInv, Idle, Top
  <1>7. DepthInv'
    BY <1>1 DEF DepthInv, Starting, Old
  <1>8. QED
    BY <1>2, <1>4, <1>5, <1>6, <1>7

-----------------------------------------------------------------------------
(* The response *)

LEMMA TokensAreTaken ==
  ASSUME IndInv, ~Idle, NEW error \in BOOLEAN, response # None, Tokens(error)
  PROVE  /\ transactionDescriptors' \in Seq(Nat) /\ Len(transactionDescriptors') > 0
         /\ transactionDescriptors'[1] = transactionDescriptors[1]
         /\ inTransaction' \in BOOLEAN /\ transactionDepth' \in Nat
         /\ Old => transactionDepth' = DepthAfter(request.op)
         /\ Old /\ request.op \in Ends => transactionDepth >= 1
  <1> USE DEF IndInv
  <1>1. /\ request \in Requests /\ request.op \in Operations /\ response \in Responses
        /\ request.op # "reset" => frames # <<>>
    BY RequestUnderWay DEF TypeOK
  <1>2. /\ transactionDescriptors \in Seq(Nat) /\ Len(transactionDescriptors) \in Nat \ {0}
        /\ descriptor \in Nat /\ transactionDepth \in Nat /\ inTransaction \in BOOLEAN
    BY LenProperties DEF TypeOK
  <1>3. /\ transactionDescriptors' = DescriptorsAfter(transactionDescriptors, response.env)
        /\ \E flag : /\ flag = AfterError(InTransactionAfter(inTransaction, response.env), error)
                     /\ inTransaction' = IF Old THEN EmulatedInTransaction(request.op, flag)
                                         ELSE flag
        /\ transactionDepth' = IF Old THEN DepthAfter(request.op) ELSE transactionDepth
    BY DEF Tokens
  <1>4. /\ transactionDescriptors' \in Seq(Nat) /\ Len(transactionDescriptors') > 0
        /\ transactionDescriptors'[1] = transactionDescriptors[1]
    <2> DEFINE longer == Append(transactionDescriptors, descriptor)
               first  == SubSeq(transactionDescriptors, 1, 1)
    <2>1. transactionDescriptors' \in {transactionDescriptors, longer, first}
      BY <1>3 DEF DescriptorsAfter
    <2>2. longer \in Seq(Nat) /\ Len(longer) > 0 /\ longer[1] = transactionDescriptors[1]
      BY <1>2, AppendProperties
    <2>3. first \in Seq(Nat) /\ Len(first) > 0 /\ first[1] = transactionDescriptors[1]
      <3>1. 1 \in Nat /\ 1 <= Len(transactionDescriptors)
        BY <1>2
      <3>2. QED
        BY <1>2, <3>1, SubSeqFromOne
    <2> HIDE DEF longer, first
    <2>4. QED
      BY <1>2, <2>1, <2>2, <2>3
  <1>5. inTransaction' \in BOOLEAN
    <2>1. InTransactionAfter(inTransaction, response.env) \in BOOLEAN
      BY <1>2 DEF InTransactionAfter
    <2>2. AfterError(InTransactionAfter(inTransaction, response.env), error) \in BOOLEAN
      BY <2>1 DEF AfterError
    <2>3. QED
      BY <1>3, <2>2 DEF EmulatedInTransaction
  <1>6. ASSUME Old, request.op \in Ends
        PROVE  transactionDepth >= 1
    <2>1. Len(frames) \in Nat \ {0} /\ Starting = 0
      BY <1>1, <1>6, TopFrame DEF Ends, Starting
    <2>2. QED
      BY <1>2, <1>6, <2>1 DEF DepthInv
  <1>7. transactionDepth' \in Nat
    BY <1>2, <1>3, <1>6 DEF DepthAfter, Ends
  <1>8. QED
    BY <1>3, <1>4, <1>5, <1>6, <1>7

\* The answer, by whether the program is told that its request was canceled
Answered(canceled) ==
    LET error == response.error \/ canceled
    IN  /\ canceled = (connected /\ request.cancel \in {"ignored", "sent"})
        /\ response # None
        /\ Tokens(error)
        /\ Begun(error) \/ Ended(error) \/ Done
        /\ strayed' = \/ strayed
                      \/ canceled /\ (Old \/ (request.op = "begin" /\ ~response.error))
        /\ doubt' = doubt \cup (IF canceled /\ request.op = "commit" THEN Within(Top) ELSE {})
        /\ response' = None
        /\ UNCHANGED <<tdsVersion, connected, made, worked, within, serverVars, durable, lost>>

LEMMA AnswerIsAnswered ==
  ASSUME Answer
  PROVE  \E canceled \in BOOLEAN : Answered(canceled)
  <1>1. (connected /\ request.cancel \in {"ignored", "sent"}) \in BOOLEAN
    OBVIOUS
  <1>2. Answered(connected /\ request.cancel \in {"ignored", "sent"})
    BY DEF Answer, Answered
  <1>3. QED
    BY <1>1, <1>2

LEMMA AnswerKeepsInv ==
  ASSUME IndInv, NEW canceled \in BOOLEAN, Answered(canceled)
  PROVE  IndInv'
  <1> USE DEF IndInv
  <1>1. PICK error \in BOOLEAN : Tokens(error) /\ (Begun(error) \/ Ended(error) \/ Done)
    BY DEF Answered, TypeOK, Responses
  <1>2. /\ response # None /\ response' = None /\ strayed' \in BOOLEAN
        /\ doubt' \subseteq doubt \cup durable \cup ToSet(log)
        /\ UNCHANGED <<tdsVersion, connected, made, worked, within>>
        /\ UNCHANGED <<serverVars, durable, lost>>
    BY DEF Answered, TypeOK, Within
  <1>3. /\ ~Idle /\ request.op \in Operations /\ (request.op # "reset" => frames # <<>>)
        /\ Len(frames) \in Nat
    BY <1>2, RequestUnderWay, Elements DEF RequestInv
  <1>4. /\ transactionDescriptors' \in Seq(Nat) /\ Len(transactionDescriptors') > 0
        /\ inTransaction' \in BOOLEAN /\ transactionDepth' \in Nat
        /\ Old => transactionDepth' = DepthAfter(request.op)
        /\ Old /\ request.op \in Ends => transactionDepth >= 1
    BY <1>1, <1>2, <1>3, TokensAreTaken
  <1>5. /\ trancount' \in Nat /\ descriptor' \in Nat /\ descriptors' \in Nat
        /\ tranName' \in Frames \cup {Anonymous}
        /\ log' \in Seq(Frames) /\ savepoints' \in Seq(Savepoint)
        /\ durable' \cup lost' \cup doubt' \subseteq Frames /\ SavepointInv'
    <2>1. UNCHANGED <<trancount, descriptor, tranName, descriptors, log, savepoints, durable,
                      lost>>
      BY <1>2 DEF serverVars
    <2>2. SavepointInv'
      BY <1>2, <2>1 DEF SavepointInv
    <2>3. doubt' \subseteq Frames
      BY <1>2, InFrames DEF TypeOK
    <2>4. QED
      BY <2>1, <2>2, <2>3 DEF TypeOK
  <1>6. ASSUME /\ frames' \in Seq(FrameRecord)
               /\ request' = None \/ request' \in Requests
               /\ isSqlBatch' \in BOOLEAN
               /\ result' \in [Frames -> {"none", "ok", "failed"}]
               /\ FramesInv' /\ RequestInv'
               /\ Old => transactionDepth' >= Len(frames') - Starting'
        PROVE  IndInv'
    <2>1. TypeOK'
      BY <1>2, <1>4, <1>5, <1>6 DEF TypeOK
    <2>2. DepthInv'
      BY <1>2, <1>6 DEF DepthInv, Old
    <2>3. QED
      BY <1>5, <1>6, <2>1, <2>2
  <1>7. /\ transactionDepth \in Nat
        /\ Old => transactionDepth >= Len(frames) - Starting
        /\ isSqlBatch \in BOOLEAN /\ result \in [Frames -> {"none", "ok", "failed"}]
        /\ frames \in Seq(FrameRecord)
    BY DEF TypeOK, DepthInv
  <1>8. CASE /\ request.op \in {"begin", "save", "commit", "rollback"}
             /\ \E outcome \in {"ok", "failed"} : Pop(outcome)
             /\ request' = None /\ UNCHANGED isSqlBatch
    <2>1. PICK outcome \in {"ok", "failed"} : Pop(outcome)
      BY <1>8
    <2>2. /\ frames' \in Seq(FrameRecord) /\ result' \in [Frames -> {"none", "ok", "failed"}]
          /\ Len(frames') = Len(frames) - 1 /\ FramesInv' /\ RequestInv'
      BY <1>2, <1>3, <1>8, <2>1, EndsFrame
    <2>3. Starting' = 0
      BY <1>8, NotNone DEF Starting
    <2>4. Old => transactionDepth' >= Len(frames')
      BY <1>3, <1>4, <1>7, <1>8, <2>2 DEF DepthAfter, Starting, Ends
    <2>5. QED
      BY <1>3, <1>6, <1>7, <1>8, <2>2, <2>3, <2>4
  <1>9. CASE /\ request.op = "save" /\ Send("isolation", Anonymous, Top.level)
             /\ UNCHANGED <<frames, result>>
    <2>1. Top.level \in -1..5 /\ frames # <<>>
      BY <1>3, <1>9, TopFrame, LevelAssumption DEF FrameRecord
    <2>2. /\ request' \in Requests /\ request' # None /\ request'.op = "isolation"
          /\ isSqlBatch' \in BOOLEAN
      <3>1. "isolation" \in Operations /\ Anonymous \in Frames \cup {Anonymous}
        BY DEF Operations
      <3>2. QED
        BY <1>9, <2>1, <3>1, SentRequest
    <2>3. FramesInv'
      BY <1>2, <1>9 DEF FramesInv
    <2>4. RequestInv'
      BY <1>2, <1>9, <2>1, <2>2 DEF RequestInv, Idle, PhaseDuring, Starts, Ends, Top
    <2>5. Starting' = 0 /\ Starting = 1
      BY <1>9, <2>2 DEF Starting
    <2>6. Old => transactionDepth' >= Len(frames') - Starting'
      BY <1>3, <1>4, <1>7, <1>9, <2>5 DEF DepthAfter
    <2>7. QED
      BY <1>6, <1>7, <1>9, <2>2, <2>3, <2>4, <2>6
  <1>10. CASE /\ request.op \in {"begin", "save", "isolation"} /\ Become("open")
              /\ request' = None /\ UNCHANGED <<isSqlBatch, result>>
    <2>1. /\ frames' \in Seq(FrameRecord) /\ frames' # <<>> /\ Len(frames') = Len(frames)
          /\ FramesInv' /\ Top'.phase = "open"
      BY <1>2, <1>3, <1>10, TurnsFrame
    <2>2. RequestInv'
      BY <1>2, <1>10, <2>1, NotNone DEF RequestInv, Idle, PhaseDuring, Starts, Ends
    <2>3. Starting' = 0
      BY <1>10, NotNone DEF Starting
    <2>4. Old => transactionDepth' >= Len(frames')
      BY <1>3, <1>4, <1>7, <1>10, <2>1 DEF DepthAfter, Starting
    <2>5. QED
      BY <1>3, <1>6, <1>7, <1>10, <2>1, <2>2, <2>3, <2>4
  <1>11. CASE Done
    <2>1. /\ request.op \in {"work", "reset"} /\ request' = None
          /\ UNCHANGED <<isSqlBatch, frames, result>>
      BY <1>11 DEF Done
    <2>2. FramesInv'
      BY <1>2, <2>1 DEF FramesInv
    <2>3. RequestInv'
      BY <1>2, <2>1, NotNone DEF RequestInv, Idle, PhaseDuring, Starts, Ends, Top
    <2>4. Starting' = 0 /\ Starting = 0
      BY <2>1, NotNone DEF Starting
    <2>5. Old => transactionDepth' >= Len(frames') - Starting'
      BY <1>3, <1>4, <1>7, <2>1, <2>4 DEF DepthAfter
    <2>6. QED
      BY <1>6, <1>7, <2>1, <2>2, <2>3, <2>5
  <1>12. QED
    <2>1. CASE Begun(error)
      BY <1>8, <1>9, <1>10, <2>1 DEF Begun
    <2>2. CASE Ended(error)
      BY <1>8, <2>2 DEF Ended
    <2>3. QED
      BY <1>1, <1>11, <2>1, <2>2

-----------------------------------------------------------------------------
(* Types *)

LEMMA InitHolds ==
  ASSUME Init
  PROVE  IndInv
  <1>1. TypeOK
    <2>1. <<>> \in Seq(FrameRecord) /\ <<>> \in Seq(Frames) /\ <<>> \in Seq(Savepoint)
      BY EmptySeq
    <2>2. <<NoTransaction>> \in Seq(Nat) /\ Len(<<NoTransaction>>) > 0
      BY DEF NoTransaction
    <2>3. transactionDescriptors \in Seq(Nat) /\ Len(transactionDescriptors) > 0
      BY <2>2 DEF Init
    <2>4. /\ result \in [Frames -> {"none", "ok", "failed"}]
          /\ within \in [Frames -> SUBSET Frames] /\ made \in 0..MaxFrames
      BY BoundAssumption DEF Init
    <2>5. /\ frames \in Seq(FrameRecord) /\ log \in Seq(Frames)
          /\ savepoints \in Seq(Savepoint)
      BY <2>1 DEF Init
    <2>6. /\ trancount \in Nat /\ descriptor \in Nat /\ descriptors \in Nat
          /\ worked \in Nat /\ transactionDepth \in Nat
          /\ tranName \in Frames \cup {Anonymous}
          /\ durable \cup lost \cup doubt \subseteq Frames /\ strayed \in BOOLEAN
      BY DEF Init, NoTransaction
    <2>7. /\ tdsVersion \in Versions /\ inTransaction \in BOOLEAN
          /\ isSqlBatch \in BOOLEAN /\ connected \in BOOLEAN
          /\ request = None /\ response = None
      BY DEF Init
    <2>8. QED
      BY <2>3, <2>4, <2>5, <2>6, <2>7 DEF TypeOK
  <1>2. FramesInv
    BY DEF Init, FramesInv
  <1>3. RequestInv
    BY NotNone DEF Init, RequestInv, Idle
  <1>4. SavepointInv
    BY DEF Init, SavepointInv
  <1>5. DepthInv
    BY NotNone DEF Init, DepthInv, Starting
  <1>6. QED
    BY <1>1, <1>2, <1>3, <1>4, <1>5 DEF IndInv

LEMMA StepKeepsInv ==
  ASSUME IndInv, [Next]_vars
  PROVE  IndInv'
  <1>1. CASE Next
    BY <1>1, BeginsKeepInv, WorksKeepInv, EndsKeepInv, CancelKeepsInv, ServerKeepsInv,
       SkipKeepsInv, LossKeepsInv, AnswerIsAnswered, AnswerKeepsInv DEF Next
  <1>2. CASE UNCHANGED vars
    <2>1. UNCHANGED <<tdsVersion, inTransaction, transactionDescriptors, transactionDepth,
                      isSqlBatch, connected, request, response, frames, made, worked, result,
                      within, trancount, descriptor, tranName, descriptors, log, savepoints,
                      durable, lost, doubt, strayed>>
      BY <1>2 DEF vars, clientVars, wireVars, programVars, serverVars, fateVars
    <2>2. TypeOK'
      BY <2>1 DEF IndInv, TypeOK
    <2>3. FramesInv' /\ SavepointInv'
      BY <2>1 DEF IndInv, FramesInv, SavepointInv
    <2>4. RequestInv' /\ DepthInv'
      BY <2>1 DEF IndInv, RequestInv, Idle, Top, DepthInv, Starting, Old
    <2>5. QED
      BY <2>2, <2>3, <2>4 DEF IndInv
  <1>3. QED
    BY <1>1, <1>2

-----------------------------------------------------------------------------
(* Counting frames *)

LEMMA CountBegins ==
  ASSUME NEW fs \in Seq(FrameRecord)
  PROVE  /\ IsFiniteSet(Begins(fs)) /\ Count(fs) \in Nat /\ Count(fs) <= Len(fs)
         /\ Count(fs) = 0 => \A i \in 1..Len(fs) : fs[i].kind = "save"
         /\ Count(fs) = 1 => \A i, j \in Begins(fs) : i = j
  <1>1. Len(fs) \in Nat
    BY LenProperties
  <1>2. IsFiniteSet(1..Len(fs)) /\ Cardinality(1..Len(fs)) = Len(fs)
    BY <1>1, FS_Interval, SMTT(20)
  <1>3. Begins(fs) \in SUBSET (1..Len(fs))
    BY DEF Begins
  <1>4. IsFiniteSet(Begins(fs)) /\ Count(fs) <= Len(fs)
    BY <1>2, <1>3, FS_Subset DEF Count
  <1>5. Count(fs) \in Nat
    BY <1>4, FS_CardinalityType DEF Count
  <1>6. Count(fs) = 0 => Begins(fs) = {}
    BY <1>4, FS_EmptySet DEF Count
  <1>7. Count(fs) = 1 => \E i : Begins(fs) = {i}
    BY <1>4, FS_Singleton DEF Count
  <1>8. QED
    BY <1>4, <1>5, <1>6, <1>7 DEF Begins

\* One frame more
LEMMA CountOfOneMore ==
  ASSUME NEW fs \in Seq(FrameRecord), NEW gs \in Seq(FrameRecord), Len(gs) = Len(fs) + 1,
         \A i \in 1..Len(fs) : gs[i].kind = fs[i].kind
  PROVE  Count(gs) = Count(fs) + (IF gs[Len(gs)].kind # "save" THEN 1 ELSE 0)
  <1>1. Len(fs) \in Nat
    BY LenProperties
  <1>2. IsFiniteSet(Begins(fs)) /\ Count(fs) \in Nat
    BY CountBegins
  <1>3. \A i \in 1..Len(gs) : i \in 1..Len(fs) \/ i = Len(gs)
    BY <1>1
  <1>4. 1..Len(fs) \subseteq 1..Len(gs) /\ Len(gs) \in 1..Len(gs) /\ Len(gs) \notin 1..Len(fs)
    BY <1>1
  <1>5. CASE gs[Len(gs)].kind # "save"
    <2>1. Begins(gs) = Begins(fs) \cup {Len(gs)} /\ Len(gs) \notin Begins(fs)
      BY <1>3, <1>4, <1>5 DEF Begins
    <2>2. QED
      BY <1>2, <1>5, <2>1, FS_AddElement DEF Count
  <1>6. CASE gs[Len(gs)].kind = "save"
    <2>1. Begins(gs) = Begins(fs)
      BY <1>3, <1>4, <1>6 DEF Begins
    <2>2. QED
      BY <1>2, <1>6, <2>1 DEF Count
  <1>7. QED
    BY <1>5, <1>6

LEMMA CountOfTheSame ==
  ASSUME NEW fs \in Seq(FrameRecord), NEW gs \in Seq(FrameRecord), Len(gs) = Len(fs),
         \A i \in 1..Len(fs) : gs[i].kind = fs[i].kind
  PROVE  Count(gs) = Count(fs)
  BY DEF Count, Begins

\* What CountInv says of the frames and what is pending
LEMMA Counted ==
  ASSUME IndInv
  PROVE  /\ Count(frames) \in Nat /\ Pending \in {0, 1} /\ trancount \in Nat
         /\ frames = <<>> => Count(frames) = 0 /\ Pending = 0
         /\ frames # <<>> /\ Top.kind # "save" => Count(frames) >= 1
         /\ frames # <<>> /\ frames[1].kind # "save" => Count(frames) >= 1
         /\ frames # <<>> /\ frames[1].kind # "save" /\ Top.kind = "save" => Len(frames) > 1
         /\ frames # <<>> /\ frames[1].kind # "save" /\ Top.kind # "save"
               /\ Count(frames) = 1 => Len(frames) = 1
  <1> USE DEF IndInv
  <1>1. frames \in Seq(FrameRecord) /\ trancount \in Nat /\ Len(frames) \in Nat
    BY LenProperties DEF TypeOK
  <1>2. /\ Count(frames) \in Nat /\ Count(frames) <= Len(frames)
        /\ Count(frames) = 0 => \A i \in 1..Len(frames) : frames[i].kind = "save"
        /\ Count(frames) = 1 => \A i, j \in Begins(frames) : i = j
    BY <1>1, CountBegins
  <1>3. frames = <<>> => Len(frames) = 0
    OBVIOUS
  <1>4. Pending \in {0, 1} /\ (frames = <<>> => Pending = 0)
    BY DEF Pending
  <1>5. frames = <<>> => Count(frames) = 0
    BY <1>2, <1>3
  <1>6. ASSUME frames # <<>>
        PROVE  /\ Len(frames) \in 1..Len(frames) /\ Top = frames[Len(frames)]
               /\ 1 \in 1..Len(frames)
    BY <1>6, TopFrame
  <1>7. ASSUME frames # <<>>, Top.kind # "save" \/ frames[1].kind # "save"
        PROVE  Count(frames) >= 1
    BY <1>2, <1>6, <1>7
  <1>8. ASSUME frames # <<>>, frames[1].kind # "save", Top.kind = "save"
        PROVE  Len(frames) > 1
    <2>1. Len(frames) # 1
      BY <1>6, <1>8
    <2>2. QED
      BY <1>1, <1>6, <1>8, <2>1
  <1>9. ASSUME frames # <<>>, frames[1].kind # "save", Top.kind # "save", Count(frames) = 1
        PROVE  Len(frames) = 1
    <2>1. Len(frames) \in Begins(frames) /\ 1 \in Begins(frames)
      BY <1>6, <1>9 DEF Begins
    <2>2. QED
      BY <1>2, <1>9, <2>1
  <1>10. QED
    BY <1>1, <1>2, <1>4, <1>5, <1>7, <1>8, <1>9

-----------------------------------------------------------------------------
(* Since 7.2 *)

LEMMA LastDescriptor ==
  ASSUME NEW ds \in Seq(Nat), Len(ds) > 0, NEW d \in Nat
  PROVE  Last(Append(ds, d)) = d /\ Last(SubSeq(ds, 1, 1)) = ds[1]
  <1>1. Append(ds, d) \in Seq(Nat) /\ Len(Append(ds, d)) = Len(ds) + 1
        /\ Append(ds, d)[Len(ds) + 1] = d
    BY AppendProperties
  <1>2. 1 \in Nat /\ 1 <= Len(ds)
    BY LenProperties
  <1>3. Len(SubSeq(ds, 1, 1)) = 1 /\ SubSeq(ds, 1, 1)[1] = ds[1]
    BY <1>2, SubSeqFromOne
  <1> DEFINE longer == Append(ds, d)
             first  == SubSeq(ds, 1, 1)
  <1> HIDE DEF longer, first
  <1>4. Last(longer) = longer[Len(longer)] /\ Last(first) = first[Len(first)]
    BY DEF Last
  <1>5. QED
    BY <1>1, <1>3, <1>4 DEF longer, first

\* A step of the program, which may send a request
LEMMA ProgramKeepsSince ==
  ASSUME IndInv, SinceInv, Idle,
         UNCHANGED <<tdsVersion, inTransaction, transactionDescriptors, connected, response,
                     trancount, descriptor>>,
         request' = request \/ request'.descriptor = CurrentTransactionDescriptor,
         request'.op = "begin" /\ Len(frames') > 1 => inTransaction
  PROVE  SinceInv'
  <1>1. response = None /\ response' = None
    BY DEF IndInv, RequestInv
  <1>2. Env = "none" /\ Env' = "none" /\ Old' = Old
    BY <1>1 DEF Env, Old
  <1>3. /\ \A ds : DescriptorsAfter(ds, "none") = ds
        /\ \A ds : DescriptorsAfter(ds, "none")' = ds'
    BY DEF DescriptorsAfter
  <1>4. SUFFICES ASSUME ~Old, connected
                 PROVE  SinceInv'
    BY <1>2 DEF SinceInv
  <1>5. /\ transactionDescriptors[1] = NoTransaction
        /\ (descriptor = NoTransaction) <=> (trancount = 0)
        /\ Last(transactionDescriptors) = descriptor
        /\ InTransactionAfter(inTransaction, "none") = (trancount > 0)
    BY <1>2, <1>3, <1>4 DEF SinceInv
  <1>6. Last(DescriptorsAfter(transactionDescriptors, Env))' = descriptor'
    BY <1>2, <1>5 DEF DescriptorsAfter
  <1>7. InTransactionAfter(inTransaction, Env)' = (trancount' > 0)
    BY <1>2, <1>5 DEF InTransactionAfter
  <1>8. ~Idle' => request'.descriptor = descriptor'
    BY <1>5 DEF CurrentTransactionDescriptor, Idle
  <1>9. QED
    BY <1>1, <1>2, <1>5, <1>6, <1>7, <1>8 DEF SinceInv

\* The response that the server gives, and its transaction
LEMMA ServerTells ==
  ASSUME IndInv, SinceInv, ~Old, ServerExecutes
  PROVE  /\ response' \in Responses
         /\ (descriptor' = NoTransaction) <=> (trancount' = 0)
         /\ \/ /\ response'.env = "none" /\ descriptor' = descriptor
               /\ (trancount' > 0) <=> (trancount > 0)
            \/ response'.env = "begin" /\ trancount' > 0 /\ request.op = "begin"
            \/ /\ response'.env \in {"commit", "rollback"}
               /\ descriptor' = NoTransaction /\ trancount' = 0
               /\ request.op \notin {"save", "isolation"}
  <1> USE DEF IndInv
  <1>1. /\ trancount \in Nat /\ descriptors \in Nat
        /\ (descriptor = NoTransaction) <=> (trancount = 0)
    BY DEF TypeOK, SinceInv, ServerExecutes
  <1>2. /\ "none" \in EnvChanges /\ "begin" \in EnvChanges /\ "commit" \in EnvChanges
        /\ "rollback" \in EnvChanges /\ TRUE \in BOOLEAN /\ FALSE \in BOOLEAN
    BY DEF EnvChanges
  <1>3. response' \in Responses
    BY ServerOutcome DEF ServerExecutes
  <1>4. ASSUME NEW error \in BOOLEAN, Unaffected(error)
        PROVE  /\ response'.env = "none" /\ descriptor' = descriptor
               /\ trancount' = trancount
    BY <1>2, <1>4, Responded DEF Unaffected, serverVars
  <1>5. ASSUME RollBackAll
        PROVE  descriptor' = NoTransaction /\ trancount' = 0
    BY <1>5 DEF RollBackAll
  <1>6. CASE ServerBegins
    <2>1. request.op = "begin" /\ trancount' = trancount + 1
      BY <1>6 DEF ServerBegins
    <2>2. CASE /\ trancount = 0 /\ descriptor' = descriptors + 1
               /\ Respond(FALSE, "begin")
      <3>1. response'.env = "begin"
        BY <1>2, <2>2, Responded
      <3>2. QED
        BY <1>1, <1>3, <2>1, <2>2, <3>1 DEF NoTransaction
    <2>3. CASE /\ trancount > 0 /\ descriptor' = descriptor
               /\ Respond(FALSE, "none")
      <3>1. response'.env = "none"
        BY <1>2, <2>3, Responded
      <3>2. QED
        BY <1>1, <1>3, <2>1, <2>3, <3>1
    <2>4. QED
      BY <1>6, <2>2, <2>3 DEF ServerBegins
  <1>7. CASE ServerSaves
    <2>1. response'.env = "none"
      BY <1>2, <1>7, Responded DEF ServerSaves
    <2>2. descriptor' = descriptor /\ trancount' = trancount
      BY <1>7 DEF ServerSaves
    <2>3. QED
      BY <1>1, <1>3, <2>1, <2>2
  <1>8. CASE ServerCommits
    <2>1. request.op = "commit" /\ trancount > 0 /\ trancount' = trancount - 1
      BY <1>8 DEF ServerCommits
    <2>2. CASE trancount = 1 /\ descriptor' = NoTransaction /\ Respond(FALSE, "commit")
      <3>1. response'.env = "commit"
        BY <1>2, <2>2, Responded
      <3>2. QED
        BY <1>3, <2>1, <2>2, <3>1
    <2>3. CASE trancount > 1 /\ descriptor' = descriptor /\ Respond(FALSE, "none")
      <3>1. response'.env = "none"
        BY <1>2, <2>3, Responded
      <3>2. QED
        BY <1>1, <1>3, <2>1, <2>3, <3>1
    <2>4. QED
      BY <1>8, <2>2, <2>3 DEF ServerCommits
  <1>9. ASSUME RollBackAll, NEW error \in BOOLEAN, Respond(error, "rollback"),
               request.op \notin {"save", "isolation"}
        PROVE  /\ response'.env = "rollback" /\ descriptor' = NoTransaction /\ trancount' = 0
               /\ request.op \notin {"save", "isolation"}
    <2>1. response'.env = "rollback"
      BY <1>2, <1>9, Responded
    <2>2. QED
      BY <1>5, <1>9, <2>1
  <1>10. CASE ServerRollsBack
    BY <1>2, <1>3, <1>9, <1>10 DEF ServerRollsBack
  <1>11. CASE \E s \in DOMAIN savepoints : ServerRollsBackTo(s)
    <2>1. Respond(FALSE, "none") /\ descriptor' = descriptor /\ trancount' = trancount
      BY <1>11 DEF ServerRollsBackTo
    <2>2. response'.env = "none"
      BY <1>2, <2>1, Responded
    <2>3. QED
      BY <1>1, <1>3, <2>1, <2>2
  <1>12. CASE ServerWorks
    <2>1. CASE Respond(FALSE, "none") /\ descriptor' = descriptor /\ trancount' = trancount
      <3>1. response'.env = "none"
        BY <1>2, <2>1, Responded
      <3>2. QED
        BY <1>1, <1>3, <2>1, <3>1
    <2>2. CASE Unaffected(TRUE)
      BY <1>1, <1>2, <1>3, <1>4, <2>2
    <2>3. CASE RollBackAll /\ Respond(TRUE, "rollback")
      BY <1>2, <1>3, <1>9, <1>12, <2>3 DEF ServerWorks
    <2>4. QED
      BY <1>12, <2>1, <2>2, <2>3 DEF ServerWorks, serverVars
  <1>13. CASE ServerResets
    <2>1. CASE RollBackAll /\ Respond(FALSE, "rollback")
      BY <1>2, <1>3, <1>9, <1>13, <2>1 DEF ServerResets
    <2>2. CASE Unaffected(FALSE)
      BY <1>1, <1>2, <1>3, <1>4, <2>2
    <2>3. QED
      BY <1>13, <2>1, <2>2 DEF ServerResets
  <1>14. CASE ServerRefuses
    <2>1. PICK error \in BOOLEAN : Unaffected(error)
      BY <1>2, <1>14 DEF ServerRefuses
    <2>2. QED
      BY <1>1, <1>3, <1>4, <2>1
  <1>15. QED
    BY <1>6, <1>7, <1>8, <1>10, <1>11, <1>12, <1>13, <1>14 DEF ServerExecutes

LEMMA ServerKeepsSince ==
  ASSUME IndInv, SinceInv, ServerExecutes
  PROVE  SinceInv'
  <1>1. /\ ~Idle /\ connected /\ response = None
        /\ UNCHANGED <<tdsVersion, inTransaction, transactionDescriptors, connected, request,
                       frames>>
    BY DEF ServerExecutes, clientVars, programVars
  <1>2. Old' = Old /\ Env = "none"
    BY <1>1 DEF Old, Env
  <1>3. SUFFICES ASSUME ~Old
                 PROVE  SinceInv'
    BY <1>2 DEF SinceInv
  <1>4. /\ response' \in Responses
        /\ (descriptor' = NoTransaction) <=> (trancount' = 0)
        /\ \/ /\ response'.env = "none" /\ descriptor' = descriptor
              /\ (trancount' > 0) <=> (trancount > 0)
           \/ response'.env = "begin" /\ trancount' > 0 /\ request.op = "begin"
           \/ /\ response'.env \in {"commit", "rollback"}
              /\ descriptor' = NoTransaction /\ trancount' = 0
              /\ request.op \notin {"save", "isolation"}
    BY <1>3, ServerTells
  <1>5. response' # None /\ Env' = response'.env
    BY <1>4, NotNone DEF Env
  <1>6. /\ transactionDescriptors \in Seq(Nat) /\ Len(transactionDescriptors) > 0
        /\ descriptor' \in Nat /\ trancount' \in Nat
    BY <1>1, ServerOutcome DEF IndInv, TypeOK
  <1>7. /\ transactionDescriptors[1] = NoTransaction
        /\ Last(transactionDescriptors) = descriptor
        /\ inTransaction = (trancount > 0)
    BY <1>1, <1>2, <1>3 DEF SinceInv, DescriptorsAfter, InTransactionAfter
  <1>8. Last(DescriptorsAfter(transactionDescriptors, Env))' = descriptor'
    <2>1. CASE response'.env = "none" /\ descriptor' = descriptor
      BY <1>1, <1>5, <1>7, <2>1 DEF DescriptorsAfter
    <2>2. CASE response'.env = "begin"
      <3>1. DescriptorsAfter(transactionDescriptors, Env)'
               = Append(transactionDescriptors, descriptor')
        BY <1>1, <1>5, <2>2 DEF DescriptorsAfter
      <3>2. QED
        BY <1>6, <3>1, LastDescriptor
    <2>3. CASE response'.env \in {"commit", "rollback"} /\ descriptor' = NoTransaction
      <3>1. DescriptorsAfter(transactionDescriptors, Env)'
               = SubSeq(transactionDescriptors, 1, 1)
        BY <1>1, <1>5, <2>3 DEF DescriptorsAfter
      <3>2. QED
        BY <1>6, <1>7, <2>3, <3>1, LastDescriptor
    <2>4. QED
      BY <1>4, <2>1, <2>2, <2>3
  <1>9. InTransactionAfter(inTransaction, Env)' = (trancount' > 0)
    BY <1>1, <1>4, <1>5, <1>6, <1>7 DEF InTransactionAfter
  <1>10. request'.op \in {"save", "isolation"} => Env' = "none"
    BY <1>1, <1>4, <1>5
  <1>11. QED
    BY <1>1, <1>4, <1>5, <1>7, <1>8, <1>9, <1>10 DEF SinceInv

LEMMA SkipKeepsSince ==
  ASSUME IndInv, SinceInv, ServerSkips
  PROVE  SinceInv'
  <1>1. /\ ~Idle /\ connected /\ response = None
        /\ response' \in Responses /\ response' # None /\ response'.env = "none"
        /\ UNCHANGED <<tdsVersion, inTransaction, transactionDescriptors, connected, request,
                       frames, trancount, descriptor>>
    BY SkipsNothing
  <1>2. Old' = Old /\ Env = "none" /\ Env' = "none"
    BY <1>1 DEF Old, Env
  <1>3. DescriptorsAfter(transactionDescriptors, Env)'
           = DescriptorsAfter(transactionDescriptors, Env)
    BY <1>1, <1>2 DEF DescriptorsAfter
  <1>4. InTransactionAfter(inTransaction, Env)' = InTransactionAfter(inTransaction, Env)
    BY <1>1, <1>2 DEF InTransactionAfter
  <1>5. QED
    BY <1>1, <1>2, <1>3, <1>4 DEF SinceInv

LEMMA CancelKeepsSince ==
  ASSUME IndInv, SinceInv, NEW way \in Ways, Cancel(way)
  PROVE  SinceInv'
  <1>1. /\ ~Idle /\ ~Idle'
        /\ request'.op = request.op /\ request'.descriptor = request.descriptor
        /\ UNCHANGED <<tdsVersion, inTransaction, transactionDescriptors, connected, response,
                       frames, trancount, descriptor>>
    BY CancelsRequest
  <1>2. Old' = Old /\ Env' = Env
    BY <1>1 DEF Old, Env
  <1>3. DescriptorsAfter(transactionDescriptors, Env)'
           = DescriptorsAfter(transactionDescriptors, Env)
    BY <1>1, <1>2 DEF DescriptorsAfter
  <1>4. InTransactionAfter(inTransaction, Env)' = InTransactionAfter(inTransaction, Env)
    BY <1>1, <1>2 DEF InTransactionAfter
  <1>5. QED
    BY <1>1, <1>2, <1>3, <1>4 DEF SinceInv

\* What an answer does to the request
LEMMA AnsweredRequest ==
  ASSUME IndInv, NEW canceled \in BOOLEAN, Answered(canceled)
  PROVE  /\ ~Idle /\ response \in Responses /\ response' = None
         /\ request' = None \/ (request.op = "save" /\ Send("isolation", Anonymous, Top.level))
         /\ UNCHANGED <<tdsVersion, connected, trancount, descriptor, tranName, savepoints>>
  <1>1. \E error : Begun(error) \/ Ended(error) \/ Done
    BY DEF Answered
  <1>2. request' = None \/ (request.op = "save" /\ Send("isolation", Anonymous, Top.level))
    BY <1>1 DEF Begun, Ended, Done
  <1>3. QED
    BY <1>2 DEF Answered, serverVars, IndInv, TypeOK, RequestInv

LEMMA AnswerKeepsSince ==
  ASSUME IndInv, SinceInv, NEW canceled \in BOOLEAN, Answered(canceled)
  PROVE  SinceInv'
  <1>1. /\ ~Idle /\ response \in Responses /\ response' = None
        /\ request' = None \/ (request.op = "save" /\ Send("isolation", Anonymous, Top.level))
        /\ UNCHANGED <<tdsVersion, connected, trancount, descriptor, tranName, savepoints>>
    BY AnsweredRequest
  <1>2. Old' = Old /\ Env' = "none" /\ Env = response.env /\ response # None
    BY <1>1, NotNone DEF Old, Env
  <1>3. SUFFICES ASSUME ~Old, connected
                 PROVE  SinceInv'
    BY <1>1, <1>2 DEF SinceInv
  <1>4. PICK error \in BOOLEAN : Tokens(error)
    BY DEF Answered, IndInv, TypeOK, Responses
  <1>5. /\ transactionDescriptors' = DescriptorsAfter(transactionDescriptors, response.env)
        /\ inTransaction' = InTransactionAfter(inTransaction, response.env)
    BY <1>3, <1>4 DEF Tokens, AfterError
  <1>6. transactionDescriptors'[1] = NoTransaction
    <2>1. transactionDescriptors'[1] = transactionDescriptors[1]
      BY <1>1, <1>2, <1>4, TokensAreTaken
    <2>2. QED
      BY <1>3, <2>1 DEF SinceInv
  <1>7. /\ (descriptor = NoTransaction) <=> (trancount = 0)
        /\ Last(transactionDescriptors') = descriptor
        /\ inTransaction' = (trancount > 0)
    BY <1>2, <1>3, <1>5 DEF SinceInv
  <1>8. Last(DescriptorsAfter(transactionDescriptors, Env))' = descriptor'
    BY <1>1, <1>2, <1>7 DEF DescriptorsAfter
  <1>9. InTransactionAfter(inTransaction, Env)' = (trancount' > 0)
    BY <1>1, <1>2, <1>7 DEF InTransactionAfter
  <1>10. /\ ~Idle' => request'.descriptor = descriptor'
         /\ request'.op # "begin"
    <2>1. CASE request' = None
      BY <2>1, NotNone DEF Idle
    <2>2. CASE request.op = "save" /\ Send("isolation", Anonymous, Top.level)
      <3>1. Env = "none" /\ Last(transactionDescriptors) = descriptor
        BY <1>3, <2>2 DEF SinceInv, DescriptorsAfter
      <3>2. request'.op = "isolation"
            /\ request'.descriptor = CurrentTransactionDescriptor
        BY <2>2 DEF Send
      <3>3. QED
        BY <1>1, <3>1, <3>2 DEF CurrentTransactionDescriptor
    <2>3. QED
      BY <1>1, <2>1, <2>2
  <1>11. QED
    BY <1>1, <1>2, <1>6, <1>7, <1>8, <1>9, <1>10 DEF SinceInv

LEMMA StepKeepsSince ==
  ASSUME IndInv, SinceInv, [Next]_vars
  PROVE  SinceInv'
  <1>1. ASSUME NEW level \in IsolationLevels, Transaction(level) \/ BeginTransaction(level)
        PROVE  SinceInv'
    <2>1. /\ Idle /\ Usable
          /\ UNCHANGED <<tdsVersion, inTransaction, transactionDescriptors, connected, response>>
          /\ UNCHANGED serverVars
      BY <1>1 DEF Transaction, BeginTransaction, MayBegin
    <2>2. UNCHANGED <<trancount, descriptor>>
      BY <2>1 DEF serverVars
    <2>3. \E op, name : Send(op, name, level)
      BY <1>1, OpensFrame
    <2>4. request'.descriptor = CurrentTransactionDescriptor
      BY <2>3 DEF Send
    <2>5. Len(frames') > 1 => inTransaction
      <3>1. PICK kind \in Kinds : Push(kind, level)
        BY <1>1, OpensFrame
      <3>2. Len(frames') = Len(frames) + 1
        BY <1>1, <3>1, Pushed DEF IndInv, Transaction, BeginTransaction, MayBegin
      <3>3. frames = <<>> => Len(frames) = 0
        OBVIOUS
      <3>4. QED
        BY <2>1, <3>2, <3>3 DEF Usable
    <2>6. QED
      BY <2>1, <2>2, <2>4, <2>5, ProgramKeepsSince
  <1>2. CASE Work \/ Reset
    <2>1. /\ Idle /\ UNCHANGED <<tdsVersion, inTransaction, transactionDescriptors, connected,
                                 response>>
          /\ UNCHANGED serverVars
          /\ \E op \in {"work", "reset"} : \E name : Send(op, name, NoLevel)
      BY <1>2 DEF Work, Reset
    <2>2. UNCHANGED <<trancount, descriptor>>
      BY <2>1 DEF serverVars
    <2>3. request'.descriptor = CurrentTransactionDescriptor /\ request'.op # "begin"
      BY <2>1 DEF Send
    <2>4. QED
      BY <2>1, <2>2, <2>3, ProgramKeepsSince
  <1>3. CASE TxDone \/ EndTransaction
    <2>1. /\ Idle /\ UNCHANGED tdsVersion /\ UNCHANGED serverVars
      BY <1>3 DEF TxDone, EndTransaction
    <2>2. UNCHANGED <<trancount, descriptor>>
      BY <2>1 DEF serverVars
    <2>3. /\ \/ request' = request
             \/ \E op \in Ends : \E name : Send(op, name, NoLevel)
          /\ UNCHANGED <<inTransaction, transactionDescriptors, connected, response>>
      BY <1>3, ClosesFrame DEF EndBy
    <2>4. /\ request' = request \/ request'.descriptor = CurrentTransactionDescriptor
          /\ request'.op # "begin"
      BY <2>1, <2>3, NotNone DEF Send, Ends, Idle
    <2>5. QED
      BY <2>1, <2>2, <2>3, <2>4, ProgramKeepsSince
  <1>4. CASE ServerExecutes
    BY <1>4, ServerKeepsSince
  <1>5. CASE ConnectionLost
    BY <1>5 DEF ConnectionLost, SinceInv
  <1>6. CASE Answer
    BY <1>6, AnswerIsAnswered, AnswerKeepsSince
  <1>7. CASE UNCHANGED vars
    BY <1>7 DEF vars, clientVars, wireVars, programVars, serverVars, SinceInv, Old, Env, Idle,
                DescriptorsAfter, InTransactionAfter
  <1>8. CASE ServerSkips
    BY <1>8, SkipKeepsSince
  <1>9. ASSUME NEW way \in Ways, Cancel(way)
        PROVE  SinceInv'
    BY <1>9, CancelKeepsSince
  <1>10. QED
    BY <1>1, <1>2, <1>3, <1>4, <1>5, <1>6, <1>7, <1>8, <1>9 DEF Next

-----------------------------------------------------------------------------
(* What is counted *)

LEMMA Agreed ==
  ASSUME AgreeInv
  PROVE  DescriptorsAgree
  <1> USE DEF AgreeInv
  <1>1. ASSUME Sure
        PROVE  inTransaction = (trancount > 0)
    <2>1. Idle /\ connected /\ Followed /\ Pending = 0 /\ Starting = 0 /\ Env = "none"
      BY <1>1, NotNone DEF Sure, Pending, Starting, Idle, Ends, IndInv, RequestInv, Env
    <2>2. CASE Old
      <3>1. /\ trancount = Count(frames) /\ inTransaction = (Len(frames) > 0)
            /\ frames # <<>> => frames[1].kind # "save"
        <4>1. Claim /\ trancount \in Nat /\ Len(frames) \in Nat
          BY <2>1, <2>2, Counted, Elements DEF Claim, Followed, IndInv
        <4>2. /\ trancount + Pending = Count(frames)
              /\ transactionDepth = Len(frames) - Starting
              /\ inTransaction = (transactionDepth > 0)
              /\ frames # <<>> => frames[1].kind # "save"
          BY <2>2, <4>1 DEF BeforeInv, CountInv
        <4>3. QED
          BY <2>1, <4>1, <4>2
      <3>2. CASE frames = <<>>
        BY <3>1, <3>2, Counted
      <3>3. CASE frames # <<>>
        BY <3>1, <3>3, Counted, TopFrame DEF IndInv
      <3>4. QED
        BY <3>2, <3>3
    <2>3. CASE ~Old
      BY <2>1, <2>3 DEF SinceInv, InTransactionAfter
    <2>4. QED
      BY <2>2, <2>3
  <1>2. ASSUME ~Old, connected, Idle \/ response = None
        PROVE  CurrentTransactionDescriptor = descriptor
    <2>1. Env = "none"
      BY <1>2 DEF Env, IndInv, RequestInv
    <2>2. QED
      BY <1>2, <2>1 DEF SinceInv, DescriptorsAfter, CurrentTransactionDescriptor
  <1>3. ~Old /\ connected /\ ~Idle /\ response = None => request.descriptor = descriptor
    BY DEF SinceInv
  <1>4. QED
    BY <1>1, <1>2, <1>3 DEF DescriptorsAgree

\* Between requests nothing is pending.
LEMMA NothingPending ==
  ASSUME AgreeInv, Idle, Claim
  PROVE  /\ response = None /\ Pending = 0 /\ Starting = 0
         /\ trancount \in Nat /\ Count(frames) \in Nat /\ Len(frames) \in Nat
         /\ trancount <= Count(frames) /\ (trancount > 0 => trancount = Count(frames))
         /\ inTransaction \in BOOLEAN /\ (inTransaction <=> trancount > 0)
         /\ Old => /\ trancount = Count(frames) /\ transactionDepth = Len(frames)
                   /\ (inTransaction <=> transactionDepth > 0)
  <1> USE DEF AgreeInv
  <1>1. response = None /\ Pending = 0 /\ Starting = 0
    BY NotNone DEF Pending, Starting, Idle, Ends, IndInv, RequestInv
  <1>2. trancount \in Nat /\ Count(frames) \in Nat /\ Len(frames) \in Nat
    BY Counted, Elements DEF IndInv
  <1>3. inTransaction \in BOOLEAN /\ (inTransaction <=> trancount > 0)
    BY Agreed DEF IndInv, TypeOK, DescriptorsAgree, Sure, Followed, Claim
  <1>4. trancount <= Count(frames) /\ (trancount > 0 => trancount = Count(frames))
    BY <1>1, <1>2 DEF CountInv
  <1>5. ASSUME Old
        PROVE  /\ trancount = Count(frames) /\ transactionDepth = Len(frames)
               /\ (inTransaction <=> transactionDepth > 0)
    <2>1. /\ trancount + Pending = Count(frames)
          /\ transactionDepth = Len(frames) - Starting
          /\ inTransaction = (transactionDepth > 0)
      BY <1>5 DEF BeforeInv
    <2>2. inTransaction <=> transactionDepth > 0
      BY <2>1, Zenon
    <2>3. QED
      BY <1>1, <1>2, <2>1, <2>2
  <1>6. QED
    BY <1>1, <1>2, <1>3, <1>4, <1>5

LEMMA BeginsKeepCount ==
  ASSUME AgreeInv, NEW level \in IsolationLevels,
         Transaction(level) \/ BeginTransaction(level)
  PROVE  CountInv' /\ BeforeInv'
  <1> USE DEF AgreeInv
  <1>1. /\ Idle /\ connected /\ made < MaxFrames
        /\ UNCHANGED <<tdsVersion, inTransaction, transactionDepth, connected, response, strayed>>
        /\ UNCHANGED serverVars
    BY DEF Transaction, BeginTransaction, MayBegin
  <1>2. UNCHANGED <<trancount, tranName, savepoints>>
    BY <1>1 DEF serverVars
  <1>3. Old' = Old /\ Claim' = Claim
    BY <1>1 DEF Old, Claim
  <1>4. SUFFICES ASSUME Claim
                 PROVE  CountInv' /\ BeforeInv'
    BY <1>3 DEF CountInv, BeforeInv
  <1>5. PICK kind \in Kinds, op \in {"begin", "save"} :
           /\ Push(kind, level) /\ \E name : Send(op, name, level)
           /\ op = IF kind = "save" THEN "save" ELSE "begin"
           /\ kind = "save" => inTransaction
    BY OpensFrame
  <1>6. PICK f \in FrameRecord :
            /\ f.kind = kind /\ frames' \in Seq(FrameRecord)
            /\ Len(frames') = Len(frames) + 1 /\ frames' # <<>>
            /\ \A i \in 1..Len(frames) : frames'[i] = frames[i]
            /\ frames'[Len(frames) + 1] = f /\ Top' = f
    BY <1>1, <1>5, Pushed DEF IndInv
  <1>7. request'.op = op
    BY <1>5 DEF Send
  <1>8. /\ response = None /\ Pending = 0 /\ Starting = 0
        /\ trancount \in Nat /\ Count(frames) \in Nat /\ Len(frames) \in Nat
        /\ trancount <= Count(frames) /\ (trancount > 0 => trancount = Count(frames))
        /\ inTransaction \in BOOLEAN /\ (inTransaction <=> trancount > 0)
        /\ Old => /\ trancount = Count(frames) /\ transactionDepth = Len(frames)
                  /\ (inTransaction <=> transactionDepth > 0)
    BY <1>1, <1>4, NothingPending
  <1>9. Starting' = 1 /\ Pending' = IF kind # "save" THEN 1 ELSE 0
    BY <1>1, <1>5, <1>6, <1>7, <1>8 DEF Starting, Pending, Ends
  <1>10. Count(frames') = Count(frames) + IF kind # "save" THEN 1 ELSE 0
    BY <1>6, <1>8, CountOfOneMore DEF IndInv, TypeOK
  <1>11. /\ frames'[1].kind # "save"
         /\ trancount > 0 => tranName = NameOf(frames'[1])
         /\ \A s \in 1..Len(savepoints) : savepoints[s].name > frames'[1].id
    <2>1. CASE frames = <<>>
      <3>1. trancount = 0 /\ Len(frames) = 0
        BY <1>8, <2>1, Counted
      <3>2. kind # "save" /\ savepoints = <<>> /\ Len(savepoints) = 0
        BY <1>5, <1>8, <3>1 DEF IndInv, SavepointInv
      <3>3. frames'[1].kind # "save"
        BY <1>6, <3>1, <3>2
      <3>4. \A s \in 1..Len(savepoints) : FALSE
        BY <3>2
      <3>5. QED
        BY <3>1, <3>3, <3>4
    <2>2. CASE frames # <<>>
      <3>1. frames'[1] = frames[1]
        BY <1>6, <2>2, TopFrame DEF IndInv
      <3>2. QED
        BY <1>4, <2>2, <3>1 DEF CountInv
    <2>3. QED
      BY <2>1, <2>2
  <1>12. CountInv'
    BY <1>2, <1>8, <1>9, <1>10, <1>11 DEF CountInv
  <1>13. BeforeInv'
    BY <1>1, <1>2, <1>3, <1>6, <1>8, <1>9, <1>10 DEF BeforeInv
  <1>14. QED
    BY <1>12, <1>13

LEMMA WorksKeepCount ==
  ASSUME AgreeInv, Work \/ Reset
  PROVE  CountInv' /\ BeforeInv'
  <1>1. /\ Idle /\ \E op \in {"work", "reset"} : \E name : Send(op, name, NoLevel)
        /\ UNCHANGED <<tdsVersion, inTransaction, transactionDepth, connected, response, frames,
                       strayed>>
        /\ UNCHANGED serverVars
    BY DEF Work, Reset
  <1>2. UNCHANGED <<trancount, tranName, savepoints>>
    BY <1>1 DEF serverVars
  <1>3. request'.op \in {"work", "reset"}
    BY <1>1 DEF Send
  <1>4. Old' = Old /\ Claim' = Claim /\ Starting' = 0 /\ Pending' = 0 /\ response = None
    BY <1>1, <1>3 DEF Old, Claim, Starting, Pending, Ends, AgreeInv, IndInv, RequestInv
  <1>5. SUFFICES ASSUME Claim
                 PROVE  CountInv' /\ BeforeInv'
    BY <1>4 DEF CountInv, BeforeInv
  <1>6. Pending = 0 /\ Starting = 0
    BY <1>1, <1>5, NothingPending
  <1>7. CountInv'
    BY <1>1, <1>2, <1>4, <1>5, <1>6 DEF AgreeInv, CountInv
  <1>8. BeforeInv'
    BY <1>1, <1>2, <1>4, <1>5, <1>6 DEF AgreeInv, BeforeInv
  <1>9. QED
    BY <1>7, <1>8

\* What happens to the count when the innermost frame ends, or changes its phase
LEMMA CountPopped ==
  ASSUME IndInv, frames # <<>>, NEW outcome, Pop(outcome)
  PROVE  /\ Count(frames) = Count(frames') + (IF Top.kind # "save" THEN 1 ELSE 0)
         /\ Count(frames') \in Nat /\ Len(frames') = Len(frames) - 1
         /\ Len(frames) \in Nat \ {0}
         /\ frames' # <<>> => frames'[1] = frames[1]
         /\ frames' = <<>> => Len(frames) = 1 /\ Top = frames[1]
  <1>1. /\ frames' \in Seq(FrameRecord)
        /\ Len(frames') = Len(frames) - 1 /\ Len(frames) \in Nat \ {0}
        /\ \A i \in 1..Len(frames') : frames'[i] = frames[i]
    BY Popped DEF IndInv
  <1>2. frames \in Seq(FrameRecord) /\ Top = frames[Len(frames)]
    BY TopFrame DEF IndInv, TypeOK
  <1>3. Count(frames) = Count(frames') + (IF Top.kind # "save" THEN 1 ELSE 0)
    BY <1>1, <1>2, CountOfOneMore
  <1>4. Count(frames') \in Nat
    BY <1>1, CountBegins
  <1>5. frames' # <<>> => frames'[1] = frames[1]
    <2>1. frames' # <<>> => Len(frames') \in Nat \ {0}
      BY <1>1, EmptySeq
    <2>2. QED
      BY <1>1, <2>1
  <1>6. frames' = <<>> => Len(frames) = 1
    <2>1. frames' = <<>> => Len(frames') = 0
      OBVIOUS
    <2>2. QED
      BY <1>1, <2>1
  <1>7. QED
    BY <1>1, <1>2, <1>3, <1>4, <1>5, <1>6

LEMMA CountTurned ==
  ASSUME IndInv, frames # <<>>, NEW phase \in {"open", "ending"}, Become(phase)
  PROVE  /\ Count(frames') = Count(frames) /\ Len(frames') = Len(frames) /\ frames' # <<>>
         /\ Top'.kind = Top.kind
         /\ frames'[1].kind = frames[1].kind /\ frames'[1].id = frames[1].id
         /\ NameOf(frames'[1]) = NameOf(frames[1])
  <1>1. /\ frames' \in Seq(FrameRecord) /\ frames' # <<>> /\ Len(frames') = Len(frames)
        /\ Len(frames) \in Nat \ {0}
        /\ \A i \in 1..Len(frames) : /\ frames'[i].id = frames[i].id
                                     /\ frames'[i].kind = frames[i].kind
        /\ Top' = frames'[Len(frames)] /\ Top = frames[Len(frames)]
    BY Became DEF IndInv
  <1>2. frames \in Seq(FrameRecord)
    BY DEF IndInv, TypeOK
  <1>3. Count(frames') = Count(frames)
    BY <1>1, <1>2, CountOfTheSame
  <1>4. 1 \in 1..Len(frames) /\ Len(frames) \in 1..Len(frames)
    BY <1>1
  <1>5. QED
    BY <1>1, <1>3, <1>4 DEF NameOf

LEMMA EndsKeepCount ==
  ASSUME AgreeInv, TxDone \/ EndTransaction
  PROVE  CountInv' /\ BeforeInv'
  <1> USE DEF AgreeInv
  <1>1. /\ Idle /\ frames # <<>> /\ request = None
        /\ UNCHANGED <<tdsVersion, strayed>> /\ UNCHANGED serverVars
    BY DEF TxDone, EndTransaction, Idle
  <1>2. UNCHANGED <<trancount, tranName, savepoints>>
    BY <1>1 DEF serverVars
  <1>3. UNCHANGED <<inTransaction, connected, response>>
    BY ClosesFrame DEF EndBy
  <1>4. Old' = Old /\ Claim' = Claim
    BY <1>1, <1>3 DEF Old, Claim
  <1>5. SUFFICES ASSUME Claim
                 PROVE  CountInv' /\ BeforeInv'
    BY <1>4 DEF CountInv, BeforeInv
  <1>6. /\ response = None /\ Pending = 0 /\ Starting = 0
        /\ trancount \in Nat /\ Count(frames) \in Nat /\ Len(frames) \in Nat
        /\ trancount <= Count(frames) /\ (trancount > 0 => trancount = Count(frames))
        /\ inTransaction \in BOOLEAN /\ (inTransaction <=> trancount > 0)
        /\ Old => /\ trancount = Count(frames) /\ transactionDepth = Len(frames)
                  /\ (inTransaction <=> transactionDepth > 0)
    BY <1>1, <1>5, NothingPending
  <1>7. /\ frames[1].kind # "save" /\ connected
        /\ trancount > 0 => tranName = NameOf(frames[1])
        /\ \A s \in 1..Len(savepoints) : savepoints[s].name > frames[1].id
    BY <1>1, <1>5 DEF CountInv, Claim
  <1>8. CASE \E op \in Ends : EndBy(op, NameOf(Top))
    <2>1. PICK op \in Ends : EndBy(op, NameOf(Top))
      BY <1>8
    <2>2. Become("ending") /\ request'.op = op /\ transactionDepth' = transactionDepth
      BY <2>1 DEF EndBy, Send
    <2>3. /\ Count(frames') = Count(frames) /\ Len(frames') = Len(frames) /\ frames' # <<>>
          /\ frames'[1].kind = frames[1].kind /\ frames'[1].id = frames[1].id
          /\ NameOf(frames'[1]) = NameOf(frames[1])
      BY <1>1, <2>2, CountTurned
    <2>4. Pending' = 0 /\ Starting' = 0
      BY <1>3, <1>6, <2>2 DEF Pending, Starting, Ends
    <2>5. CountInv'
      BY <1>2, <1>6, <1>7, <2>3, <2>4 DEF CountInv
    <2>6. BeforeInv'
      BY <1>2, <1>3, <1>4, <1>6, <2>2, <2>3, <2>4 DEF BeforeInv
    <2>7. QED
      BY <2>5, <2>6
  <1>9. CASE /\ \E outcome \in {"ok", "failed"} : Pop(outcome)
             /\ \/ ~(inTransaction /\ connected) /\ transactionDepth' = transactionDepth
                \/ /\ Top.kind = "save"
                   /\ transactionDepth' = IF Old THEN transactionDepth - 1
                                          ELSE transactionDepth
             /\ request' = request
    <2>1. PICK outcome \in {"ok", "failed"} : Pop(outcome)
      BY <1>9
    <2>2. /\ Count(frames) = Count(frames') + (IF Top.kind # "save" THEN 1 ELSE 0)
          /\ Count(frames') \in Nat /\ Len(frames') = Len(frames) - 1
          /\ Len(frames) \in Nat \ {0}
          /\ frames' # <<>> => frames'[1] = frames[1]
      BY <1>1, <2>1, CountPopped
    <2>3. Pending' = 0 /\ Starting' = 0
      BY <1>1, <1>9, NotNone DEF Pending, Starting, Ends
    <2>4. trancount <= Count(frames') /\ (trancount > 0 => trancount = Count(frames'))
      BY <1>6, <1>7, <1>9, <2>2
    <2>5. CountInv'
      BY <1>2, <1>6, <1>7, <2>2, <2>3, <2>4 DEF CountInv
    <2>6. ASSUME Old
          PROVE  /\ trancount = Count(frames') /\ transactionDepth' = Len(frames')
                 /\ (inTransaction <=> transactionDepth' > 0)
      <3>1. inTransaction
        BY <1>6, <2>2, <2>6
      <3>2. Top.kind = "save" /\ transactionDepth' = transactionDepth - 1
        BY <1>7, <1>9, <2>6, <3>1
      <3>3. Len(frames) > 1
        BY <1>1, <1>7, <3>2, Counted
      <3>4. QED
        BY <1>6, <2>2, <2>6, <3>1, <3>2, <3>3
    <2>7. BeforeInv'
      BY <1>2, <1>3, <1>4, <1>6, <2>2, <2>3, <2>6 DEF BeforeInv
    <2>8. QED
      BY <2>5, <2>7
  <1>10. QED
    BY <1>8, <1>9, ClosesFrame

LEMMA OnlyFirstBegins ==
  ASSUME IndInv
  PROVE  \A i \in 1..Len(frames) : frames[i].kind = "begin" => i <= 1
  BY Elements DEF IndInv, FramesInv

\* A transaction is begun by the first frame.
LEMMA FirstBegins ==
  ASSUME AgreeInv, connected, Followed, ~Idle, response = None, request.op = "begin", trancount = 0
  PROVE  Len(frames) = 1 /\ Top = frames[1]
  <1> USE DEF AgreeInv
  <1>1. frames # <<>> /\ Top.kind # "save"
    BY RequestUnderWay DEF IndInv, RequestInv
  <1>2. Pending = 1
    BY <1>1 DEF Pending
  <1>3. Len(frames) = 1
    <2>1. CASE Old
      <3>1. trancount + Pending = Count(frames) /\ frames[1].kind # "save"
        BY <1>1, <2>1 DEF BeforeInv, CountInv, Claim, Followed
      <3>2. Count(frames) = 1
        BY <1>2, <3>1
      <3>3. QED
        BY <1>1, <3>1, <3>2, Counted
    <2>2. CASE ~Old
      <3>1. Env = "none"
        BY DEF Env
      <3>2. inTransaction = (trancount > 0) /\ (Len(frames) > 1 => inTransaction)
        BY <2>2, <3>1 DEF SinceInv, InTransactionAfter
      <3>3. (trancount > 0) = FALSE
        OBVIOUS
      <3>4. ~(Len(frames) > 1)
        BY <3>2, <3>3, Zenon
      <3>5. Len(frames) \in Nat \ {0}
        BY <1>1, TopFrame DEF IndInv
      <3>6. \A n \in Nat \ {0} : n > 1 \/ n = 1
        OBVIOUS
      <3>7. QED
        BY <3>4, <3>5, <3>6, Zenon
    <2>3. QED
      BY <2>1, <2>2
  <1>4. QED
    BY <1>1, <1>3, TopFrame DEF IndInv

LEMMA ServerKeepsCount ==
  ASSUME AgreeInv, ServerExecutes
  PROVE  CountInv' /\ BeforeInv'
  <1> USE DEF AgreeInv
  <1>1. /\ ~Idle /\ response = None /\ connected
        /\ UNCHANGED <<tdsVersion, inTransaction, transactionDepth, connected, request, frames>>
        /\ strayed' = (strayed \/ (Old /\ (response'.error \/ RolledBackUnder)))
    BY DEF ServerExecutes, clientVars, programVars
  <1>2. /\ request \in Requests /\ request.op \in Operations
        /\ request.name \in Frames \cup {Anonymous}
        /\ request.op # "reset" => frames # <<>>
        /\ request.op = "save" => request.name = Top.id
        /\ frames # <<>> => Top.id \in Frames
    BY <1>1, RequestUnderWay
  <1>3. /\ request.op \in {"begin", "commit"} => Top.kind # "save"
        /\ request.op \in {"save", "isolation"} => Top.kind = "save"
        /\ request.op \in {"begin", "rollback"} => request.name = NameOf(Top)
    BY <1>2 DEF IndInv, RequestInv
  <1>4. response' \in Responses /\ response' # None /\ response'.error \in BOOLEAN
    BY <1>1, ServerOutcome, NotNone DEF Responses
  <1>5. Old' = Old /\ Starting' = Starting
    BY <1>1 DEF Old, Starting
  <1>6. SUFFICES ASSUME Claim'
                 PROVE  CountInv' /\ BeforeInv'
    BY DEF CountInv, BeforeInv
  <1>7. Claim /\ (Old => ~response'.error /\ ~RolledBackUnder)
    BY <1>1, <1>4, <1>5, <1>6 DEF Claim
  <1> DEFINE own == frames # <<>> /\ Top.kind # "save"
  <1>8. /\ Pending = IF own /\ request.op = "begin" THEN 1 ELSE 0
        /\ Pending' = IF own /\ (request.op \in Ends \/ (request.op = "begin" /\ response'.error))
                      THEN 1 ELSE 0
    BY <1>1, <1>4 DEF Pending, Ends, Top
  <1>9. /\ Count(frames) \in Nat /\ trancount \in Nat /\ Len(frames) \in Nat
        /\ frames = <<>> => Count(frames) = 0
        /\ own => Count(frames) >= 1
    BY Counted, Elements DEF IndInv
  <1>10. /\ trancount + Pending <= Count(frames)
         /\ trancount > 0 => trancount + Pending = Count(frames)
         /\ frames # <<>> =>
              /\ frames[1].kind # "save" /\ Count(frames) >= 1
              /\ trancount > 0 => tranName = NameOf(frames[1])
              /\ \A s \in 1..Len(savepoints) : savepoints[s].name > frames[1].id
    BY <1>7, Counted DEF CountInv
  <1>11. ASSUME Old
         PROVE  /\ trancount + Pending = Count(frames)
                /\ transactionDepth = Len(frames) - Starting
                /\ inTransaction = (transactionDepth > 0)
    BY <1>7, <1>11 DEF BeforeInv
  <1>12. Old => response'.env = "none"
    <2>1. \E error \in BOOLEAN, env \in EnvChanges : Respond(error, env)
      BY DEF ServerExecutes, ServerBegins, ServerSaves, ServerCommits, ServerRollsBack,
             ServerRollsBackTo, ServerWorks, ServerResets, ServerRefuses, Unaffected, EnvChanges
    <2>2. QED
      BY <2>1, Responded
  <1>13. ASSUME trancount' + Pending' <= Count(frames),
                trancount' > 0 => trancount' + Pending' = Count(frames),
                frames # <<>> /\ trancount' > 0 => tranName' = NameOf(frames[1]),
                frames # <<>> => \A s \in 1..Len(savepoints') :
                                    savepoints'[s].name > frames[1].id,
                Old => /\ trancount' + Pending' = Count(frames)
                       /\ request.op = "reset" => frames = <<>>
         PROVE  CountInv' /\ BeforeInv'
    <2>1. CountInv'
      BY <1>1, <1>10, <1>13 DEF CountInv
    <2>2. BeforeInv'
      BY <1>1, <1>5, <1>7, <1>11, <1>12, <1>13 DEF BeforeInv
    <2>3. QED
      BY <2>1, <2>2
  <1> HIDE DEF own
  <1>14. ASSUME UNCHANGED <<trancount, tranName, savepoints>>, Pending' = Pending,
                Old /\ request.op = "reset" => trancount = 0
         PROVE  CountInv' /\ BeforeInv'
    <2>1. Old /\ request.op = "reset" => frames = <<>>
      BY <1>8, <1>9, <1>10, <1>11, <1>14
    <2>2. QED
      BY <1>10, <1>11, <1>13, <1>14, <2>1
  <1>15. ASSUME RollBackAll, Old => trancount' + Pending' = Count(frames),
                Old => request.op # "reset"
         PROVE  CountInv' /\ BeforeInv'
    <2>1. trancount' = 0 /\ savepoints' = <<>>
      BY <1>15 DEF RollBackAll
    <2>2. \A s \in 1..Len(savepoints') : FALSE
      BY <2>1
    <2>3. trancount' + Pending' <= Count(frames)
      BY <1>8, <1>9, <2>1
    <2>4. QED
      BY <1>13, <1>15, <2>1, <2>2, <2>3
  <1>16. ASSUME NEW error, Unaffected(error)
         PROVE  UNCHANGED <<trancount, tranName, savepoints>> /\ response'.error = error
    BY <1>16 DEF Unaffected, serverVars, Respond
  <1>17. CASE ServerBegins
    <2>1. request.op = "begin" /\ trancount' = trancount + 1 /\ response'.error = FALSE
          /\ savepoints' = savepoints
      BY <1>17 DEF ServerBegins, Respond
    <2>2. own /\ Pending = 1 /\ Pending' = 0
      BY <1>2, <1>3, <1>8, <2>1 DEF own, Ends
    <2>3. tranName' = NameOf(frames[1]) /\ trancount' + Pending' = Count(frames)
      <3>1. CASE trancount > 0 /\ tranName' = tranName
        BY <1>2, <1>9, <1>10, <2>1, <2>2, <3>1
      <3>2. CASE trancount = 0 /\ tranName' = request.name
        <4>1. Len(frames) = 1 /\ Top = frames[1]
          BY <1>1, <1>7, <2>1, <3>2, FirstBegins DEF Claim, Followed
        <4>2. Count(frames) = 1
          <5>1. Count(frames) <= 1
            BY <4>1, CountBegins DEF IndInv, TypeOK
          <5>2. Count(frames) >= 1 /\ Count(frames) \in Nat
            BY <1>9, <2>2
          <5>3. QED
            BY <5>1, <5>2
        <4>3. QED
          BY <1>3, <2>1, <2>2, <3>2, <4>1, <4>2
      <3>3. \/ trancount > 0 /\ tranName' = tranName
            \/ trancount = 0 /\ tranName' = request.name
        BY <1>17 DEF ServerBegins
      <3>4. QED
        BY <3>1, <3>2, <3>3
    <2>4. QED
      BY <1>10, <1>11, <1>13, <2>1, <2>2, <2>3
  <1>18. CASE ServerSaves
    <2>1. /\ request.op = "save" /\ trancount > 0 /\ UNCHANGED <<trancount, tranName>>
          /\ savepoints' = Append(savepoints, [name |-> request.name, mark |-> Len(log)])
      BY <1>18 DEF ServerSaves
    <2>2. Pending = 0 /\ Pending' = 0
      BY <1>8, <2>1 DEF Ends
    <2>3. Top.id > frames[1].id
      <3>1. Len(frames) > 1 /\ Top = frames[Len(frames)] /\ Len(frames) \in 1..Len(frames)
            /\ 1 \in 1..Len(frames)
        BY <1>2, <1>3, <1>10, <2>1, Counted, TopFrame DEF IndInv
      <3>2. frames[1].id < frames[Len(frames)].id
        BY <3>1 DEF IndInv, FramesInv
      <3>3. frames[1].id \in Nat /\ frames[Len(frames)].id \in Nat
        BY <3>1, Elements DEF IndInv
      <3>4. QED
        BY <3>1, <3>2, <3>3
    <2>4. \A s \in 1..Len(savepoints') : savepoints'[s].name > frames[1].id
      <3> DEFINE p == [name |-> request.name, mark |-> Len(log)]
      <3>1. p \in Savepoint /\ p.name = Top.id
        BY <1>2, <2>1, Elements DEF IndInv, Savepoint
      <3>2. savepoints \in Seq(Savepoint) /\ Len(savepoints) \in Nat
            /\ savepoints' = Append(savepoints, p)
        BY <2>1, Elements DEF IndInv, TypeOK
      <3> HIDE DEF p
      <3>3. /\ Len(savepoints') = Len(savepoints) + 1
            /\ \A s \in 1..Len(savepoints) : savepoints'[s] = savepoints[s]
            /\ savepoints'[Len(savepoints) + 1] = p
        BY <3>1, <3>2, AppendProperties
      <3>4. \A s \in 1..Len(savepoints') : s \in 1..Len(savepoints) \/ s = Len(savepoints) + 1
        BY <3>2, <3>3
      <3>5. QED
        BY <1>2, <1>10, <2>1, <2>3, <3>1, <3>3, <3>4
    <2>5. QED
      BY <1>10, <1>11, <1>13, <2>1, <2>2, <2>4
  <1>19. CASE ServerCommits
    <2>1. /\ request.op = "commit" /\ trancount > 0 /\ trancount' = trancount - 1
          /\ \/ trancount = 1 /\ savepoints' = <<>>
             \/ UNCHANGED <<tranName, savepoints>>
      BY <1>19 DEF ServerCommits
    <2>2. Pending = 0 /\ Pending' = 1
      BY <1>2, <1>3, <1>8, <2>1 DEF own, Ends
    <2>3. CASE trancount = 1 /\ savepoints' = <<>>
      <3>1. \A s \in 1..Len(savepoints') : FALSE
        BY <2>3
      <3>2. trancount' = 0
        BY <2>1, <2>3
      <3>3. QED
        BY <1>9, <1>10, <1>11, <1>13, <2>1, <2>2, <2>3, <3>1, <3>2
    <2>4. CASE UNCHANGED <<tranName, savepoints>>
      <3>1. trancount' + Pending' = Count(frames)
        BY <1>9, <1>10, <2>1, <2>2
      <3>2. QED
        BY <1>9, <1>10, <1>11, <1>13, <2>1, <2>2, <2>4, <3>1
    <2>5. QED
      BY <2>1, <2>3, <2>4
  <1>20. CASE ServerRollsBack
    <2>1. /\ request.op = "rollback" /\ trancount > 0 /\ RollBackAll /\ trancount' = 0
          /\ request.name \in {Anonymous, tranName}
      BY <1>20 DEF ServerRollsBack, RollBackAll
    <2>2. ASSUME Old
          PROVE  trancount' + Pending' = Count(frames)
      <3>1. transactionDepth \in Nat /\ ~(transactionDepth > 1)
        BY <1>7, <2>1, <2>2 DEF RolledBackUnder, IndInv, TypeOK
      <3>2. Starting = 0 /\ transactionDepth = Len(frames)
        BY <1>9, <1>11, <2>1, <2>2 DEF Starting
      <3>3. Len(frames) = 1 /\ Top = frames[1]
        BY <1>2, <2>1, <3>1, <3>2, TopFrame DEF IndInv
      <3>4. own
        BY <1>2, <1>10, <2>1, <3>3 DEF own
      <3>5. Count(frames) <= 1
        BY <3>3, CountBegins DEF IndInv, TypeOK
      <3>6. QED
        BY <1>8, <1>9, <2>1, <3>4, <3>5 DEF Ends
    <2>3. QED
      BY <1>15, <2>1, <2>2
  <1>21. CASE \E s \in DOMAIN savepoints : ServerRollsBackTo(s)
    <2>1. PICK s \in DOMAIN savepoints : ServerRollsBackTo(s)
      BY <1>21
    <2>2. /\ request.op = "rollback" /\ savepoints[s].name = request.name
          /\ UNCHANGED <<trancount, tranName>> /\ savepoints' = SubSeq(savepoints, 1, s)
      BY <2>1 DEF ServerRollsBackTo
    <2>3. /\ savepoints \in Seq(Savepoint) /\ s \in 1..Len(savepoints) /\ s \in Nat
          /\ s <= Len(savepoints) /\ Len(savepoints) \in Nat
      BY Elements, LenProperties DEF IndInv, TypeOK
    <2>4. /\ Len(savepoints') = s /\ \A t \in 1..s : savepoints'[t] = savepoints[t]
      BY <2>2, <2>3, SubSeqFromOne
    <2>5. \A t \in 1..Len(savepoints') : savepoints'[t].name > frames[1].id
      <3>1. \A t \in 1..Len(savepoints) : savepoints[t].name > frames[1].id
        BY <1>2, <1>10, <2>2
      <3>2. \A t \in 1..s : t \in 1..Len(savepoints)
        BY <2>3
      <3>3. QED
        BY <2>4, <3>1, <3>2
    <2>6. ~own
      <3>1. request.name > frames[1].id /\ request.name = NameOf(Top)
        BY <1>2, <1>3, <1>10, <2>2, <2>3
      <3>2. /\ Top = frames[Len(frames)] /\ Len(frames) \in 1..Len(frames)
            /\ 1 \in 1..Len(frames) /\ frames[1].id \in Nat /\ frames[1].id >= 1
            /\ Top.kind \in Kinds
        BY <1>2, <2>2, TopFrame, Elements DEF IndInv, Frames, FrameRecord
      <3>3. Top.kind # "manual"
        BY <3>1, <3>2 DEF NameOf, Anonymous
      <3>4. Top.kind # "begin"
        <4>1. SUFFICES ASSUME Top.kind = "begin"
                       PROVE  FALSE
          OBVIOUS
        <4>2. Len(frames) = 1
          BY <1>9, <3>2, <4>1, OnlyFirstBegins
        <4>3. QED
          BY <3>1, <3>2, <4>1, <4>2 DEF NameOf
      <3>5. QED
        BY <3>2, <3>3, <3>4 DEF own, Kinds
    <2>7. Pending = 0 /\ Pending' = 0
      BY <1>8, <2>6
    <2>8. QED
      BY <1>10, <1>11, <1>13, <2>2, <2>5, <2>7
  <1>22. CASE ServerWorks
    <2>1. Pending = 0 /\ Pending' = 0 /\ request.op = "work"
      BY <1>8, <1>22 DEF ServerWorks, Ends
    <2>2. CASE UNCHANGED <<trancount, tranName, savepoints>>
      BY <1>14, <2>1, <2>2
    <2>3. CASE RollBackAll /\ Respond(TRUE, "rollback")
      <3>1. response'.error = TRUE
        BY <2>3 DEF Respond
      <3>2. QED
        BY <1>7, <1>15, <2>1, <2>3, <3>1
    <2>4. QED
      BY <1>16, <1>22, <2>2, <2>3 DEF ServerWorks, serverVars
  <1>23. CASE ServerResets
    <2>1. Pending = 0 /\ Pending' = 0 /\ request.op = "reset"
      BY <1>8, <1>23 DEF ServerResets, Ends
    <2>2. CASE trancount > 0 /\ RollBackAll
      <3>1. RolledBackUnder
        BY <2>1, <2>2 DEF RolledBackUnder, RollBackAll
      <3>2. QED
        BY <1>7, <1>15, <2>2, <3>1
    <2>3. CASE trancount = 0 /\ Unaffected(FALSE)
      BY <1>14, <1>16, <2>1, <2>3
    <2>4. QED
      BY <1>23, <2>2, <2>3 DEF ServerResets
  <1>24. CASE ServerRefuses
    <2>1. CASE request.op \in {"begin", "save", "isolation"}
      <3>1. PICK error : Unaffected(error) /\ (request.op = "begin" => error = TRUE)
        BY <1>24, <2>1 DEF ServerRefuses
      <3>2. Pending' = Pending
        BY <1>8, <1>16, <2>1, <3>1 DEF Ends
      <3>3. QED
        BY <1>14, <1>16, <2>1, <3>1, <3>2
    <2>2. CASE request.op \in Ends
      <3>1. Unaffected(TRUE)
        BY <1>24, <2>2 DEF ServerRefuses, Ends
      <3>2. ~Old
        BY <1>7, <1>16, <3>1
      <3>3. UNCHANGED <<trancount, tranName, savepoints>> /\ Pending = 0
        BY <1>8, <1>16, <2>2, <3>1 DEF Ends
      <3>4. own => trancount = 0
        <4>1. SUFFICES ASSUME own, trancount # 0
                       PROVE  FALSE
          OBVIOUS
        <4>2. /\ request.op = "rollback" /\ request.name \notin {Anonymous, tranName}
              /\ request.name = NameOf(Top) /\ frames # <<>>
          BY <1>2, <1>3, <1>24, <2>2, <4>1 DEF ServerRefuses, Ends
        <4>3. /\ Top = frames[Len(frames)] /\ Len(frames) \in 1..Len(frames)
              /\ Top.kind \in Kinds
          BY <4>2, TopFrame DEF IndInv, FrameRecord
        <4>4. Top.kind = "begin"
          BY <4>1, <4>2, <4>3 DEF NameOf, own, Kinds
        <4>5. Len(frames) = 1
          <5>1. frames[Len(frames)].kind = "begin"
            BY <4>3, <4>4
          <5>2. \A i \in 1..Len(frames) : frames[i].kind = "begin" => i <= 1
            BY OnlyFirstBegins
          <5>3. Len(frames) \in 1..Len(frames) /\ Len(frames) \in Nat \ {0}
            BY <1>9, <4>3
          <5>4. \A n \in Nat \ {0} : n <= 1 => n = 1
            OBVIOUS
          <5>5. QED
            BY <5>1, <5>2, <5>3, <5>4, Zenon
        <4>6. QED
          BY <1>9, <1>10, <4>1, <4>2, <4>3, <4>5
      <3>5. trancount' + Pending' <= Count(frames)
        BY <1>8, <1>9, <1>10, <3>3, <3>4
      <3>6. trancount' > 0 => trancount' + Pending' = Count(frames)
        <4>1. trancount > 0 => Pending' = 0
          BY <1>8, <3>4
        <4>2. QED
          BY <1>9, <1>10, <3>3, <4>1
      <3>7. QED
        BY <1>10, <1>13, <3>2, <3>3, <3>5, <3>6
    <2>3. QED
      BY <1>24, <2>1, <2>2 DEF ServerRefuses, Ends
  <1>25. QED
    BY <1>17, <1>18, <1>19, <1>20, <1>21, <1>22, <1>23, <1>24 DEF ServerExecutes

LEMMA SkipKeepsCount ==
  ASSUME AgreeInv, ServerSkips
  PROVE  CountInv' /\ BeforeInv'
  <1> USE DEF AgreeInv
  <1>1. SUFFICES ASSUME Claim'
                 PROVE  CountInv' /\ BeforeInv'
    BY DEF CountInv, BeforeInv
  <1>2. /\ response = None /\ response' # None
        /\ UNCHANGED <<tdsVersion, connected, request, frames, trancount, tranName, savepoints>>
        /\ strayed => strayed'
        /\ ~strayed' => /\ ~Old /\ request.op \notin {"commit", "rollback"}
                        /\ request.op \in {"begin", "save"} => response'.error
    BY SkipsNothing
  <1>3. Claim /\ Old' = Old /\ ~Old
    BY <1>1, <1>2 DEF Claim, Old
  <1>4. Pending' = Pending
    BY <1>1, <1>2 DEF Claim, Pending, Ends, Top
  <1>5. CountInv'
    BY <1>1, <1>2, <1>3, <1>4 DEF CountInv
  <1>6. BeforeInv'
    BY <1>3 DEF BeforeInv
  <1>7. QED
    BY <1>5, <1>6

LEMMA CancelKeepsCount ==
  ASSUME AgreeInv, NEW way \in Ways, Cancel(way)
  PROVE  CountInv' /\ BeforeInv'
  <1> USE DEF AgreeInv
  <1>1. /\ request'.op = request.op
        /\ UNCHANGED <<tdsVersion, inTransaction, transactionDepth, connected, response, frames,
                       trancount, tranName, savepoints, strayed>>
    BY CancelsRequest
  <1>2. Old' = Old /\ Claim' = Claim /\ Pending' = Pending /\ Starting' = Starting
    BY <1>1 DEF Old, Claim, Pending, Starting, Top
  <1>3. CountInv'
    BY <1>1, <1>2 DEF CountInv
  <1>4. BeforeInv'
    BY <1>1, <1>2 DEF BeforeInv
  <1>5. QED
    BY <1>3, <1>4

LEMMA SameTruth ==
  \A p, q \in BOOLEAN : (p <=> q) => p = q
  OBVIOUS

\* Before 7.2, what an answer does to the depth
LEMMA DepthAnswered ==
  ASSUME AgreeInv, Claim, Old, ~Idle, response # None, Tokens(FALSE)
  PROVE  /\ transactionDepth = Len(frames) - Starting
         /\ transactionDepth' = DepthAfter(request.op)
         /\ inTransaction' \in BOOLEAN /\ (inTransaction' <=> transactionDepth' > 0)
  <1> USE DEF AgreeInv
  <1>1. /\ request.op \in Operations /\ transactionDepth \in Nat /\ Len(frames) \in Nat
        /\ inTransaction \in BOOLEAN
        /\ request.op # "reset" => frames # <<>>
    BY RequestUnderWay, Elements DEF IndInv, TypeOK
  <1>2. /\ transactionDepth = Len(frames) - Starting
        /\ inTransaction = (transactionDepth > 0)
        /\ response.env = "none"
        /\ request.op = "reset" => frames = <<>>
    BY DEF BeforeInv
  <1>3. inTransaction <=> transactionDepth > 0
    BY <1>2, Zenon
  <1>4. AfterError(InTransactionAfter(inTransaction, response.env), FALSE) = inTransaction
    BY <1>2 DEF AfterError, InTransactionAfter
  <1>5. /\ inTransaction' = EmulatedInTransaction(request.op, inTransaction)
        /\ transactionDepth' = DepthAfter(request.op)
    BY <1>4 DEF Tokens
  <1>6. CASE request.op = "begin"
    <2>1. transactionDepth' = transactionDepth + 1
      BY <1>5, <1>6 DEF DepthAfter
    <2>2. inTransaction' = IF transactionDepth = 0 THEN TRUE ELSE inTransaction
      BY <1>5, <1>6 DEF EmulatedInTransaction
    <2>3. transactionDepth' > 0 /\ (transactionDepth = 0 \/ transactionDepth > 0)
      BY <1>1, <2>1
    <2>4. QED
      BY <1>1, <1>2, <1>3, <1>5, <2>2, <2>3, Zenon
  <1>7. CASE request.op = "save"
    <2>1. transactionDepth' = transactionDepth + 1 /\ Starting = 1
      BY <1>5, <1>7 DEF DepthAfter, Starting
    <2>2. inTransaction' = inTransaction
      BY <1>5, <1>7 DEF EmulatedInTransaction
    <2>3. Top.kind = "save" /\ frames # <<>> /\ frames[1].kind # "save"
      BY <1>1, <1>7 DEF IndInv, RequestInv, CountInv
    <2>4. Len(frames) > 1
      BY <2>3, Counted
    <2>5. transactionDepth' > 0 /\ transactionDepth > 0
      BY <1>1, <1>2, <2>1, <2>4
    <2>6. QED
      BY <1>1, <1>2, <1>3, <1>5, <2>2, <2>5, Zenon
  <1>8. CASE request.op \in {"isolation", "work"}
    <2>1. transactionDepth' = transactionDepth /\ inTransaction' = inTransaction
      BY <1>5, <1>8 DEF DepthAfter, EmulatedInTransaction
    <2>2. QED
      BY <1>1, <1>2, <1>3, <1>5, <2>1, Zenon
  <1>9. CASE request.op \in Ends
    <2>1. transactionDepth' = transactionDepth - 1 /\ Starting = 0
      BY <1>5, <1>9 DEF DepthAfter, Ends, Starting
    <2>2. inTransaction' = IF transactionDepth = 1 THEN FALSE ELSE inTransaction
      BY <1>5, <1>9 DEF EmulatedInTransaction, Ends
    <2>3. Len(frames) \in Nat \ {0}
      BY <1>1, <1>9, TopFrame DEF IndInv, Ends
    <2>4. \/ transactionDepth = 1 /\ ~(transactionDepth' > 0)
          \/ transactionDepth # 1 /\ transactionDepth > 0 /\ transactionDepth' > 0
      <3>1. transactionDepth \in Nat \ {0}
        <4>1. transactionDepth = Len(frames) - Starting
          BY <1>2
        <4>2. QED
          BY <1>1, <2>1, <2>3, <4>1
      <3>2. \A n \in Nat \ {0} : \/ n = 1 /\ ~(n - 1 > 0)
                                 \/ n # 1 /\ n > 0 /\ n - 1 > 0
        OBVIOUS
      <3>3. QED
        BY <2>1, <3>1, <3>2
    <2>5. CASE transactionDepth = 1 /\ ~(transactionDepth' > 0)
      <3>1. inTransaction' = FALSE
        BY <2>2, <2>5
      <3>2. QED
        BY <1>2, <1>5, <2>5, <3>1, Zenon
    <2>6. CASE transactionDepth # 1 /\ transactionDepth > 0 /\ transactionDepth' > 0
      <3>1. inTransaction' = inTransaction
        BY <2>2, <2>6
      <3>2. QED
        BY <1>1, <1>2, <1>3, <1>5, <2>6, <3>1, Zenon
    <2>7. QED
      BY <2>4, <2>5, <2>6
  <1>10. CASE request.op = "reset"
    <2>1. transactionDepth' = transactionDepth /\ Starting = 0
      BY <1>5, <1>10 DEF DepthAfter, Starting
    <2>2. inTransaction' = FALSE
      BY <1>5, <1>10 DEF EmulatedInTransaction
    <2>3. Len(frames) = 0
      BY <1>2, <1>10
    <2>4. ~(transactionDepth' > 0)
      BY <1>1, <1>2, <2>1, <2>3
    <2>5. QED
      BY <1>2, <1>5, <2>2, <2>4, Zenon
  <1>11. QED
    BY <1>1, <1>6, <1>7, <1>8, <1>9, <1>10 DEF Operations, Ends

LEMMA AnswerKeepsCount ==
  ASSUME AgreeInv, NEW canceled \in BOOLEAN, Answered(canceled)
  PROVE  CountInv' /\ BeforeInv'
  <1> USE DEF AgreeInv
  <1>1. /\ ~Idle /\ response \in Responses /\ response # None /\ response' = None
        /\ response.error \in BOOLEAN
        /\ request' = None \/ (request.op = "save" /\ Send("isolation", Anonymous, Top.level))
        /\ UNCHANGED <<tdsVersion, connected, trancount, tranName, savepoints>>
    BY AnsweredRequest, NotNone DEF Responses
  <1>2. /\ strayed' = \/ strayed
                      \/ canceled /\ (Old \/ (request.op = "begin" /\ ~response.error))
        /\ Tokens(response.error \/ canceled)
        /\ \/ Begun(response.error \/ canceled) \/ Ended(response.error \/ canceled) \/ Done
    BY DEF Answered
  <1>3. /\ request.op \in Operations /\ (request.op # "reset" => frames # <<>>)
        /\ request.op = "begin" => Top.kind # "save"
        /\ request.op = "save" => Top.kind = "save"
    BY <1>1, RequestUnderWay DEF IndInv, RequestInv
  <1>4. /\ Old' = Old /\ Starting' = 0 /\ Pending' = 0
    BY <1>1, NotNone DEF Old, Starting, Pending, Send, Ends
  <1>5. SUFFICES ASSUME Claim'
                 PROVE  CountInv' /\ BeforeInv'
    BY DEF CountInv, BeforeInv
  <1>6. /\ Claim /\ (Old => ~canceled /\ ~response.error)
        /\ request.op = "begin" /\ canceled => response.error
    <2>1. CASE Old
      <3>1. Claim /\ ~canceled
        BY <1>1, <1>2, <1>4, <1>5, <2>1 DEF Claim
      <3>2. QED
        BY <1>1, <2>1, <3>1 DEF BeforeInv
    <2>2. CASE ~Old
      BY <1>1, <1>2, <1>4, <1>5, <2>2 DEF Claim
    <2>3. QED
      BY <2>1, <2>2
  <1> DEFINE own == frames # <<>> /\ Top.kind # "save"
  <1>7. Pending = IF own /\ (request.op \in Ends \/ (request.op = "begin" /\ response.error))
                  THEN 1 ELSE 0
    BY <1>1 DEF Pending, Ends
  <1>8. /\ Count(frames) \in Nat /\ trancount \in Nat /\ Len(frames) \in Nat
        /\ transactionDepth \in Nat
    BY Counted, Elements DEF IndInv, TypeOK
  <1>9. /\ trancount + Pending <= Count(frames)
        /\ trancount > 0 => trancount + Pending = Count(frames)
        /\ frames # <<>> =>
              /\ frames[1].kind # "save"
              /\ trancount > 0 => tranName = NameOf(frames[1])
              /\ \A s \in 1..Len(savepoints) : savepoints[s].name > frames[1].id
    BY <1>6 DEF CountInv
  <1>10. Old => trancount + Pending = Count(frames)
    BY <1>6 DEF BeforeInv
  <1>11. Old => /\ transactionDepth = Len(frames) - Starting
                /\ transactionDepth' = DepthAfter(request.op)
                /\ inTransaction' = (transactionDepth' > 0)
    <2>1. SUFFICES ASSUME Old
                   PROVE  /\ transactionDepth = Len(frames) - Starting
                          /\ transactionDepth' = DepthAfter(request.op)
                          /\ inTransaction' = (transactionDepth' > 0)
      OBVIOUS
    <2>2. (response.error \/ canceled) = FALSE
      BY <1>1, <1>6, <2>1
    <2>3. Tokens(FALSE)
      BY <1>2, <2>2
    <2>4. /\ transactionDepth = Len(frames) - Starting
          /\ transactionDepth' = DepthAfter(request.op)
          /\ inTransaction' \in BOOLEAN /\ (inTransaction' <=> transactionDepth' > 0)
      BY <1>1, <1>6, <2>1, <2>3, DepthAnswered
    <2>5. inTransaction' = (transactionDepth' > 0)
      <3>1. (transactionDepth' > 0) \in BOOLEAN
        OBVIOUS
      <3>2. QED
        BY <2>4, <3>1, SameTruth
    <2>6. QED
      BY <2>4, <2>5, Zenon
  <1> HIDE DEF own
  <1>12. ASSUME /\ frames' # <<>> => /\ frames # <<>> /\ frames'[1].id = frames[1].id
                                     /\ frames'[1].kind = frames[1].kind
                                     /\ NameOf(frames'[1]) = NameOf(frames[1])
                /\ trancount <= Count(frames') /\ (trancount > 0 => trancount = Count(frames'))
                /\ Old => trancount = Count(frames') /\ transactionDepth' = Len(frames')
         PROVE  CountInv' /\ BeforeInv'
    <2>1. CountInv'
      BY <1>1, <1>4, <1>8, <1>9, <1>12 DEF CountInv
    <2>2. BeforeInv'
      <3>1. /\ (trancount + Pending = Count(frames))' <=> trancount = Count(frames')
            /\ (transactionDepth = Len(frames) - Starting)' <=> transactionDepth' = Len(frames')
        BY <1>1, <1>4, <1>8
      <3>2. QED
        BY <1>1, <1>4, <1>11, <1>12, <3>1 DEF BeforeInv
    <2>3. QED
      BY <2>1, <2>2
  <1>13. CASE \E outcome : Pop(outcome) /\ (request.op \in Ends \/
                 (request.op \in {"begin", "save"} /\ (response.error \/ canceled)))
    <2>1. PICK outcome : Pop(outcome)
      BY <1>13
    <2>2. frames # <<>>
      BY <1>3, <1>13 DEF Ends
    <2>3. /\ Count(frames) = Count(frames') + (IF Top.kind # "save" THEN 1 ELSE 0)
          /\ Count(frames') \in Nat /\ Len(frames') = Len(frames) - 1
          /\ frames' # <<>> => frames'[1] = frames[1]
      BY <2>1, <2>2, CountPopped
    <2>4. Pending = IF own THEN 1 ELSE 0
      BY <1>3, <1>6, <1>7, <1>13 DEF own
    <2>5. Count(frames) = Count(frames') + Pending /\ Pending \in Nat
      BY <2>2, <2>3, <2>4 DEF own
    <2>6. /\ trancount <= Count(frames') /\ (trancount > 0 => trancount = Count(frames'))
          /\ Old => trancount = Count(frames')
      BY <1>8, <1>9, <1>10, <2>3, <2>5
    <2>7. ASSUME Old
          PROVE  transactionDepth' = Len(frames')
      <3>1. request.op \in Ends
        BY <1>6, <1>13, <2>7
      <3>2. Starting = 0 /\ transactionDepth' = transactionDepth - 1
        BY <1>11, <2>7, <3>1 DEF Starting, DepthAfter, Ends
      <3>3. QED
        BY <1>8, <1>11, <2>3, <2>7, <3>2
    <2>8. QED
      BY <1>12, <2>2, <2>3, <2>6, <2>7
  <1>14. CASE /\ (Become("open") /\ frames # <<>>) \/ frames' = frames
              /\ request.op \notin Ends
              /\ request.op = "begin" => ~response.error
    <2>1. /\ Count(frames') = Count(frames) /\ Len(frames') = Len(frames)
          /\ frames' # <<>> => /\ frames # <<>> /\ frames'[1].id = frames[1].id
                               /\ frames'[1].kind = frames[1].kind
                               /\ NameOf(frames'[1]) = NameOf(frames[1])
      <3>1. CASE Become("open") /\ frames # <<>>
        BY <3>1, CountTurned
      <3>2. CASE frames' = frames
        BY <3>2
      <3>3. QED
        BY <1>14, <3>1, <3>2
    <2>2. Pending = 0
      BY <1>7, <1>14
    <2>3. Old => transactionDepth' = Len(frames')
      <3>1. DepthAfter(request.op) = transactionDepth + Starting
        BY <1>8, <1>14 DEF DepthAfter, Starting, Ends
      <3>2. Starting \in {0, 1}
        BY DEF Starting
      <3>3. QED
        BY <1>8, <1>11, <2>1, <3>1, <3>2
    <2>4. QED
      BY <1>8, <1>9, <1>10, <1>12, <2>1, <2>2, <2>3
  <1>15. QED
    <2>1. CASE Begun(response.error \/ canceled)
      BY <1>1, <1>3, <1>13, <1>14, <2>1 DEF Begun, Ends
    <2>2. CASE Ended(response.error \/ canceled)
      BY <1>13, <2>2 DEF Ended, Ends
    <2>3. CASE Done
      BY <1>14, <2>3 DEF Done, Ends
    <2>4. QED
      BY <1>2, <2>1, <2>2, <2>3

LEMMA InitAgrees ==
  ASSUME Init
  PROVE  AgreeInv
  <1>1. IndInv
    BY InitHolds
  <1>2. /\ Env = "none" /\ Pending = 0 /\ Starting = 0 /\ frames = <<>> /\ Len(frames) = 0
        /\ request = None /\ request.op = "none" /\ response = None
    BY NotNone DEF Init, Env, Pending, Starting
  <1>3. Count(frames) = 0
    BY <1>1, <1>2, Counted
  <1>4. SinceInv
    <2>1. transactionDescriptors = <<NoTransaction>> /\ descriptor = NoTransaction
          /\ trancount = 0 /\ inTransaction = FALSE
      BY DEF Init
    <2>2. transactionDescriptors[1] = NoTransaction /\ Last(transactionDescriptors) = NoTransaction
      BY <2>1 DEF Last
    <2>3. Last(DescriptorsAfter(transactionDescriptors, Env)) = descriptor
      BY <1>2, <2>1, <2>2 DEF DescriptorsAfter
    <2>4. InTransactionAfter(inTransaction, Env) = (trancount > 0)
      <3>1. InTransactionAfter(inTransaction, Env) = FALSE
        BY <1>2, <2>1 DEF InTransactionAfter
      <3>2. (trancount > 0) = FALSE
        BY <2>1
      <3>3. QED
        BY <3>1, <3>2, Zenon
    <2>5. QED
      BY <1>2, <2>1, <2>2, <2>3, <2>4 DEF SinceInv, Idle
  <1>5. CountInv
    <2>1. trancount = 0
      BY DEF Init
    <2>2. QED
      BY <1>2, <1>3, <2>1 DEF CountInv
  <1>6. BeforeInv
    <2>1. trancount = 0 /\ transactionDepth = 0 /\ inTransaction = FALSE
      BY DEF Init
    <2>2. (transactionDepth > 0) = FALSE
      BY <2>1
    <2>3. trancount + Pending = Count(frames) /\ transactionDepth = Len(frames) - Starting
      BY <1>2, <1>3, <2>1
    <2>4. QED
      BY <1>2, <2>1, <2>2, <2>3, Zenon DEF BeforeInv
  <1>7. QED
    BY <1>1, <1>4, <1>5, <1>6 DEF AgreeInv

LEMMA StepKeepsAgreement ==
  ASSUME AgreeInv, [Next]_vars
  PROVE  AgreeInv'
  <1>1. IndInv' /\ SinceInv'
    BY StepKeepsInv, StepKeepsSince DEF AgreeInv
  <1>2. CountInv' /\ BeforeInv'
    <2>1. CASE ConnectionLost
      BY <2>1 DEF ConnectionLost, Claim, CountInv, BeforeInv
    <2>2. CASE UNCHANGED vars
      <3>1. UNCHANGED <<tdsVersion, inTransaction, transactionDepth, connected, request,
                        response, frames, trancount, tranName, savepoints, strayed>>
        BY <2>2 DEF vars, clientVars, wireVars, programVars, serverVars
      <3>2. Old' = Old /\ Claim' = Claim /\ Pending' = Pending /\ Starting' = Starting
        BY <3>1 DEF Old, Claim, Pending, Starting, Top
      <3>3. CountInv'
        BY <3>1, <3>2 DEF AgreeInv, CountInv
      <3>4. BeforeInv'
        BY <3>1, <3>2 DEF AgreeInv, BeforeInv
      <3>5. QED
        BY <3>3, <3>4
    <2>3. CASE Answer
      BY <2>3, AnswerIsAnswered, AnswerKeepsCount
    <2>4. QED
      BY <2>1, <2>2, <2>3, BeginsKeepCount, WorksKeepCount, EndsKeepCount, ServerKeepsCount,
         SkipKeepsCount, CancelKeepsCount DEF Next
  <1>3. QED
    BY <1>1, <1>2 DEF AgreeInv

-----------------------------------------------------------------------------
(* What becomes of work *)

\* The calls that are open, and the frames with work
OpenIds  == {frames[i].id : i \in 1..Len(frames)}
WorkedIn == durable \cup lost \cup ToSet(log)

\* A call is within those that are open when it is made; none of these has been told
\* yet, and a call that is starting has no work.
WithinInv ==
    /\ \A f \in 1..made : f \in within[f] /\ within[f] \subseteq 1..f
    /\ \A j \in 1..Len(frames) : within[frames[j].id] = {frames[i].id : i \in 1..j}
    /\ \A g \in OpenIds : result[g] = "none"
    /\ \A f \in Frames : f > made => result[f] = "none"
    /\ WorkedIn \subseteq 1..made
    /\ frames # <<>> /\ Top.phase = "starting" => Top.id = made /\ made \notin WorkedIn

LEMMA InSequence ==
  ASSUME NEW S, NEW s \in Seq(S)
  PROVE  ToSet(s) \subseteq S /\ \A x : x \in ToSet(s) <=> \E k \in 1..Len(s) : s[k] = x
  BY ElementOfSeq, LenProperties DEF ToSet

\* The innermost frame, and the outermost one, are among the open ones.
LEMMA TopIsOpen ==
  ASSUME IndInv
  PROVE  /\ OpenIds \subseteq 1..made /\ OpenIds \subseteq Frames
         /\ frames # <<>> => /\ Top.id \in OpenIds /\ frames[1].id \in OpenIds
                             /\ 1 \in 1..Len(frames) /\ Len(frames) \in 1..Len(frames)
                             /\ \A g \in OpenIds : frames[1].id <= g /\ g <= Top.id
  <1>1. /\ made \in Nat /\ Len(frames) \in Nat
        /\ \A i \in 1..Len(frames) : /\ frames[i].id \in Frames /\ frames[i].id \in Nat
                                     /\ frames[i].id <= made /\ frames[i].id >= 1
    BY Elements DEF IndInv, FramesInv, Frames
  <1>2. OpenIds \subseteq 1..made /\ OpenIds \subseteq Frames
    BY <1>1 DEF OpenIds
  <1>3. ASSUME frames # <<>>
        PROVE  /\ Top.id \in OpenIds /\ frames[1].id \in OpenIds
               /\ 1 \in 1..Len(frames) /\ Len(frames) \in 1..Len(frames)
               /\ \A g \in OpenIds : frames[1].id <= g /\ g <= Top.id
    <2>1. /\ 1 \in 1..Len(frames) /\ Len(frames) \in 1..Len(frames) /\ Top = frames[Len(frames)]
      BY <1>3, TopFrame DEF IndInv
    <2>2. \A i \in 1..Len(frames) : frames[1].id <= frames[i].id /\ frames[i].id <= Top.id
      <3>1. ASSUME NEW i \in 1..Len(frames)
            PROVE  frames[1].id <= frames[i].id /\ frames[i].id <= Top.id
        <4>1. /\ 1 < i => frames[1].id < frames[i].id
              /\ i < Len(frames) => frames[i].id < frames[Len(frames)].id
          BY <2>1, <3>1 DEF IndInv, FramesInv
        <4>2. (i = 1 \/ 1 < i) /\ (i = Len(frames) \/ i < Len(frames))
          BY <1>1, <3>1
        <4>3. /\ frames[1].id \in Nat /\ frames[i].id \in Nat /\ frames[Len(frames)].id \in Nat
          BY <1>1, <2>1, <3>1
        <4>4. QED
          BY <2>1, <4>1, <4>2, <4>3
      <3>2. QED
        BY <3>1
    <2>3. QED
      BY <2>1, <2>2 DEF OpenIds
  <1>4. QED
    BY <1>2, <1>3

\* The frames that a frame is within, as long as it is the innermost one
LEMMA WithinTop ==
  ASSUME IndInv, WithinInv, frames # <<>>
  PROVE  within[Top.id] = OpenIds
  BY TopFrame DEF IndInv, WithinInv, OpenIds

\* A call is opened.
LEMMA PushKeepsWithin ==
  ASSUME IndInv, WithinInv, NEW kind \in Kinds, NEW level \in IsolationLevels,
         made < MaxFrames, Push(kind, level), UNCHANGED <<result, durable, lost, log>>
  PROVE  /\ WithinInv' /\ OpenIds' = OpenIds \cup {made + 1}
         /\ \A f \in 1..made : within'[f] = within[f]
  <1> USE DEF IndInv
  <1>1. PICK f \in FrameRecord :
            /\ f.id = made + 1 /\ f.phase = "starting"
            /\ frames' \in Seq(FrameRecord)
            /\ Len(frames') = Len(frames) + 1 /\ frames' # <<>>
            /\ \A i \in 1..Len(frames) : frames'[i] = frames[i]
            /\ frames'[Len(frames) + 1] = f /\ Top' = f
    BY Pushed
  <1>2. /\ made \in Nat /\ made' = made + 1 /\ made + 1 \in Frames /\ Len(frames) \in Nat
        /\ 1..made \subseteq Frames /\ Frames \subseteq Nat
    BY BoundAssumption DEF TypeOK, Frames, Push
  <1>3. OpenIds \subseteq 1..made /\ \A i \in 1..Len(frames) : frames[i].id \in 1..made
    BY TopIsOpen DEF OpenIds
  <1>4. \A j \in 1..Len(frames') : j \in 1..Len(frames) \/ j = Len(frames) + 1
    BY <1>1, <1>2
  <1>5. OpenIds' = OpenIds \cup {made + 1}
    BY <1>1, <1>2, <1>4 DEF OpenIds
  <1>6. PICK S : /\ within' = [within EXCEPT ![made + 1] = S]
                 /\ S = {frame.id : frame \in ToSet(frames')}
    BY DEF Push
  <1>7. within \in [Frames -> SUBSET Frames] /\ S = OpenIds \cup {made + 1}
    <2>1. \A x : x \in ToSet(frames') <=> \E k \in 1..Len(frames') : frames'[k] = x
      BY <1>1, InSequence
    <2>2. S = OpenIds'
      BY <1>6, <2>1 DEF OpenIds
    <2>3. QED
      BY <1>5, <2>2 DEF TypeOK
  <1>8. within'[made + 1] = S /\ \A f_1 \in 1..made : within'[f_1] = within[f_1]
    BY <1>2, <1>6, <1>7
  <1>9. \A f_1 \in 1..made' : f_1 \in within'[f_1] /\ within'[f_1] \subseteq 1..f_1
    <2>1. \A f_1 \in 1..made' : f_1 \in 1..made \/ f_1 = made + 1
      BY <1>2
    <2>2. made + 1 \in S /\ S \subseteq 1..made + 1
      BY <1>2, <1>3, <1>7
    <2>3. QED
      BY <1>8, <2>1, <2>2 DEF WithinInv
  <1>10. ASSUME NEW j \in 1..Len(frames')
         PROVE  within'[frames'[j].id] = {frames'[i].id : i \in 1..j}
    <2>1. CASE j \in 1..Len(frames)
      <3>1. \A i \in 1..j : frames'[i] = frames[i]
        BY <1>1, <1>2, <2>1
      <3>2. within'[frames'[j].id] = {frames[i].id : i \in 1..j}
        BY <1>1, <1>3, <1>8, <2>1 DEF WithinInv
      <3>3. QED
        BY <3>1, <3>2
    <2>2. CASE j = Len(frames) + 1
      <3>1. within'[frames'[j].id] = OpenIds'
        BY <1>1, <1>5, <1>7, <1>8, <2>2
      <3>2. QED
        BY <1>1, <2>2, <3>1 DEF OpenIds
    <2>3. QED
      BY <1>4, <2>1, <2>2
  <1>11. \A g \in OpenIds' : result'[g] = "none"
    BY <1>2, <1>5 DEF WithinInv
  <1>12. WorkedIn' = WorkedIn /\ WorkedIn \subseteq 1..made
    BY DEF WithinInv, WorkedIn
  <1>13. WorkedIn' \subseteq 1..made' /\ made' \notin WorkedIn'
    BY <1>2, <1>12
  <1>14. \A f_1 \in Frames : f_1 > made' => result'[f_1] = "none"
    BY <1>2 DEF WithinInv
  <1>15. QED
    BY <1>1, <1>2, <1>5, <1>8, <1>9, <1>10, <1>11, <1>13, <1>14 DEF WithinInv

\* A call ends.
LEMMA PopKeepsWithin ==
  ASSUME IndInv, WithinInv, frames # <<>>, NEW outcome \in {"ok", "failed"}, Pop(outcome),
         UNCHANGED <<made, within, durable, lost, log>>
  PROVE  /\ WithinInv' /\ OpenIds' = OpenIds \ {Top.id}
         /\ \A g \in Frames : result'[g] = IF g = Top.id THEN outcome ELSE result[g]
         /\ frames' # <<>> => frames'[1] = frames[1] /\ frames[1].id # Top.id
  <1> USE DEF IndInv
  <1>1. /\ frames' \in Seq(FrameRecord) /\ Len(frames') = Len(frames) - 1
        /\ Len(frames) \in Nat \ {0}
        /\ \A i \in 1..Len(frames') : frames'[i] = frames[i]
        /\ frames' # <<>> => Top' = frames[Len(frames) - 1]
    BY Popped
  <1>2. \A g \in Frames : result'[g] = IF g = Top.id THEN outcome ELSE result[g]
    BY DEF Pop, TypeOK
  <1>3. /\ \A i \in 1..Len(frames') : /\ i \in 1..Len(frames) /\ i < Len(frames)
                                      /\ frames[i].id # Top.id
        /\ Top = frames[Len(frames)] /\ Len(frames) \in 1..Len(frames)
    <2>1. Top = frames[Len(frames)] /\ Len(frames) \in 1..Len(frames)
      BY TopFrame
    <2>2. \A i \in 1..Len(frames') : i \in 1..Len(frames) /\ i < Len(frames)
      BY <1>1
    <2>3. \A i \in 1..Len(frames') : frames[i].id < frames[Len(frames)].id
      BY <2>1, <2>2 DEF FramesInv
    <2>4. \A i \in 1..Len(frames) : frames[i].id \in Nat
      BY Elements
    <2>5. \A m, n \in Nat : m < n => m # n
      OBVIOUS
    <2>6. QED
      BY <2>1, <2>2, <2>3, <2>4, <2>5
  <1>4. OpenIds' = OpenIds \ {Top.id}
    <2>1. \A i \in 1..Len(frames) : i \in 1..Len(frames') \/ i = Len(frames)
      BY <1>1
    <2>2. QED
      BY <1>1, <1>3, <2>1 DEF OpenIds
  <1>5. \A g \in OpenIds' : result'[g] = "none"
    BY <1>2, <1>4, TopIsOpen DEF WithinInv
  <1>6. \A f \in Frames : f > made' => result'[f] = "none"
    <2>1. Top.id \in 1..made
      BY TopIsOpen
    <2>2. made \in Nat /\ Frames \subseteq Nat
      BY Elements
    <2>3. QED
      BY <1>2, <2>1, <2>2 DEF WithinInv
  <1>7. \A j \in 1..Len(frames') : within'[frames'[j].id] = {frames'[i].id : i \in 1..j}
    <2>1. ASSUME NEW j \in 1..Len(frames')
          PROVE  within'[frames'[j].id] = {frames'[i].id : i \in 1..j}
      <3>1. \A i \in 1..j : frames'[i] = frames[i]
        BY <1>1, <2>1
      <3>2. within'[frames'[j].id] = {frames[i].id : i \in 1..j}
        BY <1>1, <1>3, <2>1 DEF WithinInv
      <3>3. QED
        BY <3>1, <3>2
    <2>2. QED
      BY <2>1
  <1>8. frames' # <<>> => Top'.phase = "open" /\ frames'[1] = frames[1] /\ frames[1].id # Top.id
    <2>1. SUFFICES ASSUME frames' # <<>>
                   PROVE  /\ Top'.phase = "open" /\ frames'[1] = frames[1]
                          /\ frames[1].id # Top.id
      OBVIOUS
    <2>2. Len(frames') \in Nat \ {0}
      BY <1>1, <2>1, EmptySeq
    <2>3. Len(frames) - 1 \in 1..Len(frames) /\ Len(frames) - 1 < Len(frames) /\ 1 \in 1..Len(frames')
      BY <1>1, <2>2
    <2>4. QED
      BY <1>1, <1>3, <2>1, <2>3 DEF FramesInv
  <1>9. WorkedIn' = WorkedIn
    BY DEF WorkedIn
  <1>10. WithinInv'
    BY <1>5, <1>6, <1>7, <1>8, <1>9 DEF WithinInv
  <1>11. QED
    BY <1>2, <1>4, <1>8, <1>10

\* A call becomes open or ending.
LEMMA TurnKeepsWithin ==
  ASSUME IndInv, WithinInv, frames # <<>>, NEW phase \in {"open", "ending"}, Become(phase),
         UNCHANGED <<made, within, result, durable, lost, log>>
  PROVE  /\ WithinInv' /\ OpenIds' = OpenIds /\ Top'.id = Top.id
         /\ frames'[1].id = frames[1].id /\ frames'[1].kind = frames[1].kind
         /\ frames'[1].phase # "starting"
  <1> USE DEF IndInv
  <1>1. /\ frames' # <<>> /\ Len(frames') = Len(frames) /\ Len(frames) \in Nat \ {0}
        /\ \A i \in 1..Len(frames) - 1 : frames'[i] = frames[i]
        /\ \A i \in 1..Len(frames) : /\ frames'[i].id = frames[i].id
                                     /\ frames'[i].kind = frames[i].kind
        /\ Top' = frames'[Len(frames)] /\ Top = frames[Len(frames)] /\ Top'.phase = phase
    BY Became
  <1>2. OpenIds' = OpenIds /\ WorkedIn' = WorkedIn
    BY <1>1 DEF OpenIds, WorkedIn
  <1>3. \A j \in 1..Len(frames') : within'[frames'[j].id] = {frames'[i].id : i \in 1..j}
    <2>1. ASSUME NEW j \in 1..Len(frames')
          PROVE  within'[frames'[j].id] = {frames'[i].id : i \in 1..j}
      <3>1. \A i \in 1..j : frames'[i].id = frames[i].id
        BY <1>1, <2>1
      <3>2. within'[frames'[j].id] = {frames[i].id : i \in 1..j}
        BY <1>1, <2>1 DEF WithinInv
      <3>3. QED
        BY <3>1, <3>2
    <2>2. QED
      BY <2>1
  <1>4. frames'[1].phase # "starting"
    <2>1. CASE Len(frames) = 1
      BY <1>1, <2>1
    <2>2. CASE Len(frames) # 1
      <3>1. 1 \in 1..Len(frames) - 1 /\ 1 \in 1..Len(frames) /\ 1 < Len(frames)
        BY <1>1, <2>2
      <3>2. QED
        BY <1>1, <3>1 DEF FramesInv
    <2>3. QED
      BY <2>1, <2>2
  <1>5. Len(frames) \in 1..Len(frames) /\ 1 \in 1..Len(frames)
    BY <1>1
  <1>6. WithinInv'
    BY <1>1, <1>2, <1>3 DEF WithinInv
  <1>7. QED
    BY <1>1, <1>2, <1>4, <1>5, <1>6

\* The frames stay as they are; work is done in an open one.
LEMMA WorkKeepsWithin ==
  ASSUME IndInv, WithinInv, UNCHANGED <<frames, made, within, result>>,
         WorkedIn' \subseteq WorkedIn \cup
             (IF frames # <<>> /\ Top.phase = "open" THEN {Top.id} ELSE {})
  PROVE  WithinInv' /\ OpenIds' = OpenIds
  <1>1. OpenIds' = OpenIds /\ Top' = Top
    BY DEF OpenIds, Top
  <1>2. WorkedIn' \subseteq 1..made
    BY TopIsOpen DEF WithinInv
  <1>3. frames # <<>> /\ Top.phase = "starting" => Top.id = made /\ made \notin WorkedIn'
    BY DEF WithinInv
  <1>4. \A j \in 1..Len(frames') : within'[frames'[j].id] = {frames'[i].id : i \in 1..j}
    BY ZenonT(30) DEF WithinInv
  <1>5. /\ \A f \in 1..made' : f \in within'[f] /\ within'[f] \subseteq 1..f
        /\ \A g \in OpenIds' : result'[g] = "none"
        /\ \A f \in Frames : f > made' => result'[f] = "none"
    BY <1>1 DEF WithinInv
  <1>6. QED
    BY <1>1, <1>2, <1>3, <1>4, <1>5 DEF WithinInv

-----------------------------------------------------------------------------
\* Until the program is told otherwise than the server did
Regular == ~strayed

\* What a rollback to a savepoint takes back is the work of its frame: the log holds
\* none of it up to the mark, and as long as the frame is open all after the mark.
MarksInv ==
    /\ \A s, t \in 1..Len(savepoints) : s <= t => savepoints[s].name <= savepoints[t].name
    /\ \A s \in 1..Len(savepoints), k \in 1..Len(log) :
          /\ k <= savepoints[s].mark => savepoints[s].name \notin within[log[k]]
          /\ k > savepoints[s].mark /\ savepoints[s].name \in OpenIds =>
                savepoints[s].name \in within[log[k]]

\* Without a connection there is no transaction, and all that is answered is an error;
\* work is sent in a transaction, and a commit that is not skipped fails where there
\* is none.
AnswerInv ==
    /\ ~connected => trancount = 0 /\ (~Idle => response # None /\ response.error)
    /\ request.op = "work" => inTransaction
    /\ Regular /\ connected /\ request.op = "commit" /\ response # None /\ response.error =>
          trancount = 0

\* The outermost frame is a transaction, and the others have their savepoints, but
\* for the one that is being set or was not.
SavesInv ==
    Regular =>
        /\ frames # <<>> => frames[1].kind # "save"
        /\ connected /\ trancount > 0 =>
              \A i \in 1..Len(frames) :
                 frames[i].kind = "save" =>
                    \/ /\ i = Len(frames) /\ request.op = "save"
                       /\ response = None \/ response.error
                    \/ \E s \in 1..Len(savepoints) : savepoints[s].name = frames[i].id

\* What the server has not yet committed is work of the transaction that is open.
LogInv == Regular => \A f \in ToSet(log) : frames # <<>> /\ frames[1].id \in within[f]

\* A frame has failed, or will: it is being rolled back, or it is the outermost one,
\* and its transaction is gone and was not committed.
Committed ==
    request.op = "commit" /\ Len(frames) = 1 /\ response # None /\ ~response.error
Doomed(g) ==
    /\ frames # <<>>
    /\ \/ g = Top.id /\ request.op = "rollback"
       \/ /\ g = frames[1].id
          /\ ~connected \/ (trancount = 0 /\ frames[1].phase # "starting" /\ ~Committed)
Failing(g) == result[g] = "failed" \/ Doomed(g)

\* Work is lost only in a frame that has failed or will.
LostInv == Regular => \A f \in lost : \E g \in within[f] : Failing(g)

\* A frame that was rolled back leaves nothing in the log; and no work of a frame that
\* has failed is durable or can still become so, unless its commit is in doubt.
FailedInv ==
    Regular =>
        /\ connected /\ request.op = "rollback" /\ response # None =>
              \A f \in ToSet(log) : Top.id \notin within[f]
        /\ \A f \in (durable \cup ToSet(log)) \ doubt :
              \A g \in within[f] : result[g] # "failed"
        /\ \A f \in durable \ doubt : \A g \in within[f] : g \in OpenIds => Committed

FateInv == WithinInv /\ MarksInv /\ AnswerInv /\ SavesInv /\ LogInv /\ LostInv /\ FailedInv

\* Regular is what Claim says of a connection.
LEMMA Claimed ==
  /\ connected /\ Regular <=> Claim
  /\ strayed \in BOOLEAN /\ tdsVersion' = tdsVersion /\ (strayed => strayed') =>
        (Regular' => Regular)
  BY DEF Claim, Regular, Old

\* Where there is work that is not committed
LEMMA LogOfTransaction ==
  ASSUME IndInv
  PROVE  /\ trancount \in Nat /\ (trancount = 0 => ToSet(log) = {})
         /\ \A f : f \in ToSet(log) <=> \E k \in 1..Len(log) : log[k] = f
  <1>1. \A f : f \in ToSet(log) <=> \E k \in 1..Len(log) : log[k] = f
    BY InSequence DEF IndInv, TypeOK
  <1>2. trancount = 0 => log = <<>> /\ Len(log) = 0
    BY DEF IndInv, SavepointInv
  <1>3. QED
    BY <1>1, <1>2 DEF IndInv, TypeOK

\* Work has been done in frames that were made, within others that were.
LEMMA WorkedWithin ==
  ASSUME IndInv, WithinInv
  PROVE  /\ \A f \in WorkedIn : f \in 1..made /\ within[f] \subseteq 1..made
         /\ \A k \in 1..Len(log) : log[k] \in 1..made
         /\ \A s \in 1..Len(savepoints) : savepoints[s].name \in 1..made
         /\ 1..made \subseteq Frames /\ made \in Nat
  <1>1. made \in Nat /\ 1..made \subseteq Frames
    BY BoundAssumption DEF IndInv, TypeOK, Frames
  <1>2. \A f \in WorkedIn : f \in 1..made /\ within[f] \subseteq 1..made
    <2>1. \A f \in 1..made : within[f] \subseteq 1..f
      BY DEF WithinInv
    <2>2. \A f \in 1..made : 1..f \subseteq 1..made
      BY <1>1
    <2>3. QED
      BY <2>1, <2>2 DEF WithinInv
  <1>3. \A k \in 1..Len(log) : log[k] \in 1..made
    BY <1>2, LogOfTransaction DEF WorkedIn
  <1>4. \A s \in 1..Len(savepoints) : savepoints[s].name \in 1..made
    <2>1. \A s \in 1..Len(savepoints) : savepoints[s] \in Savepoint /\ savepoints[s].name <= made
      BY Elements DEF IndInv, SavepointInv
    <2>2. \A p \in Savepoint : p.name \in Nat /\ p.name >= 1
      BY BoundAssumption DEF Savepoint, Frames
    <2>3. QED
      BY <1>1, <2>1, <2>2
  <1>5. QED
    BY <1>1, <1>2, <1>3, <1>4

\* The frames around have been opened before, and stay as they were.
LEMMA MarksKept ==
  ASSUME IndInv, WithinInv, MarksInv, UNCHANGED <<log, savepoints>>,
         OpenIds' \subseteq OpenIds \cup {made + 1},
         \A f \in 1..made : within'[f] = within[f]
  PROVE  MarksInv'
  <1>1. /\ \A k \in 1..Len(log) : within'[log[k]] = within[log[k]]
        /\ \A s \in 1..Len(savepoints) : savepoints[s].name # made + 1
    BY WorkedWithin
  <1>2. ASSUME NEW s \in 1..Len(savepoints'), NEW k \in 1..Len(log')
        PROVE  /\ k <= savepoints'[s].mark => savepoints'[s].name \notin within'[log'[k]]
               /\ k > savepoints'[s].mark /\ savepoints'[s].name \in OpenIds' =>
                     savepoints'[s].name \in within'[log'[k]]
    BY <1>1, <1>2 DEF MarksInv
  <1>3. QED
    BY <1>2 DEF MarksInv

\* What is counted, after a step as well
NoneCounted == /\ Pending \in {0, 1} /\ Count(frames) \in Nat
               /\ frames = <<>> => Count(frames) = 0

LEMMA CountedBefore == IndInv => NoneCounted
  BY Counted DEF NoneCounted

LEMMA CountedAfter == IndInv' => NoneCounted'
  BY CountedBefore, PTL

\* The outermost frame stays the outermost, and what is lost stays doomed.
LEMMA LogKept ==
  ASSUME AgreeInv, AgreeInv', WithinInv, AnswerInv', LogInv, LostInv, Regular' => Regular,
         UNCHANGED <<trancount, log, lost>>,
         frames # <<>> /\ frames' # <<>> => frames'[1].id = frames[1].id,
         \A f \in 1..made : within'[f] = within[f],
         Regular => \A g \in 1..made : Failing(g) => Failing(g)'
  PROVE  LogInv' /\ LostInv'
  <1>1. /\ \A f \in WorkedIn : within'[f] = within[f] /\ within[f] \subseteq 1..made
    BY WorkedWithin DEF AgreeInv
  <1>2. ASSUME Regular', NEW f \in ToSet(log)
        PROVE  frames' # <<>> /\ frames'[1].id \in within'[f]
    <2>1. trancount # 0 /\ trancount \in Nat
      BY <1>2, LogOfTransaction DEF AgreeInv
    <2>2. Claim'
      BY <1>2, <2>1, Claimed DEF AnswerInv, Claim, Regular, Old
    <2>3. frames' # <<>>
      <3>1. trancount' + Pending' <= Count(frames')
        BY <2>2 DEF AgreeInv, CountInv
      <3>2. /\ Pending' \in {0, 1} /\ Count(frames') \in Nat
            /\ frames' = <<>> => Count(frames') = 0
        BY CountedAfter DEF AgreeInv, NoneCounted
      <3>3. QED
        BY <2>1, <3>1, <3>2
    <2>4. frames # <<>> /\ frames[1].id \in within[f]
      BY <1>2 DEF LogInv
    <2>5. QED
      BY <1>1, <1>2, <2>3, <2>4 DEF WorkedIn
  <1>3. ASSUME Regular', NEW f \in lost
        PROVE  \E g \in within'[f] : Failing(g)'
    <2>1. f \in WorkedIn
      BY DEF WorkedIn
    <2>2. PICK g \in within[f] : Failing(g)
      BY <1>3 DEF LostInv
    <2>3. QED
      BY <1>1, <1>3, <2>1, <2>2
  <1>4. ToSet(log)' = ToSet(log)
    OBVIOUS
  <1>5. LogInv'
    BY <1>2, <1>4 DEF LogInv
  <1>6. LostInv'
    BY <1>3 DEF LostInv
  <1>7. QED
    BY <1>5, <1>6

-----------------------------------------------------------------------------
LEMMA BeginsKeepFate ==
  ASSUME AgreeInv, AgreeInv', FateInv, NEW level \in IsolationLevels,
         Transaction(level) \/ BeginTransaction(level)
  PROVE  FateInv'
  <1> USE DEF AgreeInv, FateInv
  <1>1. /\ Idle /\ connected /\ Usable /\ made < MaxFrames
        /\ UNCHANGED <<tdsVersion, inTransaction, connected, response, result, strayed>>
        /\ UNCHANGED <<trancount, log, savepoints, durable, lost, doubt>>
    BY DEF Transaction, BeginTransaction, MayBegin, serverVars, fateVars
  <1>2. PICK kind \in Kinds, op \in {"begin", "save"} :
           /\ Push(kind, level) /\ \E name : Send(op, name, level)
           /\ op = IF kind = "save" THEN "save" ELSE "begin"
    BY OpensFrame
  <1>3. /\ WithinInv' /\ OpenIds' = OpenIds \cup {made + 1}
        /\ \A f \in 1..made : within'[f] = within[f]
    BY <1>1, <1>2, PushKeepsWithin
  <1>4. PICK f \in FrameRecord :
            /\ f.kind = kind /\ Len(frames') = Len(frames) + 1 /\ frames' # <<>>
            /\ \A i \in 1..Len(frames) : frames'[i] = frames[i]
            /\ frames'[Len(frames) + 1] = f
    BY <1>1, <1>2, Pushed DEF IndInv
  <1>5. /\ request'.op = op /\ response = None /\ request.op = "none"
        /\ (Regular' <=> Regular) /\ Len(frames) \in Nat
    BY <1>1, <1>2, NotNone, Elements DEF Send, IndInv, RequestInv, Idle, Regular, Old
  <1>6. MarksInv'
    BY <1>1, <1>3, MarksKept
  <1>7. AnswerInv'
    BY <1>1, <1>5 DEF AnswerInv
  <1>8. Regular => (frames # <<>> => trancount > 0)
    BY <1>1, Claimed, NothingPending DEF Usable
  <1>9. LogInv' /\ LostInv'
    <2>1. frames # <<>> => frames'[1] = frames[1]
      BY <1>4, TopIsOpen
    <2>2. Regular => \A g \in 1..made : Failing(g) => Failing(g)'
      BY <1>1, <1>5, <1>8 DEF Failing, Doomed
    <2>3. QED
      BY <1>1, <1>3, <1>5, <1>7, <2>1, <2>2, LogKept
  <1>10. SavesInv'
    <2>1. SUFFICES ASSUME Regular
                   PROVE  /\ frames'[1].kind # "save"
                          /\ trancount > 0 =>
                              \A i \in 1..Len(frames') :
                                 frames'[i].kind = "save" =>
                                    \/ /\ i = Len(frames') /\ request'.op = "save"
                                       /\ response' = None
                                    \/ \E s \in 1..Len(savepoints) :
                                          savepoints[s].name = frames'[i].id
      BY <1>1, <1>5 DEF SavesInv
    <2>2. frames'[1].kind # "save"
      <3>1. Claim'
        BY <1>1, <1>5, <2>1, Claimed DEF Claim, Regular, Old
      <3>2. QED
        BY <1>4, <3>1 DEF CountInv
    <2>3. ASSUME trancount > 0, NEW i \in 1..Len(frames'), frames'[i].kind = "save"
          PROVE  \/ i = Len(frames') /\ request'.op = "save" /\ response' = None
                 \/ \E s \in 1..Len(savepoints) : savepoints[s].name = frames'[i].id
      <3>1. i \in 1..Len(frames) \/ i = Len(frames) + 1
        BY <1>4, <1>5
      <3>2. CASE i \in 1..Len(frames)
        BY <1>1, <1>4, <1>5, <2>1, <2>3, <3>2 DEF SavesInv
      <3>3. CASE i = Len(frames) + 1
        BY <1>1, <1>2, <1>4, <1>5, <2>3, <3>3
      <3>4. QED
        BY <3>1, <3>2, <3>3
    <2>4. QED
      BY <2>2, <2>3
  <1>11. FailedInv'
    <2>1. \A f_1 \in durable \cup ToSet(log) :
             /\ within'[f_1] = within[f_1] /\ made + 1 \notin within[f_1]
      BY <1>3, WorkedWithin DEF WorkedIn
    <2>2. ~Committed
      BY <1>5 DEF Committed
    <2>3. \A f_1 \in durable \ doubt : \A g \in within[f_1] : Regular => g \notin OpenIds
      BY <2>2 DEF FailedInv
    <2>4. QED
      BY <1>1, <1>3, <1>5, <2>1, <2>3 DEF FailedInv
  <1>12. QED
    BY <1>3, <1>6, <1>7, <1>9, <1>10, <1>11

\* A request is sent, and the frames stay open, or the innermost one is to end.
LEMMA SendsKeepFate ==
  ASSUME AgreeInv, AgreeInv', FateInv, Idle, WithinInv', OpenIds' = OpenIds,
         UNCHANGED <<tdsVersion, inTransaction, connected, response, result, strayed, within,
                     trancount, log, savepoints, durable, lost, doubt>>,
         Len(frames') = Len(frames), frames # <<>> <=> frames' # <<>>,
         \A i \in 1..Len(frames) : /\ frames'[i].id = frames[i].id
                                   /\ frames'[i].kind = frames[i].kind,
         frames # <<>> /\ frames[1].phase # "starting" => frames'[1].phase # "starting",
         connected, request'.op = "work" => inTransaction
  PROVE  FateInv'
  <1> USE DEF AgreeInv, FateInv
  <1>1. /\ response = None /\ response' = None /\ request.op = "none" /\ request = None
        /\ (Regular' <=> Regular)
    BY NotNone DEF IndInv, RequestInv, Idle, Regular, Old
  <1>2. frames # <<>> => 1 \in 1..Len(frames)
    BY TopIsOpen
  <1>3. MarksInv'
    BY MarksKept
  <1>4. AnswerInv'
    BY <1>1 DEF AnswerInv
  <1>5. \A g \in 1..made : Failing(g) => Failing(g)'
    BY <1>1, <1>2 DEF Failing, Doomed, Committed
  <1>6. LogInv' /\ LostInv'
    BY <1>1, <1>2, <1>4, <1>5, LogKept
  <1>7. SavesInv'
    BY <1>1, <1>2 DEF SavesInv
  <1>8. FailedInv'
    BY <1>1 DEF FailedInv, Committed
  <1>9. QED
    BY <1>3, <1>4, <1>6, <1>7, <1>8

LEMMA WorksKeepFate ==
  ASSUME AgreeInv, AgreeInv', FateInv, Work \/ Reset
  PROVE  FateInv'
  <1>1. /\ Idle /\ connected /\ \E op \in {"work", "reset"} : \E name : Send(op, name, NoLevel)
        /\ Work => frames # <<>> /\ Usable
        /\ Reset => request'.op # "work"
        /\ UNCHANGED <<tdsVersion, inTransaction, connected, response, result, strayed, within,
                       frames, made, trancount, log, savepoints, durable, lost, doubt>>
    BY DEF Work, Reset, serverVars, fateVars, Send
  <1>2. WithinInv' /\ OpenIds' = OpenIds
    BY <1>1, WorkKeepsWithin DEF AgreeInv, FateInv, WorkedIn
  <1>3. request'.op = "work" => inTransaction
    BY <1>1 DEF Usable
  <1>4. QED
    BY <1>1, <1>2, <1>3, SendsKeepFate

\* How the program leaves a frame without a request
LEMMA LeavesFrame ==
  ASSUME IndInv, TxDone \/ EndTransaction
  PROVE  \/ \E op \in Ends : \E name : EndBy(op, name)
         \/ /\ \E outcome \in {"ok", "failed"} :
                  /\ Pop(outcome)
                  /\ \/ outcome = "ok" /\ Top.kind = "save"
                     \/ outcome = "failed" /\ ~(inTransaction /\ connected)
            /\ UNCHANGED <<connected, request, response, made, within>>
  BY DEF TxDone, EndTransaction, TxDoneError, TxDoneSuccess, Refused, Ends, clientVars, wireVars

LEMMA EndsKeepFate ==
  ASSUME AgreeInv, AgreeInv', FateInv, TxDone \/ EndTransaction
  PROVE  FateInv'
  <1> USE DEF AgreeInv, FateInv
  <1>1. /\ Idle /\ frames # <<>> /\ response = None /\ request.op = "none" /\ request = None
        /\ UNCHANGED <<tdsVersion, strayed, trancount, log, savepoints, durable, lost, doubt>>
    BY NotNone DEF TxDone, EndTransaction, Idle, IndInv, RequestInv, serverVars, fateVars
  <1>2. CASE \E op \in Ends : \E name : EndBy(op, name)
    <2>1. /\ Become("ending") /\ connected /\ request'.op # "work"
          /\ UNCHANGED <<inTransaction, connected, response, made, result, within>>
      BY <1>2 DEF EndBy, Send, Ends
    <2>2. /\ WithinInv' /\ OpenIds' = OpenIds /\ frames'[1].phase # "starting"
      BY <1>1, <2>1, TurnKeepsWithin
    <2>3. /\ Len(frames') = Len(frames) /\ frames' # <<>>
          /\ \A i \in 1..Len(frames) : /\ frames'[i].id = frames[i].id
                                       /\ frames'[i].kind = frames[i].kind
      BY <1>1, <2>1, Became DEF IndInv
    <2>4. QED
      BY <1>1, <2>1, <2>2, <2>3, SendsKeepFate
  <1>3. CASE /\ \E outcome \in {"ok", "failed"} :
                   /\ Pop(outcome)
                   /\ \/ outcome = "ok" /\ Top.kind = "save"
                      \/ outcome = "failed" /\ ~(inTransaction /\ connected)
             /\ UNCHANGED <<connected, request, response, made, within>>
    <2>1. PICK outcome \in {"ok", "failed"} :
              /\ Pop(outcome)
              /\ \/ outcome = "ok" /\ Top.kind = "save"
                 \/ outcome = "failed" /\ ~(inTransaction /\ connected)
      BY <1>3
    <2>2. /\ WithinInv' /\ OpenIds' = OpenIds \ {Top.id}
          /\ \A g \in Frames : result'[g] = IF g = Top.id THEN outcome ELSE result[g]
          /\ frames' # <<>> => frames'[1] = frames[1] /\ frames[1].id # Top.id
      BY <1>1, <1>3, <2>1, PopKeepsWithin
    <2>3. /\ Len(frames') = Len(frames) - 1 /\ Len(frames) \in Nat \ {0}
          /\ \A i \in 1..Len(frames') : frames'[i] = frames[i]
          /\ frames' = <<>> => Top = frames[1]
      BY <1>1, <2>1, Popped, CountPopped DEF IndInv
    <2>4. Top.id \in OpenIds /\ result[Top.id] = "none" /\ (Regular' <=> Regular)
      BY <1>1, TopIsOpen DEF WithinInv, Regular, Old
    <2>5. /\ \A f \in WorkedIn : within[f] \subseteq Frames
          /\ 1..made \subseteq Frames
      BY WorkedWithin
    <2>6. MarksInv'
      BY <1>1, <1>3, <2>2, MarksKept
    <2>7. AnswerInv'
      BY <1>1, <1>3 DEF AnswerInv, Idle
    <2>8. ASSUME Regular, outcome = "failed"
          PROVE  ToSet(log) = {}
      <3>1. trancount = 0
        <4>1. CASE connected
          BY <1>1, <2>1, <2>8, <4>1, Claimed, NothingPending, LogOfTransaction
        <4>2. CASE ~connected
          BY <4>2 DEF AnswerInv
        <4>3. QED
          BY <4>1, <4>2
      <3>2. QED
        BY <3>1, LogOfTransaction
    <2>9. ASSUME Regular, NEW g \in 1..made, Failing(g)
          PROVE  Failing(g)'
      <3>1. CASE result[g] = "failed"
        BY <2>2, <2>4, <2>5, <3>1 DEF Failing
      <3>2. CASE Doomed(g) /\ frames' # <<>>
        BY <1>1, <1>3, <2>2, <3>2 DEF Failing, Doomed, Committed
      <3>3. CASE Doomed(g) /\ frames' = <<>>
        <4>1. g = Top.id
          BY <1>1, <2>3, <3>3 DEF Doomed
        <4>2. outcome = "failed"
          BY <1>1, <2>1, <2>3, <2>9, <3>3 DEF SavesInv
        <4>3. QED
          BY <2>2, <2>5, <4>1, <4>2 DEF Failing
      <3>4. QED
        BY <2>9, <3>1, <3>2, <3>3 DEF Failing
    <2>10. LogInv' /\ LostInv'
      BY <1>1, <1>3, <2>2, <2>4, <2>7, <2>9, LogKept
    <2>11. SavesInv'
      <3>1. \A i \in 1..Len(frames') : i \in 1..Len(frames) /\ i # Len(frames)
        BY <2>3
      <3>2. QED
        BY <1>1, <1>3, <2>2, <2>3, <2>4, <3>1 DEF SavesInv
    <2>12. FailedInv'
      <3>1. SUFFICES ASSUME Regular
                     PROVE  FailedInv'
        BY <2>4 DEF FailedInv
      <3>2. \A f \in durable \ doubt : \A g \in within[f] : g \notin OpenIds
        BY <1>1, <3>1 DEF FailedInv, Committed
      <3>3. ASSUME NEW f \in (durable \cup ToSet(log)) \ doubt, NEW g \in within[f]
            PROVE  result'[g] # "failed"
        <4>1. result[g] # "failed" /\ g \in Frames
          BY <2>5, <3>1, <3>3 DEF FailedInv, WorkedIn
        <4>2. g = Top.id => outcome # "failed"
          BY <2>4, <2>8, <3>1, <3>2
        <4>3. QED
          BY <2>2, <4>1, <4>2
      <3>4. QED
        BY <1>1, <1>3, <2>2, <3>2, <3>3 DEF FailedInv
    <2>13. QED
      BY <2>2, <2>6, <2>7, <2>10, <2>11, <2>12
  <1>4. QED
    BY <1>2, <1>3, LeavesFrame

-----------------------------------------------------------------------------
\* How an answer ends the innermost frame, or leaves it open
LEMMA AnswerOutcome ==
  ASSUME IndInv, NEW canceled \in BOOLEAN, Answered(canceled)
  PROVE  LET error == response.error \/ canceled
         IN  \/ /\ frames # <<>> /\ request' = None
                /\ \E outcome \in {"ok", "failed"} :
                      /\ Pop(outcome)
                      /\ \/ request.op \in {"begin", "save"} /\ outcome = "failed"
                         \/ request.op = "rollback" /\ outcome = "failed"
                         \/ request.op = "commit" /\ outcome = IF error THEN "failed" ELSE "ok"
             \/ /\ (frames # <<>> /\ Become("open")) \/ frames' = frames
                /\ request.op \notin Ends /\ (request.op = "save" => ~error)
                /\ request'.op \in {"none", "isolation"} /\ (error => request' = None)
                /\ result' = result
  <1>1. ~Idle
    BY AnsweredRequest
  <1>2. request.op # "reset" => frames # <<>>
    BY <1>1, RequestUnderWay
  <1>3. PICK error \in BOOLEAN : /\ error = (response.error \/ canceled)
                                 /\ Begun(error) \/ Ended(error) \/ Done
    BY AnsweredRequest DEF Answered, Responses
  <1>4. CASE Begun(error)
    <2>1. CASE request.op \in {"begin", "save"} /\ error /\ Pop("failed") /\ request' = None
      BY <1>2, <2>1
    <2>2. CASE /\ request.op = "save" /\ ~error /\ Send("isolation", Anonymous, Top.level)
               /\ UNCHANGED <<frames, result>>
      <3>1. request'.op = "isolation"
        BY <2>2 DEF Send
      <3>2. QED
        BY <1>3, <2>2, <3>1 DEF Ends
    <2>3. CASE /\ \/ request.op \in {"begin", "isolation"}
                  \/ request.op = "save" /\ ~error
               /\ Become("open") /\ request' = None /\ UNCHANGED result
      <3>1. frames # <<>> /\ request'.op = "none"
        BY <1>2, <2>3, NotNone
      <3>2. QED
        BY <1>3, <2>3, <3>1 DEF Ends
    <2>4. QED
      BY <1>4, <2>1, <2>2, <2>3 DEF Begun
  <1>5. CASE Ended(error)
    BY <1>2, <1>3, <1>5 DEF Ended
  <1>6. CASE Done
    BY <1>3, <1>6, NotNone DEF Done, Ends
  <1>7. QED
    BY <1>3, <1>4, <1>5, <1>6

\* A frame whose call is answered with an error leaves no work that is not in doubt.
LEMMA FailsWithoutWork ==
  ASSUME AgreeInv, FateInv, Regular, frames # <<>>, response # None,
         \/ request.op \in {"begin", "save", "rollback"}
         \/ request.op = "commit" /\ response.error,
         NEW f \in (durable \cup ToSet(log)) \ doubt
  PROVE  Top.id \notin within[f]
  <1> USE DEF AgreeInv, FateInv
  <1>1. Top.id \in OpenIds /\ f \in WorkedIn
    BY TopIsOpen DEF WorkedIn
  <1>2. CASE request.op \in {"begin", "save"}
    <2>1. Top.phase = "starting"
      BY <1>2 DEF IndInv, RequestInv, PhaseDuring, Starts, Ends
    <2>2. Top.id = made /\ made \notin WorkedIn
      BY <2>1 DEF WithinInv
    <2>3. f \in 1..made /\ f # made /\ within[f] \subseteq 1..f /\ made \in Nat
      BY <1>1, <2>2, WorkedWithin DEF WithinInv
    <2>4. made \notin 1..f
      BY <2>3
    <2>5. QED
      BY <2>2, <2>3, <2>4
  <1>3. CASE request.op \in {"rollback", "commit"}
    <2>1. ~Committed
      BY <1>3 DEF Committed
    <2>2. f \in durable => Top.id \notin within[f]
      BY <1>1, <2>1 DEF FailedInv
    <2>3. CASE connected /\ request.op = "rollback"
      BY <2>2, <2>3 DEF FailedInv
    <2>4. CASE ~(connected /\ request.op = "rollback")
      <3>1. trancount = 0
        BY <1>3, <2>4 DEF AnswerInv
      <3>2. QED
        BY <2>2, <3>1, LogOfTransaction
    <2>5. QED
      BY <2>3, <2>4
  <1>4. QED
    BY <1>2, <1>3

LEMMA AnswerKeepsFate ==
  ASSUME AgreeInv, AgreeInv', FateInv, NEW canceled \in BOOLEAN, Answered(canceled)
  PROVE  FateInv'
  <1> USE DEF AgreeInv, FateInv
  <1>1. /\ ~Idle /\ response # None /\ response' = None /\ response.error \in BOOLEAN
        /\ UNCHANGED <<tdsVersion, connected, trancount, savepoints>>
        /\ UNCHANGED <<made, within, log, durable, lost>>
        /\ doubt' = doubt \cup
                      (IF canceled /\ request.op = "commit" THEN Within(Top) ELSE {})
        /\ canceled => connected
        /\ strayed => strayed'
    BY AnsweredRequest, NotNone DEF Responses, Answered, serverVars
  <1>2. (Regular' => Regular) /\ ~Committed' /\ (~connected => response.error)
    BY <1>1, Claimed DEF IndInv, TypeOK, Committed, AnswerInv
  <1>3. CASE /\ frames # <<>> /\ request' = None
             /\ \E outcome \in {"ok", "failed"} :
                   /\ Pop(outcome)
                   /\ \/ request.op \in {"begin", "save"} /\ outcome = "failed"
                      \/ request.op = "rollback" /\ outcome = "failed"
                      \/ /\ request.op = "commit"
                         /\ outcome = IF response.error \/ canceled THEN "failed" ELSE "ok"
    <2>1. PICK outcome \in {"ok", "failed"} :
              /\ Pop(outcome)
              /\ \/ request.op \in {"begin", "save"} /\ outcome = "failed"
                 \/ request.op = "rollback" /\ outcome = "failed"
                 \/ /\ request.op = "commit"
                    /\ outcome = IF response.error \/ canceled THEN "failed" ELSE "ok"
      BY <1>3
    <2>2. /\ WithinInv' /\ OpenIds' = OpenIds \ {Top.id}
          /\ \A g \in Frames : result'[g] = IF g = Top.id THEN outcome ELSE result[g]
          /\ frames' # <<>> => frames'[1] = frames[1] /\ frames[1].id # Top.id
      BY <1>1, <1>3, <2>1, PopKeepsWithin
    <2>3. /\ Len(frames') = Len(frames) - 1 /\ Len(frames) \in Nat \ {0}
          /\ \A i \in 1..Len(frames') : frames'[i] = frames[i]
          /\ frames' = <<>> => Len(frames) = 1 /\ Top = frames[1]
      BY <1>3, <2>1, Popped, CountPopped DEF IndInv
    <2>4. Top.id \in OpenIds /\ result[Top.id] = "none" /\ request'.op = "none"
      BY <1>3, TopIsOpen, NotNone DEF WithinInv
    <2>5. /\ \A f \in WorkedIn : within[f] \subseteq Frames
          /\ 1..made \subseteq Frames
      BY WorkedWithin
    <2>6. MarksInv'
      BY <1>1, <2>2, MarksKept
    <2>7. AnswerInv'
      BY <1>1, <1>3, <2>4 DEF AnswerInv, Idle
    <2>8. ASSUME NEW g \in 1..made, Failing(g)
          PROVE  Failing(g)'
      <3>1. CASE result[g] = "failed"
        BY <2>2, <2>4, <2>5, <3>1 DEF Failing
      <3>2. CASE Doomed(g) /\ g = Top.id /\ request.op = "rollback"
        BY <2>1, <2>2, <2>5, <3>2 DEF Failing
      <3>3. CASE /\ g = frames[1].id
                 /\ ~connected \/ (trancount = 0 /\ frames[1].phase # "starting" /\ ~Committed)
        <4>1. CASE frames' # <<>>
          BY <1>1, <1>2, <2>2, <3>3, <4>1 DEF Failing, Doomed
        <4>2. CASE frames' = <<>>
          <5>1. g = Top.id /\ Len(frames) = 1
            BY <2>3, <3>3, <4>2
          <5>2. outcome = "failed"
            BY <1>1, <1>2, <2>1, <3>3, <5>1 DEF Committed
          <5>3. QED
            BY <2>2, <2>5, <5>1, <5>2 DEF Failing
        <4>3. QED
          BY <4>1, <4>2
      <3>4. QED
        BY <2>8, <3>1, <3>2, <3>3 DEF Failing, Doomed
    <2>9. LogInv' /\ LostInv'
      BY <1>1, <1>2, <2>2, <2>7, <2>8, LogKept
    <2>10. SavesInv'
      <3>1. \A i \in 1..Len(frames') : i \in 1..Len(frames) /\ i # Len(frames)
        BY <2>3
      <3>2. QED
        BY <1>1, <1>2, <1>3, <2>2, <2>3, <3>1 DEF SavesInv
    <2>11. FailedInv'
      <3>1. SUFFICES ASSUME Regular
                     PROVE  FailedInv'
        BY <1>2 DEF FailedInv
      <3>2. ASSUME NEW f \in (durable \cup ToSet(log)) \ doubt', NEW g \in within[f]
            PROVE  result'[g] # "failed"
        <4>1. f \in (durable \cup ToSet(log)) \ doubt /\ f \in WorkedIn
          BY <1>1, <3>2 DEF WorkedIn
        <4>2. result[g] # "failed" /\ g \in Frames
          BY <2>5, <3>1, <3>2, <4>1 DEF FailedInv
        <4>3. g = Top.id => outcome # "failed"
          <5>1. SUFFICES ASSUME g = Top.id, outcome = "failed"
                         PROVE  FALSE
            OBVIOUS
          <5>2. CASE canceled /\ request.op = "commit"
            <6>1. f \in Within(Top)
              BY <3>2, <5>1 DEF Within
            <6>2. QED
              BY <1>1, <3>2, <5>2, <6>1
          <5>3. CASE ~(canceled /\ request.op = "commit")
            <6>1. \/ request.op \in {"begin", "save", "rollback"}
                  \/ request.op = "commit" /\ response.error
              BY <2>1, <5>1, <5>3
            <6>2. QED
              BY <1>1, <1>3, <3>1, <3>2, <4>1, <5>1, <6>1, FailsWithoutWork
          <5>4. QED
            BY <5>2, <5>3
        <4>4. QED
          BY <2>2, <4>2, <4>3
      <3>3. ASSUME NEW f \in durable \ doubt', NEW g \in within[f]
            PROVE  g \notin OpenIds'
        <4>1. g \in OpenIds => Committed
          BY <1>1, <3>1, <3>3 DEF FailedInv
        <4>2. Committed => OpenIds' = {}
          BY <2>3 DEF Committed, OpenIds
        <4>3. QED
          BY <2>2, <4>1, <4>2
      <3>4. QED
        BY <1>1, <2>4, <3>2, <3>3 DEF FailedInv
    <2>12. QED
      BY <2>2, <2>6, <2>7, <2>9, <2>10, <2>11
  <1>4. CASE /\ (frames # <<>> /\ Become("open")) \/ frames' = frames
             /\ request.op \notin Ends /\ (request.op = "save" => ~(response.error \/ canceled))
             /\ request'.op \in {"none", "isolation"}
             /\ (response.error \/ canceled) => request' = None
             /\ result' = result
    <2>1. /\ WithinInv' /\ OpenIds' = OpenIds
          /\ frames # <<>> => frames' # <<>> /\ frames'[1].id = frames[1].id
          /\ frames # <<>> /\ frames[1].phase # "starting" => frames'[1].phase # "starting"
          /\ Len(frames') = Len(frames) /\ (frames' # <<>> => frames # <<>>)
          /\ \A i \in 1..Len(frames) : /\ frames'[i].id = frames[i].id
                                       /\ frames'[i].kind = frames[i].kind
      <3>1. CASE frames # <<>> /\ Become("open")
        <4>1. /\ WithinInv' /\ OpenIds' = OpenIds /\ frames'[1].id = frames[1].id
              /\ frames'[1].phase # "starting"
          BY <1>1, <1>4, <3>1, TurnKeepsWithin
        <4>2. /\ frames' # <<>> /\ Len(frames') = Len(frames)
              /\ \A i \in 1..Len(frames) : /\ frames'[i].id = frames[i].id
                                           /\ frames'[i].kind = frames[i].kind
          BY <3>1, Became DEF IndInv
        <4>3. QED
          BY <3>1, <4>1, <4>2
      <3>2. CASE frames' = frames
        <4>1. WorkedIn' = WorkedIn
          BY <1>1 DEF WorkedIn
        <4>2. QED
          BY <1>1, <1>4, <3>2, <4>1, WorkKeepsWithin
      <3>3. QED
        BY <1>4, <3>1, <3>2
    <2>2. MarksInv'
      BY <1>1, <2>1, MarksKept
    <2>3. AnswerInv'
      BY <1>1, <1>2, <1>4 DEF AnswerInv, Idle
    <2>4. \A g \in 1..made : Failing(g) => Failing(g)'
      BY <1>1, <1>2, <1>4, <2>1 DEF Failing, Doomed, Ends
    <2>5. LogInv' /\ LostInv'
      BY <1>1, <1>2, <2>1, <2>3, <2>4, LogKept
    <2>6. SavesInv'
      BY <1>1, <1>2, <1>4, <2>1, TopIsOpen DEF SavesInv
    <2>7. ~Committed /\ doubt' = doubt
      BY <1>1, <1>4 DEF Committed, Ends
    <2>8. FailedInv'
      BY <1>1, <1>2, <1>4, <2>1, <2>7 DEF FailedInv
    <2>9. QED
      BY <2>1, <2>2, <2>3, <2>5, <2>6, <2>8
  <1>5. QED
    BY <1>3, <1>4, AnswerOutcome

-----------------------------------------------------------------------------
(* What the server does to work *)

\* A log that is cut, and what is cut off
LEMMA LogCut ==
  ASSUME NEW S, NEW s \in Seq(S), NEW m \in Nat, m <= Len(s)
  PROVE  /\ \A x : x \in ToSet(SubSeq(s, 1, m)) <=> \E k \in 1..m : s[k] = x
         /\ \A x : x \in ToSet(SubSeq(s, m + 1, Len(s))) <=> \E k \in m + 1..Len(s) : s[k] = x
  <1>1. Len(s) \in Nat /\ \A i \in 1..Len(s) : s[i] \in S
    BY ElementOfSeq, LenProperties
  <1>2. /\ SubSeq(s, 1, m) \in Seq(S) /\ Len(SubSeq(s, 1, m)) = m
        /\ \A i \in 1..m : SubSeq(s, 1, m)[i] = s[i]
    BY SubSeqFromOne
  <1> DEFINE t == SubSeq(s, m + 1, Len(s))
  <1>3. /\ t \in Seq(S)
        /\ Len(t) = IF m + 1 <= Len(s) THEN Len(s) - (m + 1) + 1 ELSE 0
        /\ \A i \in 1..Len(s) - (m + 1) + 1 : t[i] = s[m + 1 + i - 1]
    <2>1. \A i \in m + 1..Len(s) : s[i] \in S
      BY <1>1
    <2>2. QED
      BY <1>1, <2>1, SubSeqProperties
  <1> HIDE DEF t
  <1>4. \A x : x \in ToSet(t) <=> \E k \in m + 1..Len(s) : s[k] = x
    <2>1. Len(t) = Len(s) - m /\ \A i \in 1..Len(s) - m : t[i] = s[m + i]
      BY <1>1, <1>3
    <2>2. \A x : x \in ToSet(t) <=> \E i \in 1..Len(s) - m : s[m + i] = x
      BY <1>3, <2>1, InSequence
    <2>3. /\ \A i \in 1..Len(s) - m : m + i \in m + 1..Len(s)
          /\ \A k \in m + 1..Len(s) : k - m \in 1..Len(s) - m /\ m + (k - m) = k
      BY <1>1
    <2>4. QED
      BY <2>2, <2>3
  <1>5. \A x : x \in ToSet(SubSeq(s, 1, m)) <=> \E k \in 1..m : s[k] = x
    <2> DEFINE u == SubSeq(s, 1, m)
    <2>1. u \in Seq(S) /\ Len(u) = m /\ \A i \in 1..m : u[i] = s[i]
      BY <1>2
    <2> HIDE DEF u
    <2>2. \A x : x \in ToSet(u) <=> \E k \in 1..m : s[k] = x
      BY <2>1, InSequence
    <2>3. QED
      BY <2>2 DEF u
  <1>6. QED
    BY <1>4, <1>5 DEF t

\* One element more
LEMMA LogAppended ==
  ASSUME NEW S, NEW s \in Seq(S), NEW e \in S
  PROVE  /\ Len(Append(s, e)) = Len(s) + 1 /\ Append(s, e)[Len(s) + 1] = e
         /\ \A i \in 1..Len(s) : Append(s, e)[i] = s[i]
         /\ \A i \in 1..Len(Append(s, e)) : i \in 1..Len(s) \/ i = Len(s) + 1
         /\ ToSet(Append(s, e)) = ToSet(s) \cup {e}
  <1>1. /\ Append(s, e) \in Seq(S) /\ Len(s) \in Nat
        /\ Len(Append(s, e)) = Len(s) + 1 /\ Append(s, e)[Len(s) + 1] = e
        /\ \A i \in 1..Len(s) : Append(s, e)[i] = s[i]
    BY AppendProperties, LenProperties
  <1>2. /\ \A i \in 1..Len(Append(s, e)) : i \in 1..Len(s) \/ i = Len(s) + 1
        /\ \A i \in 1..Len(s) : i \in 1..Len(Append(s, e))
        /\ Len(s) + 1 \in 1..Len(Append(s, e))
    BY <1>1
  <1>3. \A x : x \in ToSet(Append(s, e)) <=> x \in ToSet(s) \cup {e}
    <2>1. /\ \A x : x \in ToSet(s) <=> \E k \in 1..Len(s) : s[k] = x
          /\ \A x : x \in ToSet(Append(s, e)) <=>
                       \E k \in 1..Len(Append(s, e)) : Append(s, e)[k] = x
      BY <1>1, InSequence
    <2>2. QED
      BY <1>1, <1>2, <2>1
  <1>4. QED
    BY <1>1, <1>2, <1>3

\* Work is done in a transaction.
LEMMA WorkIsInTransaction ==
  ASSUME AgreeInv, AnswerInv, Claim, response = None, request.op = "work"
  PROVE  trancount > 0
  <1> USE DEF AgreeInv
  <1>1. inTransaction /\ Idle = FALSE
    BY NotNone DEF AnswerInv, Idle
  <1>2. CASE Old
    <2>1. /\ trancount + Pending = Count(frames) /\ Pending = 0
          /\ Count(frames) \in Nat /\ trancount \in Nat
      BY <1>2, Counted DEF BeforeInv, Pending, Ends
    <2>2. frames # <<>> /\ frames[1].kind # "save"
      BY <1>1, RequestUnderWay DEF CountInv
    <2>3. QED
      BY <2>1, <2>2, Counted
  <1>3. CASE ~Old
    <2>1. Env = "none"
      BY DEF Env
    <2>2. inTransaction = (trancount > 0)
      BY <1>3, <2>1 DEF SinceInv, InTransactionAfter, Claim
    <2>3. QED
      BY <1>1, <2>2, Zenon
  <1>4. QED
    BY <1>2, <1>3

-----------------------------------------------------------------------------
\* What a request can do: nothing to work, one more savepoint, a commit, a rollback of
\* everything or to a savepoint, or work
Untouched == UNCHANGED <<log, savepoints, durable, lost>>
CanRefuse ==
    /\ trancount' = trancount
    /\ request.op \in {"begin", "save"} => response'.error
    /\ request.op = "commit" => trancount = 0 /\ response'.error
    /\ request.op = "rollback" =>
          \/ trancount = 0
          \/ /\ request.name \notin {Anonymous, tranName}
             /\ \A s \in 1..Len(savepoints) : savepoints[s].name # request.name

LEMMA ServerDoes ==
  ASSUME IndInv, ServerExecutes
  PROVE  \/ Untouched /\ CanRefuse
         \/ Untouched /\ request.op = "begin" /\ trancount' = trancount + 1
         \/ /\ Untouched /\ request.op = "commit" /\ ~response'.error
            /\ trancount > 1 /\ trancount' = trancount - 1
         \/ /\ request.op = "save" /\ trancount > 0
            /\ savepoints' = Append(savepoints, [name |-> request.name, mark |-> Len(log)])
            /\ UNCHANGED <<trancount, log, durable, lost>>
         \/ /\ request.op = "commit" /\ trancount = 1 /\ trancount' = 0 /\ ~response'.error
            /\ durable' = durable \cup ToSet(log) /\ lost' = lost
            /\ log' = <<>> /\ savepoints' = <<>>
         \/ request.op \in {"rollback", "work", "reset"} /\ trancount > 0 /\ RollBackAll
         \/ request.op = "rollback" /\ \E s \in 1..Len(savepoints) : ServerRollsBackTo(s)
         \/ /\ request.op = "work" /\ trancount > 0 /\ log' = Append(log, request.name)
            /\ UNCHANGED <<trancount, savepoints, durable, lost>>
         \/ /\ request.op = "work" /\ trancount = 0 /\ durable' = durable \cup {request.name}
            /\ UNCHANGED <<trancount, log, savepoints, lost>>
  <1>1. DOMAIN savepoints = 1..Len(savepoints) /\ trancount \in Nat
    BY LenProperties DEF IndInv, TypeOK
  <1>2. ASSUME NEW error, Unaffected(error)
        PROVE  Untouched /\ trancount' = trancount /\ response'.error = error
    BY <1>2 DEF Untouched, Unaffected, serverVars, Respond
  <1>3. CASE ServerBegins
    BY <1>3 DEF ServerBegins, Untouched
  <1>4. CASE ServerSaves
    BY <1>4 DEF ServerSaves
  <1>5. CASE ServerCommits
    <2>1. request.op = "commit" /\ trancount > 0 /\ trancount' = trancount - 1
          /\ response'.error = FALSE
      BY <1>5 DEF ServerCommits, Respond
    <2>2. CASE trancount = 1
      <3>1. /\ durable' = durable \cup ToSet(log) /\ lost' = lost
            /\ log' = <<>> /\ savepoints' = <<>>
        BY <1>5, <2>2 DEF ServerCommits
      <3>2. trancount' = 0
        BY <2>1, <2>2
      <3>3. QED
        BY <2>1, <2>2, <3>1, <3>2
    <2>3. CASE trancount > 1
      <3>1. trancount = 1 \/ UNCHANGED <<log, savepoints, durable, lost>>
        BY <1>5, Zenon DEF ServerCommits
      <3>2. QED
        BY <2>1, <2>3, <3>1 DEF Untouched
    <2>4. QED
      BY <1>1, <2>1, <2>2, <2>3
  <1>6. CASE ServerRollsBack
    BY <1>6 DEF ServerRollsBack
  <1>7. CASE ServerWorks
    <2>1. CASE \E error : Unaffected(error)
      BY <1>2, <1>7, <2>1 DEF ServerWorks, CanRefuse
    <2>2. CASE ~\E error : Unaffected(error)
      BY <1>7, <2>2 DEF ServerWorks, serverVars
    <2>3. QED
      BY <2>1, <2>2
  <1>8. CASE ServerResets
    BY <1>2, <1>8 DEF ServerResets, CanRefuse
  <1>9. CASE ServerRefuses
    <2>1. PICK error : Unaffected(error) /\ (request.op # "isolation" => error = TRUE)
      BY <1>9 DEF ServerRefuses
    <2>2. Untouched /\ trancount' = trancount /\ response'.error = error
      BY <1>2, <2>1
    <2>3. QED
      BY <1>1, <1>9, <2>1, <2>2 DEF ServerRefuses, CanRefuse
  <1>10. CASE \E s \in DOMAIN savepoints : ServerRollsBackTo(s)
    BY <1>1, <1>10 DEF ServerRollsBackTo
  <1>11. QED
    BY <1>3, <1>4, <1>5, <1>6, <1>7, <1>8, <1>9, <1>10 DEF ServerExecutes

\* What the server does not touch, and when it still regards what happens as before
LEMMA ServerFrame ==
  ASSUME AgreeInv, ServerExecutes
  PROVE  /\ ~Idle /\ response = None /\ response' # None /\ response'.error \in BOOLEAN
         /\ connected
         /\ UNCHANGED <<tdsVersion, inTransaction, connected, request, frames, made, within,
                        result, doubt>>
         /\ (Regular' => Claim) /\ (Regular' => Regular)
         /\ request.op # "reset" => frames # <<>>
         /\ request.op \in {"save", "work"} => request.name = Top.id
         /\ OpenIds' = OpenIds /\ Top' = Top /\ ~Committed
         /\ trancount \in Nat
  <1> USE DEF AgreeInv
  <1>1. /\ ~Idle /\ response = None /\ connected
        /\ UNCHANGED <<tdsVersion, inTransaction, connected, request, frames, made, within,
                       result, doubt>>
        /\ strayed => strayed'
    BY DEF ServerExecutes, clientVars, programVars
  <1>2. response' # None /\ response'.error \in BOOLEAN
    BY <1>1, ServerOutcome, NotNone DEF Responses
  <1>3. (Regular' => Regular) /\ (Regular' => Claim)
    BY <1>1, Claimed DEF IndInv, TypeOK
  <1>4. /\ request.op # "reset" => frames # <<>>
        /\ request.op \in {"save", "work"} => request.name = Top.id
    BY <1>1, RequestUnderWay
  <1>5. OpenIds' = OpenIds /\ Top' = Top /\ ~Committed
    BY <1>1 DEF OpenIds, Top, Committed
  <1>6. QED
    BY <1>1, <1>2, <1>3, <1>4, <1>5 DEF IndInv, TypeOK

-----------------------------------------------------------------------------
\* Work is only that of the innermost frame, and savepoints are set before it.
LEMMA ServerKeepsMarks ==
  ASSUME AgreeInv, FateInv, ServerExecutes
  PROVE  WithinInv' /\ MarksInv' /\ AnswerInv'
  <1> USE DEF AgreeInv, FateInv
  <1>1. /\ ~Idle /\ response = None /\ response' # None /\ connected
        /\ UNCHANGED <<inTransaction, connected, request, frames, made, within, result>>
        /\ request.op # "reset" => frames # <<>>
        /\ request.op \in {"save", "work"} => request.name = Top.id
        /\ OpenIds' = OpenIds /\ trancount \in Nat
    BY ServerFrame
  <1>2. /\ log \in Seq(Frames) /\ savepoints \in Seq(Savepoint)
        /\ Len(log) \in Nat /\ Len(savepoints) \in Nat
        /\ frames # <<>> => Top.id \in Frames /\ Top.id \in OpenIds
    BY Elements, TopFrame, TopIsOpen DEF IndInv, TypeOK
  <1>3. /\ request.op = "work" => Top.phase = "open"
        /\ request.op = "save" => Top.phase = "starting"
    BY <1>1 DEF IndInv, RequestInv, PhaseDuring, Starts, Ends
  <1>4. ASSUME WorkedIn' \subseteq WorkedIn \cup
                   (IF frames # <<>> /\ Top.phase = "open" THEN {Top.id} ELSE {})
        PROVE  WithinInv'
    BY <1>1, <1>4, WorkKeepsWithin
  <1>5. ASSUME request.op = "commit" /\ response'.error => trancount' = 0
        PROVE  AnswerInv'
    BY <1>1, <1>5 DEF AnswerInv
  <1>6. ASSUME UNCHANGED <<log, savepoints>>
        PROVE  MarksInv'
    BY <1>1, <1>6, MarksKept
  <1>7. CASE Untouched
    <2>1. WorkedIn' = WorkedIn
      BY <1>7 DEF Untouched, WorkedIn
    <2>2. request.op = "commit" /\ response'.error => trancount' = 0
      BY <1>1, <1>7, ServerDoes, EmptySeq DEF Untouched, CanRefuse, RollBackAll,
         ServerRollsBackTo
    <2>3. QED
      BY <1>4, <1>5, <1>6, <1>7, <2>1, <2>2 DEF Untouched
  <1>8. CASE /\ request.op = "save" /\ trancount > 0
             /\ savepoints' = Append(savepoints, [name |-> request.name, mark |-> Len(log)])
             /\ UNCHANGED <<trancount, log, durable, lost>>
    <2> DEFINE p == [name |-> request.name, mark |-> Len(log)]
    <2>1. p \in Savepoint /\ p.name = made /\ p.mark = Len(log)
      <3>1. frames # <<>> /\ request.name = Top.id /\ Top.id = made
        BY <1>1, <1>3, <1>8 DEF WithinInv
      <3>2. QED
        BY <1>2, <3>1 DEF Savepoint
    <2>2. /\ savepoints' = Append(savepoints, p)
          /\ \A k \in 1..Len(log) : made \notin within[log[k]]
      <3>1. \A k \in 1..Len(log) : /\ log[k] \in WorkedIn /\ log[k] \in 1..made
                                   /\ within[log[k]] \subseteq 1..log[k]
        BY WorkedWithin, LogOfTransaction DEF WithinInv, WorkedIn
      <3>2. made \notin WorkedIn /\ made \in Nat
        BY <1>1, <1>3, <1>8, WorkedWithin DEF WithinInv
      <3>3. \A f \in 1..made : f # made => made \notin 1..f
        BY <3>2
      <3>4. QED
        BY <1>8, <3>1, <3>2, <3>3
    <2> HIDE DEF p
    <2>3. /\ savepoints'[Len(savepoints) + 1] = p
          /\ \A s \in 1..Len(savepoints) : savepoints'[s] = savepoints[s]
          /\ \A s \in 1..Len(savepoints') : s \in 1..Len(savepoints) \/ s = Len(savepoints) + 1
      BY <1>2, <2>1, <2>2, LogAppended
    <2>4. \A s \in 1..Len(savepoints) : savepoints[s].name <= made /\ savepoints[s].name \in Nat
      BY Elements DEF IndInv, SavepointInv
    <2>5. ASSUME NEW s \in 1..Len(savepoints'), NEW t \in 1..Len(savepoints'), s <= t
          PROVE  savepoints'[s].name <= savepoints'[t].name
      <3>1. CASE t \in 1..Len(savepoints)
        <4>1. s \in 1..Len(savepoints)
          BY <1>2, <2>3, <2>5, <3>1
        <4>2. QED
          BY <2>3, <2>5, <3>1, <4>1 DEF MarksInv
      <3>2. CASE t = Len(savepoints) + 1
        <4>1. made \in Nat
          BY Elements DEF IndInv
        <4>2. QED
          BY <2>1, <2>3, <2>4, <3>2, <4>1
      <3>3. QED
        BY <2>3, <3>1, <3>2
    <2>6. ASSUME NEW s \in 1..Len(savepoints'), NEW k \in 1..Len(log')
          PROVE  /\ k <= savepoints'[s].mark => savepoints'[s].name \notin within'[log'[k]]
                 /\ k > savepoints'[s].mark /\ savepoints'[s].name \in OpenIds' =>
                       savepoints'[s].name \in within'[log'[k]]
      <3>1. CASE s \in 1..Len(savepoints)
        BY <1>1, <1>8, <2>3, <3>1 DEF MarksInv
      <3>2. CASE s = Len(savepoints) + 1
        BY <1>1, <1>2, <1>8, <2>1, <2>2, <2>3, <3>2
      <3>3. QED
        BY <2>3, <3>1, <3>2
    <2>7. WorkedIn' = WorkedIn
      BY <1>8 DEF WorkedIn
    <2>8. MarksInv'
      BY <2>5, <2>6 DEF MarksInv
    <2>9. QED
      BY <1>4, <1>5, <1>8, <2>7, <2>8
  <1>9. CASE /\ request.op \in {"commit", "rollback", "work", "reset"} /\ trancount' = 0
             /\ durable' \cup lost' \subseteq WorkedIn /\ log' = <<>> /\ savepoints' = <<>>
    <2>1. ToSet(log') = {} /\ Len(savepoints') = 0 /\ Len(log') = 0
      BY <1>9 DEF ToSet
    <2>2. WorkedIn' \subseteq WorkedIn
      BY <1>9, <2>1 DEF WorkedIn
    <2>3. MarksInv'
      BY <2>1 DEF MarksInv
    <2>4. QED
      BY <1>4, <1>5, <1>9, <2>2, <2>3
  <1>10. CASE request.op = "rollback" /\ \E s \in 1..Len(savepoints) : ServerRollsBackTo(s)
    <2>1. PICK s \in 1..Len(savepoints) : ServerRollsBackTo(s)
      BY <1>10
    <2>2. PICK m \in Nat : m = savepoints[s].mark
      BY Elements DEF IndInv
    <2>3. /\ m <= Len(log) /\ s <= Len(savepoints) /\ s \in Nat
      BY <1>2, <2>2 DEF IndInv, SavepointInv
    <2>4. /\ log' = SubSeq(log, 1, m) /\ savepoints' = SubSeq(savepoints, 1, s)
          /\ lost' = lost \cup ToSet(SubSeq(log, m + 1, Len(log))) /\ durable' = durable
      BY <2>1, <2>2 DEF ServerRollsBackTo
    <2>5. /\ Len(log') = m /\ \A k \in 1..m : log'[k] = log[k]
          /\ Len(savepoints') = s /\ \A t \in 1..s : savepoints'[t] = savepoints[t]
      <3>1. /\ Len(SubSeq(log, 1, m)) = m /\ \A k \in 1..m : SubSeq(log, 1, m)[k] = log[k]
        BY <1>2, <2>3, SubSeqFromOne
      <3>2. /\ Len(SubSeq(savepoints, 1, s)) = s
            /\ \A t \in 1..s : SubSeq(savepoints, 1, s)[t] = savepoints[t]
        BY <1>2, <2>3, SubSeqFromOne
      <3>3. QED
        BY <2>4, <3>1, <3>2
    <2>6. /\ \A k \in 1..m : k \in 1..Len(log)
          /\ \A t \in 1..s : t \in 1..Len(savepoints)
      BY <1>2, <2>3
    <2>7. MarksInv'
      BY <1>1, <2>5, <2>6 DEF MarksInv
    <2>8. WorkedIn' \subseteq WorkedIn
      <3>1. /\ ToSet(SubSeq(log, 1, m)) \subseteq ToSet(log)
            /\ ToSet(SubSeq(log, m + 1, Len(log))) \subseteq ToSet(log)
        <4>1. /\ \A x : x \in ToSet(SubSeq(log, 1, m)) <=> \E k \in 1..m : log[k] = x
              /\ \A x : x \in ToSet(SubSeq(log, m + 1, Len(log))) <=>
                           \E k \in m + 1..Len(log) : log[k] = x
              /\ \A x : x \in ToSet(log) <=> \E k \in 1..Len(log) : log[k] = x
          BY <1>2, <2>2, <2>3, LogCut, InSequence
        <4>2. \A k \in m + 1..Len(log) : k \in 1..Len(log)
          BY <1>2, <2>3
        <4>3. QED
          BY <2>6, <4>1, <4>2
      <3>2. QED
        BY <2>4, <3>1 DEF WorkedIn
    <2>9. QED
      BY <1>4, <1>5, <1>10, <2>7, <2>8
  <1>11. CASE /\ request.op = "work" /\ log' = Append(log, request.name)
              /\ UNCHANGED <<trancount, savepoints, durable, lost>>
    <2>1. /\ frames # <<>> /\ Top.phase = "open" /\ Top.id \in Frames
          /\ log' = Append(log, Top.id)
      BY <1>1, <1>2, <1>3, <1>11
    <2>2. /\ log'[Len(log) + 1] = Top.id /\ \A k \in 1..Len(log) : log'[k] = log[k]
          /\ \A k \in 1..Len(log') : k \in 1..Len(log) \/ k = Len(log) + 1
          /\ ToSet(log') = ToSet(log) \cup {Top.id}
      BY <1>2, <2>1, LogAppended
    <2>3. ASSUME NEW s \in 1..Len(savepoints'), NEW k \in 1..Len(log')
          PROVE  /\ k <= savepoints'[s].mark => savepoints'[s].name \notin within'[log'[k]]
                 /\ k > savepoints'[s].mark /\ savepoints'[s].name \in OpenIds' =>
                       savepoints'[s].name \in within'[log'[k]]
      <3>1. CASE k \in 1..Len(log)
        BY <1>1, <1>11, <2>2, <2>3, <3>1 DEF MarksInv
      <3>2. CASE k = Len(log) + 1
        <4>1. ~(k <= savepoints[s].mark)
          <5>1. savepoints[s].mark <= Len(log) /\ savepoints[s].mark \in Nat
            BY <1>11, <2>3, Elements DEF IndInv, SavepointInv
          <5>2. QED
            BY <1>2, <3>2, <5>1
        <4>2. within[Top.id] = OpenIds
          BY <2>1, WithinTop
        <4>3. QED
          BY <1>1, <1>11, <2>2, <3>2, <4>1, <4>2
      <3>3. QED
        BY <2>2, <2>3, <3>1, <3>2
    <2>4. MarksInv'
      BY <1>11, <2>3 DEF MarksInv
    <2>5. WorkedIn' = WorkedIn \cup {Top.id}
      BY <1>11, <2>2 DEF WorkedIn
    <2>6. QED
      BY <1>4, <1>5, <1>11, <2>1, <2>4, <2>5
  <1>12. CASE /\ request.op = "work" /\ durable' = durable \cup {request.name}
              /\ UNCHANGED <<log, savepoints, lost>>
    <2>1. WorkedIn' = WorkedIn \cup {Top.id} /\ frames # <<>> /\ Top.phase = "open"
      BY <1>1, <1>3, <1>12 DEF WorkedIn
    <2>2. QED
      BY <1>4, <1>5, <1>6, <1>12, <2>1
  <1>13. QED
    BY <1>7, <1>8, <1>9, <1>10, <1>11, <1>12, ServerDoes DEF RollBackAll, WorkedIn

-----------------------------------------------------------------------------
\* A request that ends the innermost frame names it, or its transaction.
LEMMA FrameThatEnds ==
  ASSUME AgreeInv, Claim, ~Idle, response = None, request.op = "rollback", trancount > 0,
         NEW s \in 1..Len(savepoints), savepoints[s].name = request.name
  PROVE  savepoints[s].name = Top.id
  <1> USE DEF AgreeInv
  <1>1. savepoints[s].name # Anonymous
    <2>1. savepoints[s] \in Savepoint
      BY Elements DEF IndInv
    <2>2. \A p \in Savepoint : p.name # Anonymous
      BY BoundAssumption DEF Savepoint, Frames, Anonymous
    <2>3. QED
      BY <2>1, <2>2
  <1>2. request.name = NameOf(Top)
    BY RequestUnderWay DEF IndInv, RequestInv
  <1>3. QED
    BY <1>1, <1>2 DEF NameOf

\* A rollback is not refused while there is something to roll back.
LEMMA RollbackIsPossible ==
  ASSUME AgreeInv, SavesInv, Regular, connected, ~Idle, response = None,
         request.op = "rollback", trancount > 0, request.name \notin {Anonymous, tranName}
  PROVE  \E s \in 1..Len(savepoints) : savepoints[s].name = request.name
  <1> USE DEF AgreeInv
  <1>1. /\ frames # <<>> /\ request.name = NameOf(Top) /\ Claim
        /\ Top = frames[Len(frames)] /\ Len(frames) \in 1..Len(frames)
        /\ Top.kind \in Kinds /\ Len(frames) \in Nat \ {0}
    BY RequestUnderWay, TopFrame, Claimed DEF IndInv, RequestInv, FrameRecord
  <1>2. Top.kind # "manual"
    BY <1>1 DEF NameOf
  <1>3. Top.kind # "begin"
    <2>1. SUFFICES ASSUME frames[Len(frames)].kind = "begin"
                   PROVE  FALSE
      BY <1>1
    <2>2. Len(frames) <= 1
      BY <1>1, <2>1, OnlyFirstBegins
    <2>3. Top = frames[1]
      BY <1>1, <2>2
    <2>4. tranName = NameOf(frames[1])
      BY <1>1 DEF CountInv
    <2>5. QED
      BY <1>1, <2>3, <2>4
  <1>4. frames[Len(frames)].kind = "save" /\ request.name = frames[Len(frames)].id
    BY <1>1, <1>2, <1>3 DEF Kinds, NameOf
  <1>5. QED
    BY <1>1, <1>4 DEF SavesInv

\* A savepoint is set, kept or left by a rollback to it.
LEMMA ServerKeepsSaves ==
  ASSUME AgreeInv, AgreeInv', FateInv, ServerExecutes
  PROVE  SavesInv'
  <1> USE DEF AgreeInv, FateInv
  <1>1. /\ ~Idle /\ response = None /\ response' # None /\ response'.error \in BOOLEAN
        /\ connected /\ UNCHANGED <<connected, request, frames>>
        /\ (Regular' => Claim) /\ (Regular' => Regular)
        /\ request.op # "reset" => frames # <<>>
        /\ request.op \in {"save", "work"} => request.name = Top.id
        /\ OpenIds' = OpenIds /\ trancount \in Nat
    BY ServerFrame
  <1>2. SUFFICES ASSUME Regular, Claim, trancount' > 0,
                        NEW i \in 1..Len(frames), frames[i].kind = "save"
                 PROVE  \/ i = Len(frames) /\ request.op = "save" /\ response'.error
                        \/ \E s \in 1..Len(savepoints') : savepoints'[s].name = frames[i].id
    BY <1>1 DEF SavesInv
  <1>3. /\ savepoints \in Seq(Savepoint) /\ Len(savepoints) \in Nat /\ frames[1].kind # "save"
        /\ trancount > 0 =>
              \/ i = Len(frames) /\ request.op = "save"
              \/ \E s \in 1..Len(savepoints) : savepoints[s].name = frames[i].id
    <2>1. frames # <<>>
      BY <1>2, EmptySeq
    <2>2. savepoints \in Seq(Savepoint) /\ Len(savepoints) \in Nat
      BY Elements DEF IndInv, TypeOK
    <2>3. QED
      BY <1>1, <1>2, <2>1, <2>2 DEF SavesInv
  <1>4. CASE Untouched
    <2>1. trancount > 0
      <3>1. CASE request.op = "begin"
        BY <1>1, <1>2, <1>3, <3>1, FirstBegins DEF Claim, Followed
      <3>2. CASE request.op # "begin"
        <4>1. trancount = 0 => Len(savepoints) = 0
          BY DEF IndInv, SavepointInv
        <4>2. trancount = 0 => trancount' = 0
          BY <1>3, <3>2, <4>1, ServerDoes DEF CanRefuse
        <4>3. QED
          BY <1>1, <1>2, <4>2
      <3>3. QED
        BY <3>1, <3>2
    <2>2. request.op = "save" => response'.error
      <3>1. ASSUME savepoints' = Append(savepoints, [name |-> request.name, mark |-> Len(log)]),
                   request.op = "save"
            PROVE  FALSE
        <4>1. [name |-> request.name, mark |-> Len(log)] \in Savepoint
          BY <1>1, <3>1, RequestUnderWay, Elements DEF IndInv, Savepoint
        <4>2. Len(savepoints') = Len(savepoints) + 1
          BY <1>3, <3>1, <4>1, LogAppended
        <4>3. QED
          BY <1>3, <1>4, <4>2 DEF Untouched
      <3>2. QED
        BY <3>1, ServerDoes DEF CanRefuse
    <2>3. QED
      BY <1>3, <1>4, <2>1, <2>2 DEF Untouched
  <1>5. CASE /\ request.op = "save" /\ trancount > 0
             /\ savepoints' = Append(savepoints, [name |-> request.name, mark |-> Len(log)])
    <2> DEFINE p == [name |-> request.name, mark |-> Len(log)]
    <2>1. p \in Savepoint /\ p.name = Top.id /\ savepoints' = Append(savepoints, p)
      BY <1>1, <1>5, RequestUnderWay, Elements DEF IndInv, Savepoint
    <2> HIDE DEF p
    <2>2. /\ Len(savepoints') = Len(savepoints) + 1
          /\ savepoints'[Len(savepoints) + 1] = p
          /\ \A s \in 1..Len(savepoints) : savepoints'[s] = savepoints[s]
      BY <1>3, <2>1, LogAppended
    <2>3. /\ Len(savepoints) + 1 \in 1..Len(savepoints')
          /\ \A s \in 1..Len(savepoints) : s \in 1..Len(savepoints')
      BY <1>3, <2>2
    <2>4. Top = frames[Len(frames)]
      BY <1>1, <1>5, TopFrame DEF IndInv
    <2>5. QED
      BY <1>3, <1>5, <2>1, <2>2, <2>3, <2>4
  <1>6. CASE trancount' = 0
    BY <1>2, <1>6
  <1>7. CASE request.op = "rollback" /\ \E s \in 1..Len(savepoints) : ServerRollsBackTo(s)
    <2>1. PICK s \in 1..Len(savepoints) : ServerRollsBackTo(s)
      BY <1>7
    <2>2. /\ trancount' = trancount /\ savepoints[s].name = request.name
          /\ savepoints' = SubSeq(savepoints, 1, s)
      BY <2>1 DEF ServerRollsBackTo
    <2>3. s \in Nat /\ s <= Len(savepoints)
      BY <1>3
    <2>4. /\ Len(savepoints') = s /\ \A t \in 1..s : savepoints'[t] = savepoints[t]
          /\ s \in 1..s
      BY <1>3, <2>2, <2>3, SubSeqFromOne
    <2>5. savepoints[s].name = Top.id
      BY <1>1, <1>2, <1>7, <2>2, FrameThatEnds
    <2>6. PICK t \in 1..Len(savepoints) : savepoints[t].name = frames[i].id
      BY <1>2, <1>3, <1>7, <2>2
    <2>7. CASE t <= s
      <3>1. t \in 1..s
        BY <1>3, <2>3, <2>7
      <3>2. QED
        BY <2>4, <2>6, <3>1
    <2>8. CASE s <= t
      <3>1. savepoints[s].name <= savepoints[t].name
        BY <2>8 DEF MarksInv
      <3>2. frames[i].id <= Top.id
        BY <1>1, <1>2, <1>7, TopIsOpen DEF OpenIds
      <3>3. frames[i].id = Top.id
        BY <2>5, <2>6, <3>1, <3>2, Elements DEF IndInv
      <3>4. QED
        BY <2>4, <2>5, <3>3
    <2>9. QED
      BY <1>3, <2>3, <2>7, <2>8
  <1>8. CASE request.op = "work" /\ UNCHANGED <<trancount, savepoints>>
    BY <1>2, <1>3, <1>8
  <1>9. QED
    BY <1>4, <1>5, <1>6, <1>7, <1>8, ServerDoes DEF RollBackAll

-----------------------------------------------------------------------------
\* A frame that has failed, or will, is not saved by what the server does.
LEMMA FailingStays ==
  ASSUME AgreeInv, FateInv, ServerExecutes, Regular, Claim, NEW g, Failing(g)
  PROVE  Failing(g)'
  <1> USE DEF AgreeInv, FateInv
  <1>1. /\ ~Idle /\ response = None /\ connected
        /\ UNCHANGED <<connected, request, frames, result>> /\ Top' = Top /\ ~Committed
        /\ trancount \in Nat
    BY ServerFrame
  <1>2. CASE result[g] = "failed" \/ (frames # <<>> /\ g = Top.id /\ request.op = "rollback")
    BY <1>1, <1>2 DEF Failing, Doomed
  <1>3. CASE frames # <<>> /\ g = frames[1].id /\ trancount = 0 /\ frames[1].phase # "starting"
    <2>1. request.op # "begin"
      <3>1. SUFFICES ASSUME request.op = "begin"
                     PROVE  FALSE
        OBVIOUS
      <3>2. Top = frames[1]
        BY <1>1, <1>3, <3>1, FirstBegins DEF Claim, Followed
      <3>3. Top.phase = "starting"
        BY <1>3, <3>1 DEF IndInv, RequestInv, PhaseDuring, Starts, Ends
      <3>4. QED
        BY <1>3, <3>2, <3>3
    <2>2. request.op # "work"
      BY <1>1, <1>3, WorkIsInTransaction
    <2>3. savepoints = <<>> /\ Len(savepoints) = 0
      BY <1>3 DEF IndInv, SavepointInv
    <2>4. CanRefuse
      BY <1>1, <1>3, <2>1, <2>2, <2>3, ServerDoes
    <2>5. trancount' = 0 /\ ~Committed'
      BY <1>1, <1>3, <2>4 DEF CanRefuse, Committed
    <2>6. QED
      BY <1>1, <1>3, <2>5 DEF Failing, Doomed
  <1>4. QED
    BY <1>1, <1>2, <1>3 DEF Failing, Doomed

\* Work that is lost is lost with its frame, or with the outermost one.
LEMMA ServerKeepsLost ==
  ASSUME AgreeInv, FateInv, ServerExecutes
  PROVE  LogInv' /\ LostInv'
  <1> USE DEF AgreeInv, FateInv
  <1>1. /\ ~Idle /\ response = None /\ connected
        /\ UNCHANGED <<connected, request, frames, made, within, result>>
        /\ (Regular' => Claim) /\ (Regular' => Regular)
        /\ request.op # "reset" => frames # <<>>
        /\ request.op \in {"save", "work"} => request.name = Top.id
        /\ OpenIds' = OpenIds /\ Top' = Top /\ trancount \in Nat
    BY ServerFrame
  <1>2. SUFFICES ASSUME Regular, Claim
                 PROVE  /\ \A f \in ToSet(log') : frames # <<>> /\ frames[1].id \in within[f]
                        /\ \A f \in lost' : \E g \in within[f] : Failing(g)'
    BY <1>1 DEF LogInv, LostInv
  <1>3. /\ \A f \in ToSet(log) : frames # <<>> /\ frames[1].id \in within[f]
        /\ \A f \in lost : \E g \in within[f] : Failing(g)'
    BY <1>2, FailingStays DEF LogInv, LostInv
  <1>4. log \in Seq(Frames) /\ Len(log) \in Nat /\ (frames # <<>> => Top.id \in Frames)
    BY Elements, TopFrame DEF IndInv, TypeOK
  <1>5. CASE UNCHANGED <<log, lost>>
    BY <1>3, <1>5
  <1>6. CASE log' = <<>> /\ lost' = lost
    <2>1. ToSet(log') = {}
      BY <1>6 DEF ToSet
    <2>2. QED
      BY <1>3, <1>6, <2>1
  <1>7. CASE request.op \in {"rollback", "work", "reset"} /\ RollBackAll
    <2>1. log' = <<>> /\ trancount' = 0 /\ lost' = lost \cup ToSet(log)
      BY <1>7 DEF RollBackAll
    <2>2. ToSet(log') = {}
      BY <2>1 DEF ToSet
    <2>3. frames # <<>> => frames[1].phase # "starting"
      <3>1. SUFFICES ASSUME frames # <<>>
                     PROVE  frames[1].phase # "starting"
        OBVIOUS
      <3>2. Top.phase # "starting" /\ Top = frames[Len(frames)] /\ Len(frames) \in Nat \ {0}
        BY <1>7, <3>1, TopFrame DEF IndInv, RequestInv, PhaseDuring, Starts, Ends
      <3>3. 1 < Len(frames) => frames[1].phase = "open"
        BY <3>2 DEF IndInv, FramesInv
      <3>4. QED
        BY <3>2, <3>3
    <2>4. frames # <<>> => \A g : g = frames[1].id => Failing(g)'
      BY <1>1, <1>7, <2>1, <2>3 DEF Failing, Doomed, Committed
    <2>5. QED
      BY <1>3, <2>1, <2>2, <2>4
  <1>8. CASE request.op = "rollback" /\ \E s \in 1..Len(savepoints) : ServerRollsBackTo(s)
    <2>1. PICK s \in 1..Len(savepoints) : ServerRollsBackTo(s)
      BY <1>8
    <2>2. PICK m \in Nat : m = savepoints[s].mark
      BY Elements DEF IndInv
    <2>3. m <= Len(log)
      BY <2>2 DEF IndInv, SavepointInv
    <2>4. /\ log' = SubSeq(log, 1, m) /\ lost' = lost \cup ToSet(SubSeq(log, m + 1, Len(log)))
          /\ savepoints[s].name = request.name
      BY <2>1, <2>2 DEF ServerRollsBackTo
    <2>5. /\ \A x : x \in ToSet(SubSeq(log, 1, m)) <=> \E k \in 1..m : log[k] = x
          /\ \A x : x \in ToSet(SubSeq(log, m + 1, Len(log))) <=>
                       \E k \in m + 1..Len(log) : log[k] = x
          /\ \A x : x \in ToSet(log) <=> \E k \in 1..Len(log) : log[k] = x
      BY <1>4, <2>3, LogCut, InSequence
    <2>6. \A k \in 1..m : k \in 1..Len(log)
      BY <1>4, <2>3
    <2>7. trancount > 0
      <3>1. savepoints # <<>>
        BY <2>1, EmptySeq
      <3>2. QED
        BY <1>1, <3>1 DEF IndInv, SavepointInv
    <2>8. savepoints[s].name = Top.id /\ Top.id \in OpenIds
      BY <1>1, <1>2, <1>8, <2>4, <2>7, FrameThatEnds, TopIsOpen
    <2>9. \A f \in ToSet(SubSeq(log, m + 1, Len(log))) : Top.id \in within[f]
      <3>1. \A k \in m + 1..Len(log) : k \in 1..Len(log) /\ k > m
        BY <1>4, <2>3
      <3>2. QED
        BY <2>2, <2>5, <2>8, <3>1 DEF MarksInv
    <2>10. \A g : g = Top.id => Failing(g)'
      BY <1>1, <1>8 DEF Failing, Doomed
    <2>11. QED
      BY <1>3, <2>4, <2>5, <2>6, <2>9, <2>10
  <1>9. CASE /\ request.op = "work" /\ log' = Append(log, request.name) /\ lost' = lost
    <2>1. ToSet(log') = ToSet(log) \cup {Top.id}
      BY <1>1, <1>4, <1>9, LogAppended
    <2>2. within[Top.id] = OpenIds /\ frames[1].id \in OpenIds
      BY <1>1, <1>9, WithinTop, TopIsOpen
    <2>3. QED
      BY <1>1, <1>3, <1>9, <2>1, <2>2
  <1>10. QED
    BY <1>5, <1>6, <1>7, <1>8, <1>9, ServerDoes DEF Untouched

\* What is committed is the work of the one transaction that was open, when it is
\* committed; a rollback leaves nothing of its frame.
LEMMA ServerKeepsFailed ==
  ASSUME AgreeInv, FateInv, ServerExecutes
  PROVE  FailedInv'
  <1> USE DEF AgreeInv, FateInv
  <1>1. /\ ~Idle /\ response = None /\ response' # None /\ connected
        /\ UNCHANGED <<connected, request, frames, made, within, result, doubt>>
        /\ (Regular' => Claim) /\ (Regular' => Regular)
        /\ request.op # "reset" => frames # <<>>
        /\ request.op \in {"save", "work"} => request.name = Top.id
        /\ OpenIds' = OpenIds /\ Top' = Top /\ ~Committed /\ trancount \in Nat
    BY ServerFrame
  <1>2. SUFFICES ASSUME Regular, Claim
                 PROVE  /\ request.op = "rollback" =>
                              \A f \in ToSet(log') : Top.id \notin within[f]
                        /\ \A f \in (durable' \cup ToSet(log')) \ doubt :
                              \A g \in within[f] : result[g] # "failed"
                        /\ \A f \in durable' \ doubt :
                              \A g \in within[f] : g \in OpenIds => Committed'
    BY <1>1 DEF FailedInv
  <1>3. /\ \A f \in (durable \cup ToSet(log)) \ doubt : \A g \in within[f] : result[g] # "failed"
        /\ \A f \in durable \ doubt : \A g \in within[f] : g \notin OpenIds
    BY <1>1, <1>2 DEF FailedInv
  <1>4. log \in Seq(Frames) /\ Len(log) \in Nat /\ (frames # <<>> => Top.id \in Frames)
    BY Elements, TopFrame DEF IndInv, TypeOK
  <1>5. CASE Untouched /\ request.op # "rollback"
    BY <1>3, <1>5 DEF Untouched
  <1>6. CASE Untouched /\ CanRefuse /\ request.op = "rollback"
    <2>1. trancount = 0
      BY <1>1, <1>2, <1>6, RollbackIsPossible DEF CanRefuse
    <2>2. ToSet(log') = {}
      BY <1>6, <2>1, LogOfTransaction DEF Untouched
    <2>3. QED
      BY <1>3, <1>6, <2>2 DEF Untouched
  <1>7. CASE request.op = "save" /\ UNCHANGED <<log, durable>>
    BY <1>3, <1>7
  <1>8. CASE /\ request.op = "commit" /\ trancount = 1 /\ ~response'.error
             /\ durable' = durable \cup ToSet(log) /\ log' = <<>>
    <2>1. ToSet(log') = {}
      BY <1>8 DEF ToSet
    <2>2. Len(frames) = 1
      <3>1. frames # <<>> /\ Top.kind # "save" /\ Pending = 0
        BY <1>1, <1>8 DEF IndInv, RequestInv, Pending, Ends
      <3>2. Count(frames) = 1 /\ frames[1].kind # "save"
        BY <1>2, <1>8, <3>1 DEF CountInv
      <3>3. QED
        BY <3>1, <3>2, Counted
    <2>3. Committed'
      BY <1>1, <1>8, <2>2 DEF Committed
    <2>4. QED
      BY <1>3, <1>8, <2>1, <2>3
  <1>9. CASE RollBackAll
    <2>1. durable' = durable /\ ToSet(log') = {}
      BY <1>9 DEF RollBackAll, ToSet
    <2>2. QED
      BY <1>3, <2>1
  <1>10. CASE request.op = "rollback" /\ \E s \in 1..Len(savepoints) : ServerRollsBackTo(s)
    <2>1. PICK s \in 1..Len(savepoints) : ServerRollsBackTo(s)
      BY <1>10
    <2>2. PICK m \in Nat : m = savepoints[s].mark
      BY Elements DEF IndInv
    <2>3. m <= Len(log)
      BY <2>2 DEF IndInv, SavepointInv
    <2>4. /\ log' = SubSeq(log, 1, m) /\ durable' = durable
          /\ savepoints[s].name = request.name
      BY <2>1, <2>2 DEF ServerRollsBackTo
    <2>5. /\ \A x : x \in ToSet(SubSeq(log, 1, m)) <=> \E k \in 1..m : log[k] = x
          /\ \A x : x \in ToSet(log) <=> \E k \in 1..Len(log) : log[k] = x
      BY <1>4, <2>3, LogCut, InSequence
    <2>6. \A k \in 1..m : k \in 1..Len(log) /\ k <= m
      BY <1>4, <2>3
    <2>7. trancount > 0
      <3>1. savepoints # <<>>
        BY <2>1, EmptySeq
      <3>2. QED
        BY <1>1, <3>1 DEF IndInv, SavepointInv
    <2>8. savepoints[s].name = Top.id
      BY <1>1, <1>2, <1>10, <2>4, <2>7, FrameThatEnds
    <2>9. \A f \in ToSet(log') : Top.id \notin within[f] /\ f \in ToSet(log)
      BY <2>2, <2>4, <2>5, <2>6, <2>8 DEF MarksInv
    <2>10. QED
      BY <1>3, <2>4, <2>9
  <1>11. CASE request.op = "work" /\ log' = Append(log, request.name) /\ durable' = durable
    <2>1. ToSet(log') = ToSet(log) \cup {Top.id}
      BY <1>1, <1>4, <1>11, LogAppended
    <2>2. \A g \in within[Top.id] : result[g] = "none"
      BY <1>1, <1>11, WithinTop DEF WithinInv
    <2>3. QED
      BY <1>3, <1>11, <2>1, <2>2
  <1>12. CASE request.op = "work" /\ trancount = 0
    BY <1>1, <1>2, <1>12, WorkIsInTransaction
  <1>13. QED
    BY <1>5, <1>6, <1>7, <1>8, <1>9, <1>10, <1>11, <1>12, ServerDoes

LEMMA ServerKeepsFate ==
  ASSUME AgreeInv, AgreeInv', FateInv, ServerExecutes
  PROVE  FateInv'
  BY ServerKeepsMarks, ServerKeepsSaves, ServerKeepsLost, ServerKeepsFailed DEF FateInv

-----------------------------------------------------------------------------
\* A request that is skipped leaves work as it is, and so does a cancel.
LEMMA SkipKeepsFate ==
  ASSUME AgreeInv, AgreeInv', FateInv, ServerSkips
  PROVE  FateInv'
  <1> USE DEF AgreeInv, FateInv
  <1>1. /\ ~Idle /\ connected /\ response = None /\ response' # None
        /\ UNCHANGED <<tdsVersion, inTransaction, connected, request, frames, made, within,
                       result, trancount, log, savepoints, durable, lost, doubt>>
        /\ strayed => strayed'
        /\ ~strayed' => /\ ~Old /\ request.op \notin {"commit", "rollback"}
                        /\ request.op \in {"begin", "save"} => response'.error
    BY SkipsNothing
  <1>2. /\ OpenIds' = OpenIds /\ WorkedIn' = WorkedIn /\ Top' = Top
        /\ (Regular' => Regular) /\ (Regular' => request.op \notin {"commit", "rollback"})
    BY <1>1 DEF OpenIds, WorkedIn, Top, Regular
  <1>3. WithinInv'
    BY <1>1, <1>2, WorkKeepsWithin
  <1>4. MarksInv'
    BY <1>1, <1>2, MarksKept
  <1>5. AnswerInv'
    BY <1>1, <1>2 DEF AnswerInv
  <1>6. SavesInv'
    BY <1>1, <1>2 DEF SavesInv, Regular
  <1>7. ASSUME Regular'
        PROVE  /\ ~Committed /\ ~Committed'
               /\ \A g : Failing(g) => Failing(g)'
    <2>1. ~Committed /\ ~Committed'
      BY <1>1, <1>2, <1>7 DEF Committed
    <2>2. QED
      BY <1>1, <1>2, <2>1 DEF Failing, Doomed
  <1>8. LogInv' /\ LostInv'
    <2>1. CASE Regular'
      BY <1>1, <1>2, <1>5, <1>7, <2>1, LogKept
    <2>2. CASE ~Regular'
      BY <2>2 DEF LogInv, LostInv
    <2>3. QED
      BY <2>1, <2>2
  <1>9. FailedInv'
    BY <1>1, <1>2, <1>7 DEF FailedInv
  <1>10. QED
    BY <1>3, <1>4, <1>5, <1>6, <1>8, <1>9

LEMMA CancelKeepsFate ==
  ASSUME AgreeInv, AgreeInv', FateInv, NEW way \in Ways, Cancel(way)
  PROVE  FateInv'
  <1>1. /\ ~Idle /\ ~Idle' /\ request'.op = request.op
        /\ UNCHANGED <<tdsVersion, inTransaction, connected, response, frames, made, within,
                       result, trancount, log, savepoints, durable, lost, doubt, strayed>>
    BY CancelsRequest DEF AgreeInv
  <1>2. /\ OpenIds' = OpenIds /\ WorkedIn' = WorkedIn /\ Top' = Top /\ Regular' = Regular
        /\ Committed' = Committed
    BY <1>1 DEF OpenIds, WorkedIn, Top, Regular, Committed
  <1>3. \A g : Failing(g)' = Failing(g)
    BY <1>1, <1>2 DEF Failing, Doomed
  <1>4. WithinInv'
    BY <1>1, <1>2, WorkKeepsWithin DEF FateInv, AgreeInv
  <1>5. MarksInv' /\ AnswerInv' /\ SavesInv'
    BY <1>1, <1>2 DEF FateInv, MarksInv, AnswerInv, SavesInv
  <1>6. LogInv' /\ LostInv' /\ FailedInv'
    BY <1>1, <1>2, <1>3 DEF FateInv, LogInv, LostInv, FailedInv
  <1>7. QED
    BY <1>4, <1>5, <1>6 DEF FateInv

-----------------------------------------------------------------------------
\* Without the connection the outermost frame is doomed, and a commit is in doubt.
LEMMA LossKeepsFate ==
  ASSUME AgreeInv, FateInv, ConnectionLost
  PROVE  FateInv'
  <1> USE DEF AgreeInv, FateInv
  <1>1. /\ connected /\ ~connected' /\ RollBackAll
        /\ response' = IF Idle THEN None ELSE [error |-> TRUE, env |-> "none"]
        /\ doubt' = doubt \cup (IF ~Idle /\ request.op = "commit" THEN Within(Top) ELSE {})
        /\ UNCHANGED <<tdsVersion, inTransaction, request, frames, made, within, result, strayed>>
    BY DEF ConnectionLost, programVars
  <1>2. /\ trancount' = 0 /\ log' = <<>> /\ savepoints' = <<>> /\ durable' = durable
        /\ lost' = lost \cup ToSet(log)
    BY <1>1 DEF RollBackAll
  <1>3. ToSet(log') = {} /\ Len(savepoints') = 0
    BY <1>2 DEF ToSet
  <1>4. /\ (Regular' <=> Regular) /\ (Idle' <=> Idle) /\ Top' = Top
        /\ frames # <<>> => \A g : g = frames[1].id => Failing(g)'
    BY <1>1 DEF Regular, Old, Idle, Top, Doomed, Failing
  <1>5. WithinInv' /\ OpenIds' = OpenIds
    <2>1. WorkedIn' = WorkedIn
      BY <1>2, <1>3 DEF WorkedIn
    <2>2. QED
      BY <1>1, <2>1, WorkKeepsWithin
  <1>6. MarksInv'
    BY <1>3 DEF MarksInv
  <1>7. AnswerInv'
    <2>1. ~Idle => response' # None /\ response'.error = TRUE
      <3>1. [error |-> TRUE, env |-> "none"] \in Responses
        BY DEF Responses, EnvChanges
      <3>2. QED
        BY <1>1, <3>1, NotNone
    <2>2. QED
      BY <1>1, <1>2, <1>4, <2>1 DEF AnswerInv
  <1>8. SavesInv'
    BY <1>1, <1>4 DEF SavesInv
  <1>9. LogInv'
    BY <1>3 DEF LogInv
  <1>10. LostInv'
    <2>1. SUFFICES ASSUME Regular, NEW f \in lost'
                   PROVE  \E g \in within[f] : Failing(g)'
      BY <1>1, <1>4 DEF LostInv
    <2>2. CASE f \in lost
      <3>1. \A g : Failing(g) => Failing(g)'
        BY <1>1, <1>4 DEF Failing, Doomed
      <3>2. QED
        BY <2>1, <2>2, <3>1 DEF LostInv
    <2>3. CASE f \in ToSet(log)
      BY <1>4, <2>1, <2>3 DEF LogInv
    <2>4. QED
      BY <1>2, <2>1, <2>2, <2>3
  <1>11. FailedInv'
    <2>1. SUFFICES ASSUME Regular
                   PROVE  FailedInv'
      BY <1>4 DEF FailedInv
    <2>2. ASSUME NEW f \in durable \ doubt', NEW g \in within[f], g \in OpenIds
          PROVE  FALSE
      <3>1. request.op = "commit" /\ Len(frames) = 1
        BY <1>1, <2>1, <2>2 DEF FailedInv, Committed
      <3>2. ~Idle /\ g = Top.id
        <4>1. ~Idle
          BY <3>1, NotNone DEF Idle
        <4>2. frames # <<>>
          BY <4>1, <3>1, RequestUnderWay
        <4>3. Top = frames[1] /\ \A i \in 1..Len(frames) : i = 1
          BY <3>1, <4>2, TopFrame DEF IndInv
        <4>4. QED
          BY <2>2, <4>1, <4>3 DEF OpenIds
      <3>3. f \in Within(Top)
        BY <2>2, <3>2 DEF Within
      <3>4. QED
        BY <1>1, <2>2, <3>1, <3>2, <3>3
    <2>3. \A f \in durable \ doubt' : \A g \in within[f] : result[g] # "failed"
      BY <1>1, <2>1 DEF FailedInv
    <2>4. QED
      BY <1>1, <1>2, <1>3, <1>5, <2>2, <2>3 DEF FailedInv
  <1>12. QED
    BY <1>5, <1>6, <1>7, <1>8, <1>9, <1>10, <1>11

LEMMA InitFate ==
  ASSUME Init
  PROVE  FateInv
  <1>1. /\ frames = <<>> /\ log = <<>> /\ savepoints = <<>> /\ made = 0
        /\ durable = {} /\ lost = {} /\ connected /\ request = None /\ trancount = 0
        /\ result = [f \in Frames |-> "none"]
    BY DEF Init
  <1>2. /\ Len(frames) = 0 /\ Len(log) = 0 /\ Len(savepoints) = 0 /\ ToSet(log) = {}
        /\ request.op = "none"
    BY <1>1, NotNone DEF ToSet
  <1>3. OpenIds = {} /\ WorkedIn = {}
    BY <1>1, <1>2 DEF OpenIds, WorkedIn
  <1>4. WithinInv
    BY <1>1, <1>2, <1>3 DEF WithinInv
  <1>5. MarksInv /\ AnswerInv /\ SavesInv
    BY <1>1, <1>2 DEF MarksInv, AnswerInv, SavesInv
  <1>6. LogInv /\ LostInv /\ FailedInv
    BY <1>1, <1>2 DEF LogInv, LostInv, FailedInv
  <1>7. QED
    BY <1>4, <1>5, <1>6 DEF FateInv

LEMMA StepKeepsFate ==
  ASSUME AgreeInv, AgreeInv', FateInv, [Next]_vars
  PROVE  FateInv'
  <1>1. CASE UNCHANGED vars
    <2>1. UNCHANGED <<tdsVersion, inTransaction, connected, request, response, frames, made,
                      within, result, trancount, log, savepoints, durable, lost, doubt, strayed>>
      BY <1>1 DEF vars, clientVars, wireVars, programVars, serverVars, fateVars
    <2>2. /\ OpenIds' = OpenIds /\ WorkedIn' = WorkedIn /\ Top' = Top /\ Regular' = Regular
          /\ Committed' = Committed /\ (Idle' <=> Idle) /\ \A g : Failing(g)' = Failing(g)
      BY <2>1 DEF OpenIds, WorkedIn, Top, Regular, Old, Committed, Idle, Failing, Doomed
    <2>3. WithinInv'
      BY <2>1, WorkKeepsWithin DEF FateInv, AgreeInv, WorkedIn
    <2>4. MarksInv' /\ AnswerInv' /\ SavesInv'
      BY <2>1, <2>2 DEF FateInv, MarksInv, AnswerInv, SavesInv
    <2>5. LogInv' /\ LostInv' /\ FailedInv'
      BY <2>1, <2>2 DEF FateInv, LogInv, LostInv, FailedInv
    <2>6. QED
      BY <2>3, <2>4, <2>5 DEF FateInv
  <1>2. CASE Answer
    BY <1>2, AnswerIsAnswered, AnswerKeepsFate
  <1>3. QED
    BY <1>1, <1>2, BeginsKeepFate, WorksKeepFate, EndsKeepFate, ServerKeepsFate,
       SkipKeepsFate, CancelKeepsFate, LossKeepsFate DEF Next

LEMMA FateHolds == Spec => [](AgreeInv /\ FateInv)
  <1>1. Init => AgreeInv /\ FateInv
    BY InitAgrees, InitFate
  <1>2. (AgreeInv /\ FateInv) /\ [Next]_vars => (AgreeInv /\ FateInv)'
    BY StepKeepsAgreement, StepKeepsFate
  <1>3. QED
    BY <1>1, <1>2, PTL DEF Spec

-----------------------------------------------------------------------------
(* Theorems *)

\* Every variable of the transactions keeps its type; above all, the depth before
\* 7.2 is never negative, and the list of descriptors is never empty
\* (currentTransactionDescriptor, src/src/connection.ts).
THEOREM TypeCorrect == Spec => []TypeOK
  <1>1. Init => IndInv
    BY InitHolds
  <1>2. IndInv /\ [Next]_vars => IndInv'
    BY StepKeepsInv
  <1>3. IndInv => TypeOK
    BY DEF IndInv
  <1>4. QED
    BY <1>1, <1>2, <1>3, PTL DEF Spec

LEMMA AgreementHolds == Spec => []AgreeInv
  <1>1. Init => AgreeInv
    BY InitAgrees
  <1>2. AgreeInv /\ [Next]_vars => AgreeInv'
    BY StepKeepsAgreement
  <1>3. QED
    BY <1>1, <1>2, PTL DEF Spec

\* Between requests the connection is in a transaction exactly when the server is,
\* and since 7.2 every request bears the descriptor of the transaction that the
\* server has, whatever was canceled, failed, nested or rolled back under it.
THEOREM ConnectionAgrees == Spec => []DescriptorsAgree
  <1>1. AgreeInv => DescriptorsAgree
    BY Agreed
  <1>2. QED
    BY <1>1, AgreementHolds, PTL

\* When every transaction of the program has ended, the server has none, as long as the
\* program is told what the server did: no begin was canceled and yet executed, no commit
\* or rollback canceled and not executed, and no begin or savepoint was told as done that
\* was not executed (transaction, src/src/connection.ts).
THEOREM NoneLeftOpen == Spec => []NothingLeftOpen
  <1>1. AgreeInv => NothingLeftOpen
    <2>1. SUFFICES ASSUME AgreeInv, connected, Idle, ~strayed, frames = <<>>
                   PROVE  trancount = 0 /\ (Old => transactionDepth = 0)
      BY DEF NothingLeftOpen
    <2>2. Claim /\ Idle
      BY <2>1 DEF Claim
    <2>3. /\ trancount \in Nat /\ trancount <= Count(frames)
          /\ Old => transactionDepth = Len(frames)
      BY <2>1, <2>2, NothingPending
    <2>4. Count(frames) = 0 /\ Len(frames) = 0
      BY <2>1, Counted DEF AgreeInv
    <2>5. QED
      BY <2>3, <2>4
  <1>2. QED
    BY <1>1, AgreementHolds, PTL

\* What the program did in a transaction that it was told is done, and in those that
\* it was told are done around it, is durable: no rollback took it back, to a savepoint
\* or of everything, and it does not wait for a commit (txDone, src/src/connection.ts).
\* So it is as long as the program is told what the server did of a begin, a savepoint,
\* a commit and a rollback, which a cancel can prevent.
THEOREM WorkIsDurable == Spec => []DoneIsDurable
  <1>1. AgreeInv /\ FateInv => DoneIsDurable
    <2>1. SUFFICES ASSUME AgreeInv, FateInv, ~strayed, NEW f \in 1..made,
                          \A g \in within[f] : result[g] = "ok", f \in lost \cup ToSet(log)
                   PROVE  FALSE
      BY DEF DoneIsDurable, DoneWorkIsDurable
    <2>2. Regular
      BY <2>1 DEF Regular
    <2>3. frames # <<>> => frames[1].id \in OpenIds /\ Top.id \in OpenIds
      BY <2>1, TopIsOpen DEF AgreeInv
    <2>4. CASE f \in lost
      BY <2>1, <2>2, <2>3, <2>4 DEF FateInv, LostInv, Failing, Doomed, WithinInv
    <2>5. CASE f \in ToSet(log)
      BY <2>1, <2>2, <2>3, <2>5 DEF FateInv, LogInv, WithinInv
    <2>6. QED
      BY <2>1, <2>4, <2>5
  <1>2. QED
    BY <1>1, FateHolds, PTL

\* Nothing is durable of a transaction that the program was told has failed, nor of
\* what was done within it, unless its commit was canceled or not answered, and as long
\* as the program is told what the server did of the others (see DoneIsDurable).
THEOREM NothingFailedIsDurable == Spec => []FailedLeavesNothing
  <1>1. AgreeInv /\ FateInv => FailedLeavesNothing
    BY DEF FateInv, FailedInv, FailedLeavesNothing, Regular
  <1>2. QED
    BY <1>1, FateHolds, PTL

\* A session, with its configuration, its settings and its isolation levels, does
\* with transactions what they allow: its steps are theirs, or leave them alone.
THEOREM SessionIsTransactions == SessionSpec => Spec
  <1>1. SessionInit => Init
    BY DEF SessionInit
  <1>2. [SessionNext]_<<vars, sessionVars>> => [Next]_vars
    <2>1. SessionNext => [Next]_vars
      BY DEF SessionNext, Construct, SendInitialSql, ProgramSets, LoggedInSteps, ServerSets,
             Next
    <2>2. QED
      BY <2>1
  <1>3. QED
    BY <1>1, <1>2, PTL DEF SessionSpec, Spec

-----------------------------------------------------------------------------
(* What the constructor takes *)

\* The defaults of the settings
LEMMA DefaultOfSetting ==
  /\ \A s \in Flags : Default(s) \in {Null, On, Off}
  /\ Default("datefirst") = Number(7) /\ Default("textsize") = Number(MaxTextsize)
  /\ Default("dateFormat") = MDY /\ Default("language") = US_ENGLISH
  /\ Default(Isolation) = Number(READ_COMMITTED)
  <1>1. ASSUME NEW s \in Flags PROVE Default(s) \in {Null, On, Off}
    BY SMT DEF Default, Flags, Booleans, Levels, Texts
  <1>2. Default("datefirst") = Number(7) /\ Default("textsize") = Number(MaxTextsize)
    BY SMT DEF Default, Flags, Booleans, Levels, Texts
  <1>3. Default("dateFormat") = MDY /\ Default("language") = US_ENGLISH
    BY SMT DEF Default, Flags, Booleans, Levels, Texts
  <1>4. Default(Isolation) = Number(READ_COMMITTED)
    BY SMT DEF Default, Flags, Booleans, Levels, Texts, Isolation
  <1>5. QED
    BY <1>1, <1>2, <1>3, <1>4

\* An option that is a setting is as it was given, or as the default.
LEMMA OptionOfSetting ==
  ASSUME NEW options \in [OptionNames -> Values], NEW s \in Settings
  PROVE  /\ Options(options)[s] =
              IF s = "textsize" /\ options[s] = Null THEN Number(0)
              ELSE IF options[s] # Undefined THEN options[s] ELSE Default(s)
         /\ Options(options)[s] \in Values
  <1>1. s \in OptionNames /\ s \notin {"instanceName", "port", "columnNameReplacer"}
    BY DEF OptionNames, Settings, Flags
  <1>2. Options(options)[s] =
              IF s = "textsize" /\ options[s] = Null THEN Number(0)
              ELSE IF options[s] # Undefined THEN options[s] ELSE Default(s)
    BY <1>1 DEF Options, Given
  <1>3. Default(s) \in Values
    BY SMT DEF Default, Values, Value, On, Off, Null, Undefined, Number, Text, Settings, Flags, Booleans,
           Levels, US_ENGLISH, MDY, READ_COMMITTED, MaxTextsize
  <1>4. Number(0) \in Values /\ options[s] \in Values
    BY <1>1 DEF Values, Number, Value
  <1>5. QED
    BY <1>2, <1>3, <1>4

\* What the constructor takes for a setting can be set.
LEMMA SettingCanBeSet ==
  ASSUME NEW options \in [OptionNames -> Values], AcceptsOptions(options), NEW s \in Settings,
         NEW x, x = Options(options)[s]
  PROVE  /\ s = Isolation => x # Null
         /\ x # Null => CanSet(Statement(s, x))
  <1>1. s \in OptionNames /\ s # "columnNameReplacer"
    BY DEF OptionNames, Settings, Flags
  <1>2. options[s] # Undefined =>
            HasType(s, options[s]) /\ (options[s].type = "number" => InRange(s, options[s].is))
    BY <1>1 DEF AcceptsOptions, Given
  <1>3. /\ x = IF s = "textsize" /\ options[s] = Null THEN Number(0)
               ELSE IF options[s] # Undefined THEN options[s] ELSE Default(s)
        /\ x \in Values
    BY OptionOfSetting
  <1>4. /\ Statement(s, x).set = s
        /\ Statement(s, x).to = IF s = Isolation THEN Number(GetIsolationLevelText(x.is)) ELSE x
    BY DEF Statement, Isolation
  <1>5. CASE s \in Flags
    <2>1. s \notin {"textsize", "datefirst", "dateFormat", "language", Isolation}
      BY <1>5 DEF Flags, Isolation
    <2>2. Default(s) = Null \/ Default(s).type = "boolean"
      BY <1>5, DefaultOfSetting DEF On, Off, Value
    <2>3. options[s] # Undefined => options[s] = Null \/ options[s].type = "boolean"
      BY <1>2, <1>5, <2>1 DEF HasType, Flags, Numbers, Levels, Texts
    <2>4. x = Null \/ x.type = "boolean"
      BY <1>3, <2>1, <2>2, <2>3
    <2>5. QED
      BY <1>4, <1>5, <2>1, <2>4 DEF CanSet
  <1>6. CASE s = "datefirst"
    <2>1. options[s] # Undefined => options[s] = Null \/ options[s].type = "number"
      BY <1>2, <1>6 DEF HasType, Flags, Booleans, Texts
    <2>2. options[s].type = "number" /\ options[s] # Undefined => options[s].is \in 1..7
      BY <1>2, <1>6, SMT DEF InRange
    <2>3. /\ Number(7).type = "number" /\ Number(7).is \in 1..7
          /\ Number(0).type = "number" /\ (s = "textsize" => Number(0).is \in 1..7)
      BY <1>6, SMT DEF Number, Value
    <2>4. x = Null \/ (x.type = "number" /\ x.is \in 1..7)
      BY <1>3, <1>6, <2>1, <2>2, <2>3, DefaultOfSetting, SMT
    <2>5. QED
      BY <1>4, <1>6, <2>4 DEF CanSet, Flags, Isolation
  <1>7. CASE s = "textsize"
    <2>1. options[s] # Undefined => options[s] = Null \/ options[s].type = "number"
      BY <1>2, <1>7 DEF HasType, Flags, Booleans, Texts
    <2>2. options[s].type = "number" /\ options[s] # Undefined => options[s].is \in -1..MaxTextsize
      BY <1>2, <1>7, SMT DEF InRange
    <2>3. /\ Number(MaxTextsize).type = "number" /\ Number(MaxTextsize).is \in -1..MaxTextsize
          /\ Number(0).type = "number" /\ (s = "textsize" => Number(0).is \in -1..MaxTextsize)
      <3>1. MaxTextsize \in Nat
        BY SMT DEF MaxTextsize
      <3>2. QED
        BY <1>7, <3>1, SMT DEF Number, Value
    <2>4. x = Null \/ (x.type = "number" /\ x.is \in -1..MaxTextsize)
      BY <1>3, <1>7, <2>1, <2>2, <2>3, DefaultOfSetting, SMT
    <2>5. QED
      BY <1>4, <1>7, <2>4 DEF CanSet, Flags, Isolation
  <1>8. CASE s = Isolation
    <2>1. s \notin Nullable /\ s # "textsize"
      BY <1>8 DEF Isolation, Nullable
    <2>2. options[s] # Undefined => options[s].type = "number"
      BY <1>2, <1>8, <2>1 DEF HasType, Flags, Booleans, Texts, Isolation
    <2>3. x.type = "number"
      BY <1>3, <1>8, <2>1, <2>2, DefaultOfSetting DEF Number, Value
    <2>4. Statement(s, x).to.type = "number" /\ Statement(s, x).to.is \in 1..5
      BY <1>4, <1>8 DEF GetIsolationLevelText, Number, Value, READ_COMMITTED
    <2>5. QED
      BY <1>4, <1>8, <2>3, <2>4 DEF CanSet, Flags, Isolation, Null, Value
  <1>9. CASE s \in {"dateFormat", "language"}
    <2>1. options[s] # Undefined => options[s] = Null \/ options[s].type = "string"
      BY <1>2, <1>9 DEF HasType, Flags, Booleans, Numbers, Levels
    <2>2. x = Null \/ x.type = "string"
      BY <1>3, <1>9, <2>1, DefaultOfSetting DEF MDY, US_ENGLISH, Text, Value
    <2>3. QED
      BY <1>4, <1>9, <2>2 DEF CanSet, Flags, Isolation
  <1>10. QED
    BY <1>5, <1>6, <1>7, <1>8, <1>9 DEF Settings, Isolation

\* A level that the constructor takes is one of those there are.
LEMMA RangeOfLevels == \A o, n : o \in Levels /\ InRange(o, n) => n \in 0..5
  BY Zenon DEF InRange

LEMMA LevelInRange ==
  ASSUME NEW options \in [OptionNames -> Values], AcceptsOptions(options),
         NEW o \in Levels, NEW x, x = Options(options)[o]
  PROVE  x.type = "number" /\ x.is \in 0..5
  <1>1. /\ o \in OptionNames \cap Numbers
        /\ o \notin {"columnNameReplacer", "instanceName", "port", "textsize"}
        /\ o \notin Nullable \cup Booleans \cup Flags \cup Texts
    BY SMT DEF OptionNames, Levels, Numbers, Nullable, Settings, Booleans, Flags, Texts
  <1>2. options[o] # Undefined => options[o].type = "number" /\ options[o].is \in 0..5
    <2>1. options[o] # Undefined =>
              HasType(o, options[o]) /\ (options[o].type = "number" => InRange(o, options[o].is))
      BY <1>1 DEF AcceptsOptions, Given
    <2>2. HasType(o, options[o]) => options[o].type = "number"
      BY <1>1, SMT DEF HasType, Levels
    <2>3. \A n : InRange(o, n) => n \in 0..5
      BY RangeOfLevels
    <2>4. QED
      BY <2>1, <2>2, <2>3
  <1>3. Default(o) = Number(READ_COMMITTED)
    BY SMT DEF Default, Flags, Booleans, Levels, Texts
  <1>4. x = IF options[o] # Undefined THEN options[o] ELSE Default(o)
    BY <1>1 DEF Options, Given
  <1>5. QED
    BY <1>2, <1>3, <1>4, SMT DEF Number, Value, READ_COMMITTED

\* Each setting has its place in the initial SQL.
LEMMA OrderIsTotal ==
  /\ DOMAIN Order = 1..16 /\ \A i \in 1..16 : Order[i] \in Settings
  /\ \A i, j \in 1..16 : Order[i] = Order[j] => i = j
  /\ \A s \in Settings : \E i \in 1..16 : Order[i] = s
  <1>1. DOMAIN Order = 1..16
    BY DEF Order
  <1>2. \A i \in 1..16 : Order[i] \in Settings
    BY DEF Order, Settings, Flags
  <1>3. \A i, j \in 1..16 : Order[i] = Order[j] => i = j
    BY DEF Order
  <1>4. \A s \in Settings : \E i \in 1..16 : Order[i] = s
    BY DEF Order, Settings, Flags
  <1>5. QED
    BY <1>1, <1>2, <1>3, <1>4

LEMMA InitialSqlIsLegal ==
  ASSUME NEW options \in [OptionNames -> Values], AcceptsOptions(options)
  PROVE  LET sql == GetInitialSql(Options(options))
         IN  /\ DOMAIN sql = {i \in 1..16 : Options(options)[Order[i]] # Null}
             /\ \A i \in DOMAIN sql : /\ sql[i] = Statement(Order[i], Options(options)[Order[i]])
                                      /\ sql[i].set = Order[i] /\ CanSet(sql[i])
  <1> DEFINE sql == GetInitialSql(Options(options))
  <1>1. /\ DOMAIN sql = {i \in 1..16 : Options(options)[Order[i]] # Null}
        /\ \A i \in DOMAIN sql : sql[i] = Statement(Order[i], Options(options)[Order[i]])
    BY OrderIsTotal DEF GetInitialSql
  <1> HIDE DEF sql
  <1>2. \A i \in DOMAIN sql : sql[i].set = Order[i] /\ CanSet(sql[i])
    <2>1. ASSUME NEW i \in DOMAIN sql
          PROVE  CanSet(sql[i])
      <3>1. /\ Order[i] \in Settings /\ Options(options)[Order[i]] # Null
            /\ sql[i] = Statement(Order[i], Options(options)[Order[i]])
        BY <1>1, OrderIsTotal
      <3>2. QED
        BY <3>1, SettingCanBeSet
    <2>2. \A i \in DOMAIN sql : sql[i].set = Order[i]
      <3>1. \A o, y : Statement(o, y).set = o
        BY DEF Statement
      <3>2. QED
        BY <1>1, <3>1
    <2>3. QED
      BY <2>1, <2>2
  <1>3. QED
    BY <1>1, <1>2 DEF sql

\* The initial SQL brings every setting to what the configuration asks.
LEMMA InitialSqlSets ==
  ASSUME NEW options \in [OptionNames -> Values], AcceptsOptions(options),
         config.options = options, NEW s \in Settings
  PROVE  Executed(GetInitialSql(Options(options)))[s] = Asked(s)
  <1> DEFINE sql == GetInitialSql(Options(options))
             x   == Options(options)[s]
             places == {i \in DOMAIN sql : sql[i].set = s /\ CanSet(sql[i])}
  <1>1. PICK n \in 1..16 : Order[n] = s /\ \A i \in 1..16 : Order[i] = s => i = n
    BY OrderIsTotal
  <1>2. /\ DOMAIN sql = {i \in 1..16 : Options(options)[Order[i]] # Null}
        /\ \A i \in DOMAIN sql : /\ sql[i] = Statement(Order[i], Options(options)[Order[i]])
                                 /\ sql[i].set = Order[i] /\ CanSet(sql[i])
    BY InitialSqlIsLegal
  <1>3. Executed(sql)[s] =
            IF places = {} THEN ServerDefaults[s]
            ELSE Effect(sql[CHOOSE i \in places : \A j \in places : j <= i])
    BY DEF Executed
  <1>4. /\ x = IF s = "textsize" /\ options[s] = Null THEN Number(0)
               ELSE IF options[s] # Undefined THEN options[s] ELSE Default(s)
        /\ x \in Values /\ (s = Isolation => x # Null)
    BY OptionOfSetting, SettingCanBeSet
  <1>5. Asked(s) = LET y == IF options[s] = Undefined THEN Default(s) ELSE options[s]
                   IN  IF s = Isolation /\ y = Number(0) THEN Number(READ_COMMITTED)
                       ELSE IF s = "textsize" /\ y = Number(0) THEN Null ELSE y
    BY DEF Asked
  <1>6. CASE x = Null
    <2>1. places = {}
      BY <1>1, <1>2, <1>6
    <2>2. ServerDefaults[s] = Null
      BY <1>4, <1>6 DEF ServerDefaults
    <2>3. Asked(s) = Null
      BY <1>4, <1>5, <1>6 DEF Null, Number, Value
    <2>4. QED
      BY <1>3, <2>1, <2>2, <2>3
  <1>7. CASE x # Null
    <2>1. places = {n} /\ n \in DOMAIN sql
      BY <1>1, <1>2, <1>7
    <2>2. (CHOOSE i \in places : \A j \in places : j <= i) = n
      BY <2>1
    <2>3. Executed(sql)[s] = Effect(Statement(s, x))
      BY <1>1, <1>2, <1>3, <2>1, <2>2
    <2>4. Effect(Statement(s, x)) = Asked(s)
      <3>1. CASE s = Isolation
        <4>1. x.type = "number" /\ x.is \in 0..5
          BY <3>1, LevelInRange DEF Levels, Isolation
        <4>2. x = Number(x.is) /\ \A m \in Int : Number(m).is = m
          BY <1>4, <4>1 DEF Values, Number, Value, Undefined
        <4>3. Effect(Statement(s, x)) = Number(GetIsolationLevelText(x.is))
          BY <3>1 DEF Effect, Statement, Isolation
        <4>4. Asked(s) = IF x = Number(0) THEN Number(READ_COMMITTED) ELSE x
          BY <1>4, <1>5, <3>1 DEF Isolation
        <4>5. QED
          BY <4>1, <4>2, <4>3, <4>4 DEF GetIsolationLevelText, READ_COMMITTED
      <3>2. CASE s = "textsize"
        <4>1. Effect(Statement(s, x)) = IF x = Number(0) THEN Null ELSE x
          BY <3>2 DEF Effect, Statement
        <4>2. Number(0) # Null /\ Null # Undefined
          BY DEF Number, Null, Undefined, Value
        <4>3. QED
          BY <1>4, <1>5, <3>2, <4>1, <4>2 DEF Isolation
      <3>3. CASE s \notin {Isolation, "textsize"}
        <4>1. Effect(Statement(s, x)) = x
          BY <3>3 DEF Effect, Statement, Isolation
        <4>2. QED
          BY <1>4, <1>5, <3>3, <4>1
      <3>4. QED
        BY <3>1, <3>2, <3>3
    <2>5. QED
      BY <2>3, <2>4
  <1>8. QED
    BY <1>6, <1>7

\* The server is reached in one way, and there are the credentials of the type.
LEMMA ServerIsNamed ==
  ASSUME NEW options \in [OptionNames -> Values]
  PROVE  (Options(options)["port"] = Undefined) # (Options(options)["instanceName"] = Undefined)
  <1> DEFINE port == Options(options)["port"]
             name == Options(options)["instanceName"]
  <1>1. {"port", "instanceName"} \subseteq OptionNames
    BY SMT DEF OptionNames, Numbers, Texts
  <1>2. /\ port = IF options["port"] # Undefined THEN options["port"]
                  ELSE IF options["instanceName"] # Undefined THEN Undefined ELSE Default("port")
        /\ name = IF options["port"] # Undefined THEN Undefined
                  ELSE IF options["instanceName"] # Undefined THEN options["instanceName"]
                       ELSE Default("instanceName")
    BY <1>1, SMT DEF Options, Given
  <1>3. Default("port") = Number(1433) /\ Default("instanceName") = Undefined
    BY SMT DEF Default, Flags, Booleans, Levels, Texts
  <1>4. Number(1433) # Undefined
    BY DEF Number, Undefined, Value
  <1> HIDE DEF port, name
  <1>5. (port = Undefined /\ name # Undefined) \/ (port # Undefined /\ name = Undefined)
    BY <1>2, <1>3, <1>4
  <1>6. QED
    BY <1>5, Zenon DEF port, name

LEMMA CredentialsAreUsable ==
  ASSUME NEW c, IsConfiguration(c), Accepts(c), NEW n \in CredentialNames
  PROVE  LET a == Authentication(c.authentication)
         IN  \/ a.options[n] = Undefined
             \/ a.options[n].type = "string" /\ n \in Required(a.type) \cup Optional(a.type)
  <1> DEFINE g == c.authentication
             a == Authentication(g)
  <1>1. g = [type |-> g.type, options |-> g.options] /\ g.options[n] \in Values
    BY DEF IsConfiguration
  <1>2. /\ \A m \in Required(g.type) : g.options[m].type = "string"
        /\ \A m \in Optional(g.type) : g.options[m].type \in {"string", "undefined"}
    BY DEF Accepts, AcceptsAuthentication
  <1>3. /\ a.type = g.type
        /\ a.options[n] = IF n \in Required(g.type) \cup Optional(g.type) THEN g.options[n]
                          ELSE Undefined
    BY <1>1 DEF Authentication
  <1>4. \A x \in Values : x.type = "undefined" => x = Undefined
    BY DEF Values
  <1> HIDE DEF a, g
  <1>5. a.options[n] = Undefined
        \/ (a.options[n].type = "string" /\ n \in Required(a.type) \cup Optional(a.type))
    BY <1>1, <1>2, <1>3, <1>4
  <1>6. QED
    BY <1>5 DEF a, g

-----------------------------------------------------------------------------
(* The session *)

\* What is built is built from a configuration that was accepted, and until the
\* connection is logged in there is no request.
BuiltInv ==
    /\ config \in Configurations
    /\ built = Unbuilt \/ (Accepts(config) /\ built = Constructed(config))
    /\ loggedIn \in BOOLEAN /\ DOMAIN settings = Settings
    /\ loggedIn => built # Unbuilt
    /\ ~loggedIn => Idle /\ frames = <<>>

LEMMA AcceptedOptions ==
  ASSUME BuiltInv, built # Unbuilt
  PROVE  /\ IsConfiguration(config) /\ Accepts(config) /\ built = Constructed(config)
         /\ config.options \in [OptionNames -> Values] /\ AcceptsOptions(config.options)
         /\ built.options = Options(config.options)
  BY ConfigurationAssumption DEF BuiltInv, IsConfiguration, Accepts, Constructed

\* The steps of a session that is not logged in yet, and those that it takes with
\* its transactions
LEMMA SessionSteps ==
  ASSUME [SessionNext]_<<vars, sessionVars>>
  PROVE  \/ UNCHANGED <<vars, sessionVars>>
         \/ Construct \/ SendInitialSql
         \/ \E option \in Changed : ProgramSets(option)
         \/ LoggedInSteps \/ ServerSets
  BY DEF SessionNext

LEMMA SessionInitBuilt ==
  ASSUME SessionInit
  PROVE  BuiltInv
  <1>1. /\ config \in Configurations /\ built = Unbuilt /\ loggedIn = FALSE
        /\ settings = ServerDefaults /\ frames = <<>> /\ request = None
    BY DEF SessionInit, Init
  <1>2. QED
    BY <1>1 DEF BuiltInv, ServerDefaults, Idle

LEMMA StepKeepsBuilt ==
  ASSUME BuiltInv, [SessionNext]_<<vars, sessionVars>>
  PROVE  BuiltInv'
  <1>1. CASE UNCHANGED <<vars, sessionVars>>
    BY <1>1 DEF BuiltInv, Idle, vars, sessionVars, wireVars, programVars
  <1>2. CASE Construct
    <2>1. /\ built = Unbuilt /\ Accepts(config) /\ built' = Constructed(config)
          /\ UNCHANGED <<config, loggedIn, settings, frames, request>>
      BY <1>2 DEF Construct, vars, wireVars, programVars
    <2>2. ~loggedIn
      BY <2>1 DEF BuiltInv
    <2>3. QED
      BY <2>1, <2>2 DEF BuiltInv, Idle
  <1>3. CASE SendInitialSql
    <2>1. /\ built # Unbuilt /\ loggedIn' = TRUE /\ DOMAIN settings' = Settings
          /\ UNCHANGED <<config, built>>
      BY <1>3 DEF SendInitialSql, Executed
    <2>2. QED
      BY <2>1 DEF BuiltInv
  <1>4. ASSUME NEW option \in Changed, ProgramSets(option)
        PROVE  BuiltInv'
    <2>1. /\ loggedIn /\ DOMAIN settings' = DOMAIN settings
          /\ UNCHANGED <<config, built, loggedIn>>
      BY <1>4 DEF ProgramSets
    <2>2. QED
      BY <2>1 DEF BuiltInv
  <1>5. CASE LoggedInSteps
    BY <1>5 DEF LoggedInSteps, BuiltInv
  <1>6. CASE ServerSets
    <2>1. ~Idle /\ UNCHANGED <<config, built, loggedIn>>
      BY <1>6 DEF ServerSets, ServerExecutes
    <2>2. DOMAIN settings' = DOMAIN settings \/ DOMAIN settings' = Settings
      <3>1. CASE request.op = "begin" /\ BeginLevel
        BY <3>1 DEF BeginLevel
      <3>2. CASE request.op = "isolation"
        BY <1>6, <3>2 DEF ServerSets
      <3>3. CASE request.op = "reset"
        BY <1>6, <3>3 DEF ServerSets, Executed
      <3>4. CASE request.op \notin {"begin", "isolation", "reset"}
        BY <1>6, <3>4 DEF ServerSets
      <3>5. QED
        BY <1>6, <3>1, <3>2, <3>3, <3>4 DEF ServerSets
    <2>3. QED
      BY <2>1, <2>2 DEF BuiltInv
  <1>7. QED
    BY <1>1, <1>2, <1>3, <1>4, <1>5, <1>6, SessionSteps

-----------------------------------------------------------------------------
(* What a step does to the frames *)

\* The level that a frame asks for, and the frames that ask for one
LevelOf(i) == FrameLevel(frames[i])
Asking == {i \in 1..Len(frames) : LevelOf(i) > 0}

Opened(f) ==
    /\ made' = made + 1 /\ frames' = Append(frames, f) /\ Idle
    /\ request'.op = (IF f.kind = "save" THEN "save" ELSE "begin") /\ request'.level = f.level
    /\ response' = response
Kept ==
    /\ made' = made /\ Len(frames') = Len(frames)
    /\ \A i \in 1..Len(frames) : /\ frames'[i].id = frames[i].id
                                 /\ frames'[i].kind = frames[i].kind
                                 /\ frames'[i].level = frames[i].level
    /\ \/ Idle /\ request'.op \notin Starts
       \/ request.op = "begin" /\ response # None /\ ~response.error /\ request' = None
       \/ /\ request.op = "save" /\ Top.level > 0
          /\ request'.op = "isolation" /\ request'.level = Top.level
       \/ request.op = "save" /\ Top.level <= 0 /\ request' = None
       \/ request.op \in {"isolation", "work", "reset"} /\ request' = None
Closed ==
    /\ made' = made /\ frames # <<>> /\ Len(frames') = Len(frames) - 1
    /\ \A i \in 1..Len(frames) - 1 : frames'[i] = frames[i]
    /\ request' = None /\ request.op # "isolation"

LEMMA AnswerDoes ==
  ASSUME IndInv, NEW canceled \in BOOLEAN, Answered(canceled)
  PROVE  Kept \/ Closed
  <1> USE DEF IndInv
  <1>1. /\ ~Idle /\ response # None /\ response \in Responses /\ made' = made
        /\ request.op # "reset" => frames # <<>>
        /\ frames \in Seq(FrameRecord)
    BY AnsweredRequest, RequestUnderWay DEF Answered, TypeOK
  <1>2. PICK error \in BOOLEAN : /\ error = (response.error \/ canceled)
                                 /\ Begun(error) \/ Ended(error) \/ Done
    BY <1>1 DEF Answered, Responses
  <1>3. ASSUME frames # <<>>, NEW outcome, Pop(outcome), request' = None,
               request.op # "isolation"
        PROVE  Closed
    <2>1. /\ Len(frames') = Len(frames) - 1 /\ Len(frames) \in Nat \ {0}
          /\ \A i \in 1..Len(frames') : frames'[i] = frames[i]
      BY <1>3, Popped
    <2>2. QED
      BY <1>1, <1>3, <2>1 DEF Closed
  <1>4. ASSUME frames # <<>>, Become("open"), request' = None,
               \/ request.op = "begin" /\ ~error
               \/ request.op = "save" /\ Top.level <= 0
               \/ request.op = "isolation"
        PROVE  Kept
    <2>1. /\ Len(frames') = Len(frames)
          /\ \A i \in 1..Len(frames) : /\ frames'[i].id = frames[i].id
                                       /\ frames'[i].kind = frames[i].kind
                                       /\ frames'[i].level = frames[i].level
      BY <1>4, Became
    <2>2. ~error => ~response.error
      BY <1>2
    <2>3. QED
      BY <1>1, <1>4, <2>1, <2>2 DEF Kept
  <1>5. CASE request.op \in {"begin", "save"} /\ Pop("failed") /\ request' = None
    BY <1>1, <1>3, <1>5
  <1>6. CASE /\ request.op = "save" /\ Send("isolation", Anonymous, Top.level)
             /\ Top.level > 0 /\ UNCHANGED frames
    BY <1>1, <1>6 DEF Kept, Send
  <1>7. CASE /\ Become("open") /\ request' = None
             /\ \/ request.op = "begin" /\ ~error
                \/ request.op = "save" /\ Top.level <= 0
                \/ request.op = "isolation"
    BY <1>1, <1>4, <1>7
  <1>8. CASE Ended(error)
    BY <1>1, <1>3, <1>8 DEF Ended
  <1>9. CASE Done
    BY <1>1, <1>9 DEF Done, Kept
  <1>10. QED
    BY <1>2, <1>5, <1>6, <1>7, <1>8, <1>9 DEF Begun

LEMMA ProgramDoes ==
  ASSUME IndInv, LoggedInSteps
  PROVE  \/ ConnectionLost \/ ServerSkips \/ \E way \in Ways : Cancel(way)
         \/ /\ \/ \E f \in FrameRecord : Opened(f)
               \/ Kept \/ Closed
            /\ UNCHANGED <<tdsVersion, connected, trancount>> /\ (strayed => strayed')
  <1> USE DEF IndInv
  <1>1. frames \in Seq(FrameRecord) /\ request.op \in Operations \cup {"none"}
    BY NotNone DEF TypeOK, Requests
  <1>2. ASSUME NEW level \in IsolationLevels, Transaction(level) \/ BeginTransaction(level)
        PROVE  /\ \E f \in FrameRecord : Opened(f)
               /\ UNCHANGED <<tdsVersion, connected, trancount, strayed>>
    <2>1. PICK kind \in Kinds, op \in {"begin", "save"}, name \in Frames \cup {Anonymous} :
             /\ Push(kind, level) /\ Send(op, name, level)
             /\ op = IF kind = "save" THEN "save" ELSE "begin"
      BY <1>2, OpensFrame
    <2>2. /\ Idle /\ made < MaxFrames
          /\ UNCHANGED <<tdsVersion, connected, trancount, strayed, response>>
      BY <1>2 DEF Transaction, BeginTransaction, MayBegin, serverVars
    <2>3. PICK f \in FrameRecord : /\ f.kind = kind /\ f.level = level
                                   /\ frames' = Append(frames, f)
      BY <2>1, <2>2, Pushed
    <2>4. made' = made + 1 /\ request'.op = op /\ request'.level = level
      BY <2>1 DEF Push, Send
    <2>5. Opened(f)
      BY <2>1, <2>2, <2>3, <2>4 DEF Opened
    <2>6. QED
      BY <2>2, <2>5
  <1>3. CASE Work \/ Reset
    <2>1. /\ Idle /\ request'.op \in {"work", "reset"}
          /\ UNCHANGED <<frames, made, tdsVersion, connected, trancount, strayed>>
      BY <1>3 DEF Work, Reset, Send, serverVars
    <2>2. QED
      BY <2>1 DEF Kept, Starts
  <1>4. CASE TxDone \/ EndTransaction
    <2>1. /\ Idle /\ frames # <<>> /\ UNCHANGED <<tdsVersion, trancount, strayed>>
      BY <1>4 DEF TxDone, EndTransaction, serverVars
    <2>2. CASE \E op \in Ends : EndBy(op, NameOf(Top))
      <3>1. PICK op \in Ends : EndBy(op, NameOf(Top))
        BY <2>2
      <3>2. Become("ending") /\ request'.op = op /\ UNCHANGED <<connected, made>>
        BY <3>1 DEF EndBy, Send
      <3>3. /\ Len(frames') = Len(frames)
            /\ \A i \in 1..Len(frames) : /\ frames'[i].id = frames[i].id
                                         /\ frames'[i].kind = frames[i].kind
                                         /\ frames'[i].level = frames[i].level
        BY <2>1, <3>2, Became
      <3>4. QED
        BY <2>1, <3>2, <3>3 DEF Kept, Starts, Ends
    <2>3. CASE /\ \E outcome \in {"ok", "failed"} : Pop(outcome)
               /\ UNCHANGED <<connected, request, made>>
      <3>1. /\ Len(frames') = Len(frames) - 1 /\ Len(frames) \in Nat \ {0}
            /\ \A i \in 1..Len(frames') : frames'[i] = frames[i]
        BY <2>1, <2>3, Popped
      <3>2. QED
        BY <2>1, <2>3, <3>1, NotNone DEF Closed, Idle
    <2>4. QED
      BY <1>4, <2>2, <2>3, ClosesFrame
  <1>5. CASE Answer
    <2>1. PICK canceled \in BOOLEAN : Answered(canceled)
      BY <1>5, AnswerIsAnswered
    <2>2. QED
      BY <2>1, AnswerDoes DEF Answered, serverVars
  <1>6. QED
    BY <1>2, <1>3, <1>4, <1>5 DEF LoggedInSteps

\* The frames stay, and so does what they ask for.
LEMMA AskingKept ==
  ASSUME IndInv, built' = built, Len(frames') = Len(frames),
         \A i \in 1..Len(frames) : /\ frames'[i].kind = frames[i].kind
                                   /\ frames'[i].level = frames[i].level
  PROVE  Asking' = Asking /\ \A i \in 1..Len(frames) : LevelOf(i)' = LevelOf(i)
  <1>1. \A i \in 1..Len(frames) : LevelOf(i)' = LevelOf(i)
    BY DEF LevelOf, FrameLevel, Requested
  <1>2. QED
    BY <1>1 DEF Asking

LEMMA AskingOpened ==
  ASSUME IndInv, NEW f \in FrameRecord, Opened(f), built' = built
  PROVE  /\ Len(frames) \in Nat /\ Len(frames') = Len(frames) + 1 /\ frames' # <<>>
         /\ Top' = f /\ Last(frames') = f /\ frames'[Len(frames')] = f
         /\ \A i \in 1..Len(frames) : frames'[i] = frames[i] /\ LevelOf(i)' = LevelOf(i)
         /\ \A n : n = Len(frames') => LevelOf(n)' = FrameLevel(f)
         /\ Asking' = Asking \cup (IF FrameLevel(f) > 0 THEN {Len(frames')} ELSE {})
  <1>1. frames \in Seq(FrameRecord) /\ Len(frames) \in Nat
    BY Elements DEF IndInv, TypeOK
  <1>2. /\ Len(frames') = Len(frames) + 1 /\ frames' \in Seq(FrameRecord) /\ frames' # <<>>
        /\ \A i \in 1..Len(frames) : frames'[i] = frames[i]
        /\ frames'[Len(frames) + 1] = f
    BY <1>1, AppendProperties DEF Opened
  <1>3. Top' = f /\ Last(frames') = f
    BY <1>2 DEF Top, Last
  <1>4. \A i \in 1..Len(frames) : LevelOf(i)' = LevelOf(i)
    BY <1>2 DEF LevelOf, FrameLevel, Requested
  <1>5. \A n : n = Len(frames) + 1 => LevelOf(n)' = FrameLevel(f)
    BY <1>2 DEF LevelOf, FrameLevel, Requested
  <1>6. PICK n : n = Len(frames) + 1
    OBVIOUS
  <1>7. LevelOf(n)' = FrameLevel(f)
    BY <1>5, <1>6
  <1>8. Asking' = Asking \cup (IF FrameLevel(f) > 0 THEN {n} ELSE {})
    <2>1. 1..Len(frames') = 1..Len(frames) \cup {n}
      BY <1>1, <1>2, <1>6
    <2>2. \A i : i \in Asking' <=> (i \in 1..Len(frames) /\ LevelOf(i) > 0)
                                    \/ (i = n /\ FrameLevel(f) > 0)
      BY <1>4, <1>7, <2>1 DEF Asking
    <2>3. QED
      BY <2>2 DEF Asking
  <1>9. QED
    BY <1>1, <1>2, <1>3, <1>4, <1>5, <1>6, <1>8

LEMMA AskingClosed ==
  ASSUME IndInv, Closed, built' = built
  PROVE  /\ Len(frames) \in Nat \ {0} /\ Len(frames') = Len(frames) - 1
         /\ \A i \in 1..Len(frames') : frames'[i] = frames[i] /\ LevelOf(i)' = LevelOf(i)
         /\ Asking' = Asking \ {Len(frames)}
  <1>1. Len(frames) \in Nat \ {0} /\ Len(frames') = Len(frames) - 1
    BY TopFrame DEF IndInv, Closed
  <1>2. \A i \in 1..Len(frames') : frames'[i] = frames[i]
    BY <1>1 DEF Closed
  <1>3. \A i \in 1..Len(frames') : LevelOf(i)' = LevelOf(i)
    BY <1>2 DEF LevelOf, FrameLevel, Requested
  <1>4. Asking' = Asking \ {Len(frames)}
    <2>1. 1..Len(frames') = 1..Len(frames) \ {Len(frames)}
      BY <1>1
    <2>2. QED
      BY <1>3, <2>1 DEF Asking
  <1>5. QED
    BY <1>1, <1>2, <1>3, <1>4

-----------------------------------------------------------------------------
(* Settings and levels *)

\* While a level is asked for, the isolation level counts as changed.
AskedInv ==
    /\ changed \subseteq Settings /\ superseded \subseteq Frames
    /\ request.op \in Starts /\ frames # <<>> =>
          /\ request.level = Top.level
          /\ Len(frames) \in Asking => Isolation \in changed
          /\ request.op = "isolation" => Len(frames) \in Asking

SettingsInv == loggedIn => \A s \in Settings \ changed : settings[s] = Asked(s)

\* A frame within which another one asks is superseded.
SupersededInv ==
    \A j \in Asking, i \in 1..Len(frames) : i < j => frames[i].id \in superseded

\* The level of the innermost frame is not set as long as the request for it is
\* under way, or has failed or was skipped.
Unset ==
    \/ /\ request.op = "begin"
       /\ response = None \/ response.error \/ request.cancel = "unnoticed"
    \/ request.op \in {"save", "isolation"}

\* In a transaction, the innermost frame that asks for a level has it, or will be
\* told, or has been superseded.
IsolationInv ==
    loggedIn /\ connected /\ Followed /\ trancount > 0 =>
        \A i \in Asking :
            (\A j \in Asking : j <= i) =>
                \/ frames[i].id \in superseded
                \/ settings[Isolation] = Number(LevelOf(i))
                \/ i = Len(frames) /\ Unset

SessionInv == BuiltInv /\ AskedInv /\ SettingsInv /\ SupersededInv /\ IsolationInv

\* What the program adds to what it has changed and to what is superseded
LEMMA AskAdds ==
  ASSUME IndInv, LoggedInSteps
  PROVE  /\ UNCHANGED <<config, built, loggedIn, settings>> /\ loggedIn
         /\ changed \subseteq changed' /\ superseded \subseteq superseded'
         /\ changed' \subseteq changed \cup {Isolation}
         /\ superseded' \subseteq superseded \cup Frames
         /\ \A f : Opened(f) /\ Last(frames') = f /\ FrameLevel(f) > 0 =>
               Isolation \in changed' /\ \A i \in 1..Len(frames) : frames[i].id \in superseded'
         /\ (/\ ~Idle /\ Idle' /\ frames' # <<>>
             /\ \/ /\ request.op = "isolation"
                   /\ settings[Isolation] # Number(GetIsolationLevelText(request.level))
                \/ request.op = "begin" /\ request.cancel = "unnoticed") =>
               Top.id \in superseded'
  <1> DEFINE opens  == made' > made /\ FrameLevel(Last(frames')) > 0
             denied == /\ ~Idle /\ Idle' /\ frames' # <<>>
                       /\ \/ /\ request.op = "isolation"
                             /\ settings[Isolation] #
                                   Number(GetIsolationLevelText(request.level))
                          \/ request.op = "begin" /\ request.cancel = "unnoticed"
             around == {frames[i].id : i \in DOMAIN frames}
  <1>1. /\ UNCHANGED <<config, built, loggedIn, settings>> /\ loggedIn
        /\ superseded' = superseded \cup (IF opens THEN around ELSE {})
                                    \cup (IF denied THEN {Top.id} ELSE {})
        /\ changed' = IF opens THEN changed \cup {Isolation} ELSE changed
    BY DEF LoggedInSteps, Ask
  <1>2. /\ DOMAIN frames = 1..Len(frames) /\ made \in Nat
        /\ \A i \in 1..Len(frames) : frames[i].id \in Frames
    BY Elements, LenProperties DEF IndInv, TypeOK
  <1>3. denied => Top.id \in Frames
    BY RequestUnderWay
  <1>4. \A f : Opened(f) /\ Last(frames') = f /\ FrameLevel(f) > 0 => opens
    BY <1>2 DEF Opened
  <1> HIDE DEF opens, denied
  <1>5. /\ changed \subseteq changed' /\ superseded \subseteq superseded'
        /\ changed' \subseteq changed \cup {Isolation}
        /\ superseded' \subseteq superseded \cup Frames
    BY <1>1, <1>2, <1>3
  <1>6. opens => Isolation \in changed' /\ \A i \in 1..Len(frames) : frames[i].id \in superseded'
    BY <1>1, <1>2
  <1>7. denied => Top.id \in superseded'
    BY <1>1
  <1>8. QED
    BY <1>1, <1>4, <1>5, <1>6, <1>7 DEF denied

\* The program opens a frame, which asks for a level or not.
LEMMA OpenedKeepsSession ==
  ASSUME IndInv, SessionInv, LoggedInSteps, NEW f \in FrameRecord, Opened(f),
         UNCHANGED <<tdsVersion, connected, trancount>>, strayed => strayed'
  PROVE  AskedInv' /\ SupersededInv' /\ IsolationInv'
  <1> USE DEF SessionInv
  <1>1. /\ Len(frames) \in Nat /\ Len(frames') = Len(frames) + 1 /\ frames' # <<>>
        /\ Top' = f /\ Last(frames') = f /\ frames'[Len(frames')] = f
        /\ \A i \in 1..Len(frames) : frames'[i] = frames[i] /\ LevelOf(i)' = LevelOf(i)
        /\ \A n : n = Len(frames') => LevelOf(n)' = FrameLevel(f)
        /\ Asking' = Asking \cup (IF FrameLevel(f) > 0 THEN {Len(frames')} ELSE {})
    BY AskingOpened, AskAdds
  <1>2. /\ UNCHANGED <<built, loggedIn, settings>>
        /\ changed \subseteq changed' /\ superseded \subseteq superseded'
        /\ changed' \subseteq changed \cup {Isolation} /\ superseded' \subseteq superseded \cup Frames
        /\ FrameLevel(f) > 0 =>
              Isolation \in changed' /\ \A i \in 1..Len(frames) : frames[i].id \in superseded'
    BY <1>1, AskAdds
  <1>3. Idle /\ request'.level = f.level /\ response' = response
        /\ request'.op = IF f.kind = "save" THEN "save" ELSE "begin"
    BY DEF Opened
  <1>4. response = None /\ request.op = "none" /\ Asking \subseteq 1..Len(frames)
    BY <1>3, NotNone DEF IndInv, RequestInv, Idle, Asking
  <1>5. AskedInv'
    <2>1. Isolation \in Settings
      BY DEF Isolation, Settings
    <2>2. Len(frames') \notin 1..Len(frames)
      BY <1>1
    <2>3. QED
      BY <1>1, <1>2, <1>3, <1>4, <2>1, <2>2 DEF AskedInv
  <1>6. SupersededInv'
    <2>1. SUFFICES ASSUME NEW j \in Asking', NEW i \in 1..Len(frames'), i < j
                   PROVE  frames'[i].id \in superseded'
      BY DEF SupersededInv
    <2>2. i \in 1..Len(frames)
      BY <1>1, <1>4, <2>1
    <2>3. CASE j \in Asking
      BY <1>1, <1>2, <2>1, <2>2, <2>3 DEF SupersededInv
    <2>4. CASE FrameLevel(f) > 0
      BY <1>1, <1>2, <2>2, <2>4
    <2>5. QED
      BY <1>1, <2>1, <2>3, <2>4
  <1>7. IsolationInv'
    <2>1. SUFFICES ASSUME (loggedIn /\ connected /\ Followed /\ trancount > 0)',
                          NEW i \in Asking', \A j \in Asking' : j <= i
                   PROVE  \/ frames'[i].id \in superseded'
                          \/ settings'[Isolation] = Number(LevelOf(i))'
                          \/ i = Len(frames') /\ Unset'
      BY DEF IsolationInv
    <2>2. loggedIn /\ connected /\ Followed /\ trancount > 0
      BY <1>2, <2>1 DEF Followed, Old
    <2>3. CASE FrameLevel(f) > 0
      <3>1. Len(frames') \in Asking'
        BY <1>1, <2>3
      <3>2. i = Len(frames')
        BY <1>1, <1>4, <2>1, <3>1
      <3>3. Unset'
        BY <1>3, <1>4 DEF Unset
      <3>4. QED
        BY <3>2, <3>3
    <2>4. CASE ~(FrameLevel(f) > 0)
      <3>1. i \in Asking /\ \A j \in Asking : j <= i
        BY <1>1, <2>1, <2>4
      <3>2. frames[i].id \in superseded \/ settings[Isolation] = Number(LevelOf(i))
        BY <1>4, <2>2, <3>1 DEF IsolationInv, Unset
      <3>3. frames'[i] = frames[i] /\ LevelOf(i)' = LevelOf(i)
        BY <1>1, <1>4, <3>1
      <3>4. Number(LevelOf(i))' = Number(LevelOf(i))
        BY <3>3 DEF Number, Value
      <3>5. QED
        BY <1>2, <3>2, <3>3, <3>4
    <2>5. QED
      BY <2>3, <2>4
  <1>8. QED
    BY <1>5, <1>6, <1>7

\* The frames stay, and one that is told of its isolation level is told the truth.
LEMMA KeptKeepsSession ==
  ASSUME IndInv, SessionInv, LoggedInSteps, Kept,
         UNCHANGED <<tdsVersion, connected, trancount>>, strayed => strayed'
  PROVE  AskedInv' /\ SupersededInv' /\ IsolationInv'
  <1> USE DEF SessionInv
  <1>1. /\ UNCHANGED <<built, loggedIn, settings>>
        /\ changed \subseteq changed' /\ superseded \subseteq superseded'
        /\ changed' \subseteq changed \cup {Isolation} /\ superseded' \subseteq superseded \cup Frames
        /\ (/\ ~Idle /\ Idle' /\ frames' # <<>>
            /\ \/ /\ request.op = "isolation"
                  /\ settings[Isolation] # Number(GetIsolationLevelText(request.level))
               \/ request.op = "begin" /\ request.cancel = "unnoticed") =>
               Top.id \in superseded'
    BY AskAdds
  <1>2. /\ Asking' = Asking /\ \A i \in 1..Len(frames) : LevelOf(i)' = LevelOf(i)
        /\ Len(frames') = Len(frames) /\ Len(frames) \in Nat /\ Asking \subseteq 1..Len(frames)
        /\ \A i \in 1..Len(frames) : frames'[i].id = frames[i].id
    BY <1>1, AskingKept, Elements DEF Kept, IndInv, Asking
  <1>3. AskedInv'
    <2>1. Isolation \in Settings
      BY DEF Isolation, Settings
    <2>2. ASSUME request'.op \in Starts, frames' # <<>>
          PROVE  /\ request'.level = Top'.level
                 /\ Len(frames') \in Asking' => Isolation \in changed'
                 /\ Len(frames') \in Asking'
      <3>1. request.op = "save" /\ request'.level = Top.level /\ Top.level > 0
        BY <2>2, NotNone DEF Kept, Starts
      <3>2. frames # <<>>
        BY <3>1 DEF IndInv, RequestInv
      <3>3. Top'.level = Top.level
        BY <1>2, <3>2, TopFrame DEF Kept, IndInv, Top, Last
      <3>4. Len(frames) \in Asking
        <4>1. /\ Top.kind = "save" /\ Top = frames[Len(frames)]
              /\ Len(frames) \in 1..Len(frames) /\ Top.level # NoLevel
          BY <3>1, <3>2, TopFrame DEF IndInv, RequestInv, NoLevel
        <4>2. QED
          BY <3>1, <4>1 DEF Asking, LevelOf, FrameLevel, Requested
      <3>5. QED
        BY <1>1, <1>2, <3>1, <3>2, <3>3, <3>4 DEF AskedInv, Starts
    <2>3. QED
      BY <1>1, <2>1, <2>2 DEF AskedInv
  <1>4. SupersededInv'
    BY <1>1, <1>2 DEF SupersededInv
  <1>5. IsolationInv'
    <2>1. SUFFICES ASSUME (loggedIn /\ connected /\ Followed /\ trancount > 0)',
                          NEW i \in Asking', \A j \in Asking' : j <= i
                   PROVE  \/ frames'[i].id \in superseded'
                          \/ settings'[Isolation] = Number(LevelOf(i))'
                          \/ i = Len(frames') /\ Unset'
      BY DEF IsolationInv
    <2>2. loggedIn /\ connected /\ Followed /\ trancount > 0
      BY <1>1, <2>1 DEF Followed, Old
    <2>3. \/ frames[i].id \in superseded
          \/ settings[Isolation] = Number(LevelOf(i))
          \/ i = Len(frames) /\ Unset
      BY <1>2, <2>1, <2>2 DEF IsolationInv
    <2>4. Number(LevelOf(i))' = Number(LevelOf(i)) /\ frames'[i].id = frames[i].id
      BY <1>2, <2>1 DEF Number, Value
    <2>5. CASE i = Len(frames) /\ Unset
      <3>1. frames # <<>> /\ Top = frames[i] /\ LevelOf(i) > 0
        BY <1>2, <2>1, <2>5, TopFrame DEF IndInv, Asking, Top, Last
      <3>2. CASE request.op = "save"
        <4>1. Top.kind = "save"
          BY <3>1, <3>2 DEF IndInv, RequestInv
        <4>2. ~(Top.level <= 0)
          <5>1. LevelOf(i) = IF Top.level = NoLevel THEN 0 ELSE Top.level
            BY <3>1, <4>1 DEF LevelOf, FrameLevel, Requested
          <5>2. Top.level \in -1..5
            BY <3>1, TopFrame, LevelAssumption DEF IndInv, FrameRecord
          <5>3. QED
            BY <3>1, <5>1, <5>2 DEF NoLevel
        <4>3. request'.op = "isolation"
          BY <3>2, <4>2, NotNone DEF Kept, Idle
        <4>4. QED
          BY <1>2, <2>5, <4>3 DEF Unset
      <3>3. CASE request.op = "isolation"
        <4>1. Idle' /\ ~Idle
          BY <3>3, NotNone DEF Kept, Idle
        <4>2. Top.kind = "save" /\ request.level = Top.level
          BY <3>1, <3>3 DEF IndInv, RequestInv, AskedInv, Starts
        <4>3. LevelOf(i) = Top.level /\ Top.level \in 1..5
          <5>1. LevelOf(i) = IF Top.level = NoLevel THEN 0 ELSE Top.level
            BY <3>1, <4>2 DEF LevelOf, FrameLevel, Requested
          <5>2. Top.level \in -1..5
            BY <3>1, TopFrame, LevelAssumption DEF IndInv, FrameRecord
          <5>3. QED
            BY <3>1, <5>1, <5>2 DEF NoLevel
        <4>4. GetIsolationLevelText(request.level) = LevelOf(i)
          BY <4>2, <4>3 DEF GetIsolationLevelText, READ_COMMITTED
        <4>5. CASE settings[Isolation] = Number(LevelOf(i))
          BY <1>1, <2>4, <4>5
        <4>6. CASE settings[Isolation] # Number(LevelOf(i))
          <5>1. frames' # <<>>
            BY <1>2, <3>1, TopFrame, EmptySeq DEF IndInv
          <5>2. QED
            BY <1>1, <2>4, <3>1, <3>3, <4>1, <4>4, <4>6, <5>1
        <4>7. QED
          BY <4>5, <4>6
      <3>4. CASE request.op = "begin" /\ (response = None \/ response.error)
        BY <3>4, NotNone DEF Kept, Idle
      <3>5. CASE request.op = "begin" /\ request.cancel = "unnoticed"
        <4>1. Idle' /\ ~Idle
          BY <3>5, NotNone DEF Kept, Idle
        <4>2. frames' # <<>>
          BY <1>2, <3>1, TopFrame, EmptySeq DEF IndInv
        <4>3. QED
          BY <1>1, <2>4, <3>1, <3>5, <4>1, <4>2
      <3>6. QED
        BY <2>5, <3>2, <3>3, <3>4, <3>5 DEF Unset
    <2>6. QED
      BY <1>1, <2>3, <2>4, <2>5
  <1>6. QED
    BY <1>3, <1>4, <1>5

\* A frame ends, and one within which it asked is superseded.
LEMMA ClosedKeepsSession ==
  ASSUME IndInv, SessionInv, LoggedInSteps, Closed,
         UNCHANGED <<tdsVersion, connected, trancount>>, strayed => strayed'
  PROVE  AskedInv' /\ SupersededInv' /\ IsolationInv'
  <1> USE DEF SessionInv
  <1>1. /\ UNCHANGED <<built, loggedIn, settings>>
        /\ changed \subseteq changed' /\ superseded \subseteq superseded'
        /\ changed' \subseteq changed \cup {Isolation} /\ superseded' \subseteq superseded \cup Frames
    BY AskAdds
  <1>2. /\ Len(frames) \in Nat \ {0} /\ Len(frames') = Len(frames) - 1
        /\ \A i \in 1..Len(frames') : frames'[i] = frames[i] /\ LevelOf(i)' = LevelOf(i)
        /\ Asking' = Asking \ {Len(frames)}
    BY <1>1, AskingClosed
  <1>3. request'.op = "none" /\ Asking \subseteq 1..Len(frames)
    BY NotNone DEF Closed, Asking
  <1>4. AskedInv'
    BY <1>1, <1>3 DEF AskedInv, Starts, Isolation, Settings
  <1>5. SupersededInv'
    BY <1>1, <1>2 DEF SupersededInv
  <1>6. IsolationInv'
    <2>1. SUFFICES ASSUME (loggedIn /\ connected /\ Followed /\ trancount > 0)',
                          NEW i \in Asking', \A j \in Asking' : j <= i
                   PROVE  \/ frames'[i].id \in superseded'
                          \/ settings'[Isolation] = Number(LevelOf(i))'
                          \/ i = Len(frames') /\ Unset'
      BY DEF IsolationInv
    <2>2. loggedIn /\ connected /\ Followed /\ trancount > 0
      BY <1>1, <2>1 DEF Followed, Old
    <2>3. i \in Asking /\ i \in 1..Len(frames') /\ i < Len(frames)
      BY <1>2, <1>3, <2>1
    <2>4. CASE Len(frames) \in Asking
      <3>1. frames[i].id \in superseded
        BY <1>2, <2>3, <2>4 DEF SupersededInv
      <3>2. QED
        BY <1>1, <1>2, <2>3, <3>1
    <2>5. CASE Len(frames) \notin Asking
      <3>1. frames[i].id \in superseded \/ settings[Isolation] = Number(LevelOf(i))
        BY <1>2, <2>1, <2>2, <2>3, <2>5 DEF IsolationInv
      <3>2. Number(LevelOf(i))' = Number(LevelOf(i)) /\ frames'[i] = frames[i]
        BY <1>2, <2>3 DEF Number, Value
      <3>3. QED
        BY <1>1, <3>1, <3>2
    <2>6. QED
      BY <2>4, <2>5
  <1>7. QED
    BY <1>4, <1>5, <1>6

\* A request that is skipped or canceled leaves the level as unset as it was.
LEMMA WaitKeepsSession ==
  ASSUME IndInv, SessionInv, LoggedInSteps, ServerSkips \/ \E way \in Ways : Cancel(way)
  PROVE  AskedInv' /\ SupersededInv' /\ IsolationInv'
  <1> USE DEF SessionInv
  <1>1. /\ UNCHANGED <<tdsVersion, connected, trancount, frames>> /\ (strayed => strayed')
        /\ request'.op = request.op /\ request'.level = request.level
        /\ Unset => Unset'
    <2>1. CASE ServerSkips
      <3>1. /\ UNCHANGED <<tdsVersion, connected, trancount, request, frames>>
            /\ strayed => strayed'
            /\ response'.error = (request.cancel # "unnoticed")
        BY <2>1, SkipsNothing
      <3>2. QED
        BY <3>1 DEF Unset
    <2>2. ASSUME NEW way \in Ways, Cancel(way)
          PROVE  /\ UNCHANGED <<tdsVersion, connected, trancount, frames>> /\ (strayed => strayed')
                 /\ request'.op = request.op /\ request'.level = request.level
                 /\ Unset => Unset'
      <3>1. /\ UNCHANGED <<tdsVersion, connected, trancount, response, frames, strayed>>
            /\ request'.op = request.op /\ request'.level = request.level
        BY <2>2, CancelsRequest
      <3>2. request.cancel = "none"
        BY <2>2 DEF Cancel
      <3>3. QED
        BY <3>1, <3>2 DEF Unset
    <2>3. QED
      BY <2>1, <2>2
  <1>2. /\ UNCHANGED <<built, loggedIn, settings>>
        /\ changed \subseteq changed' /\ superseded \subseteq superseded'
        /\ changed' \subseteq changed \cup {Isolation} /\ superseded' \subseteq superseded \cup Frames
    BY AskAdds
  <1>3. /\ Asking' = Asking /\ \A i \in 1..Len(frames) : LevelOf(i)' = LevelOf(i)
        /\ Asking \subseteq 1..Len(frames) /\ Top' = Top
    BY <1>1, <1>2, AskingKept DEF Asking, Top
  <1>4. AskedInv'
    BY <1>1, <1>2, <1>3 DEF AskedInv, Isolation, Settings
  <1>5. SupersededInv'
    BY <1>1, <1>2, <1>3 DEF SupersededInv
  <1>6. IsolationInv'
    <2>1. \A i \in Asking : Number(LevelOf(i))' = Number(LevelOf(i))
      BY <1>3 DEF Number, Value
    <2>2. Followed' => Followed
      BY <1>1 DEF Followed, Old
    <2>3. QED
      BY <1>1, <1>2, <1>3, <2>1, <2>2 DEF IsolationInv
  <1>7. QED
    BY <1>4, <1>5, <1>6

\* What the server does with the settings for a request
LEMMA ServerSetsOne ==
  ASSUME AgreeInv, SessionInv, ServerSets
  PROVE  /\ loggedIn /\ UNCHANGED <<config, built, loggedIn, superseded>>
         /\ DOMAIN settings = Settings
         /\ Asking' = Asking /\ \A i \in 1..Len(frames) : LevelOf(i)' = LevelOf(i)
         /\ \/ settings' = settings /\ (request.op = "reset" => FALSE)
            \/ /\ request.op \in {"begin", "isolation"} /\ Len(frames) \in Asking
               /\ \E x : settings' = [settings EXCEPT ![Isolation] = x]
            \/ /\ request.op = "reset" /\ changed' = {}
               /\ settings' = Executed(GetInitialSql(built.options))
         /\ request.op # "reset" => changed' = changed
         /\ request.op = "begin" =>
               \/ settings' = settings
                  /\ (response'.error \/ Len(frames) \notin Asking)
               \/ /\ response'.error => Old
                  /\ settings'[Isolation] = Number(LevelOf(Len(frames)))
  <1> USE DEF AgreeInv, SessionInv
  <1>1. /\ ~Idle /\ UNCHANGED <<config, built, loggedIn, superseded>> /\ ServerExecutes
        /\ frames' = frames /\ loggedIn /\ DOMAIN settings = Settings
    BY ServerFrame DEF ServerSets, BuiltInv
  <1>2. Asking' = Asking /\ \A i \in 1..Len(frames) : LevelOf(i)' = LevelOf(i)
    BY <1>1, AskingKept
  <1>3. request.op # "reset" => frames # <<>>
    BY <1>1, RequestUnderWay
  <1>4. CASE request.op = "begin" /\ BeginLevel /\ UNCHANGED changed
    <2>1. /\ frames # <<>> /\ Top.kind # "save" /\ request.level = Top.level
          /\ Top = frames[Len(frames)] /\ Len(frames) \in 1..Len(frames)
      BY <1>3, <1>4, TopFrame DEF IndInv, RequestInv, AskedInv, Starts
    <2>2. PICK level : level = Requested("begin", request.level)
      OBVIOUS
    <2>3. level = LevelOf(Len(frames))
      BY <2>1, <2>2 DEF LevelOf, FrameLevel
    <2>4. (level > 0) <=> Len(frames) \in Asking
      BY <2>1, <2>3 DEF Asking
    <2>5. \/ level = 0 /\ settings' = settings
          \/ /\ level > 0 /\ (response'.error => Old)
             /\ settings' = [settings EXCEPT ![Isolation] = Number(level)]
          \/ level > 0 /\ response'.error /\ settings' = settings
      BY <1>4, <2>2 DEF BeginLevel
    <2>6. Isolation \in DOMAIN settings
      BY <1>1 DEF Isolation, Settings
    <2>7. level = 0 => Len(frames) \notin Asking
      BY <2>4
    <2>8. QED
      BY <1>1, <1>2, <1>4, <2>3, <2>4, <2>5, <2>6, <2>7
  <1>5. CASE request.op = "isolation"
    <2>1. Len(frames) \in Asking
      BY <1>3, <1>5 DEF AskedInv, Starts
    <2>2. /\ changed' = changed
          /\ \/ settings' = settings
             \/ \E x : settings' = [settings EXCEPT ![Isolation] = x]
      BY <1>5 DEF ServerSets
    <2>3. QED
      BY <1>1, <1>2, <1>5, <2>1, <2>2
  <1>6. CASE request.op = "reset"
    <2>1. changed' = {} /\ settings' = Executed(GetInitialSql(built.options))
      BY <1>6 DEF ServerSets
    <2>2. QED
      BY <1>1, <1>2, <1>6, <2>1
  <1>7. CASE request.op \notin {"begin", "isolation", "reset"}
    <2>1. UNCHANGED <<settings, changed>>
      BY <1>7 DEF ServerSets
    <2>2. QED
      BY <1>1, <1>2, <1>7, <2>1
  <1>8. QED
    BY <1>4, <1>5, <1>6, <1>7 DEF ServerSets

\* Only a begin opens a transaction, and a reset leaves none.
LEMMA ServerCounts ==
  ASSUME IndInv, ServerExecutes, trancount' > 0
  PROVE  /\ request.op # "reset"
         /\ request.op # "begin" => trancount > 0
         /\ request.op = "begin" /\ response'.error => trancount > 0
  <1>1. trancount \in Nat
    BY DEF IndInv, TypeOK
  <1>2. ASSUME NEW error, Unaffected(error)
        PROVE  trancount' = trancount /\ response'.error = error
    BY <1>2 DEF Unaffected, serverVars, Respond
  <1>3. RollBackAll => FALSE
    BY DEF RollBackAll
  <1>4. CASE ServerBegins
    BY <1>1, <1>4 DEF ServerBegins, Respond
  <1>5. CASE ServerSaves
    BY <1>5 DEF ServerSaves
  <1>6. CASE ServerCommits \/ ServerRollsBack
    BY <1>6 DEF ServerCommits, ServerRollsBack
  <1>7. CASE ServerWorks
    <2>1. CASE \E error : Unaffected(error)
      BY <1>2, <1>7, <2>1 DEF ServerWorks
    <2>2. CASE ~\E error : Unaffected(error)
      BY <1>3, <1>7, <2>2 DEF ServerWorks, serverVars
    <2>3. QED
      BY <2>1, <2>2
  <1>8. CASE ServerResets
    <2>1. trancount' > 0 /\ (trancount > 0 => trancount # 0)
      BY <1>1
    <2>2. ~RollBackAll
      BY <1>3
    <2>3. trancount = 0 /\ Unaffected(FALSE)
      BY <1>8, <2>2 DEF ServerResets
    <2>4. trancount' = 0
      BY <1>2, <2>3
    <2>5. QED
      BY <2>1, <2>4
  <1>9. CASE ServerRefuses
    BY <1>2, <1>9 DEF ServerRefuses
  <1>10. CASE \E s \in DOMAIN savepoints : ServerRollsBackTo(s)
    <2>1. request.op = "rollback" /\ trancount' = trancount
      BY <1>10 DEF ServerRollsBackTo
    <2>2. QED
      BY <2>1
  <1>11. QED
    BY <1>4, <1>5, <1>6, <1>7, <1>8, <1>9, <1>10 DEF ServerExecutes

LEMMA ServerKeepsSession ==
  ASSUME AgreeInv, SessionInv, ServerSets
  PROVE  AskedInv' /\ SettingsInv' /\ SupersededInv' /\ IsolationInv'
  <1> USE DEF AgreeInv, SessionInv
  <1>1. /\ ServerExecutes /\ ~Idle /\ response = None /\ response' # None
        /\ UNCHANGED <<tdsVersion, connected, request, frames>> /\ Top' = Top
        /\ connected /\ response'.error \in BOOLEAN /\ trancount \in Nat
        /\ strayed' = (strayed \/ (Old /\ (response'.error \/ RolledBackUnder)))
    BY ServerFrame DEF ServerSets, ServerExecutes
  <1>2. /\ loggedIn /\ UNCHANGED <<config, built, loggedIn, superseded>>
        /\ DOMAIN settings = Settings
        /\ Asking' = Asking /\ \A i \in 1..Len(frames) : LevelOf(i)' = LevelOf(i)
        /\ \/ settings' = settings /\ (request.op = "reset" => FALSE)
           \/ /\ request.op \in {"begin", "isolation"} /\ Len(frames) \in Asking
              /\ \E x : settings' = [settings EXCEPT ![Isolation] = x]
           \/ /\ request.op = "reset" /\ changed' = {}
              /\ settings' = Executed(GetInitialSql(built.options))
        /\ request.op # "reset" => changed' = changed
        /\ request.op = "begin" =>
              \/ settings' = settings
                 /\ (response'.error \/ Len(frames) \notin Asking)
              \/ /\ response'.error => Old
                 /\ settings'[Isolation] = Number(LevelOf(Len(frames)))
    BY ServerSetsOne
  <1>3. \A s : Asked(s)' = Asked(s)
    BY <1>2 DEF Asked
  <1>4. AskedInv'
    <2>1. changed' \subseteq Settings
      BY <1>2 DEF AskedInv
    <2>2. request.op \in Starts => changed' = changed
      BY <1>2 DEF Starts
    <2>3. QED
      BY <1>1, <1>2, <2>1, <2>2 DEF AskedInv
  <1>5. SettingsInv'
    <2>1. CASE request.op = "reset"
      <3>1. built # Unbuilt
        BY <1>2 DEF BuiltInv
      <3>2. /\ config.options \in [OptionNames -> Values] /\ AcceptsOptions(config.options)
            /\ built.options = Options(config.options)
        BY <3>1, AcceptedOptions
      <3>3. settings' = Executed(GetInitialSql(built.options))
        BY <1>2, <2>1
      <3>4. \A s \in Settings : settings'[s] = Asked(s)
        BY <3>2, <3>3, InitialSqlSets
      <3>5. QED
        BY <1>3, <3>4 DEF SettingsInv
    <2>2. CASE request.op # "reset"
      <3>1. \A s \in Settings \ changed : settings[s] = Asked(s)
        BY <1>2 DEF SettingsInv
      <3>2. Len(frames) \in Asking /\ request.op \in {"begin", "isolation"} => Isolation \in changed
        <4>1. Len(frames) \in Asking => frames # <<>>
          BY EmptySeq DEF Asking, IndInv, TypeOK
        <4>2. QED
          BY <4>1 DEF AskedInv, Starts
      <3>3. \A s \in Settings \ changed : settings'[s] = settings[s]
        BY <1>2, <2>2, <3>2
      <3>4. QED
        BY <1>2, <1>3, <2>2, <3>1, <3>3 DEF SettingsInv
    <2>3. QED
      BY <2>1, <2>2
  <1>6. SupersededInv'
    BY <1>1, <1>2 DEF SupersededInv
  <1>7. IsolationInv'
    <2>1. SUFFICES ASSUME (loggedIn /\ connected /\ Followed /\ trancount > 0)',
                          NEW i \in Asking', \A j \in Asking' : j <= i
                   PROVE  \/ frames'[i].id \in superseded'
                          \/ settings'[Isolation] = Number(LevelOf(i))'
                          \/ i = Len(frames') /\ Unset'
      BY DEF IsolationInv
    <2>2. Followed /\ ~(Old /\ response'.error)
      BY <1>1, <2>1 DEF Followed, Old
    <2>3. /\ request.op # "reset" /\ (request.op # "begin" => trancount > 0)
          /\ request.op = "begin" /\ response'.error => trancount > 0
      BY <1>1, <2>1, ServerCounts
    <2>4. /\ i \in Asking /\ i \in 1..Len(frames) /\ \A j \in Asking : j <= i
          /\ Number(LevelOf(i))' = Number(LevelOf(i)) /\ Len(frames) \in Nat
      BY <1>2, <2>1, Elements DEF Asking, Number, Value, IndInv
    <2>5. trancount > 0 => \/ frames[i].id \in superseded
                           \/ settings[Isolation] = Number(LevelOf(i))
                           \/ i = Len(frames) /\ Unset
      BY <1>1, <1>2, <2>2, <2>4 DEF IsolationInv
    <2>6. Len(frames) \in Asking => i = Len(frames)
      BY <2>4
    <2>7. CASE request.op \in {"save", "isolation"}
      <3>1. Unset'
        BY <1>1, <2>7 DEF Unset
      <3>2. CASE i = Len(frames)
        BY <1>1, <3>1, <3>2
      <3>3. CASE i # Len(frames)
        <4>1. settings' = settings /\ trancount > 0
          BY <1>2, <2>3, <2>6, <2>7, <3>3
        <4>2. QED
          BY <1>1, <1>2, <2>4, <2>5, <3>3, <4>1
      <3>4. QED
        BY <3>2, <3>3
    <2>8. CASE request.op \notin {"begin", "save", "isolation"}
      <3>1. settings' = settings /\ trancount > 0 /\ ~Unset
        BY <1>2, <2>3, <2>8 DEF Unset
      <3>2. QED
        BY <1>1, <1>2, <2>4, <2>5, <3>1
    <2>9. CASE request.op = "begin" /\ response'.error
      <3>1. Unset' /\ settings' = settings /\ trancount > 0
        BY <1>1, <1>2, <2>2, <2>3, <2>9 DEF Unset
      <3>2. QED
        BY <1>1, <1>2, <2>4, <2>5, <3>1
    <2>10. CASE request.op = "begin" /\ ~response'.error
      <3>1. CASE Len(frames) \in Asking
        <4>1. settings'[Isolation] = Number(LevelOf(Len(frames)))
          BY <1>2, <2>10, <3>1
        <4>2. QED
          BY <2>4, <2>6, <3>1, <4>1
      <3>2. CASE Len(frames) \notin Asking
        <4>1. i < Len(frames)
          BY <2>4, <3>2
        <4>2. trancount # 0
          BY <1>1, <2>2, <2>4, <2>10, <4>1, FirstBegins
        <4>3. trancount > 0
          BY <1>1, <4>2
        <4>4. CASE settings' = settings
          BY <1>1, <1>2, <2>4, <2>5, <4>1, <4>3, <4>4
        <4>5. CASE settings' # settings
          BY <1>2, <2>10, <3>2, <4>5
        <4>6. QED
          BY <4>4, <4>5
      <3>3. QED
        BY <3>1, <3>2
    <2>11. QED
      BY <2>7, <2>8, <2>9, <2>10
  <1>8. QED
    BY <1>4, <1>5, <1>6, <1>7

\* The program and its responses
LEMMA ProgramKeepsSession ==
  ASSUME AgreeInv, SessionInv, LoggedInSteps
  PROVE  AskedInv' /\ SettingsInv' /\ SupersededInv' /\ IsolationInv'
  <1> USE DEF AgreeInv, SessionInv
  <1>1. /\ UNCHANGED <<config, built, loggedIn, settings>>
        /\ changed \subseteq changed' /\ superseded \subseteq superseded'
        /\ changed' \subseteq changed \cup {Isolation} /\ superseded' \subseteq superseded \cup Frames
    BY AskAdds
  <1>2. SettingsInv'
    <2>1. \A s : Asked(s)' = Asked(s)
      BY <1>1 DEF Asked
    <2>2. QED
      BY <1>1, <2>1 DEF SettingsInv
  <1>3. CASE ConnectionLost
    <2>1. ~connected' /\ UNCHANGED <<frames, request>> /\ Top' = Top
      BY <1>3 DEF ConnectionLost, programVars, Top
    <2>2. Asking' = Asking
      BY <1>1, <2>1, AskingKept
    <2>3. AskedInv'
      BY <1>1, <2>1, <2>2 DEF AskedInv, Isolation, Settings
    <2>4. SupersededInv' /\ IsolationInv'
      BY <1>1, <2>1, <2>2 DEF SupersededInv, IsolationInv
    <2>5. QED
      BY <1>2, <2>3, <2>4
  <1>4. CASE /\ \/ \E f \in FrameRecord : Opened(f)
                \/ Kept \/ Closed
             /\ UNCHANGED <<tdsVersion, connected, trancount>> /\ (strayed => strayed')
    BY <1>2, <1>4, OpenedKeepsSession, KeptKeepsSession, ClosedKeepsSession
  <1>5. CASE ServerSkips \/ \E way \in Ways : Cancel(way)
    BY <1>2, <1>5, WaitKeepsSession
  <1>6. QED
    BY <1>3, <1>4, <1>5, ProgramDoes

\* Before the connection is logged in there is nothing to follow.
LEMMA SessionInitHolds ==
  ASSUME SessionInit
  PROVE  SessionInv
  <1>1. BuiltInv
    BY SessionInitBuilt
  <1>2. /\ frames = <<>> /\ request = None /\ ~loggedIn /\ changed = {} /\ superseded = {}
    BY DEF SessionInit, Init
  <1>3. Asking = {}
    BY <1>2 DEF Asking
  <1>4. AskedInv /\ SettingsInv
    BY <1>2 DEF AskedInv, SettingsInv
  <1>5. SupersededInv /\ IsolationInv
    BY <1>2, <1>3 DEF SupersededInv, IsolationInv
  <1>6. QED
    BY <1>1, <1>4, <1>5 DEF SessionInv

LEMMA StepKeepsSession ==
  ASSUME AgreeInv, SessionInv, [SessionNext]_<<vars, sessionVars>>
  PROVE  SessionInv'
  <1> USE DEF AgreeInv
  <1>1. BuiltInv'
    BY StepKeepsBuilt DEF SessionInv
  <1>2. ASSUME vars' = vars, superseded' = superseded, changed \subseteq changed',
               changed' \subseteq Settings,
               built' = built \/ frames = <<>>,
               settings'[Isolation] = settings[Isolation] \/ frames = <<>>,
               SettingsInv', loggedIn => loggedIn', ~loggedIn => frames = <<>>
        PROVE  SessionInv'
    <2>1. UNCHANGED <<tdsVersion, connected, request, response, frames, trancount, strayed>>
      BY <1>2 DEF vars, clientVars, wireVars, programVars, serverVars
    <2>2. Top' = Top /\ Unset' = Unset /\ (Followed' <=> Followed)
      BY <2>1 DEF Top, Unset, Followed, Old
    <2>3. CASE frames = <<>>
      <3>1. Asking' = {}
        BY <2>1, <2>3 DEF Asking
      <3>2. AskedInv' /\ SupersededInv' /\ IsolationInv'
        BY <1>2, <2>1, <2>3, <3>1 DEF SessionInv, AskedInv, SupersededInv, IsolationInv
      <3>3. QED
        BY <1>1, <1>2, <3>2 DEF SessionInv
    <2>4. CASE frames # <<>>
      <3>1. Asking' = Asking /\ \A i \in 1..Len(frames) : LevelOf(i)' = LevelOf(i)
        BY <1>2, <2>1, <2>4, AskingKept
      <3>2. \A i \in Asking : i \in 1..Len(frames) /\ Number(LevelOf(i))' = Number(LevelOf(i))
        BY <3>1 DEF Asking, Number, Value
      <3>3. AskedInv' /\ SupersededInv'
        BY <1>2, <2>1, <2>2, <3>1 DEF SessionInv, AskedInv, SupersededInv
      <3>4. IsolationInv'
        BY <1>2, <2>1, <2>2, <2>4, <3>1, <3>2 DEF SessionInv, IsolationInv
      <3>5. QED
        BY <1>1, <1>2, <3>3, <3>4 DEF SessionInv
    <2>5. QED
      BY <2>3, <2>4
  <1>3. ~loggedIn => frames = <<>>
    BY DEF SessionInv, BuiltInv
  <1>4. CASE UNCHANGED <<vars, sessionVars>>
    <2>1. vars' = vars /\ UNCHANGED <<config, built, loggedIn, settings, changed, superseded>>
      BY <1>4 DEF sessionVars
    <2>2. SettingsInv' /\ changed \subseteq Settings
      BY <2>1 DEF SessionInv, SettingsInv, AskedInv, Asked
    <2>3. QED
      BY <1>2, <1>3, <2>1, <2>2
  <1>5. CASE Construct
    <2>1. /\ vars' = vars /\ UNCHANGED <<config, loggedIn, settings, changed, superseded>>
          /\ built = Unbuilt
      BY <1>5 DEF Construct
    <2>2. ~loggedIn /\ ~loggedIn'
      BY <2>1 DEF SessionInv, BuiltInv
    <2>3. SettingsInv' /\ changed \subseteq Settings
      BY <2>2 DEF SessionInv, SettingsInv, AskedInv
    <2>4. QED
      BY <1>2, <1>3, <2>1, <2>2, <2>3
  <1>6. CASE SendInitialSql
    <2>1. /\ vars' = vars /\ UNCHANGED <<config, built, changed, superseded>>
          /\ built # Unbuilt /\ ~loggedIn /\ loggedIn'
          /\ settings' = Executed(GetInitialSql(built.options))
      BY <1>6 DEF SendInitialSql
    <2>2. /\ config.options \in [OptionNames -> Values] /\ AcceptsOptions(config.options)
          /\ built.options = Options(config.options)
      BY <2>1, AcceptedOptions DEF SessionInv
    <2>3. \A s \in Settings : settings'[s] = Asked(s)
      BY <2>1, <2>2, InitialSqlSets
    <2>4. \A s : Asked(s)' = Asked(s)
      BY <2>1 DEF Asked
    <2>5. SettingsInv' /\ changed \subseteq Settings
      BY <2>3, <2>4 DEF SessionInv, SettingsInv, AskedInv
    <2>6. QED
      BY <1>2, <1>3, <2>1, <2>5
  <1>7. ASSUME NEW option \in Changed, ProgramSets(option)
        PROVE  SessionInv'
    <2>1. /\ vars' = vars /\ UNCHANGED <<config, built, loggedIn, superseded>> /\ loggedIn
          /\ changed' = changed \cup {option}
          /\ \E x : settings' = [settings EXCEPT ![option] = x]
      BY <1>7 DEF ProgramSets
    <2>2. option \in Settings /\ option # Isolation /\ DOMAIN settings = Settings
      BY <1>7, ChangedAssumption DEF Flags, Settings, Isolation, SessionInv, BuiltInv
    <2>3. \A s \in Settings : s # option => settings'[s] = settings[s]
      BY <2>1, <2>2
    <2>4. settings'[Isolation] = settings[Isolation]
      BY <2>2, <2>3 DEF Isolation, Settings
    <2>5. SettingsInv' /\ changed' \subseteq Settings
      BY <2>1, <2>2, <2>3 DEF SessionInv, SettingsInv, AskedInv, Asked
    <2>6. QED
      BY <1>2, <1>3, <2>1, <2>4, <2>5
  <1>8. CASE LoggedInSteps \/ ServerSets
    BY <1>1, <1>8, ProgramKeepsSession, ServerKeepsSession DEF SessionInv
  <1>9. QED
    BY <1>4, <1>5, <1>6, <1>7, <1>8, SessionSteps

LEMMA SessionHolds == SessionSpec => [](AgreeInv /\ SessionInv)
  <1>1. SessionInit => SessionInv
    BY SessionInitHolds
  <1>2. AgreeInv /\ SessionInv /\ [SessionNext]_<<vars, sessionVars>> => SessionInv'
    BY StepKeepsSession
  <1>3. SessionSpec => []AgreeInv
    BY SessionIsTransactions, AgreementHolds
  <1>4. QED
    BY <1>1, <1>2, <1>3, PTL DEF SessionSpec

-----------------------------------------------------------------------------
(* Theorems of the session *)

\* What is built has every option, the session has every setting, and only settings
\* and frames are noted as changed or superseded.
THEOREM SessionTypeCorrect == SessionSpec => []SessionTypeOK
  <1>1. AgreeInv /\ SessionInv => SessionTypeOK
    <2>1. SUFFICES ASSUME AgreeInv, SessionInv
                   PROVE  SessionTypeOK
      OBVIOUS
    <2>2. built = Unbuilt \/ DOMAIN built.options = OptionNames
      BY <2>1, AcceptedOptions DEF SessionInv, Options
    <2>3. QED
      BY <2>1, <2>2 DEF AgreeInv, IndInv, SessionInv, BuiltInv, AskedInv, SessionTypeOK
  <1>2. QED
    BY <1>1, SessionHolds, PTL

\* Whatever configuration the constructor takes, the server is reached in one way, no
\* statement of the initial SQL is refused, and the credentials are those of the type
\* (the constructor and getInitialSql, src/src/connection.ts).
THEOREM AcceptedCanBeUsed == SessionSpec => []AcceptedIsUsable
  <1>1. SessionInv => AcceptedIsUsable
    <2>1. SUFFICES ASSUME SessionInv, built # Unbuilt
                   PROVE  AcceptedIsUsable
      BY DEF AcceptedIsUsable
    <2>2. /\ IsConfiguration(config) /\ Accepts(config) /\ built = Constructed(config)
          /\ config.options \in [OptionNames -> Values] /\ AcceptsOptions(config.options)
          /\ built.options = Options(config.options)
      BY <2>1, AcceptedOptions DEF SessionInv
    <2>3. (built.options["port"] = Undefined) # (built.options["instanceName"] = Undefined)
      BY <2>2, ServerIsNamed
    <2>4. LET sql == GetInitialSql(built.options)
          IN  \A i \in DOMAIN sql : CanSet(sql[i])
      BY <2>2, InitialSqlIsLegal
    <2>5. LET a == built.authentication
          IN  \A n \in CredentialNames :
                 \/ a.options[n] = Undefined
                 \/ a.options[n].type = "string" /\ n \in Required(a.type) \cup Optional(a.type)
      <3>1. built.authentication = Authentication(config.authentication)
        BY <2>2 DEF Constructed
      <3>2. QED
        BY <2>2, <3>1, CredentialsAreUsable
    <2>6. QED
      BY <2>3, <2>4, <2>5 DEF AcceptedIsUsable
  <1>2. QED
    BY <1>1, SessionHolds, PTL

\* Of any configuration that is taken: once logged in, and again after every reset,
\* each setting is as the configuration asks or the program has changed it itself.
THEOREM SettingsAreAsAsked == SessionSpec => []SettingsAsAsked
  <1>1. SessionInv => SettingsAsAsked
    BY DEF SessionInv, SettingsInv, SettingsAsAsked
  <1>2. QED
    BY <1>1, SessionHolds, PTL

\* In a transaction the isolation level is that which the innermost call with a level
\* asked for, unless a nested call asked for another or the helper went on without it
\* (beginTransaction, saveTransaction and transaction, src/src/connection.ts).
THEOREM LevelIsAsAsked == SessionSpec => []IsolatedAsAsked
  <1>1. AgreeInv /\ SessionInv => IsolatedAsAsked
    <2>1. SUFFICES ASSUME AgreeInv, SessionInv, loggedIn, Sure, inTransaction,
                          NEW i \in {n \in DOMAIN frames : FrameLevel(frames[n]) > 0},
                          \A j \in {n \in DOMAIN frames : FrameLevel(frames[n]) > 0} : j <= i
                   PROVE  \/ frames[i].id \in superseded
                          \/ settings[Isolation] = Number(FrameLevel(frames[i]))
      BY DEF IsolatedAsAsked
    <2>2. Asking = {n \in DOMAIN frames : FrameLevel(frames[n]) > 0}
      BY <2>1, LenProperties DEF Asking, LevelOf, AgreeInv, IndInv, TypeOK
    <2>3. trancount > 0
      <3>1. inTransaction = (trancount > 0)
        BY <2>1, Agreed DEF DescriptorsAgree
      <3>2. QED
        BY <2>1, <3>1, Zenon
    <2>4. ~Unset
      BY <2>1, NotNone DEF Unset, Sure, Idle
    <2>5. QED
      BY <2>1, <2>2, <2>3, <2>4 DEF SessionInv, IsolationInv, Sure, LevelOf
  <1>2. QED
    BY <1>1, SessionHolds, PTL

=============================================================================
