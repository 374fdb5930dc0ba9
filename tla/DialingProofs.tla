----------------------------- MODULE DialingProofs -----------------------------
(***************************************************************************)
(* Dialing settles once and accounts for every socket, for any number of   *)
(* addresses and of attempts.                                              *)
(***************************************************************************)
EXTENDS Dialing, FiniteSetTheorems, TLAPS

\* The lookup: it has sockets only while it sends, fewer errors than addresses, and
\* goes on only under a signal that has not aborted.
LookupInv ==
    /\ L!TypeOK
    /\ lookupPhase = "sending" => errorCount < addresses
    /\ lookupPhase # "sending" => udp = {}
    /\ aborted => lookupPhase \notin {"lookup", "sending"}

\* What is registered and under way in each phase of the connector
PhaseInv ==
    /\ abortHeard <=> dialPhase \in {"lookup", "connecting"}
    /\ aborted => ~abortHeard
    /\ dialPhase \in {"idle", "lookup"} =>
          count = 0 /\ errors = 0 /\ tcp = [a \in C!Addresses |-> "none"]
    /\ dialPhase \in {"idle", "lookup", "rejected"} => heard = {}

\* An address that is tried is listened to, and at most one is connected.
SocketInv ==
    /\ \A a \in C!Addresses : tcp[a] = "connecting" => a \in heard /\ dialPhase = "connecting"
    /\ \A a \in C!Addresses : tcp[a] = "open" => dialPhase = "resolved"
    /\ \A a, b \in C!Addresses : tcp[a] = "open" /\ tcp[b] = "open" => a = b

\* In parallel, every address has an error or a listener.
ParallelInv ==
    parallel =>
        /\ dialPhase = "connecting" =>
              /\ errors + Cardinality(heard) = count
              /\ \A a \in 1..count : a \in heard \/ tcp[a] = "destroyed"
        /\ dialPhase = "resolved" => errors + Cardinality(heard) <= count

\* In sequence, the addresses before the one that is tried have failed.
SequenceInv ==
    ~parallel =>
        /\ dialPhase = "connecting" =>
              /\ errors + 1 \in 1..count /\ heard = {errors + 1}
              /\ \A a \in 1..errors : tcp[a] = "destroyed"
        /\ dialPhase = "resolved" => heard = {}

DialInv == C!TypeOK /\ PhaseInv /\ SocketInv /\ ParallelInv /\ SequenceInv

Inv ==
    /\ byInstance \in BOOLEAN
    /\ LookupInv /\ DialInv /\ AddressesAccountedFor
    /\ ~byInstance => lookupPhase = "idle"
    /\ dialPhase # "idle" => PortKnown

-----------------------------------------------------------------------------
(* The lookup *)

\* What follows a settled attempt, as a response or a timeout leaves it
LEMMA GoOnInv ==
    ASSUME LookupInv, ~aborted, NEW resp \in L!Responses, L!GoOn(resp),
           UNCHANGED <<named, aborted>>
    PROVE  LookupInv'
<1> USE AddressAssumption, RetryAssumption
        DEF LookupInv, L!TypeOK, L!Phases, L!Responses, L!Addresses
<1>1. CASE ~L!LastAttempt /\ L!Attempt(i + 1)
  <2>1. i + 1 \in 0..Retries
    BY <1>1 DEF L!LastAttempt
  <2>2. CASE ~named /\ L!Send(1)
    BY <1>1, <2>1, <2>2 DEF L!GoOn, L!Attempt, L!Send
  <2>3. CASE named
    BY <1>1, <2>1, <2>3 DEF L!GoOn, L!Attempt, L!SocketsCleared
  <2> QED BY <1>1, <2>2, <2>3 DEF L!Attempt
<1>2. CASE L!LastAttempt
  BY <1>2 DEF L!GoOn, L!SocketsCleared, L!TimerOnceSettled
<1> QED BY <1>1, <1>2 DEF L!GoOn

LEMMA LookupStepInv ==
    ASSUME LookupInv, L!Next
    PROVE  LookupInv'
<1> USE AddressAssumption, RetryAssumption
        DEF LookupInv, L!TypeOK, L!Phases, L!Responses, L!Addresses
<1>1. CASE L!Start
  <2>1. CASE aborted
    BY <1>1, <2>1 DEF L!Start
  <2>2. CASE ~aborted /\ ~named
    BY <1>1, <2>2 DEF L!Start, L!Attempt, L!Send
  <2>3. CASE ~aborted /\ named
    BY <1>1, <2>3 DEF L!Start, L!Attempt, L!SocketsCleared
  <2> QED BY <2>1, <2>2, <2>3
<1>2. CASE L!Answers
  BY <1>2 DEF L!Answers, L!LookupAnswers, L!Send
<1>3. CASE L!LookupFails
  BY <1>3 DEF L!LookupFails, L!Throw, L!SocketsCleared, L!TimerOnceSettled
<1>4. CASE L!Response
  <2>1. PICK s \in L!Addresses, resp \in {"port", "noPort"} : L!Responds(s, resp)
    BY <1>4 DEF L!Response
  <2> QED BY <2>1, GoOnInv DEF L!Responds
<1>5. ASSUME NEW s \in L!Addresses, L!SocketFails(s)
      PROVE  LookupInv'
  <2>1. /\ lookupPhase = "sending" /\ errorCount' = errorCount + 1
        /\ named' = named /\ aborted' = aborted
    BY <1>5 DEF L!SocketFails
  <2>2. errorCount' \in 0..MaxAddresses
    BY <2>1
  <2>3. CASE L!ErrorsEndIt
    <3>1. /\ lookupPhase' = "rejected" /\ udp' = {} /\ timer' = FALSE
          /\ i' = i /\ response' = response /\ addresses' = addresses
      BY <1>5, <2>3 DEF L!SocketFails, L!Throw, L!SocketsCleared, L!TimerOnceSettled
    <3> QED BY <2>1, <2>2, <3>1
  <2>4. CASE ~L!ErrorsEndIt
    <3>1. UNCHANGED <<lookupPhase, udp, timer, i, response, addresses>>
      BY <1>5, <2>4 DEF L!SocketFails
    <3>2. errorCount' < addresses
      BY <2>1, <2>4 DEF L!ErrorsEndIt
    <3> QED BY <2>1, <2>2, <3>1, <3>2
  <2> QED BY <2>3, <2>4
<1>6. CASE L!TimerFires
  BY <1>6, GoOnInv DEF L!TimerFires
<1> QED BY <1>1, <1>2, <1>3, <1>4, <1>5, <1>6 DEF L!Next

LEMMA LookupAbortInv ==
    ASSUME LookupInv, L!Abort
    PROVE  LookupInv'
  BY AddressAssumption, RetryAssumption
     DEF LookupInv, L!TypeOK, L!Phases, L!Responses, L!Addresses, L!Abort, L!AbortHeard, L!Throw,
         L!SocketsCleared, L!TimerOnceSettled

-----------------------------------------------------------------------------
(* The connector *)

ConnectorInv == DialInv /\ AddressesAccountedFor

LEMMA HeardFinite ==
    ASSUME C!TypeOK
    PROVE  IsFiniteSet(heard) /\ Cardinality(heard) \in Nat
<1>1. IsFiniteSet(1..MaxAddresses)
  BY AddressAssumption, FS_Interval
<1>2. heard \subseteq 1..MaxAddresses
  BY DEF C!TypeOK, C!Addresses
<1>3. IsFiniteSet(heard)
  BY <1>1, <1>2, FS_Subset
<1> QED BY <1>3, FS_CardinalityType

\* Dialling n addresses from a connector that has none
LEMMA DialsInv ==
    ASSUME ConnectorInv, ~aborted, dialPhase \in {"idle", "lookup"},
           NEW n \in C!Addresses, C!Dial(n)
    PROVE  ConnectorInv'
<1> USE AddressAssumption DEF C!Addresses
<1> DEFINE set == IF parallel THEN 1..n ELSE {1}
<1>1. /\ count' = n /\ heard' = set /\ abortHeard' = TRUE /\ dialPhase' = "connecting"
      /\ UNCHANGED <<named, parallel, aborted, errors>>
  BY DEF C!Dial, C!Try
<1>2. /\ tcp = [a \in C!Addresses |-> "none"] /\ errors = 0
  BY DEF ConnectorInv, DialInv, PhaseInv
<1>3. tcp' = [a \in C!Addresses |-> IF a \in set THEN "connecting" ELSE "none"]
  BY <1>2 DEF C!Dial, C!Try
<1>4. set \subseteq C!Addresses
  OBVIOUS
<1>5. C!TypeOK'
  BY <1>1, <1>2, <1>3, <1>4 DEF ConnectorInv, DialInv, C!TypeOK, C!Phases, C!Socks
<1>6. PhaseInv'
  BY <1>1 DEF PhaseInv
<1>7. SocketInv'
  BY <1>1, <1>3 DEF SocketInv
<1>8. ParallelInv'
  <2>1. n \in Nat /\ Cardinality(1..n) = n
    BY FS_Interval
  <2> QED BY <2>1, <1>1, <1>2 DEF ParallelInv
<1>9. SequenceInv'
  BY <1>1, <1>2 DEF SequenceInv
<1>10. AddressesAccountedFor'
  BY <1>1, <1>3 DEF AddressesAccountedFor
<1> QED BY <1>5, <1>6, <1>7, <1>8, <1>9, <1>10 DEF ConnectorInv, DialInv

LEMMA ConnectsInv ==
    ASSUME ConnectorInv, NEW a \in C!Addresses, C!Connects(a)
    PROVE  ConnectorInv'
<1> USE AddressAssumption DEF C!Addresses
<1>1. /\ tcp[a] = "connecting" /\ a \in heard
      /\ heard' = IF parallel THEN {a} ELSE {}
      /\ abortHeard' = FALSE /\ dialPhase' = "resolved"
      /\ UNCHANGED <<named, parallel, aborted, count, errors>>
  BY DEF C!Connects, C!HeardOnceConnected, C!AbortHeardOnceSettled
<1>2. tcp' = [[b \in C!Addresses |-> IF b # a /\ tcp[b] # "none" THEN "destroyed" ELSE tcp[b]]
                 EXCEPT ![a] = "open"]
  BY DEF C!Connects, C!Destroyed, C!Others
<1>3. dialPhase = "connecting"
  BY <1>1 DEF ConnectorInv, DialInv, SocketInv
<1>4. C!TypeOK'
  BY <1>1, <1>2 DEF ConnectorInv, DialInv, C!TypeOK, C!Phases, C!Socks
<1>5. /\ tcp'[a] = "open"
      /\ \A b \in C!Addresses : b # a => tcp'[b] \in {"none", "destroyed"}
  BY <1>2
<1>6. PhaseInv' /\ SocketInv'
  BY <1>1, <1>5 DEF PhaseInv, SocketInv
<1>7. ParallelInv'
  <2>1. CASE parallel
    <3>1. errors + Cardinality(heard) = count /\ errors \in Nat /\ count \in Nat
      BY <2>1, <1>3 DEF ConnectorInv, DialInv, ParallelInv, C!TypeOK
    <3>2. Cardinality(heard) \in Nat /\ IsFiniteSet(heard)
      BY HeardFinite DEF ConnectorInv, DialInv
    <3>3. Cardinality({a}) = 1
      BY FS_Singleton
    <3>4. Cardinality({a}) <= Cardinality(heard)
      BY <1>1, <3>2, FS_Subset
    <3> QED BY <1>1, <2>1, <3>1, <3>2, <3>3, <3>4 DEF ParallelInv
  <2> QED BY <2>1, <1>1 DEF ParallelInv
<1>8. SequenceInv' /\ AddressesAccountedFor'
  BY <1>1, <1>5 DEF SequenceInv, AddressesAccountedFor
<1> QED BY <1>4, <1>6, <1>7, <1>8 DEF ConnectorInv, DialInv

LEMMA FailsInParallelInv ==
    ASSUME ConnectorInv, NEW a \in C!Addresses, C!FailsInParallel(a)
    PROVE  ConnectorInv'
<1> USE AddressAssumption DEF C!Addresses
<1>1. /\ parallel /\ tcp[a] \in {"connecting", "open"} /\ a \in heard
      /\ errors' = errors + 1 /\ heard' = heard \ {a}
      /\ UNCHANGED <<named, parallel, aborted, count>>
  BY DEF C!FailsInParallel
<1>2. tcp' = [b \in C!Addresses |-> IF b = a THEN "destroyed" ELSE tcp[b]]
  BY <1>1 DEF C!FailsInParallel, C!Destroyed
<1>3. dialPhase \in {"connecting", "resolved"}
  BY <1>1 DEF ConnectorInv, DialInv, SocketInv
<1>4. /\ errors \in Nat /\ count \in 0..MaxAddresses
      /\ errors + Cardinality(heard) <= count
      /\ dialPhase = "connecting" =>
            /\ errors + Cardinality(heard) = count
            /\ \A b \in 1..count : b \in heard \/ tcp[b] = "destroyed"
  <2>1. Cardinality(heard) \in Nat
    BY HeardFinite DEF ConnectorInv, DialInv
  <2> QED BY <1>1, <1>3, <2>1 DEF ConnectorInv, DialInv, ParallelInv, C!TypeOK
<1>5. /\ Cardinality(heard') = Cardinality(heard) - 1 /\ IsFiniteSet(heard')
      /\ Cardinality(heard) \in Nat /\ Cardinality(heard') \in Nat
  <2>1. IsFiniteSet(heard) /\ Cardinality(heard) \in Nat
    BY HeardFinite DEF ConnectorInv, DialInv
  <2> QED BY <1>1, <2>1, FS_RemoveElement, FS_CardinalityType
<1>6. errors' \in 0..MaxAddresses /\ errors' + Cardinality(heard') <= count'
  BY <1>1, <1>4, <1>5
<1>7. \/ /\ errors + 1 = count /\ abortHeard' = FALSE
         /\ dialPhase' = IF dialPhase = "connecting" THEN "rejected" ELSE dialPhase
      \/ errors + 1 # count /\ UNCHANGED <<abortHeard, dialPhase>>
  BY DEF C!FailsInParallel, C!GivesUp
<1>8. errors + 1 = count => heard' = {}
  <2>1. SUFFICES ASSUME errors + 1 = count PROVE heard' = {}
    OBVIOUS
  <2>2. Cardinality(heard') = 0
    BY <1>4, <1>5, <2>1
  <2> QED BY <1>5, <2>2, FS_EmptySet
<1>9. C!TypeOK'
  <2>1. /\ tcp' \in [C!Addresses -> C!Socks] /\ heard' \subseteq C!Addresses
    BY <1>1, <1>2 DEF ConnectorInv, DialInv, C!TypeOK, C!Socks
  <2>2. dialPhase' \in C!Phases /\ abortHeard' \in BOOLEAN
    BY <1>7 DEF ConnectorInv, DialInv, C!TypeOK, C!Phases
  <2> QED BY <1>1, <1>6, <2>1, <2>2 DEF ConnectorInv, DialInv, C!TypeOK
<1>10. PhaseInv'
  BY <1>1, <1>3, <1>7, <1>8 DEF ConnectorInv, DialInv, PhaseInv
<1>11. \A b \in C!Addresses : b # a => tcp'[b] = tcp[b]
  BY <1>2
<1>12. tcp'[a] = "destroyed"
  BY <1>2
<1>13. SocketInv'
  <2>1. CASE errors + 1 = count /\ dialPhase = "connecting"
    <3>1. \A b \in C!Addresses : tcp'[b] \notin {"connecting", "open"}
      <4>1. \A b \in C!Addresses : tcp[b] # "open"
        BY <2>1 DEF ConnectorInv, DialInv, SocketInv
      <4>2. \A b \in C!Addresses : tcp[b] = "connecting" => b = a
        BY <1>1, <1>8, <2>1 DEF ConnectorInv, DialInv, SocketInv
      <4> QED BY <1>11, <1>12, <4>1, <4>2
    <3> QED BY <3>1 DEF SocketInv
  <2>2. CASE UNCHANGED dialPhase
    BY <1>1, <1>11, <1>12, <2>2 DEF ConnectorInv, DialInv, SocketInv
  <2> QED BY <1>7, <2>1, <2>2
<1>14. ParallelInv'
  <2>1. CASE dialPhase' = "connecting"
    <3>1. dialPhase = "connecting" /\ errors' + Cardinality(heard') = count'
      BY <1>1, <1>3, <1>4, <1>5, <1>7, <2>1
    <3>2. \A b \in 1..count' : b \in heard' \/ tcp'[b] = "destroyed"
      BY <1>1, <1>4, <1>11, <1>12, <3>1
    <3> QED BY <2>1, <3>1, <3>2 DEF ParallelInv
  <2> QED BY <2>1, <1>6 DEF ParallelInv
<1>15. SequenceInv'
  BY <1>1 DEF SequenceInv
<1>16. AddressesAccountedFor'
  <2>1. \A b \in C!Addresses : tcp'[b] = "connecting" => b \in heard'
    BY <1>1, <1>11, <1>12 DEF ConnectorInv, DialInv, SocketInv
  <2>2. ASSUME dialPhase' = "rejected"
        PROVE  errors' = count' /\ \A b \in 1..count' : tcp'[b] = "destroyed"
    <3>1. errors + 1 = count /\ dialPhase = "connecting"
      BY <1>3, <1>7, <2>2
    <3>2. \A b \in 1..count : b # a => tcp[b] = "destroyed"
      BY <1>1, <1>4, <1>8, <3>1
    <3> QED BY <1>1, <1>4, <1>11, <1>12, <3>1, <3>2
  <2> QED BY <2>1, <2>2 DEF AddressesAccountedFor
<1> QED BY <1>9, <1>10, <1>13, <1>14, <1>15, <1>16 DEF ConnectorInv, DialInv

LEMMA FailsInSequenceInv ==
    ASSUME ConnectorInv, NEW a \in C!Addresses, C!FailsInSequence(a)
    PROVE  ConnectorInv'
<1> USE AddressAssumption DEF C!Addresses
<1>1. /\ ~parallel /\ tcp[a] = "connecting" /\ a \in heard
      /\ errors' = errors + 1
      /\ UNCHANGED <<named, parallel, aborted, count>>
  BY DEF C!FailsInSequence
<1>2. dialPhase = "connecting" /\ ~(\E b \in C!Addresses : tcp[b] = "open")
  BY <1>1 DEF ConnectorInv, DialInv, SocketInv
<1>3. /\ count \in 0..MaxAddresses /\ errors \in Nat
      /\ a = errors + 1 /\ a \in 1..count /\ heard = {a}
      /\ \A b \in 1..errors : tcp[b] = "destroyed"
      /\ \A b \in C!Addresses : tcp[b] = "connecting" => b = a
  BY <1>1, <1>2 DEF ConnectorInv, DialInv, SequenceInv, SocketInv, C!TypeOK
<1>4. CASE a < count
  <2>1. a + 1 \in C!Addresses
    BY <1>3, <1>4
  <2>2. /\ tcp' = [b \in C!Addresses |-> IF b = a + 1 THEN "connecting"
                                         ELSE IF b = a THEN "destroyed" ELSE tcp[b]]
        /\ heard' = {a + 1} /\ UNCHANGED <<abortHeard, dialPhase>>
    BY <1>1, <1>4, <2>1 DEF C!FailsInSequence, C!Destroyed
  <2>3. C!TypeOK'
    BY <1>1, <1>3, <1>4, <2>1, <2>2 DEF ConnectorInv, DialInv, C!TypeOK, C!Phases, C!Socks
  <2>4. PhaseInv' /\ SocketInv'
    BY <1>1, <1>2, <1>3, <2>1, <2>2 DEF ConnectorInv, DialInv, PhaseInv, SocketInv
  <2>5. ParallelInv'
    BY <1>1 DEF ParallelInv
  <2>6. SequenceInv'
    <3>1. \A b \in 1..errors' : tcp'[b] = "destroyed"
      BY <1>1, <1>3, <1>4, <2>2
    <3> QED BY <1>1, <1>2, <1>3, <1>4, <2>2, <3>1 DEF SequenceInv
  <2>7. AddressesAccountedFor'
    BY <1>1, <1>2, <1>3, <2>1, <2>2 DEF AddressesAccountedFor
  <2> QED BY <2>3, <2>4, <2>5, <2>6, <2>7 DEF ConnectorInv, DialInv
<1>5. CASE ~(a < count)
  <2>1. /\ tcp' = [b \in C!Addresses |-> IF b = a THEN "destroyed" ELSE tcp[b]]
        /\ heard' = {} /\ abortHeard' = FALSE /\ dialPhase' = "rejected"
    BY <1>1, <1>5 DEF C!FailsInSequence, C!Destroyed
  <2>2. C!TypeOK'
    <3>1. errors' \in 0..MaxAddresses
      BY <1>1, <1>3
    <3>2. tcp' \in [C!Addresses -> C!Socks]
      BY <2>1 DEF ConnectorInv, DialInv, C!TypeOK, C!Socks
    <3> QED BY <1>1, <2>1, <3>1, <3>2 DEF ConnectorInv, DialInv, C!TypeOK, C!Phases
  <2>3. PhaseInv' /\ SocketInv'
    BY <1>1, <1>2, <1>3, <2>1 DEF ConnectorInv, DialInv, PhaseInv, SocketInv
  <2>4. ParallelInv' /\ SequenceInv'
    BY <1>1, <2>1 DEF ParallelInv, SequenceInv
  <2>5. AddressesAccountedFor'
    BY <1>1, <1>3, <1>5, <2>1 DEF AddressesAccountedFor
  <2> QED BY <2>2, <2>3, <2>4, <2>5 DEF ConnectorInv, DialInv
<1> QED BY <1>4, <1>5

LEMMA WinnerFailsInv ==
    ASSUME ConnectorInv, NEW a \in C!Addresses, C!WinnerFails(a)
    PROVE  ConnectorInv'
<1> USE AddressAssumption DEF C!Addresses
<1>1. /\ tcp[a] = "open"
      /\ tcp' = [b \in C!Addresses |-> IF b = a THEN "destroyed" ELSE tcp[b]]
      /\ UNCHANGED <<named, parallel, aborted, dialPhase, count, heard, abortHeard, errors>>
  BY DEF C!WinnerFails, C!Destroyed
<1>2. dialPhase = "resolved"
  BY <1>1 DEF ConnectorInv, DialInv, SocketInv
<1>3. C!TypeOK'
  BY <1>1 DEF ConnectorInv, DialInv, C!TypeOK, C!Socks
<1>4. PhaseInv' /\ SocketInv' /\ AddressesAccountedFor'
  BY <1>1, <1>2 DEF ConnectorInv, DialInv, PhaseInv, SocketInv, AddressesAccountedFor
<1>5. ParallelInv' /\ SequenceInv'
  BY <1>1, <1>2 DEF ConnectorInv, DialInv, ParallelInv, SequenceInv
<1> QED BY <1>3, <1>4, <1>5 DEF ConnectorInv, DialInv

LEMMA DialStepInv ==
    ASSUME ConnectorInv, C!Next
    PROVE  ConnectorInv'
<1> USE AddressAssumption DEF C!Addresses
<1>1. CASE C!Start
  <2>1. CASE ~aborted /\ ~named /\ C!Dial(1)
    <3>1. 1 \in C!Addresses /\ dialPhase = "idle"
      BY <1>1 DEF C!Start
    <3> QED BY <2>1, <3>1, DialsInv
  <2>2. CASE aborted /\ dialPhase' = "rejected"
             /\ UNCHANGED <<named, parallel, aborted, count, tcp, heard, abortHeard, errors>>
    <3>1. dialPhase = "idle"
      BY <1>1 DEF C!Start
    <3> QED BY <2>2, <3>1
            DEF ConnectorInv, DialInv, C!TypeOK, C!Phases, PhaseInv, SocketInv, ParallelInv,
                SequenceInv, AddressesAccountedFor
  <2>3. CASE ~aborted /\ named /\ dialPhase' = "lookup" /\ abortHeard' = TRUE
             /\ UNCHANGED <<named, parallel, aborted, count, tcp, heard, errors>>
    <3>1. dialPhase = "idle"
      BY <1>1 DEF C!Start
    <3> QED BY <2>3, <3>1
            DEF ConnectorInv, DialInv, C!TypeOK, C!Phases, PhaseInv, SocketInv, ParallelInv,
                SequenceInv, AddressesAccountedFor
  <2> QED BY <1>1, <2>1, <2>2, <2>3 DEF C!Start
<1>2. CASE C!Answers
  <2>1. PICK n \in C!Addresses : dialPhase = "lookup" /\ C!Dial(n)
    BY <1>2 DEF C!Answers, C!LookupAnswers
  <2>2. ~aborted
    BY <2>1 DEF ConnectorInv, DialInv, PhaseInv
  <2> QED BY <2>1, <2>2, DialsInv
<1>3. CASE C!LookupFails
  <2>1. /\ dialPhase = "lookup" /\ dialPhase' = "rejected" /\ abortHeard' = FALSE
        /\ UNCHANGED <<named, parallel, aborted, count, tcp, heard, errors>>
    BY <1>3 DEF C!LookupFails
  <2>2. C!TypeOK'
    BY <2>1 DEF ConnectorInv, DialInv, C!TypeOK, C!Phases
  <2>3. PhaseInv'
    BY <2>1 DEF ConnectorInv, DialInv, PhaseInv
  <2>4. SocketInv' /\ AddressesAccountedFor'
    BY <2>1 DEF ConnectorInv, DialInv, PhaseInv, SocketInv, AddressesAccountedFor
  <2>5. ParallelInv' /\ SequenceInv'
    BY <2>1 DEF ParallelInv, SequenceInv
  <2> QED BY <2>2, <2>3, <2>4, <2>5 DEF ConnectorInv, DialInv
<1>4. ASSUME NEW a \in C!Addresses, C!SocketEvent(a) \/ C!WinnerFails(a)
      PROVE  ConnectorInv'
  BY <1>4, ConnectsInv, FailsInParallelInv, FailsInSequenceInv, WinnerFailsInv DEF C!SocketEvent
<1> QED BY <1>1, <1>2, <1>3, <1>4 DEF C!Next

LEMMA DialAbortInv ==
    ASSUME ConnectorInv, C!Abort
    PROVE  ConnectorInv'
<1> USE AddressAssumption DEF C!Addresses
<1>1. /\ ~aborted /\ aborted' /\ UNCHANGED <<named, parallel, count, errors>>
  BY DEF C!Abort
<1>2. CASE abortHeard
  <2>1. dialPhase \in {"lookup", "connecting"}
    BY <1>2 DEF ConnectorInv, DialInv, PhaseInv
  <2>2. /\ dialPhase' = "rejected" /\ heard' = {} /\ abortHeard' = FALSE
        /\ tcp' = C!Destroyed(C!AbortedSockets)
    BY <1>2, <2>1 DEF C!Abort
  <2>3. \A b \in C!Addresses : tcp[b] = "connecting" => b \in C!AbortedSockets
    BY DEF C!AbortedSockets, ConnectorInv, DialInv, SocketInv
  <2>4. \A b \in C!Addresses : tcp[b] # "open"
    BY <2>1 DEF ConnectorInv, DialInv, SocketInv
  <2>5. /\ tcp' \in [C!Addresses -> C!Socks]
        /\ \A b \in C!Addresses : tcp'[b] \notin {"connecting", "open"}
    BY <2>2, <2>3, <2>4 DEF ConnectorInv, DialInv, C!TypeOK, C!Socks, C!Destroyed
  <2>6. C!TypeOK'
    BY <1>1, <2>2, <2>5 DEF ConnectorInv, DialInv, C!TypeOK, C!Phases
  <2> QED BY <1>1, <2>2, <2>5, <2>6
          DEF ConnectorInv, DialInv, PhaseInv, SocketInv, ParallelInv, SequenceInv,
              AddressesAccountedFor
<1>3. CASE ~abortHeard
  <2>1. UNCHANGED <<dialPhase, tcp, heard, abortHeard>>
    BY <1>3 DEF C!Abort
  <2> QED BY <1>1, <1>3, <2>1
          DEF ConnectorInv, DialInv, C!TypeOK, PhaseInv, SocketInv, ParallelInv, SequenceInv,
              AddressesAccountedFor
<1> QED BY <1>2, <1>3

-----------------------------------------------------------------------------
(* The composition *)

LEMMA InitInv == Init => Inv
<1> SUFFICES ASSUME Init PROVE Inv
  OBVIOUS
<1> USE AddressAssumption, RetryAssumption DEF Init
<1>1. LookupInv
  <2>1. L!TypeOK
    <3>1. 0 \in 0..Retries /\ 0 \in 0..MaxAddresses /\ {} \subseteq L!Addresses
      OBVIOUS
    <3> QED BY <3>1 DEF L!Init, L!TypeOK, L!Phases, L!Responses
  <2> QED BY <2>1 DEF L!Init, LookupInv
<1>2. C!TypeOK
  <2>1. 0 \in 0..MaxAddresses /\ {} \subseteq C!Addresses
    OBVIOUS
  <2>2. [a \in C!Addresses |-> "none"] \in [C!Addresses -> C!Socks]
    BY DEF C!Socks
  <2> QED BY <2>1, <2>2 DEF C!Init, C!TypeOK, C!Phases
<1>3. PhaseInv /\ SocketInv /\ ParallelInv /\ SequenceInv /\ AddressesAccountedFor
  BY DEF C!Init, PhaseInv, SocketInv, ParallelInv, SequenceInv, AddressesAccountedFor
<1>4. lookupPhase = "idle" /\ dialPhase = "idle"
  BY DEF L!Init, C!Init
<1> QED BY <1>1, <1>2, <1>3, <1>4 DEF Inv, DialInv

LEMMA NextInv == Inv /\ [Next]_vars => Inv'
<1> SUFFICES ASSUME Inv, [Next]_vars PROVE Inv'
  OBVIOUS
<1>1. CASE LookupStep(L!Next)
  <2>1. byInstance /\ L!Next /\ UNCHANGED <<byInstance, connectorVars>>
    BY <1>1 DEF LookupStep
  <2>2. LookupInv' /\ named' = named /\ aborted' = aborted
    BY <2>1, LookupStepInv
       DEF Inv, L!Next, L!Start, L!Answers, L!LookupAnswers, L!LookupFails, L!Response,
           L!Responds, L!SocketFails, L!TimerFires
  <2>3. lookupPhase # "resolved"
    BY <2>1 DEF L!Next, L!Start, L!Answers, L!LookupAnswers, L!LookupFails, L!Response,
                L!Responds, L!SocketFails, L!TimerFires
  <2>4. DialInv' /\ AddressesAccountedFor'
    BY <2>1, <2>2 DEF Inv, DialInv, connectorVars, C!TypeOK, PhaseInv, SocketInv, ParallelInv,
                      SequenceInv, AddressesAccountedFor
  <2>5. dialPhase' = "idle"
    BY <2>1, <2>3 DEF Inv, PortKnown, connectorVars
  <2> QED BY <2>1, <2>2, <2>4, <2>5 DEF Inv
<1>2. CASE DialStep(C!Next)
  <2>1. PortKnown /\ C!Next /\ UNCHANGED <<byInstance, lookupVars>>
    BY <1>2 DEF DialStep
  <2>2. DialInv' /\ AddressesAccountedFor'
    BY <2>1, DialStepInv DEF Inv, ConnectorInv
  <2>3. named' = named /\ aborted' = aborted
    BY <2>1 DEF C!Next, C!Start, C!Answers, C!LookupAnswers, C!LookupFails, C!SocketEvent, C!Dial,
                C!Connects, C!FailsInParallel, C!FailsInSequence, C!WinnerFails
  <2>4. LookupInv' /\ PortKnown'
    BY <2>1, <2>3 DEF Inv, LookupInv, L!TypeOK, lookupVars, PortKnown
  <2> QED BY <2>1, <2>2, <2>4 DEF Inv, lookupVars
<1>3. CASE Abort
  <2>1. L!Abort /\ C!Abort /\ byInstance' = byInstance
    BY <1>3 DEF Abort
  <2>2. LookupInv' /\ DialInv' /\ AddressesAccountedFor'
    BY <2>1, LookupAbortInv, DialAbortInv DEF Inv, ConnectorInv
  <2>3. lookupPhase \in {"idle", "resolved"} => lookupPhase' = lookupPhase
    BY <2>1 DEF L!Abort, L!AbortHeard
  <2>4. dialPhase = "idle" => dialPhase' = "idle"
    BY <2>1 DEF Inv, DialInv, PhaseInv, C!Abort
  <2> QED BY <2>1, <2>2, <2>3, <2>4 DEF Inv, PortKnown
<1>4. CASE UNCHANGED vars
  <2>1. UNCHANGED <<byInstance, named, aborted, lookupVars, connectorVars>>
    BY <1>4 DEF vars
  <2>2. LookupInv'
    BY <2>1 DEF Inv, LookupInv, L!TypeOK, lookupVars
  <2>3. DialInv' /\ AddressesAccountedFor'
    BY <2>1 DEF Inv, DialInv, connectorVars, C!TypeOK, PhaseInv, SocketInv, ParallelInv,
                SequenceInv, AddressesAccountedFor
  <2> QED BY <2>1, <2>2, <2>3 DEF Inv, PortKnown, lookupVars, connectorVars
<1> QED BY <1>1, <1>2, <1>3, <1>4 DEF Next

LEMMA Invariance == Spec => []Inv
  BY InitInv, NextInv, PTL DEF Spec

\* Every variable of the lookup and of the connector keeps its range, whatever the
\* order of the answers, errors, timers and the abort.
THEOREM TypeCorrect == Spec => []TypeOK
<1>1. Inv => TypeOK
  BY DEF Inv, LookupInv, DialInv, TypeOK
<1> QED BY <1>1, Invariance, PTL

\* A socket that may report an error has a listener, and connectInParallel and
\* connectInSequence give up when every address has failed and not before.
THEOREM AddressesKept == Spec => []AddressesAccountedFor
<1>1. Inv => AddressesAccountedFor
  BY DEF Inv
<1> QED BY <1>1, Invariance, PTL

-----------------------------------------------------------------------------
(* The refinement *)

\* What the promise looks like in the states the program reaches
Shape ==
    /\ Outcome \in {"pending", "resolved", "rejected"}
    /\ Open \subseteq {"udp", "tcp"} \X C!Addresses
    /\ aborted => Outcome # "pending"
    /\ Outcome = "resolved" <=> dialPhase = "resolved"
    /\ Outcome = "resolved" => Open \in {{}} \cup {{s} : s \in {"udp", "tcp"} \X C!Addresses}
    /\ Outcome = "rejected" => Open = {}

LEMMA InvShape == Inv => Shape
<1> SUFFICES ASSUME Inv PROVE Shape
  OBVIOUS
<1>1. /\ dialPhase = "resolved" => ~(byInstance /\ lookupPhase = "rejected")
      /\ Outcome \in {"pending", "resolved", "rejected"}
      /\ aborted => Outcome # "pending"
      /\ Outcome = "resolved" <=> dialPhase = "resolved"
  BY DEF Inv, PortKnown, Outcome
<1>2. udp \subseteq C!Addresses /\ C!OpenSockets \subseteq C!Addresses
  BY DEF Inv, LookupInv, L!TypeOK, L!Addresses, C!Addresses, C!OpenSockets
<1>3. Open \subseteq {"udp", "tcp"} \X C!Addresses
  BY <1>2 DEF Open
<1>4. lookupPhase # "sending" => udp = {}
  BY DEF Inv, LookupInv
<1>5. C!OpenSockets # {} => dialPhase \in {"connecting", "resolved"}
  BY DEF Inv, DialInv, SocketInv, C!OpenSockets
<1>6. dialPhase # "idle" => udp = {}
  BY <1>4 DEF Inv, PortKnown
<1>7. ASSUME Outcome = "resolved"
      PROVE  Open \in {{}} \cup {{s} : s \in {"udp", "tcp"} \X C!Addresses}
  <2>1. dialPhase = "resolved" /\ udp = {}
    BY <1>1, <1>6, <1>7
  <2>2. \A a, b \in C!OpenSockets : a = b
    BY <2>1 DEF Inv, DialInv, SocketInv, C!OpenSockets
  <2>3. Open = {<<"tcp", s>> : s \in C!OpenSockets}
    BY <2>1 DEF Open
  <2>4. CASE C!OpenSockets = {}
    BY <2>3, <2>4
  <2>5. CASE C!OpenSockets # {}
    <3>1. PICK a \in C!OpenSockets : TRUE
      BY <2>5
    <3>2. Open = {<<"tcp", a>>}
      BY <2>2, <2>3, <3>1
    <3>3. <<"tcp", a>> \in {"udp", "tcp"} \X C!Addresses
      BY <1>2, <3>1
    <3> QED BY <3>2, <3>3
  <2> QED BY <2>4, <2>5
<1>8. ASSUME Outcome = "rejected"
      PROVE  Open = {}
  <2>1. dialPhase # "resolved"
    BY <1>1, <1>8
  <2>2. udp = {}
    <3>1. CASE byInstance /\ lookupPhase = "rejected"
      BY <1>4, <3>1
    <3>2. CASE dialPhase = "rejected"
      BY <1>6, <3>2
    <3>3. CASE aborted
      BY <1>4, <3>3 DEF Inv, LookupInv
    <3> QED BY <1>8, <2>1, <3>1, <3>2, <3>3 DEF Outcome
  <2>3. C!OpenSockets = {}
    <3>1. CASE byInstance /\ lookupPhase = "rejected"
      BY <1>5, <3>1 DEF Inv, PortKnown
    <3>2. CASE dialPhase = "rejected"
      BY <1>5, <3>2
    <3>3. CASE aborted
      BY <1>5, <2>1, <3>3 DEF Inv, DialInv, PhaseInv
    <3> QED BY <1>8, <2>1, <3>1, <3>2, <3>3 DEF Outcome
  <2> QED BY <2>2, <2>3 DEF Open
<1> QED BY <1>1, <1>3, <1>7, <1>8 DEF Shape

\* What a step of the lookup does to the promise
LEMMA LookupKeeps ==
    ASSUME Inv, Inv', LookupStep(L!Next)
    PROVE  /\ aborted' = aborted /\ dialPhase # "resolved"
           /\ Outcome = "rejected" => Outcome' = "rejected"
<1>1. byInstance /\ L!Next /\ UNCHANGED <<byInstance, connectorVars>>
  BY DEF LookupStep
<1>2. lookupPhase \notin {"resolved", "rejected"} /\ aborted' = aborted
  BY <1>1 DEF L!Next, L!Start, L!Answers, L!LookupAnswers, L!LookupFails, L!Response,
              L!Responds, L!SocketFails, L!TimerFires
<1>3. dialPhase = "idle" /\ dialPhase' = "idle"
  BY <1>1, <1>2 DEF Inv, PortKnown, connectorVars
<1> QED BY <1>2, <1>3 DEF Outcome

\* What a step of the connector does to the promise
LEMMA DialKeeps ==
    ASSUME Inv, Inv', DialStep(C!Next)
    PROVE  /\ aborted' = aborted
           /\ Outcome = "rejected" => Outcome' = "rejected"
           /\ dialPhase = "resolved" => dialPhase' = "resolved" /\ Open' \subseteq Open
<1>1. PortKnown /\ C!Next /\ UNCHANGED <<byInstance, lookupVars>>
  BY DEF DialStep
<1>2. aborted' = aborted
  BY <1>1 DEF C!Next, C!Start, C!Answers, C!LookupAnswers, C!LookupFails, C!SocketEvent, C!Dial,
              C!Connects, C!FailsInParallel, C!FailsInSequence, C!WinnerFails
<1>3. \/ C!Start \/ C!Answers \/ C!LookupFails
      \/ \E a \in C!Addresses : C!SocketEvent(a) \/ C!WinnerFails(a)
  BY <1>1 DEF C!Next
<1>4. dialPhase # "rejected"
  BY <1>3 DEF Inv, DialInv, PhaseInv, SocketInv, C!Start, C!Answers, C!LookupAnswers,
              C!LookupFails, C!SocketEvent, C!Connects, C!FailsInParallel, C!FailsInSequence,
              C!WinnerFails
<1>5. ASSUME Outcome = "rejected"
      PROVE  Outcome' = "rejected"
  <2>1. aborted /\ dialPhase # "resolved"
    BY <1>1, <1>4, <1>5 DEF Outcome, PortKnown
  <2>2. dialPhase = "idle"
    BY <1>4, <2>1 DEF Inv, DialInv, PhaseInv, C!TypeOK, C!Phases
  <2>3. C!Start
    BY <1>3, <2>2 DEF Inv, DialInv, SocketInv, C!Answers, C!LookupAnswers, C!LookupFails,
                      C!SocketEvent, C!Connects, C!FailsInParallel, C!FailsInSequence,
                      C!WinnerFails, PhaseInv
  <2>4. dialPhase' = "rejected"
    BY <2>1, <2>3 DEF C!Start
  <2> QED BY <2>4 DEF Outcome
<1>6. ASSUME dialPhase = "resolved"
      PROVE  dialPhase' = "resolved" /\ Open' \subseteq Open
  <2>1. PICK a \in C!Addresses : C!FailsInParallel(a) \/ C!WinnerFails(a)
    BY <1>3, <1>6 DEF Inv, DialInv, SocketInv, C!Start, C!Answers, C!LookupAnswers,
                      C!LookupFails, C!SocketEvent, C!Connects, C!FailsInSequence
  <2>2. dialPhase' = "resolved" /\ tcp' = C!Destroyed({a})
    BY <1>6, <2>1 DEF C!FailsInParallel, C!WinnerFails
  <2>3. \A b \in C!Addresses : tcp'[b] = tcp[b] \/ tcp'[b] = "destroyed"
    BY <2>2 DEF C!Destroyed
  <2>4. (C!OpenSockets)' \subseteq C!OpenSockets
    BY <2>3 DEF C!OpenSockets
  <2>5. udp' = udp
    BY <1>1 DEF lookupVars
  <2> QED BY <2>2, <2>4, <2>5 DEF Open
<1> QED BY <1>2, <1>5, <1>6

\* What the abort does to the promise
LEMMA AbortKeeps ==
    ASSUME Inv, Inv', Abort
    PROVE  /\ ~aborted /\ aborted' = TRUE
           /\ Outcome = "rejected" => Outcome' = "rejected"
           /\ dialPhase' = "resolved" <=> dialPhase = "resolved"
           /\ dialPhase = "resolved" => Open' = Open
<1>1. L!Abort /\ C!Abort /\ byInstance' = byInstance
  BY DEF Abort
<1>2. ~aborted /\ aborted' = TRUE
  BY <1>1 DEF C!Abort
<1>3. dialPhase' = "resolved" <=> dialPhase = "resolved"
  BY <1>1 DEF C!Abort
<1>4. dialPhase \in {"resolved", "rejected"} => dialPhase' = dialPhase /\ tcp' = tcp
  BY <1>1 DEF Inv, DialInv, PhaseInv, C!Abort
<1>5. lookupPhase = "rejected" => lookupPhase' = "rejected"
  BY <1>1 DEF L!Abort, L!AbortHeard
<1>6. Outcome = "rejected" => Outcome' = "rejected"
  BY <1>1, <1>2, <1>3, <1>4, <1>5 DEF Outcome
<1>7. ASSUME dialPhase = "resolved"
      PROVE  Open' = Open
  <2>1. udp = {} /\ udp' = {}
    BY <1>3, <1>7 DEF Inv, PortKnown, LookupInv
  <2>2. tcp' = tcp
    BY <1>4, <1>7
  <2>3. (C!OpenSockets)' = C!OpenSockets
    BY <2>2 DEF C!OpenSockets
  <2> QED BY <2>1, <2>3 DEF Open
<1> QED BY <1>2, <1>3, <1>6, <1>7

LEMMA StepMaps ==
    ASSUME Inv, Inv', [Next]_vars
    PROVE  [Promise!Next]_<<Outcome, aborted, Open>>
<1>1. Shape /\ Shape'
  <2>1. Inv => Shape
    BY InvShape
  <2> QED BY <2>1, InvShape, PTL
<1> USE DEF Promise!Next, Promise!Work, Promise!Resolve, Promise!Reject, Promise!Abort, Promise!Lose
<1>2. CASE LookupStep(L!Next) \/ DialStep(C!Next)
  <2>1. /\ aborted' = aborted
        /\ Outcome = "rejected" => Outcome' = "rejected"
        /\ Outcome = "resolved" => Outcome' = "resolved" /\ Open' \subseteq Open
    BY <1>1, <1>2, LookupKeeps, DialKeeps DEF Shape
  <2>2. CASE Outcome = "pending"
    BY <1>1, <2>1, <2>2 DEF Shape
  <2>3. CASE Outcome = "resolved"
    BY <2>1, <2>3
  <2>4. CASE Outcome = "rejected"
    BY <1>1, <2>1, <2>4 DEF Shape
  <2> QED BY <1>1, <2>2, <2>3, <2>4 DEF Shape
<1>3. CASE Abort
  <2>1. /\ ~aborted /\ aborted' = TRUE
        /\ Outcome = "rejected" => Outcome' = "rejected"
        /\ Outcome' = "resolved" <=> Outcome = "resolved"
        /\ Outcome = "resolved" => Open' = Open
    BY <1>1, <1>3, AbortKeeps DEF Shape
  <2>2. CASE Outcome = "pending"
    <3>1. Outcome' = "rejected" /\ Open' = {}
      BY <1>1, <2>1, <2>2 DEF Shape
    <3> QED BY <2>1, <2>2, <3>1
  <2>3. CASE Outcome = "resolved"
    BY <2>1, <2>3
  <2>4. CASE Outcome = "rejected"
    BY <1>1, <2>1, <2>4 DEF Shape
  <2> QED BY <1>1, <2>2, <2>3, <2>4 DEF Shape
<1>4. CASE UNCHANGED vars
  BY <1>4 DEF vars, lookupVars, connectorVars, Outcome, Open, C!OpenSockets
<1> QED BY <1>2, <1>3, <1>4 DEF Next

\* Whatever order the answers, errors, timers and the abort come in, dialling settles
\* once and at once when aborted, and leaves at most the socket it resolves with.
THEOREM Implementation == Spec => ImplementsPromise
<1>1. Init => Promise!Init
  <2> SUFFICES ASSUME Init PROVE Promise!Init
    OBVIOUS
  <2>1. /\ lookupPhase = "idle" /\ dialPhase = "idle" /\ aborted = FALSE /\ udp = {}
        /\ tcp = [a \in C!Addresses |-> "none"]
    BY DEF Init, L!Init, C!Init
  <2>2. Open = {}
    BY <2>1 DEF Open, C!OpenSockets
  <2>3. Outcome = "pending"
    BY <2>1 DEF Outcome
  <2> QED BY <2>1, <2>2, <2>3 DEF Promise!Init
<1>2. Inv /\ Inv' /\ [Next]_vars => [Promise!Next]_<<Outcome, aborted, Open>>
  BY StepMaps
<1> QED BY <1>1, <1>2, Invariance, PTL DEF Spec, ImplementsPromise, Promise!Spec

=============================================================================
