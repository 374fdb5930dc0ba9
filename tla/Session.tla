-------------------------------- MODULE Session --------------------------------
(***************************************************************************)
(* A connection from its configuration to its transactions: the            *)
(* constructor takes or refuses a configuration, the initial SQL brings    *)
(* the session of the server to it, the program changes settings and asks  *)
(* for isolation levels with its transactions, and reset() starts over     *)
(* (src/src/connection.ts).  The settings of a session are external: Null  *)
(* is whatever the server has without a SET.                               *)
(***************************************************************************)
EXTENDS Configuration, Transactions

CONSTANTS
    Configurations, \* what the program gives to the constructor
    Changed         \* the settings that the program may change by itself

\* The values of JavaScript, and what a program can give to the constructor: a value
\* for each option and credential, undefined for those that it leaves out.
Values ==
    {x \in [type : {"undefined", "object", "boolean", "number", "string", "function"}, is : Int] :
        x.type = "undefined" => x = Undefined}
IsConfiguration(c) ==
    /\ c.server \in Values /\ c.options \in [OptionNames -> Values]
    /\ c.authentication = [type    |-> c.authentication.type,
                           options |-> c.authentication.options]
    /\ c.authentication.options \in [CredentialNames -> Values]

ASSUME ChangedAssumption       == Changed \subseteq Flags
ASSUME ConfigurationAssumption == \A c \in Configurations : IsConfiguration(c)

VARIABLES
    config,     \* the argument of the constructor
    built,      \* this.config, or Unbuilt
    loggedIn,   \* the initial SQL has been sent and answered
    settings,   \* the server: the settings of the session
    \* history: settings that the program has changed since the session was
    \* brought to its configuration, and frames in which another level was asked
    \* for, or whose own was not set
    changed, superseded

sessionVars == <<config, built, loggedIn, settings, changed, superseded>>
Isolation == "connectionIsolationLevel"
Unbuilt   == [server |-> Undefined]

\* '7_1', as a value of options.tdsVersion; the others are 7.2 or later.
SevenOne == Text(2)

SessionTypeOK ==
    /\ TypeOK
    /\ built = Unbuilt \/ DOMAIN built.options = OptionNames
    /\ loggedIn \in BOOLEAN
    /\ DOMAIN settings = Settings
    /\ changed \subseteq Settings /\ superseded \subseteq Frames

-----------------------------------------------------------------------------
(* The server (external) *)

ServerDefaults ==
    [s \in Settings |-> IF s = Isolation THEN Number(READ_COMMITTED) ELSE Null]

\* SET TEXTSIZE 0 is the size that the server has by itself.
CanSet(statement) ==
    LET x == statement.to
    IN  /\ statement.set \in Flags => x.type = "boolean"
        /\ statement.set = "datefirst" => x.type = "number" /\ x.is \in 1..7
        /\ statement.set = "textsize"  => x.type = "number" /\ x.is \in -1..MaxTextsize
        /\ statement.set = Isolation   => x.type = "number" /\ x.is \in 1..5
        /\ statement.set \in {"dateFormat", "language"} => x.type = "string"
Effect(statement) ==
    IF statement = [set |-> "textsize", to |-> Number(0)] THEN Null ELSE statement.to

\* A batch of statements, in their order: the last one for a setting counts.
Executed(sql) ==
    [s \in Settings |->
        LET places == {i \in DOMAIN sql : sql[i].set = s /\ CanSet(sql[i])}
        IN  IF places = {} THEN ServerDefaults[s]
            ELSE Effect(sql[CHOOSE i \in places : \A j \in places : j <= i])]

-----------------------------------------------------------------------------
(* From the constructor to LOGGED_IN *)

SessionInit ==
    /\ Init
    /\ config \in Configurations
    /\ (tdsVersion = "7_1") <=> (config.options["tdsVersion"] = SevenOne)
    /\ built = Unbuilt /\ loggedIn = FALSE
    /\ settings = ServerDefaults
    /\ changed = {} /\ superseded = {}

Construct ==
    /\ built = Unbuilt /\ Accepts(config)
    /\ built' = Constructed(config)
    /\ UNCHANGED <<vars, config, loggedIn, settings, changed, superseded>>

SendInitialSql ==
    /\ built # Unbuilt /\ ~loggedIn
    /\ settings' = Executed(GetInitialSql(built.options))
    /\ loggedIn' = TRUE
    /\ UNCHANGED <<vars, config, built, changed, superseded>>

-----------------------------------------------------------------------------
(* Requests and the settings *)

\* The level that a call asks for: beginTransaction has a default, and a savepoint
\* does not set NO_CHANGE.
Requested(operation, level) ==
    CASE operation = "begin" /\ level = NoLevel -> built.options["isolationLevel"].is
      [] operation = "save" /\ level = NoLevel  -> 0
      [] OTHER -> level
FrameLevel(frame) == Requested(IF frame.kind = "save" THEN "save" ELSE "begin", frame.level)

\* The program asks for a level in a transaction, or has one that was not set.
Ask ==
    LET opens  == made' > made /\ FrameLevel(Last(frames')) > 0
        denied == /\ ~Idle /\ Idle' /\ frames' # <<>>
                  /\ \/ /\ request.op = "isolation"
                        /\ settings[Isolation] # Number(GetIsolationLevelText(request.level))
                     \/ request.op = "begin" /\ request.cancel = "unnoticed"
        around == {frames[i].id : i \in DOMAIN frames}
    IN  /\ superseded' = superseded \cup (IF opens THEN around ELSE {})
                                    \cup (IF denied THEN {Top.id} ELSE {})
        /\ changed' = IF opens THEN changed \cup {Isolation} ELSE changed

\* The level goes with the begin; before 7.2 as a SET statement before it, which
\* has no level for NO_CHANGE and is then an error of the whole batch.
BeginLevel ==
    LET level == Requested("begin", request.level)
    IN  \/ level = 0 /\ (Old => response'.error) /\ UNCHANGED settings
        \/ /\ level > 0 /\ (response'.error => Old)
           /\ settings' = [settings EXCEPT ![Isolation] = Number(level)]
        \/ level > 0 /\ response'.error /\ UNCHANGED settings

ServerSets ==
    /\ ServerExecutes
    /\ \/ request.op = "begin" /\ BeginLevel /\ UNCHANGED changed
       \/ /\ request.op = "isolation"
          /\ settings' = IF response'.error THEN settings
                         ELSE [settings EXCEPT ![Isolation] =
                                   Number(GetIsolationLevelText(request.level))]
          /\ UNCHANGED changed
       \/ /\ request.op = "reset"
          /\ settings' = Executed(GetInitialSql(built.options))
          /\ changed' = {}
       \/ request.op \notin {"begin", "isolation", "reset"} /\ UNCHANGED <<settings, changed>>
    /\ UNCHANGED <<config, built, loggedIn, superseded>>

\* A batch of the program with a SET
ProgramSets(option) ==
    /\ loggedIn /\ connected /\ Idle /\ option \notin changed
    /\ settings' = [settings EXCEPT ![option] = IF @ = On THEN Off ELSE On]
    /\ changed' = changed \cup {option}
    /\ UNCHANGED <<vars, config, built, loggedIn, superseded>>

LoggedInSteps ==
    /\ loggedIn
    /\ \/ \E level \in IsolationLevels : Transaction(level) \/ BeginTransaction(level)
       \/ Work \/ Reset \/ TxDone \/ EndTransaction
       \/ \E way \in Ways : Cancel(way)
       \/ ServerSkips \/ ConnectionLost \/ Answer
    /\ Ask
    /\ UNCHANGED <<config, built, loggedIn, settings>>

SessionNext ==
    \/ Construct \/ SendInitialSql
    \/ \E option \in Changed : ProgramSets(option)
    \/ LoggedInSteps \/ ServerSets

SessionSpec == SessionInit /\ [][SessionNext]_<<vars, sessionVars>>

-----------------------------------------------------------------------------
(* Properties *)

\* What the constructor takes can be used: the server is reached by a port or by
\* an instance name and not by both, every statement of the initial SQL can be
\* executed, and the credentials are texts, and only those of the type.
AcceptedIsUsable ==
    built # Unbuilt =>
        /\ (built.options["port"] = Undefined) # (built.options["instanceName"] = Undefined)
        /\ LET sql == GetInitialSql(built.options)
           IN  \A i \in DOMAIN sql : CanSet(sql[i])
        /\ LET a == built.authentication
           IN  \A n \in CredentialNames :
                  \/ a.options[n] = Undefined
                  \/ a.options[n].type = "string" /\ n \in Required(a.type) \cup Optional(a.type)

\* What a setting should be: null leaves it to the server.
Asked(option) ==
    LET given == config.options[option]
        x     == IF given = Undefined THEN Default(option) ELSE given
    IN  IF option = Isolation /\ x = Number(0) THEN Number(READ_COMMITTED)
        ELSE IF option = "textsize" /\ x = Number(0) THEN Null ELSE x

\* From the time it is connected, and again after every reset, whatever came
\* before, the session is as the configuration asks, but for what the program
\* has changed by itself.
SettingsAsAsked ==
    loggedIn /\ Sure => \A s \in Settings \ changed : settings[s] = Asked(s)

\* In an open transaction the session has the isolation level that the innermost
\* open call with a level asked for, until a nested one asks for another, and unless
\* its own was refused, or its begin told as done and not executed (superseded).
IsolatedAsAsked ==
    LET asking == {i \in DOMAIN frames : FrameLevel(frames[i]) > 0}
    IN  loggedIn /\ Sure /\ inTransaction =>
            \A i \in asking :
                (\A j \in asking : j <= i) =>
                    \/ frames[i].id \in superseded
                    \/ settings[Isolation] = Number(FrameLevel(frames[i]))

=============================================================================
