----------------------------- MODULE Configuration -----------------------------
(***************************************************************************)
(* What the constructor of Connection makes of the configuration it is     *)
(* given, and the SQL that brings a session to it (getInitialSql, both in  *)
(* src/src/connection.ts).  A value of JavaScript is its typeof and a      *)
(* number: that of a number, a number for each text with 0 for the empty   *)
(* one, 1 and 0 for true and false, for an object or function and null.    *)
(***************************************************************************)
EXTENDS Integers, Sequences

Value(type, v) == [type |-> type, is |-> v]
Undefined == Value("undefined", 0)
Null      == Value("object", 0)
On        == Value("boolean", 1)
Off       == Value("boolean", 0)
Number(n) == Value("number", n)
Text(n)   == Value("string", n)
Truthy(x) == x.is # 0

-----------------------------------------------------------------------------
(* The options *)

Booleans == {"camelCaseColumns", "fallbackToDefaultDb", "multiSubnetFailover", "readOnlyIntent",
             "rowCollectionOnDone", "rowCollectionOnRequestCompletion", "trustServerCertificate",
             "useColumnNames", "useUTC", "lowerCaseGuids",
             "debug.data", "debug.packet", "debug.payload", "debug.token"}
\* These may be null, to leave the setting to the server.
Flags == {"enableAnsiNull", "enableAnsiNullDefault", "enableAnsiPadding", "enableAnsiWarnings",
          "enableArithAbort", "enableConcatNullYieldsNull", "enableCursorCloseOnCommit",
          "enableImplicitTransactions", "enableNumericRoundabort", "enableQuotedIdentifier",
          "abortTransactionOnError"}
Texts   == {"appName", "database", "instanceName", "localAddress", "tdsVersion", "serverName",
            "workstationId"}
Levels  == {"connectionIsolationLevel", "isolationLevel"}
Numbers == {"cancelTimeout", "connectTimeout", "packetSize", "port", "requestTimeout",
            "maxRetriesOnTransientErrors", "connectionRetryInterval"} \cup Levels

\* The options that become settings of the session
Settings == Flags \cup {"datefirst", "dateFormat", "language", "textsize", "connectionIsolationLevel"}
Nullable == Settings \ {"connectionIsolationLevel"}
OptionNames == Booleans \cup Texts \cup Numbers \cup Settings
               \cup {"encrypt", "connector", "columnNameReplacer", "cryptoCredentialsDetails"}

Strict == Text(1)                       \* 'strict', as a value of encrypt

HasType(option, x) ==
    \/ option \in Nullable /\ x = Null
    \/ x.type = "boolean" /\ option \in Booleans \cup Flags \cup {"encrypt"}
    \/ x.type = "number"  /\ option \in Numbers \cup {"datefirst", "textsize"}
    \/ x.type = "string"  /\ option \in Texts \cup {"dateFormat", "language"}
    \/ option = "encrypt" /\ x = Strict
    \/ x.type = "function" /\ option \in {"connector", "columnNameReplacer"}
    \/ x.type = "object" /\ x # Null /\ option = "cryptoCredentialsDetails"

MaxTextsize == 2147483647
MaxPort     == 65535
InRangeUnchecked(option, n) == TRUE     \* fault: any number will do
InRange(option, n) ==
    /\ option = "datefirst" => n \in 1..7
    /\ option = "textsize"  => n \in -1..MaxTextsize
    /\ option = "port"      => n \in 1..MaxPort
    /\ option = "maxRetriesOnTransientErrors" => n >= 0
    /\ option = "connectionRetryInterval"     => n > 0
    /\ option \in Levels    => n \in 0..5

\* A replacer of column names that is falsy is taken for none.
Given(options, option) ==
    options[option] # Undefined /\ (option = "columnNameReplacer" => Truthy(options[option]))

AcceptsOptions(options) ==
    /\ ~(Truthy(options["port"]) /\ Truthy(options["instanceName"]))
    /\ \A o \in OptionNames :
          Given(options, o) =>
              /\ HasType(o, options[o])
              /\ options[o].type = "number" => InRange(o, options[o].is)

US_ENGLISH == Text(1)
MDY        == Text(1)
READ_COMMITTED == 2
Default(option) ==
    CASE option \in {"useUTC", "encrypt"} -> On
      [] option \in Booleans -> Off
      [] option \in {"abortTransactionOnError", "enableImplicitTransactions",
                     "enableNumericRoundabort"} -> Off
      [] option = "enableCursorCloseOnCommit" -> Null
      [] option \in Flags \ {"abortTransactionOnError", "enableImplicitTransactions",
                             "enableNumericRoundabort", "enableCursorCloseOnCommit"} -> On
      [] option = "datefirst"  -> Number(7)
      [] option = "dateFormat" -> MDY
      [] option = "language"   -> US_ENGLISH
      [] option = "textsize"   -> Number(MaxTextsize)
      [] option \in Levels     -> Number(READ_COMMITTED)
      [] option = "port"       -> Number(1433)
      [] option \in {"connectTimeout", "requestTimeout"} -> Number(15000)
      [] option = "cancelTimeout" -> Number(5000)
      [] option = "connectionRetryInterval"     -> Number(500)
      [] option = "maxRetriesOnTransientErrors" -> Number(3)
      [] option = "packetSize" -> Number(4096)
      [] option = "tdsVersion" -> Text(1)                       \* '7_4'
      [] option = "cryptoCredentialsDetails" -> Value("object", 1)
      [] option \in (Texts \ {"tdsVersion"}) \cup {"connector", "columnNameReplacer"} -> Undefined

\* this.config.options: of port and instanceName the one that is given is kept,
\* and a text size that is null becomes 0.
Options(options) ==
    [o \in OptionNames |->
        IF o = "instanceName" /\ Given(options, "port") THEN Undefined
        ELSE IF o = "port" /\ ~Given(options, "port") /\ Given(options, "instanceName") THEN Undefined
        ELSE IF o = "textsize" /\ options[o] = Null THEN Number(0)
        ELSE IF Given(options, o) THEN options[o] ELSE Default(o)]

-----------------------------------------------------------------------------
(* The authentication *)

AuthenticationTypes ==
    {"default", "ntlm", "azure-active-directory-password", "azure-active-directory-access-token",
     "azure-active-directory-msi-vm", "azure-active-directory-msi-app-service",
     "azure-active-directory-default", "azure-active-directory-service-principal-secret"}
Required(type) ==
    CASE type = "ntlm" -> {"domain"}
      [] type = "azure-active-directory-password"     -> {"clientId"}
      [] type = "azure-active-directory-access-token" -> {"token"}
      [] type = "azure-active-directory-service-principal-secret" ->
            {"clientId", "clientSecret", "tenantId"}
      [] OTHER -> {}
Optional(type) ==
    CASE type \in {"default", "ntlm"} -> {"userName", "password"}
      [] type = "azure-active-directory-password" -> {"userName", "password", "tenantId"}
      [] type \in {"azure-active-directory-msi-vm", "azure-active-directory-msi-app-service",
                   "azure-active-directory-default"} -> {"clientId"}
      [] OTHER -> {}
CredentialNames == {"domain", "clientId", "clientSecret", "tenantId", "token", "userName", "password"}

AcceptsAuthentication(a) ==
    /\ a.type \in AuthenticationTypes
    /\ \A n \in Required(a.type) : a.options[n].type = "string"
    /\ \A n \in Optional(a.type) : a.options[n].type \in {"string", "undefined"}

\* config.authentication: what the type has no use for is dropped.
Authentication(a) ==
    [a EXCEPT !.options = [n \in CredentialNames |->
        IF n \in Required(a.type) \cup Optional(a.type) THEN a.options[n] ELSE Undefined]]

\* The constructor throws, or there is a Connection.
Accepts(config) ==
    /\ config.server.type = "string"
    /\ AcceptsAuthentication(config.authentication)
    /\ AcceptsOptions(config.options)

Constructed(config) ==
    [server |-> config.server, authentication |-> Authentication(config.authentication),
     options |-> Options(config.options)]

-----------------------------------------------------------------------------
(* The initial SQL *)

\* getIsolationLevelText: whatever is none of the others is read committed.
GetIsolationLevelText(level) == IF level \in {1, 3, 4, 5} THEN level ELSE READ_COMMITTED

Order == <<"enableAnsiNull", "enableAnsiNullDefault", "enableAnsiPadding", "enableAnsiWarnings",
           "enableArithAbort", "enableConcatNullYieldsNull", "enableCursorCloseOnCommit",
           "datefirst", "dateFormat", "enableImplicitTransactions", "language",
           "enableNumericRoundabort", "enableQuotedIdentifier", "textsize",
           "connectionIsolationLevel", "abortTransactionOnError">>

Statement(option, x) ==
    [set |-> option,
     to  |-> IF option = "connectionIsolationLevel" THEN Number(GetIsolationLevelText(x.is)) ELSE x]

\* getInitialSql: a statement for each option, in its place, but for one that is null
GetInitialSqlOnOnly(options) ==                         \* fault: off is not sent
    LET said == {i \in DOMAIN Order : options[Order[i]] \notin {Null, Off}}
    IN  [i \in said |-> Statement(Order[i], options[Order[i]])]
GetInitialSql(options) ==
    LET said == {i \in DOMAIN Order : options[Order[i]] # Null}
    IN  [i \in said |-> Statement(Order[i], options[Order[i]])]

=============================================================================
