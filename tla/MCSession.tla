------------------------------ MODULE MCSession ------------------------------
(* Configurations for the constructor, taken and refused. *)
EXTENDS Session

Plain == [o \in OptionNames |-> Undefined]
Nobody == [n \in CredentialNames |-> Undefined]
With(options) == [server |-> Text(1), options |-> options,
                  authentication |-> [type |-> "default", options |-> Nobody]]
As(type, credentials) == [With(Plain) EXCEPT !.authentication = [type |-> type, options |-> credentials]]

\* Everything that can be null is, everything that can be off is.
Nulls == [o \in OptionNames |-> IF o \in Nullable THEN Null ELSE Undefined]
Offs  == [o \in OptionNames |-> IF o \in Flags THEN Off ELSE Undefined]

MCConfigurations ==
    { With(Plain),
      With([Nulls EXCEPT !["instanceName"] = Text(3), !["isolationLevel"] = Number(0),
                         !["connectionIsolationLevel"] = Number(5)]),
      With([Offs EXCEPT !["tdsVersion"] = SevenOne, !["isolationLevel"] = Number(0),
                        !["connectionIsolationLevel"] = Number(0), !["textsize"] = Number(0),
                        !["port"] = Number(1434), !["instanceName"] = Text(0)]),
      With([Plain EXCEPT !["port"] = Number(0)]),
      With([Plain EXCEPT !["port"] = Number(1434), !["instanceName"] = Text(3)]),
      With([Plain EXCEPT !["datefirst"] = Number(8)]),
      With([Plain EXCEPT !["textsize"] = Number(-2)]),
      With([Plain EXCEPT !["connectionIsolationLevel"] = Null]),
      With([Plain EXCEPT !["enableAnsiNull"] = Text(1)]),
      As("ntlm", [Nobody EXCEPT !["domain"] = Text(1), !["userName"] = Text(2), !["token"] = Number(1)]),
      As("ntlm", Nobody),
      As("azure-active-directory-password", [Nobody EXCEPT !["clientId"] = Text(1), !["password"] = Null]) }

MCLevels == {-1, 4}
=============================================================================
