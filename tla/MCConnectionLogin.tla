------------------------- MODULE MCConnectionLogin -------------------------
(* Small instances of ConnectionLogin for TLC. *)
EXTENDS ConnectionLogin

ConfigsWith(connectors) ==
    [auth : Auths, encrypt : {"off", "on", "strict"}, byInstance : BOOLEAN,
     connector : connectors]
AllConfigs     == ConfigsWith(BOOLEAN)
BuiltinConfigs == ConfigsWith({FALSE})

=============================================================================
