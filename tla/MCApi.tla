--------------------------------- MODULE MCApi ---------------------------------
(***************************************************************************)
(* A user's call, the call back its handler makes over the same connection,    *)
(* the call the client's handler makes to the server again, and one inside its  *)
(* server.  The handler needs data.                                          *)
(***************************************************************************)
EXTENDS ApiProperties, TLC

CONSTANTS k1, ask, back, again, own, Act, Greet, Db

MCCalls == {ask, back, again, own}
MCConn == [c \in MCCalls |-> k1]
MCCallee == (ask :> "server") @@ (back :> "client") @@ (again :> "server") @@ (own :> "local")
MCParent == (ask :> Root) @@ (back :> ask) @@ (again :> back) @@ (own :> ask)
MCActionOf == [h \in {Greet} |-> Act]
MCArgs == [h \in {Greet} |-> {Db}]
================================================================================
