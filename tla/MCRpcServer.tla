----------------------------- MODULE MCRpcServer -----------------------------
(***************************************************************************)
(* Instances of RpcServer for TLC.                                         *)
(***************************************************************************)
EXTENDS RpcServer, TLC

CONSTANTS prompt, steer, query, shutdown

\* Two commands, a query and a shutdown.
MCRequests == {prompt, steer, query, shutdown}
MCKind == prompt :> "command" @@ steer :> "command" @@ query :> "query" @@ shutdown :> "shutdown"
=============================================================================
