---------------------------- MODULE MCQueryServer ----------------------------
(* Small instances of QueryServer for TLC.                                 *)
EXTENDS QueryServer, TLC

CONSTANTS web, api, rpc

\* A browser, a gRPC client of the HTTP port, and one of the gRPC port.
Ways == (web :> "http1") @@ (api :> "http2") @@ (rpc :> "grpc")
=============================================================================
