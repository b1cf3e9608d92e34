----------------------------- MODULE QueryServer -----------------------------
(***************************************************************************)
(* The life of the query extension: Start binds two ports, builds the      *)
(* storage factories and splits the HTTP port with cmux between a gRPC     *)
(* server and an HTTP server whose handler is a gateway to that gRPC       *)
(* server, through the same port.  Three goroutines serve; they share the  *)
(* variable err of Start and end the process with Fatalf.  Shutdown stops  *)
(* the two servers.                                                        *)
(***************************************************************************)
EXTENDS Naturals

CONSTANTS
  Clients,      \* the requests made to the extension
  Via,          \* per client: "http1" or "http2" on the HTTP port, or "grpc"
  StorageTypes, \* storage_type of the queries: tracing, metrics and logging
  TracingType,  \* that of tracing_query, "" if it is not given
  MayFail,      \* whether ports, storage and listeners may fail
  MayStop       \* whether the collector may shut down

ASSUME QueryAssumption ==
  /\ Via \in [Clients -> {"http1", "http2", "grpc"}]
  /\ MayFail \in BOOLEAN /\ MayStop \in BOOLEAN

Goroutines == {"grpc", "http", "cmux"}

VARIABLES
  step,      \* what Start or Shutdown does next
  process,   \* "alive", "exited", "fatal" or "panic"
  grpcPort,  \* the listener of the gRPC endpoint: "none" or "open"
  root,      \* that of the HTTP endpoint: "none", "open" or "closed"
  stopped,   \* the servers that Shutdown stopped: a subset of {"grpc", "http"}
  serve,     \* per goroutine: "none", "spawned", "serving", "returned",
             \* "stored" or "ended"
  result,    \* per goroutine: what Serve returned, "nil" or "error"
  err,       \* the variable err of Start
  at         \* per client: where its request is

mainVars   == <<step, stopped, grpcPort>>
goVars     == <<serve, result, err>>
vars       == <<mainVars, process, root, goVars, at>>

Init ==
  /\ step = "listenGrpc" /\ process = "alive"
  /\ grpcPort = "none" /\ root = "none" /\ stopped = {}
  /\ serve = [g \in Goroutines |-> "none"]
  /\ result = [g \in Goroutines |-> "nil"]
  /\ err = "nil"
  /\ at = [c \in Clients |-> "new"]

Ends(how) == process' = how /\ UNCHANGED <<step, stopped, grpcPort, root, goVars, at>>

\* initListener.  When a port is taken Server returns a nil CancelFunc along
\* with the error, and Start calls it.
ListenGrpc ==
  /\ step = "listenGrpc"
  /\ grpcPort' = "open" /\ step' = "listenHttp"
  /\ UNCHANGED <<process, root, stopped, goVars, at>>

ListenHttp ==
  /\ step = "listenHttp"
  /\ root' = "open" /\ step' = "factories"
  /\ UNCHANGED <<process, grpcPort, stopped, goVars, at>>

ListenFails == MayFail /\ step \in {"listenGrpc", "listenHttp"} /\ Ends("panic")

\* initFactories and CreateSpanQuery.
Known == {"elasticsearch", "clickhouse"}
FactoriesExist == StorageTypes \ {""} \subseteq Known /\ TracingType \in Known

InitFactories ==
  /\ step = "factories" /\ FactoriesExist
  /\ step' = "register"
  /\ UNCHANGED <<process, grpcPort, root, stopped, goVars, at>>

FactoriesFail == step = "factories" /\ (MayFail \/ ~FactoriesExist) /\ Ends("fatal")

\* The gateway cannot be registered: Start returns the error.
RegisterFails == MayFail /\ step = "register" /\ Ends("exited")

\* The listeners of cmux take the place of both, and the goroutines start.
Spawn ==
  /\ step = "register"
  /\ step' = "started"
  /\ serve' = [g \in Goroutines |-> "spawned"]
  /\ UNCHANGED <<process, grpcPort, root, stopped, result, err, at>>

Main == \/ ListenGrpc \/ ListenHttp \/ ListenFails \/ InitFactories \/ FactoriesFail
        \/ RegisterFails \/ Spawn

-----------------------------------------------------------------------------
\* A listener of cmux closes the listener of the port it was matched from.
CloseRoot == root' = "closed"

\* Serve is called.  A server that was stopped before refuses, and closes the
\* listener it was given.
Serve(g) ==
  /\ serve[g] = "spawned"
  /\ IF g \in stopped
       THEN /\ serve' = [serve EXCEPT ![g] = "returned"]
            /\ result' = [result EXCEPT ![g] = "error"]
            /\ CloseRoot
       ELSE serve' = [serve EXCEPT ![g] = "serving"] /\ UNCHANGED <<result, root>>
  /\ UNCHANGED <<mainVars, process, err, at>>

\* The listeners that cmux feeds end when its own Serve has ended.
CmuxEnded == serve["cmux"] \in {"returned", "stored", "ended"}

MayReturn(g) == IF g = "cmux" THEN root = "closed"
                ELSE CmuxEnded /\ (g = "grpc" => step # "stopping")

\* Only the gRPC server returns nil when it was stopped.
ServeResult(g) == IF g = "grpc" /\ g \in stopped THEN "nil" ELSE "error"

Return(g) ==
  /\ serve[g] = "serving" /\ MayReturn(g)
  /\ serve' = [serve EXCEPT ![g] = "returned"]
  /\ result' = [result EXCEPT ![g] = ServeResult(g)]
  /\ CloseRoot
  /\ UNCHANGED <<mainVars, process, err, at>>

\* The port fails by itself.
Breaks ==
  /\ MayFail /\ serve["cmux"] = "serving" /\ root = "open"
  /\ serve' = [serve EXCEPT !["cmux"] = "returned"]
  /\ result' = [result EXCEPT !["cmux"] = "error"]
  /\ UNCHANGED <<mainVars, process, root, err, at>>

\* err = ...Serve(...): the goroutines assign the same variable ...
Store(g) ==
  /\ serve[g] = "returned"
  /\ err' = result[g]
  /\ serve' = [serve EXCEPT ![g] = "stored"]
  /\ UNCHANGED <<mainVars, process, root, result, at>>

\* ... and each reads what is in it then.
Check(g) ==
  /\ serve[g] = "stored"
  /\ serve' = [serve EXCEPT ![g] = "ended"]
  /\ process' = IF err = "error" THEN "fatal" ELSE process
  /\ UNCHANGED <<mainVars, root, result, err, at>>

Goroutine(g) == Serve(g) \/ Return(g) \/ Store(g) \/ Check(g)

-----------------------------------------------------------------------------
\* Shutdown: grpcServer.Stop closes the listeners it serves on and waits for
\* their Accept to return.
StopGrpc_LeavesListener ==
  /\ MayStop /\ step = "started"
  /\ step' = "stopping" /\ stopped' = stopped \cup {"grpc"}
  /\ UNCHANGED <<process, grpcPort, root, goVars, at>>

StopGrpc ==
  /\ MayStop /\ step = "started"
  /\ step' = "stopping" /\ stopped' = stopped \cup {"grpc"}
  /\ IF serve["grpc"] = "serving" THEN CloseRoot ELSE UNCHANGED root
  /\ UNCHANGED <<process, grpcPort, goVars, at>>

StopReturns ==
  /\ step = "stopping" /\ (serve["grpc"] = "serving" => CmuxEnded)
  /\ step' = "closing"
  /\ UNCHANGED <<process, grpcPort, root, stopped, goVars, at>>

\* httpServer.Close; closing the port a second time is an error, which Shutdown
\* returns.
CloseHttp_Forgotten ==
  /\ step = "closing"
  /\ step' = "stopped"
  /\ UNCHANGED <<process, grpcPort, root, stopped, goVars, at>>

CloseHttp ==
  /\ step = "closing"
  /\ step' = IF serve["http"] = "serving" /\ root = "closed" THEN "stoppedWithError" ELSE "stopped"
  /\ stopped' = stopped \cup {"http"}
  /\ IF serve["http"] = "serving" THEN CloseRoot ELSE UNCHANGED root
  /\ UNCHANGED <<process, grpcPort, goVars, at>>

Shutdown == StopGrpc \/ StopReturns \/ CloseHttp

-----------------------------------------------------------------------------
Move(c, where) ==
  /\ at' = [at EXCEPT ![c] = where]
  /\ UNCHANGED <<mainVars, process, root, goVars>>

\* A client connects; a port that is not open refuses.
Connect(c) ==
  /\ at[c] = "new"
  /\ IF (Via[c] = "grpc" /\ grpcPort = "open") \/ (Via[c] # "grpc" /\ root = "open")
       THEN Move(c, "backlog") ELSE Move(c, "refused")

\* cmux accepts the connection and hands it to the listener that matches: HTTP/2
\* for the gRPC server, anything else for the HTTP server.
GrpcMatches_OwnPort(c) == at[c] = "matched" /\ Via[c] = "http2"
GrpcMatches(c) == at[c] = "gatewayMatched" \/ (at[c] = "matched" /\ Via[c] = "http2")

Match(c) ==
  /\ serve["cmux"] = "serving" /\ root = "open"
  /\ \/ at[c] = "backlog" /\ Via[c] # "grpc" /\ Move(c, "matched")
     \/ at[c] = "gateway" /\ Move(c, "gatewayMatched")

\* The HTTP server calls the gRPC server through the port again.
Forward(c) ==
  /\ at[c] = "matched" /\ Via[c] = "http1" /\ serve["http"] = "serving" /\ "http" \notin stopped
  /\ IF root = "open" THEN Move(c, "gateway") ELSE Move(c, "refused")

Answer(c) ==
  /\ GrpcMatches(c) /\ serve["grpc"] = "serving" /\ "grpc" \notin stopped
  /\ Move(c, "served")

\* The end of the port, or of cmux, breaks what is under way.
Break(c) ==
  /\ root = "closed" \/ CmuxEnded
  /\ Via[c] # "grpc" /\ at[c] \in {"backlog", "matched", "gateway", "gatewayMatched"}
  /\ Move(c, "refused")

Request(c) == Match(c) \/ Forward(c) \/ Answer(c) \/ Break(c)

Alive == process = "alive"

Next == Alive /\ \/ Main \/ Shutdown \/ Breaks
                 \/ \E g \in Goroutines : Goroutine(g)
                 \/ \E c \in Clients : Connect(c) \/ Request(c)

Spec == Init /\ [][Next]_vars

\* Start, the goroutines and a Shutdown that has begun go on, and so does what
\* the servers do for a client.
FairSpec ==
  /\ Spec
  /\ WF_vars(Alive /\ (ListenGrpc \/ ListenHttp \/ InitFactories \/ FactoriesFail \/ Spawn))
  /\ WF_vars(Alive /\ (StopReturns \/ CloseHttp))
  /\ \A g \in Goroutines : WF_vars(Alive /\ Goroutine(g))
  /\ \A c \in Clients : WF_vars(Alive /\ Request(c))
-----------------------------------------------------------------------------
\* Type invariant of the variables above; a Shutdown that returned has stopped
\* both servers.
TypeOK ==
  /\ step \in {"listenGrpc", "listenHttp", "factories", "register", "started",
               "stopping", "closing", "stopped", "stoppedWithError"}
  /\ process \in {"alive", "exited", "fatal", "panic"}
  /\ grpcPort \in {"none", "open"} /\ root \in {"none", "open", "closed"}
  /\ stopped \subseteq {"grpc", "http"} /\ (step \in {"stopped", "stoppedWithError"} => stopped = {"grpc", "http"})
  /\ serve \in [Goroutines -> {"none", "spawned", "serving", "returned", "stored", "ended"}]
  /\ result \in [Goroutines -> {"nil", "error"}] /\ err \in {"nil", "error"}
  /\ at \in [Clients -> {"new", "backlog", "matched", "gateway", "gatewayMatched",
                         "served", "refused"}]

\* A request to the HTTP port comes to an end while the process lives, in
\* whatever order the goroutines start, although the gateway that answers it
\* waits for another connection to the same port.
RequestsEnd ==
  \A c \in Clients : Via[c] # "grpc" =>
    (at[c] = "backlog" ~> at[c] \in {"served", "refused"} \/ ~Alive)

\* Shutdown returns, with or without an error, or the process is over: Stop waits
\* for an Accept that only cmux ends.
ShutdownEnds == step = "stopping" ~> step \in {"stopped", "stoppedWithError"} \/ ~Alive

\* The gRPC endpoint that every scenario of the README configures (README.md:84)
\* answers, as the endpoint of a server does.
GrpcEndpointAnswers ==
  \A c \in Clients : Via[c] = "grpc" =>
    (at[c] = "backlog" ~> at[c] \in {"served", "refused"} \/ ~Alive)
=============================================================================
