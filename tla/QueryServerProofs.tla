-------------------------- MODULE QueryServerProofs --------------------------
(***************************************************************************)
(* Theorems about QueryServer, for any clients, storage types and ways to  *)
(* fail or stop: its types, and why neither Shutdown nor a request on the  *)
(* HTTP port waits for nobody, while one on the gRPC port does.            *)
(***************************************************************************)
EXTENDS QueryServer, TLAPS

Ended(g) == serve[g] \in {"returned", "stored", "ended"}
Running  == step \in {"started", "stopping", "closing", "stopped", "stoppedWithError"}

\* The goroutines run once the servers are there; the servers are stopped in turn;
\* the port is open until one of them, stopped or at its end, closes it for all.
ServerInv ==
  /\ \A g \in Goroutines : serve[g] = "none" <=> ~Running
  /\ ~Running \/ step = "started" => stopped = {}
  /\ step \in {"stopping", "closing"} => stopped = {"grpc"}
  /\ step \in {"stopped", "stoppedWithError"} => stopped = {"grpc", "http"}
  /\ grpcPort = "none" <=> step = "listenGrpc"
  /\ root = "none" <=> step \in {"listenGrpc", "listenHttp"}
  /\ root = "closed" => Running
  /\ \A g \in {"grpc", "http"} :
       Ended(g) \/ (g \in stopped /\ serve[g] = "serving") => root = "closed"

\* Where a request can be depends on how it comes: only the HTTP server's go through
\* the gateway, and those on the gRPC port are never taken.
RequestInv ==
  \A c \in Clients :
    /\ Via[c] = "grpc" => at[c] \in {"new", "backlog", "refused"}
    /\ at[c] \in {"gateway", "gatewayMatched"} => Via[c] = "http1"
    /\ at[c] = "backlog" /\ Via[c] # "grpc" => root # "none"
    /\ at[c] \in {"matched", "gateway", "gatewayMatched"} => Running

\* The server that Stop waits for is let go: if cmux has not ended yet, it is about
\* to serve, or has found the port closed.
StopIsLetGo ==
  step = "stopping" /\ serve["grpc"] = "serving" /\ ~CmuxEnded =>
    serve["cmux"] = "spawned" \/ (serve["cmux"] = "serving" /\ MayReturn("cmux"))

\* A request on the HTTP port, the gateway's second connection included, is never
\* without somebody to take its next step.
RequestsAreSeenTo ==
  \A c \in Clients : Via[c] # "grpc" /\ at[c] \in {"backlog", "matched", "gateway", "gatewayMatched"} =>
    \/ root = "closed" \/ CmuxEnded
    \/ ~Running
    \/ \E g \in Goroutines : serve[g] = "spawned"
    \/ at[c] \in {"backlog", "gateway"} /\ serve["cmux"] = "serving" /\ root = "open"
    \/ at[c] = "matched" /\ Via[c] = "http1" /\ serve["http"] = "serving" /\ "http" \notin stopped
    \/ GrpcMatches(c) /\ serve["grpc"] = "serving" /\ "grpc" \notin stopped

\* A request that the gRPC port has accepted stays there, whatever the servers do.
GrpcRequestsStay ==
  [][\A c \in Clients : Via[c] = "grpc" /\ at[c] = "backlog" => at'[c] = "backlog"]_vars
-----------------------------------------------------------------------------
\* The invariants hold in every state; TypeOK is not inductive, for what Shutdown
\* has stopped depends on its step.
THEOREM ServerInvariant == Spec => [](TypeOK /\ ServerInv)
<1> USE DEF TypeOK, ServerInv, Goroutines, Running, Ended
<1>1. Init => TypeOK /\ ServerInv
  BY DEF Init
<1>2. TypeOK /\ ServerInv /\ [Next]_vars => (TypeOK /\ ServerInv)'
  <2> SUFFICES ASSUME TypeOK, ServerInv, [Next]_vars PROVE (TypeOK /\ ServerInv)'
    OBVIOUS
  <2> USE DEF mainVars, goVars
  <2>1. CASE ListenGrpc
    BY <2>1 DEF ListenGrpc
  <2>2. CASE ListenHttp
    BY <2>2 DEF ListenHttp
  <2>3. CASE ListenFails
    BY <2>3 DEF ListenFails, Ends
  <2>4. CASE InitFactories
    BY <2>4 DEF InitFactories
  <2>5. CASE FactoriesFail
    BY <2>5 DEF FactoriesFail, Ends
  <2>6. CASE RegisterFails
    BY <2>6 DEF RegisterFails, Ends
  <2>7. CASE Spawn
    BY <2>7 DEF Spawn
  <2>8. CASE StopGrpc
    BY <2>8 DEF StopGrpc, CloseRoot
  <2>9. CASE StopReturns
    BY <2>9 DEF StopReturns, CmuxEnded
  <2>10. CASE CloseHttp
    BY <2>10 DEF CloseHttp, CloseRoot
  <2>11. CASE Breaks
    BY <2>11 DEF Breaks
  <2>12. ASSUME NEW g \in Goroutines, Serve(g) PROVE (TypeOK /\ ServerInv)'
    BY <2>12 DEF Serve, CloseRoot
  <2>13. ASSUME NEW g \in Goroutines, Return(g) PROVE (TypeOK /\ ServerInv)'
    BY <2>13 DEF Return, ServeResult, CloseRoot, MayReturn, CmuxEnded
  <2>14. ASSUME NEW g \in Goroutines, Store(g) PROVE (TypeOK /\ ServerInv)'
    BY <2>14 DEF Store
  <2>15. ASSUME NEW g \in Goroutines, Check(g) PROVE (TypeOK /\ ServerInv)'
    BY <2>15 DEF Check
  <2>16. ASSUME NEW c \in Clients, Connect(c) PROVE (TypeOK /\ ServerInv)'
    BY <2>16 DEF Connect, Move
  <2>17. ASSUME NEW c \in Clients, Match(c) PROVE (TypeOK /\ ServerInv)'
    BY <2>17 DEF Match, Move
  <2>18. ASSUME NEW c \in Clients, Forward(c) PROVE (TypeOK /\ ServerInv)'
    BY <2>18 DEF Forward, Move
  <2>19. ASSUME NEW c \in Clients, Answer(c) PROVE (TypeOK /\ ServerInv)'
    BY <2>19 DEF Answer, Move, GrpcMatches
  <2>20. ASSUME NEW c \in Clients, Break(c) PROVE (TypeOK /\ ServerInv)'
    BY <2>20 DEF Break, Move
  <2>21. CASE UNCHANGED vars
    BY <2>21 DEF vars
  <2> QED
    BY <2>1, <2>2, <2>3, <2>4, <2>5, <2>6, <2>7, <2>8, <2>9, <2>10, <2>11, <2>12, <2>13, <2>14, <2>15, <2>16, <2>17, <2>18, <2>19, <2>20, <2>21
       DEF Next, Main, Shutdown, Goroutine, Request
<1> QED BY <1>1, <1>2, PTL DEF Spec

\* The type invariant holds in every state.
THEOREM TypeCorrect == Spec => []TypeOK
BY ServerInvariant, PTL

\* Stop is never left waiting: the closed port lets cmux end, and that lets it return.
THEOREM StopReturnsInTheEnd == Spec => []StopIsLetGo
<1>1. TypeOK /\ ServerInv => StopIsLetGo
  BY DEF TypeOK, ServerInv, StopIsLetGo, Goroutines, Running, CmuxEnded, MayReturn
<1> QED BY <1>1, ServerInvariant, PTL

\* Where the requests are.
THEOREM RequestInvariant == Spec => []RequestInv
<1> USE DEF RequestInv, Running
<1>1. Init => RequestInv
  BY DEF Init
<1>2. TypeOK /\ ServerInv /\ RequestInv /\ [Next]_vars => RequestInv'
  <2> SUFFICES ASSUME TypeOK, ServerInv, RequestInv, [Next]_vars PROVE RequestInv'
    OBVIOUS
  <2> USE DEF TypeOK, ServerInv, Goroutines, mainVars, goVars
  <2>1. CASE ListenGrpc
    BY <2>1 DEF ListenGrpc
  <2>2. CASE ListenHttp
    BY <2>2 DEF ListenHttp
  <2>3. CASE ListenFails
    BY <2>3 DEF ListenFails, Ends
  <2>4. CASE InitFactories
    BY <2>4 DEF InitFactories
  <2>5. CASE FactoriesFail
    BY <2>5 DEF FactoriesFail, Ends
  <2>6. CASE RegisterFails
    BY <2>6 DEF RegisterFails, Ends
  <2>7. CASE Spawn
    BY <2>7 DEF Spawn
  <2>8. CASE StopGrpc
    BY <2>8 DEF StopGrpc, CloseRoot
  <2>9. CASE StopReturns
    BY <2>9 DEF StopReturns, CmuxEnded
  <2>10. CASE CloseHttp
    BY <2>10 DEF CloseHttp, CloseRoot
  <2>11. CASE Breaks
    BY <2>11 DEF Breaks
  <2>12. ASSUME NEW g \in Goroutines, Serve(g) PROVE RequestInv'
    BY <2>12 DEF Serve, CloseRoot
  <2>13. ASSUME NEW g \in Goroutines, Return(g) PROVE RequestInv'
    BY <2>13 DEF Return, ServeResult, CloseRoot, MayReturn, CmuxEnded
  <2>14. ASSUME NEW g \in Goroutines, Store(g) PROVE RequestInv'
    BY <2>14 DEF Store
  <2>15. ASSUME NEW g \in Goroutines, Check(g) PROVE RequestInv'
    BY <2>15 DEF Check
  <2>16. ASSUME NEW c \in Clients, Connect(c) PROVE RequestInv'
    BY <2>16 DEF Connect, Move
  <2>17. ASSUME NEW c \in Clients, Match(c) PROVE RequestInv'
    BY <2>17 DEF Match, Move
  <2>18. ASSUME NEW c \in Clients, Forward(c) PROVE RequestInv'
    BY <2>18 DEF Forward, Move
  <2>19. ASSUME NEW c \in Clients, Answer(c) PROVE RequestInv'
    BY <2>19 DEF Answer, Move, GrpcMatches
  <2>20. ASSUME NEW c \in Clients, Break(c) PROVE RequestInv'
    BY <2>20 DEF Break, Move
  <2>21. CASE UNCHANGED vars
    BY <2>21 DEF vars
  <2> QED
    BY <2>1, <2>2, <2>3, <2>4, <2>5, <2>6, <2>7, <2>8, <2>9, <2>10, <2>11, <2>12, <2>13, <2>14, <2>15, <2>16, <2>17, <2>18, <2>19, <2>20, <2>21
       DEF Next, Main, Shutdown, Goroutine, Request
<1> QED BY <1>1, <1>2, ServerInvariant, PTL DEF Spec

\* No request on the HTTP port waits for nobody, in whatever order the goroutines
\* start, stop or fail.
THEOREM NoRequestIsStranded == Spec => []RequestsAreSeenTo
<1>1. TypeOK /\ ServerInv /\ RequestInv => RequestsAreSeenTo
  <2> SUFFICES ASSUME TypeOK, ServerInv, RequestInv, NEW c \in Clients, Via[c] # "grpc",
                      at[c] \in {"backlog", "matched", "gateway", "gatewayMatched"}, root # "closed", ~CmuxEnded, Running,
                      \A g \in Goroutines : serve[g] # "spawned"
               PROVE  \/ at[c] \in {"backlog", "gateway"} /\ serve["cmux"] = "serving" /\ root = "open"
                      \/ at[c] = "matched" /\ Via[c] = "http1" /\ serve["http"] = "serving" /\ "http" \notin stopped
                      \/ GrpcMatches(c) /\ serve["grpc"] = "serving" /\ "grpc" \notin stopped
    BY DEF RequestsAreSeenTo
  <2>1. serve["cmux"] = "serving" /\ root = "open"
    BY DEF TypeOK, ServerInv, Goroutines, Running, CmuxEnded
  <2>2. \A g \in {"grpc", "http"} : serve[g] = "serving" /\ g \notin stopped
    BY DEF TypeOK, ServerInv, Goroutines, Ended
  <2>3. Via[c] = "http1" \/ Via[c] = "http2"
    BY QueryAssumption DEF QueryAssumption
  <2> QED BY <2>1, <2>2, <2>3 DEF GrpcMatches
<1> QED BY <1>1, ServerInvariant, RequestInvariant, PTL

\* Nobody accepts on the gRPC port: a request that came there is not answered and
\* never leaves, not even when the port of the servers is closed.
THEOREM GrpcEndpointIsSilent ==
  Spec => [](\A c \in Clients : Via[c] = "grpc" => at[c] # "served") /\ GrpcRequestsStay
<1>1. RequestInv => \A c \in Clients : Via[c] = "grpc" => at[c] # "served"
  BY DEF RequestInv
<1>2. ASSUME TypeOK, RequestInv, [Next]_vars
      PROVE  \A c \in Clients : Via[c] = "grpc" /\ at[c] = "backlog" => at'[c] = "backlog"
  <2> SUFFICES ASSUME NEW c \in Clients, Via[c] = "grpc", at[c] = "backlog" PROVE at'[c] = "backlog"
    OBVIOUS
  <2>1. ASSUME NEW d \in Clients, Connect(d) \/ Request(d) PROVE at'[c] = "backlog"
    BY <1>2, <2>1 DEF TypeOK, Connect, Request, Match, Forward, Answer, Break, GrpcMatches, Move
  <2> QED
    BY <1>2, <2>1
    DEF Next, Main, ListenGrpc, ListenHttp, ListenFails, InitFactories, FactoriesFail, RegisterFails, Spawn, Ends,
        Shutdown, StopGrpc, StopReturns, CloseHttp, Breaks, Goroutine, Serve, Return, Store, Check, vars
<1> QED BY <1>1, <1>2, ServerInvariant, RequestInvariant, PTL DEF Spec, GrpcRequestsStay
=============================================================================
