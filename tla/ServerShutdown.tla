--------------------------- MODULE ServerShutdown ---------------------------
(***************************************************************************)
(* The process (cmd/root.go): main runs the HTTP gateway, a goroutine runs *)
(* the gRPC server and owns the database client.  Each waits for a signal  *)
(* of its own and shuts down; when the gateway is down, main returns and   *)
(* the process is gone, whatever the others are doing.                     *)
(*                                                                         *)
(* A request comes over HTTP and is forwarded, or directly over gRPC.      *)
(***************************************************************************)
EXTENDS Naturals

CONSTANTS
    Request,    \* requests of clients
    MaxSignals  \* bound: how many SIGINT or SIGTERM come

ASSUME ShutdownAssumption == MaxSignals \in Nat

VARIABLES
    process,   \* "up"; "exited" when main has returned; "killed" by a signal; "fatal"
    gateway,   \* startGateway
    grpc,      \* startGRPC
    listening, \* the servers that have called signal.Notify
    inbox,     \* the servers whose channel holds a signal
    signals,   \* how many signals have come
    database,  \* the ent client
    request,   \* how far each request has come
    direct,    \* the requests that come over gRPC
    expired    \* whether the 5 s of the gateway's shutdown are over

vars == <<process, gateway, grpc, listening, inbox, signals, database,
          request, direct, expired>>

Server == {"gateway", "grpc"}

Init ==
    /\ process = "up"
    /\ gateway = "start"
    /\ grpc = "start"
    /\ listening = {}
    /\ inbox = {}
    /\ signals = 0
    /\ database = "none"
    /\ request = [r \in Request |-> "new"]
    /\ direct \in SUBSET Request
    /\ expired = FALSE

-----------------------------------------------------------------------------
(* Signals.                                                                *)

\* A signal goes to every channel that was registered; a channel that holds one
\* drops it.  With no channel registered it ends the process.
Signal ==
    /\ process = "up"
    /\ signals < MaxSignals
    /\ signals' = signals + 1
    /\ process' = IF listening = {} THEN "killed" ELSE "up"
    /\ inbox' = inbox \cup listening
    /\ UNCHANGED <<gateway, grpc, listening, database, request, direct, expired>>

-----------------------------------------------------------------------------
(* The gRPC server.                                                        *)

\* client.Open and Schema.Create, the first of several steps that log.Fatal ends
\* the process in.
OpenDatabase ==
    /\ process = "up"
    /\ grpc = "start"
    /\ \/ database' = "open" /\ grpc' = "listen" /\ UNCHANGED process
       \/ process' = "fatal" /\ UNCHANGED <<database, grpc>>
    /\ UNCHANGED <<gateway, listening, inbox, signals, request, direct, expired>>

\* net.Listen and Serve.
ServeGRPC ==
    /\ process = "up"
    /\ grpc = "listen"
    /\ \/ grpc' = "serve" /\ UNCHANGED process
       \/ process' = "fatal" /\ UNCHANGED grpc
    /\ UNCHANGED <<gateway, listening, inbox, signals, database, request, direct, expired>>

NotifyGRPC ==
    /\ process = "up"
    /\ grpc = "serve"
    /\ "grpc" \notin listening
    /\ listening' = listening \cup {"grpc"}
    /\ UNCHANGED <<process, gateway, grpc, inbox, signals, database, request, direct, expired>>

\* GracefulStop takes no more requests ...
StopGRPC ==
    /\ process = "up"
    /\ grpc = "serve"
    /\ "grpc" \in inbox
    /\ inbox' = inbox \ {"grpc"}
    /\ grpc' = "drain"
    /\ UNCHANGED <<process, gateway, listening, signals, database, request, direct, expired>>

\* Mutant: Stop, which does not wait.
DrainedAtOnce ==
    /\ process = "up"
    /\ grpc = "drain"
    /\ grpc' = "stopped"
    /\ UNCHANGED <<process, gateway, listening, inbox, signals, database, request, direct, expired>>

\* ... and waits for those it has.
Drained ==
    /\ process = "up"
    /\ grpc = "drain"
    /\ \A r \in Request : request[r] # "handled"
    /\ grpc' = "stopped"
    /\ UNCHANGED <<process, gateway, listening, inbox, signals, database, request, direct, expired>>

\* The deferred entClient.Close; an error of it is fatal.
CloseDatabase ==
    /\ process = "up"
    /\ grpc = "stopped"
    /\ grpc' = "ended"
    /\ \/ database' = "closed" /\ UNCHANGED process
       \/ process' = "fatal" /\ UNCHANGED database
    /\ UNCHANGED <<gateway, listening, inbox, signals, request, direct, expired>>

-----------------------------------------------------------------------------
(* The gateway.                                                            *)

ServeGateway ==
    /\ process = "up"
    /\ gateway = "start"
    /\ \/ gateway' = "serve" /\ UNCHANGED process
       \/ process' = "fatal" /\ UNCHANGED gateway
    /\ UNCHANGED <<grpc, listening, inbox, signals, database, request, direct, expired>>

NotifyGateway ==
    /\ process = "up"
    /\ gateway = "serve"
    /\ "gateway" \notin listening
    /\ listening' = listening \cup {"gateway"}
    /\ UNCHANGED <<process, gateway, grpc, inbox, signals, database, request, direct, expired>>

StopGateway ==
    /\ process = "up"
    /\ gateway = "serve"
    /\ "gateway" \in inbox
    /\ inbox' = inbox \ {"gateway"}
    /\ gateway' = "drain"
    /\ UNCHANGED <<process, grpc, listening, signals, database, request, direct, expired>>

\* The 5 s of shutdownCtx.
Expire ==
    /\ process = "up"
    /\ gateway = "drain"
    /\ expired' = TRUE
    /\ UNCHANGED <<process, gateway, grpc, listening, inbox, signals, database, request, direct>>

OpenHTTP(r) == r \notin direct /\ request[r] \in {"accepted", "handled", "replied"}

\* Mutant: Shutdown without a deadline.
ExitDrained ==
    /\ process = "up"
    /\ gateway = "drain"
    /\ \A r \in Request : ~OpenHTTP(r)
    /\ process' = "exited"
    /\ UNCHANGED <<gateway, grpc, listening, inbox, signals, database, request, direct, expired>>

\* Shutdown returns, with an error or without; then startGateway and main do.
Exit ==
    /\ process = "up"
    /\ gateway = "drain"
    /\ expired \/ \A r \in Request : ~OpenHTTP(r)
    /\ process' = "exited"
    /\ UNCHANGED <<gateway, grpc, listening, inbox, signals, database, request, direct, expired>>

-----------------------------------------------------------------------------
(* Requests.                                                               *)

Move(r, next) ==
    /\ request' = [request EXCEPT ![r] = next]
    /\ UNCHANGED <<process, gateway, grpc, listening, inbox, signals, database, direct, expired>>

\* A server takes the request; a gateway that drains takes no new one.
Accept(r) ==
    /\ process = "up"
    /\ request[r] = "new"
    /\ r \notin direct /\ gateway = "serve"
    /\ Move(r, "accepted")

\* The gRPC server takes it, from the gateway or directly, or refuses it.
Handle(r) ==
    /\ process = "up"
    /\ request[r] = IF r \in direct THEN "new" ELSE "accepted"
    /\ \/ grpc = "serve" /\ Move(r, "handled")
       \/ grpc # "serve" /\ Move(r, IF r \in direct THEN "refused" ELSE "replied")

\* The handler returns.
Reply(r) ==
    /\ process = "up"
    /\ request[r] = "handled"
    /\ Move(r, IF r \in direct THEN "answered" ELSE "replied")

\* The gateway passes the reply on.
Answer(r) ==
    /\ process = "up"
    /\ request[r] = "replied"
    /\ Move(r, "answered")

-----------------------------------------------------------------------------
Servers ==
    \/ OpenDatabase \/ ServeGRPC \/ NotifyGRPC \/ StopGRPC \/ Drained \/ CloseDatabase
    \/ ServeGateway \/ NotifyGateway \/ StopGateway \/ Expire \/ Exit

Next ==
    \/ Signal
    \/ Servers
    \/ \E r \in Request : Accept(r) \/ Handle(r) \/ Reply(r) \/ Answer(r)

Spec == Init /\ [][Next]_vars

\* The gateway's goroutine is scheduled and time passes.  Nothing is assumed of
\* handlers: one may hang for ever.
FairSpec == Spec /\ WF_vars(StopGateway) /\ WF_vars(Expire) /\ WF_vars(Exit)

-----------------------------------------------------------------------------
(* Properties.                                                             *)

\* Every variable has its type.
TypeOK ==
    /\ process \in {"up", "exited", "killed", "fatal"}
    /\ gateway \in {"start", "serve", "drain"}
    /\ grpc \in {"start", "listen", "serve", "drain", "stopped", "ended"}
    /\ listening \in SUBSET Server /\ inbox \in SUBSET listening
    /\ signals \in 0..MaxSignals
    /\ database \in {"none", "open", "closed"}
    /\ request \in [Request ->
            {"new", "accepted", "handled", "replied", "answered", "refused"}]
    /\ direct \in SUBSET Request
    /\ expired \in BOOLEAN

\* A handler never finds the database closed, whichever server is the first to
\* stop.  (Goroutines of the pool and of scoring may: nobody waits for them.)
HandlersHaveDatabase ==
    \A r \in Request : request[r] = "handled" => database = "open"

\* Once the gateway waits for signals, one signal ends the process, even if a
\* handler hangs, the gRPC server is not up yet, or its drain never ends.  (A
\* signal that only the gRPC server was waiting for stops half of the process.)
SignalEnds == "gateway" \in inbox ~> process # "up"
=============================================================================
