--------------------------- MODULE Server_proofs ---------------------------
(***************************************************************************)
(* Proofs about the servers of the process: about ServerShutdown, for      *)
(* every set of requests and number of signals, and about EventStreams,    *)
(* for any number of connections and notifications of a user.              *)
(***************************************************************************)
EXTENDS ServerShutdown, EventStreams, TLAPS

\* The database is open from before the server takes requests until it has none.
DatabaseFits ==
    /\ grpc \in {"listen", "serve", "drain", "stopped"} => database = "open"
    /\ \A r \in Request : request[r] = "handled" => grpc \in {"serve", "drain"}

\* The inductive invariant of the shutdown.
IInv == TypeOK /\ DatabaseFits

-----------------------------------------------------------------------------
LEMMA InitInv == ASSUME Init PROVE IInv
<1>1. 0 \in 0..MaxSignals
  BY ShutdownAssumption
<1>2. TypeOK
  BY <1>1 DEF Init, TypeOK, Server
<1>3. DatabaseFits
  BY DEF Init, DatabaseFits
<1> QED BY <1>2, <1>3 DEF IInv

\* Steps of the servers and signals keep the types.
LEMMA ServersType == ASSUME TypeOK, Signal \/ Servers PROVE TypeOK'
<1>1. CASE Signal
  BY <1>1, ShutdownAssumption DEF TypeOK, Signal, Server
<1>2. CASE OpenDatabase
  BY <1>2, ShutdownAssumption DEF TypeOK, OpenDatabase, Server
<1>3. CASE ServeGRPC
  BY <1>3, ShutdownAssumption DEF TypeOK, ServeGRPC, Server
<1>4. CASE NotifyGRPC
  BY <1>4, ShutdownAssumption DEF TypeOK, NotifyGRPC, Server
<1>5. CASE StopGRPC
  BY <1>5, ShutdownAssumption DEF TypeOK, StopGRPC, Server
<1>6. CASE Drained
  BY <1>6, ShutdownAssumption DEF TypeOK, Drained, Server
<1>7. CASE CloseDatabase
  BY <1>7, ShutdownAssumption DEF TypeOK, CloseDatabase, Server
<1>8. CASE ServeGateway
  BY <1>8, ShutdownAssumption DEF TypeOK, ServeGateway, Server
<1>9. CASE NotifyGateway
  BY <1>9, ShutdownAssumption DEF TypeOK, NotifyGateway, Server
<1>10. CASE StopGateway
  BY <1>10, ShutdownAssumption DEF TypeOK, StopGateway, Server
<1>11. CASE Expire
  BY <1>11, ShutdownAssumption DEF TypeOK, Expire, Server
<1>12. CASE Exit
  BY <1>12, ShutdownAssumption DEF TypeOK, Exit, Server
<1> QED BY <1>1, <1>2, <1>3, <1>4, <1>5, <1>6, <1>7, <1>8, <1>9, <1>10, <1>11, <1>12 DEF Servers

\* So do the steps of requests.
LEMMA RequestType ==
    ASSUME TypeOK, NEW r \in Request, Accept(r) \/ Handle(r) \/ Reply(r) \/ Answer(r)
    PROVE  TypeOK'
<1>1. PICK s \in {"accepted", "handled", "replied", "answered", "refused"} : Move(r, s)
  BY DEF Accept, Handle, Reply, Answer
<1> QED BY <1>1 DEF TypeOK, Move

\* The gRPC server opens the database first and closes it last.
LEMMA ServersDatabase ==
    ASSUME TypeOK, DatabaseFits, Signal \/ Servers PROVE DatabaseFits'
<1>1. CASE Signal
  BY <1>1 DEF TypeOK, DatabaseFits, Signal
<1>2. CASE OpenDatabase
  BY <1>2 DEF TypeOK, DatabaseFits, OpenDatabase
<1>3. CASE ServeGRPC
  BY <1>3 DEF TypeOK, DatabaseFits, ServeGRPC
<1>4. CASE NotifyGRPC
  BY <1>4 DEF TypeOK, DatabaseFits, NotifyGRPC
<1>5. CASE StopGRPC
  BY <1>5 DEF TypeOK, DatabaseFits, StopGRPC
<1>6. CASE Drained
  BY <1>6 DEF TypeOK, DatabaseFits, Drained
<1>7. CASE CloseDatabase
  BY <1>7 DEF TypeOK, DatabaseFits, CloseDatabase
<1>8. CASE ServeGateway
  BY <1>8 DEF TypeOK, DatabaseFits, ServeGateway
<1>9. CASE NotifyGateway
  BY <1>9 DEF TypeOK, DatabaseFits, NotifyGateway
<1>10. CASE StopGateway
  BY <1>10 DEF TypeOK, DatabaseFits, StopGateway
<1>11. CASE Expire
  BY <1>11 DEF TypeOK, DatabaseFits, Expire
<1>12. CASE Exit
  BY <1>12 DEF TypeOK, DatabaseFits, Exit
<1> QED BY <1>1, <1>2, <1>3, <1>4, <1>5, <1>6, <1>7, <1>8, <1>9, <1>10, <1>11, <1>12 DEF Servers

\* A request reaches its handler only while the gRPC server serves.
LEMMA RequestDatabase ==
    ASSUME TypeOK, DatabaseFits, NEW r \in Request,
           Accept(r) \/ Handle(r) \/ Reply(r) \/ Answer(r)
    PROVE  DatabaseFits'
<1>1. CASE Accept(r)
  BY <1>1 DEF TypeOK, DatabaseFits, Accept, Move
<1>2. CASE Handle(r)
  BY <1>2 DEF TypeOK, DatabaseFits, Handle, Move
<1>3. CASE Reply(r)
  BY <1>3 DEF TypeOK, DatabaseFits, Reply, Move
<1>4. CASE Answer(r)
  BY <1>4 DEF TypeOK, DatabaseFits, Answer, Move
<1> QED BY <1>1, <1>2, <1>3, <1>4

LEMMA StepInv == ASSUME IInv, [Next]_vars PROVE IInv'
<1>1. CASE Signal \/ Servers
  BY <1>1, ServersType, ServersDatabase DEF IInv
<1>2. ASSUME NEW r \in Request, Accept(r) \/ Handle(r) \/ Reply(r) \/ Answer(r)
      PROVE  IInv'
  BY <1>2, RequestType, RequestDatabase DEF IInv
<1>3. CASE UNCHANGED vars
  BY <1>3 DEF IInv, TypeOK, DatabaseFits, vars
<1> QED BY <1>1, <1>2, <1>3 DEF Next

LEMMA Invariance == Spec => []IInv
<1>1. Init => IInv
  BY InitInv
<1>2. IInv /\ [Next]_vars => IInv'
  BY StepInv
<1> QED BY <1>1, <1>2, PTL DEF Spec

-----------------------------------------------------------------------------
\* Every variable keeps its type.
THEOREM TypeCorrect == Spec => []TypeOK
<1>1. IInv => TypeOK
  BY DEF IInv
<1> QED BY <1>1, Invariance, PTL

\* The deferred Close of the database comes after the last handler.
THEOREM DatabaseCorrect == Spec => []HandlersHaveDatabase
<1>1. IInv => HandlersHaveDatabase
  BY DEF IInv, DatabaseFits, HandlersHaveDatabase
<1> QED BY <1>1, Invariance, PTL

-----------------------------------------------------------------------------
(* Why a signal ends the process: the safety part of SignalEnds.           *)

\* The gateway is about to end, is shutting down, or has a signal to act upon.
Ending ==
    \/ process # "up"
    \/ gateway = "drain"
    \/ gateway = "serve" /\ "gateway" \in inbox

\* A signal in the gateway's channel finds the gateway behind the select that
\* receives it, and from then on nothing takes the process back: the signal is
\* used up by the shutdown of the gateway only, and that ends with main.
SignalHeeded ==
    /\ []("gateway" \in inbox => Ending)
    /\ [][Ending => Ending']_vars

\* The gateway registers its channel after it has begun to serve.
GatewayListens == gateway = "start" => "gateway" \notin listening

LEMMA StepListens == ASSUME GatewayListens, [Next]_vars PROVE GatewayListens'
<1>1. CASE NotifyGateway
  BY <1>1 DEF NotifyGateway, GatewayListens
<1>2. CASE NotifyGRPC
  BY <1>2 DEF NotifyGRPC, GatewayListens
<1>3. CASE ~NotifyGateway /\ ~NotifyGRPC
  BY <1>3 DEF Next, Signal, Servers, OpenDatabase, ServeGRPC, StopGRPC, Drained, CloseDatabase,
     ServeGateway, StopGateway, Expire, Exit, Accept, Handle, Reply, Answer, Move, vars, GatewayListens
<1> QED BY <1>1, <1>2, <1>3

\* Only StopGateway takes the signal, and it begins the shutdown.
LEMMA StepEnding == ASSUME Ending, [Next]_vars PROVE Ending'
<1>1. CASE UNCHANGED vars
  BY <1>1 DEF Ending, vars
<1>2. CASE Next
  <2>1. process = "up"
    BY <1>2 DEF Next, Signal, Servers, OpenDatabase, ServeGRPC, NotifyGRPC, StopGRPC, Drained,
       CloseDatabase, ServeGateway, NotifyGateway, StopGateway, Expire, Exit,
       Accept, Handle, Reply, Answer
  <2>2. gateway' = gateway \/ gateway' = "drain" \/ gateway = "start"
    BY <1>2 DEF Next, Signal, Servers, OpenDatabase, ServeGRPC, NotifyGRPC, StopGRPC, Drained,
       CloseDatabase, ServeGateway, NotifyGateway, StopGateway, Expire, Exit,
       Accept, Handle, Reply, Answer, Move
  <2>3. gateway' = "drain" \/ ("gateway" \in inbox => "gateway" \in inbox')
    BY <1>2 DEF Next, Signal, Servers, OpenDatabase, ServeGRPC, NotifyGRPC, StopGRPC, Drained,
       CloseDatabase, ServeGateway, NotifyGateway, StopGateway, Expire, Exit,
       Accept, Handle, Reply, Answer, Move
  <2> QED BY <2>1, <2>2, <2>3 DEF Ending
<1> QED BY <1>1, <1>2

\* No signal that the gateway was waiting for is lost, whatever the gRPC server,
\* its handlers and further signals do meanwhile.
THEOREM SignalCorrect == Spec => SignalHeeded
<1>1. Init => GatewayListens
  BY DEF Init, GatewayListens
<1>2. GatewayListens /\ [Next]_vars => GatewayListens'
  BY StepListens
<1>3. IInv /\ GatewayListens => ("gateway" \in inbox => Ending)
  BY DEF IInv, TypeOK, GatewayListens, Ending
<1>4. [Next]_vars => [Ending => Ending']_vars
  BY StepEnding
<1> QED BY <1>1, <1>2, <1>3, <1>4, Invariance, PTL DEF Spec, SignalHeeded, GatewayListens

-----------------------------------------------------------------------------
(* The server of event streams.                                            *)

\* The registered channel is read, and the channel that a sender has loaded is
\* one of a connection that was made.
StreamsFit ==
    /\ registry \in Conn \cup {NoConn}
    /\ stream \in [Conn -> {"new", "open", "gone", "closed"}]
    /\ channel \in [Conn -> Seq(Note)]
    /\ send \in [Note -> {"new", "found", "absent", "full", "sent"}]
    /\ target \in [Note -> Conn \cup {NoConn}]
    /\ received \in [Conn -> SUBSET Note]
    /\ RegisteredIsRead
    /\ \A n \in Note : send[n] \in {"found", "sent"} =>
            target[n] \in Conn /\ stream[target[n]] # "new"

\* What SendToUser has reported as sent is received or waits in the channel, unless
\* the connection has gone: nothing that was sent is lost on the way.
SentIsKept ==
    \A n \in Note, c \in Conn : send[n] = "sent" /\ target[n] = c =>
        \/ n \in received[c]
        \/ \E k \in 1..Len(channel[c]) : channel[c][k] = n
        \/ stream[c] # "open"

\* The inductive invariant of the streams.
StreamsInv == StreamsFit /\ SentIsKept

LEMMA InitStreams == ASSUME StreamInit PROVE StreamsInv
BY DEF StreamInit, StreamsInv, StreamsFit, SentIsKept, RegisteredIsRead

\* A connection that comes takes the registry over, one that goes empties it.
LEMMA ConnectStreams ==
    ASSUME StreamsInv, NEW c \in Conn, Connect(c) \/ Disconnect(c) \/ Leave(c)
    PROVE  StreamsInv'
<1>1. CASE Connect(c)
  <2>1. StreamsFit'
    BY <1>1 DEF Connect, StreamsInv, StreamsFit, RegisteredIsRead
  <2>2. SentIsKept'
    BY <1>1 DEF Connect, StreamsInv, StreamsFit, SentIsKept
  <2> QED BY <2>1, <2>2 DEF StreamsInv
<1>2. CASE Disconnect(c)
  <2>1. StreamsFit'
    BY <1>2 DEF Disconnect, StreamsInv, StreamsFit, RegisteredIsRead
  <2>2. SentIsKept'
    BY <1>2 DEF Disconnect, StreamsInv, StreamsFit, SentIsKept
  <2> QED BY <2>1, <2>2 DEF StreamsInv
<1>3. CASE Leave(c)
  <2>1. StreamsFit'
    BY <1>3 DEF Leave, StreamsInv, StreamsFit, RegisteredIsRead
  <2>2. SentIsKept'
    BY <1>3 DEF Leave, StreamsInv, StreamsFit, SentIsKept
  <2> QED BY <2>1, <2>2 DEF StreamsInv
<1> QED BY <1>1, <1>2, <1>3

\* What leaves the channel of an open connection is received.
LEMMA DeliverStreams ==
    ASSUME StreamsInv, NEW c \in Conn, Deliver(c) PROVE StreamsInv'
<1>1. StreamsFit /\ SentIsKept
  BY DEF StreamsInv
<1>2. /\ stream[c] \in {"open", "gone"} /\ channel[c] \in Seq(Note) /\ channel[c] # <<>>
      /\ channel' = [channel EXCEPT ![c] = Tail(@)]
      /\ UNCHANGED <<registry, stream, send, target>>
  BY <1>1 DEF Deliver, StreamsFit
<1>3. /\ Head(channel[c]) \in Note /\ Head(channel[c]) = channel[c][1]
      /\ Tail(channel[c]) \in Seq(Note) /\ Len(Tail(channel[c])) = Len(channel[c]) - 1
      /\ \A k \in 1..Len(Tail(channel[c])) : Tail(channel[c])[k] = channel[c][k + 1]
  BY <1>2
<1>4. /\ received' \in [Conn -> SUBSET Note]
      /\ \A d \in Conn : received[d] \subseteq received'[d]
      /\ stream[c] = "open" => Head(channel[c]) \in received'[c]
  <2>1. CASE stream[c] = "open" /\ received' = [received EXCEPT ![c] = @ \cup {Head(channel[c])}]
    BY <1>1, <1>3, <2>1 DEF StreamsFit
  <2>2. CASE stream[c] = "gone" /\ UNCHANGED received
    BY <1>1, <2>2 DEF StreamsFit
  <2> QED BY <2>1, <2>2 DEF Deliver
<1>5. StreamsFit'
  BY <1>1, <1>2, <1>3, <1>4 DEF StreamsFit, RegisteredIsRead
<1>6. ASSUME NEW n \in Note, NEW d \in Conn, send[n] = "sent", target[n] = d, stream[d] = "open",
             n \notin received'[d]
      PROVE  \E k \in 1..Len(channel'[d]) : channel'[d][k] = n
  <2>1. PICK k \in 1..Len(channel[d]) : channel[d][k] = n
    BY <1>1, <1>4, <1>6 DEF SentIsKept
  <2>2. CASE d # c
    <3>1. channel'[d] = channel[d]
      BY <1>1, <1>2, <2>2 DEF StreamsFit
    <3> QED BY <2>1, <3>1
  <2>3. CASE d = c
    <3>1. channel'[d] = Tail(channel[c])
      BY <1>1, <1>2, <2>3 DEF StreamsFit
    <3>2. k # 1
      BY <1>3, <1>4, <1>6, <2>1, <2>3
    <3>3. k - 1 \in 1..Len(Tail(channel[c])) /\ Tail(channel[c])[k - 1] = n
      BY <1>2, <1>3, <2>1, <2>3, <3>2
    <3> QED BY <3>1, <3>3
  <2> QED BY <2>2, <2>3
<1>7. SentIsKept'
  BY <1>2, <1>6 DEF SentIsKept
<1> QED BY <1>5, <1>7 DEF StreamsInv

LEMMA LookUpStreams ==
    ASSUME StreamsInv, NEW n \in Note, LookUp(n) PROVE StreamsInv'
<1>1. StreamsFit'
  BY DEF LookUp, StreamsInv, StreamsFit, RegisteredIsRead
<1>2. SentIsKept'
  BY DEF LookUp, StreamsInv, StreamsFit, SentIsKept
<1> QED BY <1>1, <1>2 DEF StreamsInv

\* What is reported as sent is the last of its channel.
LEMMA PushStreams ==
    ASSUME StreamsInv, NEW n \in Note, Push(n) PROVE StreamsInv'
<1> DEFINE c == target[n]
<1>1. StreamsFit /\ SentIsKept
  BY DEF StreamsInv
<1>2. send[n] = "found" /\ c \in Conn /\ UNCHANGED <<registry, stream, target, received>>
  BY <1>1 DEF Push, StreamsFit
<1>3. CASE /\ channel' = [channel EXCEPT ![c] = Append(@, n)]
           /\ send' = [send EXCEPT ![n] = "sent"]
  <2>1. /\ Append(channel[c], n) \in Seq(Note) /\ Len(Append(channel[c], n)) = Len(channel[c]) + 1
        /\ Len(channel[c]) \in Nat
        /\ \A k \in 1..Len(channel[c]) : Append(channel[c], n)[k] = channel[c][k]
        /\ Append(channel[c], n)[Len(channel[c]) + 1] = n
    BY <1>1, <1>2 DEF StreamsFit
  <2>2. StreamsFit'
    BY <1>1, <1>2, <1>3, <2>1 DEF StreamsFit, RegisteredIsRead
  <2>3. ASSUME NEW m \in Note, NEW d \in Conn, send'[m] = "sent", target[m] = d, stream[d] = "open",
               m \notin received[d]
        PROVE  \E k \in 1..Len(channel'[d]) : channel'[d][k] = m
    <3>1. channel'[c] = Append(channel[c], n) /\ \A x \in Conn \ {c} : channel'[x] = channel[x]
      BY <1>1, <1>2, <1>3 DEF StreamsFit
    <3>2. CASE m = n
      <4>1. d = c /\ Len(channel[c]) + 1 \in 1..Len(channel'[c])
        BY <2>1, <2>3, <3>1, <3>2
      <4> QED BY <2>1, <3>1, <3>2, <4>1
    <3>3. CASE m # n
      <4>1. send[m] = "sent"
        BY <1>1, <1>3, <2>3, <3>3 DEF StreamsFit
      <4>2. PICK k \in 1..Len(channel[d]) : channel[d][k] = m
        BY <1>1, <2>3, <4>1 DEF SentIsKept
      <4>3. k \in 1..Len(channel'[d]) /\ channel'[d][k] = m
        BY <2>1, <3>1, <4>2
      <4> QED BY <4>3
    <3> QED BY <3>2, <3>3
  <2>4. SentIsKept'
    BY <1>2, <2>3 DEF SentIsKept
  <2> QED BY <2>2, <2>4 DEF StreamsInv
<1>4. CASE send' = [send EXCEPT ![n] = "full"] /\ UNCHANGED channel
  <2>1. StreamsFit'
    BY <1>1, <1>2, <1>4 DEF StreamsFit, RegisteredIsRead
  <2>2. SentIsKept'
    BY <1>1, <1>2, <1>4 DEF StreamsFit, SentIsKept
  <2> QED BY <2>1, <2>2 DEF StreamsInv
<1> QED BY <1>3, <1>4 DEF Push

LEMMA StepStreams == ASSUME StreamsInv, [StreamNext]_streamVars PROVE StreamsInv'
<1>1. CASE UNCHANGED streamVars
  BY <1>1 DEF streamVars, StreamsInv, StreamsFit, SentIsKept, RegisteredIsRead
<1> QED BY <1>1, ConnectStreams, DeliverStreams, LookUpStreams, PushStreams DEF StreamNext

LEMMA StreamsInvariance == StreamSpec => []StreamsInv
<1>1. StreamInit => StreamsInv
  BY InitStreams
<1>2. StreamsInv /\ [StreamNext]_streamVars => StreamsInv'
  BY StepStreams
<1> QED BY <1>1, <1>2, PTL DEF StreamSpec

\* A full channel takes nothing more.
LEMMA StreamsBounded ==
    StreamSpec => [](\A c \in Conn : Len(channel[c]) <= Buffer)
<1> DEFINE Bounded == \A c \in Conn : Len(channel[c]) <= Buffer
<1> USE StreamAssumption
<1>1. StreamInit => Bounded
  BY DEF StreamInit
<1>2. StreamsInv /\ Bounded /\ [StreamNext]_streamVars => Bounded'
  <2> HAVE StreamsInv /\ Bounded /\ [StreamNext]_streamVars
  <2>1. \A c \in Conn : channel[c] \in Seq(Note) /\ Len(channel[c]) \in Nat
    BY DEF StreamsInv, StreamsFit
  <2>2. CASE UNCHANGED channel
    BY <2>2
  <2>3. ASSUME NEW c \in Conn, Deliver(c)
        PROVE  Bounded'
    <3>1. Len(Tail(channel[c])) = Len(channel[c]) - 1 /\ channel' = [channel EXCEPT ![c] = Tail(@)]
      BY <2>1, <2>3 DEF Deliver
    <3> QED BY <2>1, <3>1 DEF StreamsInv, StreamsFit
  <2>4. ASSUME NEW n \in Note, Push(n)
        PROVE  Bounded'
    <3>1. CASE /\ Len(channel[target[n]]) < Buffer
               /\ channel' = [channel EXCEPT ![target[n]] = Append(@, n)]
      <4>1. target[n] \in Conn
        BY <2>4 DEF Push, StreamsInv, StreamsFit
      <4>2. Len(Append(channel[target[n]], n)) <= Buffer
        BY <2>1, <3>1, <4>1
      <4> QED BY <3>1, <4>1, <4>2 DEF StreamsInv, StreamsFit
    <3> QED BY <2>2, <2>4, <3>1 DEF Push
  <2> QED BY <2>2, <2>3, <2>4 DEF StreamNext, Connect, Disconnect, Leave,
          LookUp, streamVars
<1> QED BY <1>1, <1>2, StreamsInvariance, PTL DEF StreamSpec

-----------------------------------------------------------------------------
\* Every variable of the streams has its type, and no channel more than it can hold.
THEOREM StreamsTypeCorrect == StreamSpec => []StreamTypeOK
<1>1. StreamsInv /\ (\A c \in Conn : Len(channel[c]) <= Buffer) => StreamTypeOK
  BY DEF StreamsInv, StreamsFit, StreamTypeOK
<1> QED BY <1>1, StreamsInvariance, StreamsBounded, PTL

\* However many connections of a user replace each other and in whatever order their
\* handlers return, the registered channel has a handler that still reads it.
THEOREM RegisteredCorrect == StreamSpec => []RegisteredIsRead
<1>1. StreamsInv => RegisteredIsRead
  BY DEF StreamsInv, StreamsFit
<1> QED BY <1>1, StreamsInvariance, PTL

\* SendToUser says true only of a notification that the client gets or that waits for
\* it, unless the connection has gone: the safety part of SentIsReceived.
THEOREM SentCorrect == StreamSpec => []SentIsKept
<1>1. StreamsInv => SentIsKept
  BY DEF StreamsInv
<1> QED BY <1>1, StreamsInvariance, PTL
=============================================================================
