---------------------------- MODULE EventStreams ----------------------------
(***************************************************************************)
(* Server-sent events for one user (cmd/sse_server.go, utils/sse): every   *)
(* connection of the user has a buffered channel, and a registry keyed by  *)
(* the user holds the channel that notifications are sent to.              *)
(*                                                                         *)
(* A notification is looked up and pushed in two steps; connections come   *)
(* and go in between.  Heartbeats change nothing here.  The names of the   *)
(* specification are its own, so that Server_proofs can extend this module *)
(* together with ServerShutdown.                                           *)
(***************************************************************************)
EXTENDS Naturals, Sequences

CONSTANTS
    Conn,      \* the connections the user makes, each with a channel
    Note,      \* notifications for the user
    Buffer,    \* the capacity of a channel
    NoConn     \* the user has no channel

ASSUME StreamAssumption ==
    /\ Buffer \in Nat \ {0}
    /\ NoConn \notin Conn

VARIABLES
    registry,  \* sseChannels at the user: a connection, or NoConn
    stream,    \* the handler of each connection
    channel,   \* what waits in the channel of each connection
    send,      \* how far SendToUser has come for each notification
    target,    \* the channel it has loaded
    received   \* observer: what the client of each connection was written

streamVars == <<registry, stream, channel, send, target, received>>

StreamInit ==
    /\ registry = NoConn
    /\ stream = [c \in Conn |-> "new"]
    /\ channel = [c \in Conn |-> <<>>]
    /\ send = [n \in Note |-> "new"]
    /\ target = [n \in Note |-> NoConn]
    /\ received = [c \in Conn |-> {}]

-----------------------------------------------------------------------------
\* SSETimeoutStream up to its loop; a channel that is registered is replaced.
Connect(c) ==
    /\ stream[c] = "new"
    /\ stream' = [stream EXCEPT ![c] = "open"]
    /\ registry' = c
    /\ UNCHANGED <<channel, send, target, received>>

\* The context of the request is done.
Disconnect(c) ==
    /\ stream[c] = "open"
    /\ stream' = [stream EXCEPT ![c] = "gone"]
    /\ UNCHANGED <<registry, channel, send, target, received>>

\* Mutant: the handler returns without a word to the registry.
LeaveRegistered(c) ==
    /\ stream[c] = "gone"
    /\ stream' = [stream EXCEPT ![c] = "closed"]
    /\ UNCHANGED <<registry, channel, send, target, received>>

\* The clientGone case: the user is unregistered, whoever's channel is there.
Leave(c) ==
    /\ stream[c] = "gone"
    /\ stream' = [stream EXCEPT ![c] = "closed"]
    /\ registry' = NoConn
    /\ UNCHANGED <<channel, send, target, received>>

\* The case of a notification; what is written to a client that has gone is lost.
Deliver(c) ==
    /\ stream[c] \in {"open", "gone"}
    /\ channel[c] # <<>>
    /\ channel' = [channel EXCEPT ![c] = Tail(@)]
    /\ \/ /\ stream[c] = "open"
          /\ received' = [received EXCEPT ![c] = @ \cup {Head(channel[c])}]
       \/ stream[c] = "gone" /\ UNCHANGED received
    /\ UNCHANGED <<registry, stream, send, target>>

\* The Load of SendToUser; without a channel it returns false.
LookUp(n) ==
    /\ send[n] = "new"
    /\ target' = [target EXCEPT ![n] = registry]
    /\ send' = [send EXCEPT ![n] = IF registry = NoConn THEN "absent" ELSE "found"]
    /\ UNCHANGED <<registry, stream, channel, received>>

\* Mutant: a full channel is reported as sent.
PushBlind(n) ==
    LET c == target[n]
    IN  /\ send[n] = "found"
        /\ channel' = [channel EXCEPT ![c] = IF Len(@) < Buffer THEN Append(@, n) ELSE @]
        /\ send' = [send EXCEPT ![n] = "sent"]
        /\ UNCHANGED <<registry, stream, target, received>>

\* Its select: a channel that is full is not waited for.
Push(n) ==
    LET c == target[n]
    IN  /\ send[n] = "found"
        /\ \/ /\ Len(channel[c]) < Buffer
              /\ channel' = [channel EXCEPT ![c] = Append(@, n)]
              /\ send' = [send EXCEPT ![n] = "sent"]
           \/ /\ Len(channel[c]) >= Buffer
              /\ send' = [send EXCEPT ![n] = "full"]
              /\ UNCHANGED channel
        /\ UNCHANGED <<registry, stream, target, received>>

StreamNext ==
    \/ \E c \in Conn : Connect(c) \/ Disconnect(c) \/ Leave(c) \/ Deliver(c)
    \/ \E n \in Note : LookUp(n) \/ Push(n)

StreamSpec == StreamInit /\ [][StreamNext]_streamVars

\* Handlers and senders are scheduled; no connection has to open or to end, and
\* no timeout to happen.
Fairness ==
    /\ \A c \in Conn : WF_streamVars(Leave(c)) /\ WF_streamVars(Deliver(c))
    /\ \A n \in Note : WF_streamVars(Push(n))

StreamFairSpec == StreamSpec /\ Fairness

-----------------------------------------------------------------------------
\* Every variable has its type.
StreamTypeOK ==
    /\ registry \in Conn \cup {NoConn}
    /\ stream \in [Conn -> {"new", "open", "gone", "closed"}]
    /\ channel \in [Conn -> Seq(Note)]
    /\ \A c \in Conn : Len(channel[c]) <= Buffer
    /\ send \in [Note -> {"new", "found", "absent", "full", "sent"}]
    /\ target \in [Note -> Conn \cup {NoConn}]
    /\ received \in [Conn -> SUBSET Note]

\* However connections replace each other and in whatever order their handlers
\* return, a registered channel has a handler that still reads it.
RegisteredIsRead ==
    registry # NoConn => stream[registry] \in {"open", "gone"}

\* SendToUser says true only of what the client will get, unless that connection
\* goes first.
SentIsReceived ==
    \A n \in Note, c \in Conn :
        send[n] = "sent" /\ target[n] = c ~> n \in received[c] \/ stream[c] # "open"
=============================================================================
