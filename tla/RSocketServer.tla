---------------------------- MODULE RSocketServer ----------------------------
(***************************************************************************)
(* The server's connection set (RSocketServer.cpp).  The acceptor hands    *)
(* each new duplex connection to the ServerConnectionAcceptor, which keeps *)
(* it until its SETUP arrives on the connection's event base; the          *)
(* connection handler then asks onAccept for a responder and, when it gets *)
(* one, manageSocket registers a closed listener and adds the state        *)
(* machine to sockets_.  The destructor stops the acceptor and posts a     *)
(* close of every registered state machine to its executor, without       *)
(* waiting for them.                                                       *)
(*                                                                         *)
(* A connection is a model value; its state machine is reduced to open or *)
(* closed.                                                                 *)
(***************************************************************************)
EXTENDS FiniteSets

CONSTANTS
    Conns     \* the duplex connections the acceptor may accept

VARIABLES
    srv,    \* the server: [started, accepting, alive, shutdown, sockets]
    conn,   \* per connection: none, accepted, rejected, open, closed
    exec,   \* connections whose close task is posted to their executor
    late    \* connections added to sockets_ of a destroyed server

vars == <<srv, conn, exec, late>>

-----------------------------------------------------------------------------
(* RSocketServer.                                                          *)
(***************************************************************************)
\* addConnection: insert into sockets_ (under its lock).
AddConnection(s, c) == [s EXCEPT !.sockets = @ \cup {c}]

\* manageSocket: the closed listener whose removeConnection is commented
\* out does nothing, so only addConnection changes the server.
ManageSocket(s, c) == AddConnection(s, c)

\* The constructor: nothing started, no sockets.
Init ==
    /\ srv = [started |-> FALSE, accepting |-> FALSE, alive |-> TRUE,
              shutdown |-> FALSE, sockets |-> {}]
    /\ conn = [c \in Conns |-> "none"]
    /\ exec = {}
    /\ late = {}

\* start: once (a second call throws); the acceptor starts listening.
Start ==
    /\ srv.alive /\ ~srv.started
    /\ srv' = [srv EXCEPT !.started = TRUE, !.accepting = TRUE]
    /\ UNCHANGED <<conn, exec, late>>

\* The acceptor's callback: acceptor_.accept keeps the connection until its
\* SETUP is handled.
Accept(c) ==
    /\ srv.accepting /\ conn[c] = "none"
    /\ conn' = [conn EXCEPT ![c] = "accepted"]
    /\ UNCHANGED <<srv, exec, late>>

\* SETUP handled on the connection's event base: getHandler asks onAccept
\* for a responder; with one, the state machine is made and manageSocket
\* adds it to the server, whether or not the server still exists.
Setup(c, responder) ==
    /\ conn[c] = "accepted"
    /\ IF responder
       THEN /\ conn' = [conn EXCEPT ![c] = "open"]
            /\ srv' = ManageSocket(srv, c)
            /\ late' = IF srv.alive THEN late ELSE late \cup {c}
       ELSE /\ conn' = [conn EXCEPT ![c] = "rejected"]
            /\ UNCHANGED <<srv, late>>
    /\ UNCHANGED exec

\* The state machine closes (peer, error or transport); its closed
\* listener runs and leaves sockets_ as it is.
Close(c) ==
    /\ conn[c] = "open"
    /\ conn' = [conn EXCEPT ![c] = "closed"]
    /\ UNCHANGED <<srv, exec, late>>

\* ~RSocketServer: stop the acceptor; with no sockets return at once,
\* otherwise emplace shutdown_ and post a close of every socket to its
\* executor.  The wait for them is commented out.
Destroy ==
    /\ srv.alive
    /\ srv' = [srv EXCEPT !.accepting = FALSE, !.alive = FALSE,
                          !.shutdown = srv.sockets # {}]
    /\ exec' = exec \cup srv.sockets
    /\ UNCHANGED <<conn, late>>

\* A posted close runs on the socket's executor; close is idempotent.
RunClose(c) ==
    /\ c \in exec
    /\ exec' = exec \ {c}
    /\ conn' = [conn EXCEPT ![c] = IF @ = "open" THEN "closed" ELSE @]
    /\ UNCHANGED <<srv, late>>

Next ==
    \/ Start
    \/ \E c \in Conns : Accept(c) \/ Close(c) \/ RunClose(c)
    \/ \E c \in Conns, r \in BOOLEAN : Setup(c, r)
    \/ Destroy

\* The executors run what is posted to them.
Spec == Init /\ [][Next]_vars /\ \A c \in Conns : WF_vars(RunClose(c))
-----------------------------------------------------------------------------
(* Properties.                                                             *)
(***************************************************************************)
\* The connection set does not grow without bound: while the server runs,
\* a state machine that has closed is eventually taken out of sockets_
\* (the closed listener's removeConnection), so a long-running server does
\* not keep every connection it ever served.
ClosedConnectionsReleased ==
    \A c \in Conns : srv.alive /\ conn[c] = "closed" ~> c \notin srv.sockets \/ ~srv.alive

\* Nothing reaches the server after its destructor: a connection accepted
\* before the destructor but whose SETUP is handled after it never calls
\* manageSocket/addConnection on the destroyed server.
NoConnectionAfterDestroy == late = {}
=============================================================================
