\* Two connections: a closed state machine is never taken out of sockets_.
CONSTANTS
    c1 = c1
    c2 = c2
    Conns <- MCConns
SPECIFICATION Spec
PROPERTY ClosedConnectionsReleased
\* A destroyed server with every posted close run takes no further step.
CHECK_DEADLOCK FALSE
