\* Two connections: a SETUP handled after the destructor reaches the
\* destroyed server.
CONSTANTS
    c1 = c1
    c2 = c2
    Conns <- MCConns
SPECIFICATION Spec
INVARIANT NoConnectionAfterDestroy
CHECK_DEADLOCK FALSE
