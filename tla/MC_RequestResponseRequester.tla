-------------------- MODULE MC_RequestResponseRequester --------------------
(* Model-checking instance of the request-response requester.             *)
EXTENDS RequestResponseRequester

\* request(0) (ignored), request(1) and a request beyond the one response.
MCRequestNs == {0, 1, 2}

\* NEXT|COMPLETE with data, a bare COMPLETE, and a PAYLOAD with neither
\* flag nor data (the stream-error path of handlePayload).
MCPeerAnswers ==
    {[payload |-> TRUE, next |-> TRUE, complete |-> TRUE],
     [payload |-> FALSE, next |-> FALSE, complete |-> TRUE],
     [payload |-> FALSE, next |-> FALSE, complete |-> FALSE]}
=============================================================================
