---------------------------- MODULE MCConnection ----------------------------
(* Two threads and two requests with a peer that stays, and a peer that    *)
(* may close with fewer threads or fewer requests.                         *)
EXTENDS ClientConnection

Conn(s, n, most, may) ==
    [side |-> s, workers |-> n, requests |-> most, closes |-> may, blocking |-> FALSE]

MCLoad ==
    {Conn("server", 2, 2, FALSE), Conn("server", 2, 1, TRUE),
     Conn("server", 1, 2, TRUE), Conn("client", 1, 2, TRUE),
     Conn("client", 2, 1, FALSE),
     [Conn("client", 1, 2, FALSE) EXCEPT !.blocking = TRUE]}
=============================================================================
