---------------------------- MODULE MCHttpServer ----------------------------
(* Two clients, and what they send: a request with a body that just fits, one *)
(* that is too large, and one that cannot be parsed.                          *)
EXTENDS HttpServer

CONSTANTS c1, c2

Sends(head, body, valid) == [head |-> head, body |-> body, valid |-> valid]
Fits == Sends(1, 1, TRUE)
TooLarge == Sends(2, 1, TRUE)
Invalid == Sends(1, 0, FALSE)
MCRequests == {Fits, TooLarge, Invalid}

\* Two that fit, or two that differ: which client is which does not matter.
MCInit == /\ HttpInit
          /\ \/ request[c1] = Fits
             \/ request[c1] = TooLarge /\ request[c2] = Invalid
MCSpec == MCInit /\ [][HttpNext]_httpVars /\ HttpFairness
=============================================================================
