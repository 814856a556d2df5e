---------------------------- MODULE MCWebServer ----------------------------
(* Values of the constants of WebServer that a cfg cannot write.           *)
EXTENDS WebServer

\* A request with a body whose client closes, and one that stops the server.
MCRequests == {[route |-> "api",  length |-> 1, close |-> TRUE],
               [route |-> "stop", length |-> 0, close |-> FALSE]}
=============================================================================
