------------------------------- MODULE MCTimeout -------------------------------
(* The client and the server of a connection, with timeouts of each class of the interval. *)
EXTENDS TimeoutProperties
CONSTANTS client, server
================================================================================
