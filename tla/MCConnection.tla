----------------------------- MODULE MCConnection -----------------------------
(* Small instances of Connection: which calls there are and who starts them. *)
EXTENDS CallInvariants, TLC

CONSTANTS c1, c2, c3

\* c1 and c2 are the client's, c3 the server's; or all are of one end
ClientCalls == [c \in Calls |-> "client"]
ServerCalls == [c \in Calls |-> "server"]
Callers == [c \in Calls |-> IF c = c3 THEN "server" ELSE "client"]
CallersOfBoth == [c \in Calls |-> IF c = c1 THEN "client" ELSE "server"]

KindsRequests == [c \in Calls |-> "Request"]
KindsStreams == [c \in Calls |-> IF c = c1 THEN "RequestReceiver" ELSE "RequestSender"]
KindsMixed == [c \in Calls |-> CASE c = c1 -> "Request"
                                 [] c = c2 -> "RequestReceiver"
                                 [] c = c3 -> "RequestSender"]
KindsIds == [c \in Calls |-> CASE c = c1 -> "RequestReceiver"
                               [] c = c2 -> "RequestSender"
                               [] c = c3 -> "Request"]
KindsBothWays == [c \in Calls |-> IF c = c1 THEN "Request" ELSE "RequestSender"]

\* c2 and c3 are of one caller and kind in the run that uses this
StreamSymmetry == Permutations({c2, c3})
===============================================================================
