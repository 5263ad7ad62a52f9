--------------------------- MODULE MCTcpTransport ---------------------------
(* TcpTransport for TLC: applications that keep one set of subscriptions, a *)
(* server's or a client's, and ones that drop all of them after a while.   *)
EXTENDS TcpTransport

Server == [accept |-> TRUE, connect |-> FALSE, receive |-> TRUE]
Client == [accept |-> FALSE, connect |-> TRUE, receive |-> TRUE]
NoTcp  == [accept |-> FALSE, connect |-> FALSE, receive |-> FALSE]

AllChoices == {Server, Client, NoTcp}
ServerOnly == {Server}

=============================================================================
