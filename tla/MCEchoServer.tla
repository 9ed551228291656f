---------------------------- MODULE MCEchoServer ----------------------------
(* One server with three workers, the EventRoutingServer, an accept task and *)
(* two connections.                                                          *)
EXTENDS EchoServer, TLC

CONSTANTS w1, w2, w3, a, r, t1, q1, q2

OwnerThree == w1 :> a @@ w2 :> a @@ w3 :> a
BootOne == <<a>>

OneAcceptor == <<t1>>
OneAcceptorTasks == [t \in {t1, q1, q2} |-> None]
TwoClients == <<q1, q2>>
=============================================================================
