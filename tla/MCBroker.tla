------------------------------ MODULE MCBroker ------------------------------
(* A small instance of the whole broker: one service with two clients.     *)
EXTENDS Broker, TLC

Ranks == ("u1" :> 1) @@ ("u2" :> 2)
PairOfOne == ("u1" :> "svc") @@ ("u2" :> "svc")
OneAndNameless == ("u1" :> "svc") @@ ("u2" :> NoName)

ToSvc == [type |-> "TRAFFIC", route |-> "SVC", from |-> "u1", dest |-> "svc",
          n_bytes |-> 1, parts |-> 2, size |-> 1]

OneEnvelope == {ToSvc}
NoStrays == {}
=============================================================================
