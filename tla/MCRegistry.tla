----------------------------- MODULE MCRegistry -----------------------------
(* Small instances of the registration path: two clients of one service    *)
(* and one of none.                                                        *)
EXTENDS Registry, TLC

Ranks == ("u1" :> 1) @@ ("u2" :> 2) @@ ("u3" :> 3)
PairAndNameless == ("u1" :> "svc") @@ ("u2" :> "svc") @@ ("u3" :> NoName)

PairRanks == ("u1" :> 1) @@ ("u2" :> 2)
Pair == ("u1" :> "svc") @@ ("u2" :> "svc")

\* What is not a registration: a message of another type, one without a body.
Odd == {[regi("u1") EXCEPT !.type = "CONF"], [regi("u2") EXCEPT !.parts = 1]}
NoStrays == {}
=============================================================================
