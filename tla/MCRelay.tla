------------------------------ MODULE MCRelay -------------------------------
(* Small instances of the relay path: a pool of two slots, bodies of up to *)
(* three units against a buffer of two.                                    *)
EXTENDS Relay, TLC

E(type, route, dest, n_bytes, parts, size) ==
  [type |-> type, route |-> route, from |-> "u1", dest |-> dest,
   n_bytes |-> n_bytes, parts |-> parts, size |-> size]

ToSvc      == E("TRAFFIC", "SVC", "svc", 1, 2, 1)
ToInst     == E("TRAFFIC", "INST", "u2", 2, 2, 2)
ToRouter   == E("TRAFFIC", "SVC", ROUTER, 1, 2, 1)
BadRoute   == E("TRAFFIC", "OTHER", "svc", 1, 2, 1)
BadType    == E("CONF", "SVC", "svc", 1, 2, 1)
NoBody     == E("TRAFFIC", "SVC", "svc", 1, 1, 0)
WrongSize  == E("TRAFFIC", "SVC", "svc", 2, 3, 1)
Oversize   == E("TRAFFIC", "INST", "u2", 3, 2, 3)

AllEnvelopes  == {ToSvc, Oversize, BadRoute, BadType, NoBody, WrongSize}
PoolEnvelopes == {ToInst, WrongSize}
BigEnvelopes  == {ToInst, Oversize}

TempSymmetry == Permutations(Temps)
=============================================================================
