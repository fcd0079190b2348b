------------------------------ MODULE MCResolver ------------------------------
(***************************************************************************)
(* An instance of Resolver for TLC: a container with an IPv4 and an IPv6   *)
(* address, each in a zone of its own, two names, and a static record that *)
(* hides the name web and gives it the address v6.  Two authorities let a  *)
(* zone be replaced while the other one is gone.                           *)
(***************************************************************************)
EXTENDS Resolver, TLC

CONSTANTS v4, v6, zone4, zone6, web, db, r1, r2

DualCovers == zone4 :> {v4} @@ zone6 :> {v6}
StaticRecords == {<<web, v6>>}

\* Records and zones are all that counts here, not the networks behind them.
NoNetwork == [n \in {} |-> {}]
=============================================================================
