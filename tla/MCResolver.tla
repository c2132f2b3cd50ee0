----------------------------- MODULE MCResolver -----------------------------
(* A name for a neighbour and one for a host behind the gateway, a third   *)
(* party that sends what nobody asked for.  With two ports the third query *)
(* has the port of the first; the three ids are not used up (in the code   *)
(* ids and ports come round together only after many thousands).  There    *)
(* are four ping sequence numbers and up to six pings.                     *)
EXTENDS Resolver

MCNear == {"near"}
MCFar == {"far"}
MCNames == {"alpha", "beta"}
MCAddressOf == [n \in MCNames |-> IF n = "alpha" THEN "near" ELSE "far"]
MCTargets == {"alpha", "beta", "us", "localhost", "bad name"}
MCNoise ==
  {[kind |-> "arp_reply", ip |-> "near", mac |-> MAC("near"), target |-> "us"],
   [kind |-> "arp_reply", ip |-> "near", mac |-> MAC("near"), target |-> "gw"],
   [kind |-> "arp_request", ip |-> "gw", mac |-> MAC("gw"), target |-> "us"],
   [kind |-> "echo_request", ip |-> "far", mac |-> MAC("gw")]}
=============================================================================
