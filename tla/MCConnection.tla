---------------------------- MODULE MCConnection ----------------------------
(* Requests for SiloConnection: end a calls b twice, the handler of the first call *)
(* calls a back, and a sends a ping.                                               *)
EXTENDS SiloConnection

CONSTANTS there, back, again, ping

MCOrigin == [r \in Requests |-> IF r = back THEN "b" ELSE "a"]
MCCause == [r \in Requests |-> IF r = back THEN there ELSE NoReq]
MCMixes == {{there, back, again}, {there, ping}}
=============================================================================
