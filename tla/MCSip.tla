-------------------------------- MODULE MCSip --------------------------------
(***************************************************************************)
(* Instances of SipServer for TLC: RTP addresses of two hosts, one of them *)
(* with two ports.                                                         *)
(***************************************************************************)
EXTENDS SipSafety, TLC

CONSTANTS host1port1, host1port2, host2port1

MCHost == [a \in Addrs |-> IF a = host2port1 THEN "host2" ELSE "host1"]

=============================================================================
