------------------------------- MODULE MCLive -------------------------------
(* An instance of LiveGateway for TLC: neither users nor socket ids differ. *)
EXTENDS LiveGateway, TLC

Symmetry == Permutations(Users) \cup Permutations(Sockets)

=============================================================================
