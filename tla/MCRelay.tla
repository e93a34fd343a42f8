-------------------------------- MODULE MCRelay --------------------------------
EXTENDS Relay, TLC

(* Sockets and requests are interchangeable. *)
Symmetry == Permutations(Conns) \union Permutations(Reqs)
===============================================================================
