------------------------------ MODULE MCServer ------------------------------
(***************************************************************************)
(* Model-checking instance of module Server.  Slots, endpoints, record     *)
(* addresses and topic names are interchangeable.                          *)
(***************************************************************************)
EXTENDS Server, TLC

Symmetry ==
  Permutations(Peers) \cup Permutations(Endpoints)
    \cup Permutations(Addrs) \cup Permutations(Topics)
=============================================================================
