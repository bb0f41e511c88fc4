------------------------------- MODULE MCBus --------------------------------
(***************************************************************************)
(* Model-checking instances of module Bus.                                 *)
(***************************************************************************)
EXTENDS Bus, TLC

(* Clients are interchangeable only where all of them play the same roles. *)
SameRoles == {Resolvers, Subscribers, Publishers, Leavers} \subseteq {{}, Clients}

Symmetry ==
  Permutations(Addrs) \cup Permutations(Topics)
    \cup (IF SameRoles THEN Permutations(Clients) ELSE {})
=============================================================================
