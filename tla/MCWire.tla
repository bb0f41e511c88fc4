------------------------------- MODULE MCWire -------------------------------
(* Module Wire for TLC: keys and payloads whose bytes tell their order.    *)
EXTENDS Wire, TLC

MCKeys == {<<0, 0, 0, 0, 0, 0, 0, 1>>, <<1, 2, 3, 4, 5, 6, 7, 255>>}
MCNames == {<<97>>}
MCPayloads == {<<>>, <<0, 1>>}
Symmetry == Permutations(Objects)
=============================================================================
