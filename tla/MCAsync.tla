------------------------------ MODULE MCAsync -------------------------------
(***************************************************************************)
(* Model-checking instances of module AsyncClient.                         *)
(***************************************************************************)
EXTENDS AsyncClient
=============================================================================
