------------------------------ MODULE Pointers ------------------------------
(***************************************************************************)
(* The null pointer, shared by the models of C data structures.            *)
(***************************************************************************)
CONSTANT NULL
=============================================================================
