---------------------------- MODULE MCPublication ----------------------------
(* Two callers racing for one name, with a file more than callers.         *)
EXTENDS Publication

=============================================================================
