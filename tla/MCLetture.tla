------------------------------ MODULE MCLetture ------------------------------
(***************************************************************************)
(* The instance of Letture with two gets: the slots are interchangeable.   *)
(***************************************************************************)
EXTENDS Letture, TLC

Simmetria == Permutations(Lettore)

=============================================================================
