------------------------------ MODULE MCClient ------------------------------
(***************************************************************************)
(* The instance of ClientFirestore with two users, who are                 *)
(* interchangeable: no action tells one from the other.                    *)
(***************************************************************************)
EXTENDS ClientFirestore, TLC

Simmetria == Permutations(Utente)

=============================================================================
