----------------------------- MODULE MCArchivio -----------------------------
(***************************************************************************)
(* Small instances of Archivio for TLC.                                    *)
(***************************************************************************)
EXTENDS Archivio, TLC

CONSTANTS d1, d2, s1, s2

\* One window on one device.
SuSolo == s1 :> d1

\* One window on each of two devices.
SuDue == (s1 :> d1) @@ (s2 :> d2)

\* Two windows on one device: two flows over the same stack of pages.
SuUno == (s1 :> d1) @@ (s2 :> d1)

\* Handlers and codes are interchangeable: no action tells one from another.
Simmetria == Permutations(Gestore) \cup Permutations(Codice)

\* So are the windows, if they are all on one device.
SimmetriaUno == Permutations(Gestore) \cup Permutations(Sessione)

=============================================================================
