----------------------------- MODULE MCScadenze -----------------------------
(***************************************************************************)
(* A small calendar for Scadenze.                                          *)
(***************************************************************************)
EXTENDS Scadenze

\* The day before the clock goes forward and the day before it goes back.
GiorniScelti == {79, 299}

\* Summer time, from day 80 to 299 of two years.
OraLegale == (80..299) \cup (445..664)
=============================================================================
