-------------------------------- MODULE Coda --------------------------------
(***************************************************************************)
(* What the app may rely on of the Firestore client when it writes: one    *)
(* queue per account that keeps the order of the calls, loses nothing,     *)
(* survives the process, and executes a write as often as it takes until   *)
(* its answer has come.  Archivio is built on this contract, and           *)
(* ClientFirestore, the client itself, implements it.                      *)
(***************************************************************************)
EXTENDS Naturals, Sequences

CONSTANTS
  Conto,      \* the accounts that have a queue
  Orfana(_)   \* a queued write without whoever awaited its answer

VARIABLES
  coda,      \* the queued writes of each account, oldest first
  inviate    \* how many of them were executed and are not answered yet

vars == <<coda, inviate>>

Init ==
  /\ coda = [a \in Conto |-> <<>>]
  /\ inviate = [a \in Conto |-> 0]

\* q continues p.
Prolunga(p, q) == Len(p) <= Len(q) /\ p = SubSeq(q, 1, Len(p))

\* A call of the app, with one write or more; they go to the end.
Scrivi(a) ==
  /\ Prolunga(coda[a], coda'[a]) /\ coda'[a] # coda[a]
  /\ \A b \in Conto \ {a} : coda'[b] = coda[b]
  /\ UNCHANGED inviate

\* The next write is executed.
Esegui(a) ==
  /\ inviate[a] < Len(coda[a])
  /\ inviate' = [inviate EXCEPT ![a] = @ + 1]
  /\ UNCHANGED coda

\* The answer to the oldest write that was executed arrives.
Risposta(a) ==
  /\ inviate[a] > 0
  /\ coda' = [coda EXCEPT ![a] = Tail(@)]
  /\ inviate' = [inviate EXCEPT ![a] = @ - 1]

\* The oldest write is refused; nothing behind it has been executed.
Rifiuta(a) ==
  /\ inviate[a] = 0 /\ coda[a] # <<>>
  /\ coda' = [coda EXCEPT ![a] = Tail(@)]
  /\ UNCHANGED inviate

\* The answers under way are lost: their writes will be executed again.
Interrompi(a) ==
  /\ inviate' = [inviate EXCEPT ![a] = 0]
  /\ UNCHANGED coda

\* The process dies, perhaps with a call half done: what was queued remains, in
\* order, and nobody awaits it any more.
Riavvia(A) ==
  /\ \A a \in A :
       /\ Len(coda[a]) <= Len(coda'[a])
       /\ \A i \in DOMAIN coda'[a] :
            coda'[a][i] = Orfana(IF i <= Len(coda[a]) THEN coda[a][i] ELSE coda'[a][i])
  /\ \A b \in Conto \ A : coda'[b] = coda[b]
  /\ inviate' = [a \in Conto |-> IF a \in A THEN 0 ELSE inviate[a]]

Next ==
  \/ \E a \in Conto : Scrivi(a) \/ Esegui(a) \/ Risposta(a) \/ Rifiuta(a) \/ Interrompi(a)
  \/ \E A \in SUBSET Conto : Riavvia(A)

Spec == Init /\ [][Next]_vars
=============================================================================
