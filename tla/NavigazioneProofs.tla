-------------------------- MODULE NavigazioneProofs --------------------------
(***************************************************************************)
(* What holds of the pages of the app for stacks of every height, any      *)
(* number of callbacks at once and every choice of pages to open: what the *)
(* stack rests on, where a login page may lie, who may see the archive and *)
(* when a scanner may wait with its camera paused.                         *)
(*                                                                         *)
(* The splash is alone until it is replaced (Iniziale); after it the pages *)
(* satisfy Regge.  Two facts carry the scanner: there is only one, and it  *)
(* awaits at least as many alerts as lie over it, so that the last one of  *)
(* them finds it and resumes its camera (Sane).  The operators on the      *)
(* stack come first: a page is pushed, one is popped, some fields change,  *)
(* and pages that left are dropped (Ridotta).                              *)
(***************************************************************************)
EXTENDS Navigazione, FiniteSetTheorems, SequenceTheorems, NaturalsInduction, TLAPS

\* A page of the app once the splash is gone.
PaginaSana(p) ==
  /\ p.tipo # "splash" /\ p.attese["avvio"] = 0
  /\ p.attese["salva"] > 0 => p.tipo = "conferma"
  /\ p.avvisi > 0 => p.tipo = "scanner"

\* The scanner's alerts over page i.
Avvisi(q, i) == {k \in Presenti(q) : k > i /\ q[k].tipo = "avvisoScanner"}

Scanner(q) == {i \in DOMAIN q : q[i].tipo = "scanner"}

\* There is one scanner at most, and it awaits every alert over it.
Sane(q) ==
  /\ \A i \in DOMAIN q : PaginaSana(q[i])
  /\ \A i, j \in Scanner(q) : i = j
  /\ \A i \in Scanner(q) \cap Presenti(q) : Cardinality(Avvisi(q, i)) <= q[i].avvisi

\* The oldest page is a login or a home page.
FondoBuono(q) ==
  \E i \in Presenti(q) : (\A j \in Presenti(q) : i <= j) /\ q[i].tipo \in {"login", "home"}

\* A scanner whose camera does not run has something to wait for.
Attento(q) ==
  \A i \in Scanner(q) \cap Presenti(q) :
    \/ q[i].camera = "accesa"
    \/ q[i].attese["prima"] > 0 \/ q[i].attese["seconda"] > 0
    \/ Avvisi(q, i) # {}

\* Somebody is signed in and no login page is left, or there is nothing else.
Protetta(u, q) == u /\ \A i \in Presenti(q) : q[i].tipo # "login"

SoloLogin(q) == Len(q) = 1 /\ q[1].presente /\ q[1].tipo = "login"

Iniziale == pagine = <<Nuova("splash")>>

\* What holds once the splash is gone, with the exceptions the history records.
Regge(u, q, s) ==
  /\ Sane(q)
  /\ FondoBuono(q) \/ "uscente" \in s.scanner
  /\ Attento(q) \/ s.fallita \/ s.scanner # {}
  /\ Protetta(u, q) \/ SoloLogin(q) \/ s.residui

IInv == TypeOK /\ (Iniziale \/ Regge(utente, pagine, storia))

\* Stack r is what is left of q when some pages on their way out are dropped.
Ridotta(q, r) ==
  \E e \in [DOMAIN r -> DOMAIN q] :
    /\ \A m, n \in DOMAIN r : m < n => e[m] < e[n]
    /\ \A n \in DOMAIN r : r[n] = q[e[n]]
    /\ \A i \in Presenti(q) : \E n \in DOMAIN r : e[n] = i

(***************************************************************************)
(* Least and greatest elements, and counting                               *)
(***************************************************************************)
\* Every set of naturals has a least element.
LEMMA Minimo ==
  ASSUME NEW T \in SUBSET Nat, T # {}
  PROVE  \E x \in T : \A y \in T : x <= y
<1>1. \E R : IsWellFoundedOn(R, Nat) /\ \A x, y \in Nat : <<y, x>> \in R <=> y < x
  <2>1. \A x, y \in Nat : <<y, x>> \in OpToRel(<, Nat) <=> y < x
    BY DEF OpToRel
  <2>2. QED
    BY <2>1, NatLessThanWellFounded
<1>2. PICK R : IsWellFoundedOn(R, Nat) /\ \A x, y \in Nat : <<y, x>> \in R <=> y < x
  BY <1>1
<1>3. T \subseteq Nat
  OBVIOUS
<1>4. \E x \in T : \A y \in T : ~(<<y, x>> \in R)
  BY <1>2, <1>3, WFMin
<1>5. PICK x \in T : \A y \in T : ~(<<y, x>> \in R)
  BY <1>4
<1>6. x \in Nat /\ \A y \in T : y \in Nat
  OBVIOUS
<1>7. \A y \in T : ~(y < x)
  BY <1>2, <1>5, <1>6
<1>8. \A y \in T : x <= y
  BY <1>6, <1>7
<1>9. QED
  BY <1>8

\* Max of a bounded set of naturals is its greatest element.
LEMMA MassimoVale ==
  ASSUME NEW n \in Nat, NEW S \in SUBSET (0..n), S # {}
  PROVE  Max(S) \in S /\ \A y \in S : y <= Max(S)
<1> DEFINE T == {m \in Nat : \A y \in S : y <= m}
<1>1. n \in T
  OBVIOUS
<1>2. PICK m \in T : \A y \in T : m <= y
  BY <1>1, Minimo
<1>3. m \in S
  <2> SUFFICES ASSUME m \notin S PROVE FALSE
    OBVIOUS
  <2>1. PICK z \in S : TRUE
    OBVIOUS
  <2>2. m \in Nat /\ m # 0
    BY <2>1
  <2>3. m - 1 \in Nat /\ \A y \in S : y <= m - 1
    BY <2>2
  <2>4. m - 1 \in T
    BY <2>3
  <2>5. QED
    BY <1>2, <2>2, <2>4
<1>4. \E x \in S : \A y \in S : x >= y
  BY <1>3
<1>5. QED
  BY <1>4 DEF Max

LEMMA Finito ==
  ASSUME NEW n \in Nat, NEW S \in SUBSET (1..n)
  PROVE  IsFiniteSet(S) /\ Cardinality(S) \in Nat
<1>1. IsFiniteSet(1..n)
  BY FS_Interval
<1>2. IsFiniteSet(S)
  BY <1>1, FS_Subset
<1>3. QED
  BY <1>2, FS_CardinalityType

\* The rank of the elements of a finite set of naturals.
LEMMA Rango ==
  ASSUME NEW n \in Nat, NEW S \in SUBSET (1..n),
         NEW i \in S
  PROVE  Cardinality({j \in S : j <= i}) \in 1..Cardinality(S)
<1>1. IsFiniteSet(S)
  BY Finito
<1>2. {j \in S : j <= i} \in SUBSET S
  OBVIOUS
<1>3. /\ IsFiniteSet({j \in S : j <= i})
      /\ Cardinality({j \in S : j <= i}) <= Cardinality(S)
  BY <1>1, <1>2, FS_Subset
<1>4. Cardinality({j \in S : j <= i}) \in Nat /\ Cardinality(S) \in Nat
  BY <1>1, <1>3, FS_CardinalityType
<1>5. i \in {j \in S : j <= i}
  OBVIOUS
<1>6. Cardinality({j \in S : j <= i}) # 0
  BY <1>3, <1>5, FS_EmptySet
<1>7. QED
  BY <1>3, <1>4, <1>6

LEMMA RangoCresce ==
  ASSUME NEW n \in Nat, NEW S \in SUBSET (1..n),
         NEW i \in S, NEW k \in S, i < k
  PROVE  Cardinality({j \in S : j <= i}) < Cardinality({j \in S : j <= k})
<1> DEFINE I == {j \in S : j <= i}
           K == {j \in S : j <= k}
<1>1. IsFiniteSet(S)
  BY Finito
<1>2. I \in SUBSET S /\ K \in SUBSET S /\ k \notin I
  OBVIOUS
<1>3. I \cup {k} \in SUBSET K
  <2>1. i \in Nat /\ k \in Nat /\ \A j \in S : j \in Nat
    OBVIOUS
  <2>2. \A j \in I : j \in K
    BY <2>1
  <2>3. k \in K
    BY <2>1
  <2>4. QED
    BY <2>2, <2>3
<1>4. IsFiniteSet(I) /\ IsFiniteSet(K)
  BY <1>1, <1>2, FS_Subset
<1>5. Cardinality(I \cup {k}) = Cardinality(I) + 1
  BY <1>2, <1>4, FS_AddElement
<1>6. Cardinality(I \cup {k}) <= Cardinality(K)
  BY <1>3, <1>4, FS_Subset
<1>7. Cardinality(I) \in Nat /\ Cardinality(K) \in Nat
  BY <1>4, FS_CardinalityType
<1>8. QED
  BY <1>5, <1>6, <1>7

\* Every rank is taken.
LEMMA RangoPieno ==
  ASSUME NEW n \in Nat, NEW S \in SUBSET (1..n),
         NEW m \in 1..Cardinality(S)
  PROVE  \E i \in S : Cardinality({j \in S : j <= i}) = m
<1> DEFINE R(i) == Cardinality({j \in S : j <= i})
           f == [i \in S |-> R(i)]
           D == 1..Cardinality(S)
<1>1. IsFiniteSet(S) /\ Cardinality(S) \in Nat
  BY Finito
<1>2. IsFiniteSet(D) /\ Cardinality(D) = Cardinality(S)
  BY <1>1, FS_Interval
<1>3. \A i \in S : R(i) \in D
  BY Rango
<1>4. \A i, k \in S : i < k => R(i) < R(k)
  BY RangoCresce
<1>5. \A i \in S : i \in Nat /\ R(i) \in Nat
  BY <1>3
<1> HIDE DEF R, D
<1>6. \A i, k \in S : R(i) = R(k) => i = k
  BY <1>4, <1>5
<1>7. f \in Injection(S, D)
  BY <1>3, <1>6 DEF Injection, IsInjective
<1>8. f \in Surjection(S, D)
  BY <1>2, <1>7, FS_Injection
<1>9. \A x \in D : \E i \in S : R(i) = x
  BY <1>8 DEF Surjection
<1>10. QED
  BY <1>9 DEF R, D

(***************************************************************************)
(* The stack                                                               *)
(***************************************************************************)
LEMMA Pila ==
  ASSUME NEW q \in Seq(Pagina)
  PROVE  /\ Len(q) \in Nat /\ DOMAIN q = 1..Len(q)
         /\ \A i \in DOMAIN q : q[i] \in Pagina
         /\ Presenti(q) \in SUBSET (1..Len(q))
  BY DEF Presenti

LEMMA CimaFatti ==
  ASSUME NEW q \in Seq(Pagina), Presenti(q) # {}
  PROVE  /\ Cima(q) \in Presenti(q) /\ \A j \in Presenti(q) : j <= Cima(q)
         /\ Cima(q) \in DOMAIN q /\ q[Cima(q)].presente
         /\ InCima(q) = q[Cima(q)].tipo
<1>1. Presenti(q) \in SUBSET (0..Len(q)) /\ Len(q) \in Nat
  BY Pila
<1>2. Cima(q) \in Presenti(q) /\ \A j \in Presenti(q) : j <= Cima(q)
  BY <1>1, MassimoVale DEF Cima
<1>3. QED
  BY <1>2 DEF Presenti, InCima

LEMMA FondoFatti ==
  ASSUME NEW q \in Seq(Pagina), Presenti(q) # {}
  PROVE  Fondo(q) \in Presenti(q) /\ \A j \in Presenti(q) : Fondo(q) <= j
<1>1. Presenti(q) \in SUBSET Nat
  BY Pila
<1>2. \E x \in Presenti(q) : \A y \in Presenti(q) : x <= y
  BY <1>1, Minimo
<1>3. QED
  BY <1>2 DEF Fondo, Min

\* What is on top has a type that a page has.
LEMMA CimaEsiste ==
  ASSUME NEW q \in Seq(Pagina), InCima(q) # "nessuna"
  PROVE  Presenti(q) # {}
  BY DEF InCima

LEMMA CambioPagina ==
  ASSUME NEW q \in Seq(Pagina), NEW i \in DOMAIN q, NEW p \in Pagina
  PROVE  /\ [q EXCEPT ![i] = p] \in Seq(Pagina)
         /\ Len([q EXCEPT ![i] = p]) = Len(q)
         /\ DOMAIN [q EXCEPT ![i] = p] = DOMAIN q
         /\ [q EXCEPT ![i] = p][i] = p
         /\ \A j \in DOMAIN q : j # i => [q EXCEPT ![i] = p][j] = q[j]
  OBVIOUS

\* Types and presence of the pages stay.
Simile(q, r) ==
  /\ DOMAIN r = DOMAIN q /\ Len(r) = Len(q)
  /\ \A i \in DOMAIN q : r[i].tipo = q[i].tipo /\ r[i].presente = q[i].presente

LEMMA SimileFatti ==
  ASSUME NEW q \in Seq(Pagina), NEW r \in Seq(Pagina), Simile(q, r)
  PROVE  /\ Presenti(r) = Presenti(q) /\ Scanner(r) = Scanner(q)
         /\ \A i : Avvisi(r, i) = Avvisi(q, i)
         /\ Cima(r) = Cima(q) /\ Fondo(r) = Fondo(q) /\ InCima(r) = InCima(q)
         /\ FondoBuono(q) => FondoBuono(r)
         /\ \A u : Protetta(u, q) => Protetta(u, r)
         /\ SoloLogin(q) => SoloLogin(r)
<1>1. Presenti(r) = Presenti(q) /\ Scanner(r) = Scanner(q)
  BY DEF Simile, Presenti, Scanner
<1>2. \A i \in Presenti(q) : r[i].tipo = q[i].tipo
  BY DEF Simile, Presenti
<1>3. \A i : Avvisi(r, i) = Avvisi(q, i)
  BY <1>1, <1>2 DEF Avvisi
<1>4. Cima(r) = Cima(q) /\ Fondo(r) = Fondo(q)
  BY <1>1 DEF Cima, Fondo
<1>5. InCima(r) = InCima(q)
  BY <1>1, <1>2, <1>4, CimaFatti DEF InCima
<1>6. FondoBuono(q) => FondoBuono(r)
  BY <1>1, <1>2 DEF FondoBuono
<1>7. \A u : Protetta(u, q) => Protetta(u, r)
  BY <1>1, <1>2 DEF Protetta
<1>8. SoloLogin(q) => SoloLogin(r)
  BY DEF SoloLogin, Simile
<1>9. QED
  BY <1>1, <1>3, <1>4, <1>5, <1>6, <1>7, <1>8

(***************************************************************************)
(* Pages that left are dropped                                             *)
(***************************************************************************)
LEMMA PulitaRidotta ==
  ASSUME NEW q \in Seq(Pagina)
  PROVE  Pulita(q) \in Seq(Pagina) /\ Ridotta(q, Pulita(q))
<1> DEFINE S == Restano(q)
           R(i) == Cardinality({j \in S : j <= i})
           D == 1..Cardinality(S)
           c(n) == CHOOSE i \in S : R(i) = n
           e == [n \in D |-> c(n)]
<1>1. Len(q) \in Nat /\ DOMAIN q = 1..Len(q) /\ S \in SUBSET (1..Len(q))
  BY Pila DEF Restano
<1>2. Cardinality(S) \in Nat
  BY <1>1, Finito
<1>3. \A i \in S : i \in 1..Len(q) /\ R(i) \in D
  BY <1>1, Rango
<1>4. \A i, k \in S : i < k => R(i) < R(k)
  BY <1>1, RangoCresce
<1>5. \A n \in D : \E i \in S : R(i) = n
  BY <1>1, RangoPieno
<1>6. Pulita(q) = [n \in D |-> q[c(n)]]
  BY DEF Pulita
<1>7. Presenti(q) \subseteq S
  BY DEF Presenti, Restano
<1> HIDE DEF S, R
<1>8. \A n \in D : c(n) \in S /\ R(c(n)) = n
  BY <1>5
<1>9. \A n \in D : n \in Nat /\ c(n) \in 1..Len(q) /\ c(n) \in Nat
  BY <1>2, <1>3, <1>8
<1>10. \A i, k \in S : i \in Nat /\ k \in Nat /\ R(i) \in Nat /\ R(k) \in Nat
  BY <1>1, <1>2, <1>3
<1>11. \A m, n \in D : m < n => c(m) < c(n)
  <2>1. ASSUME NEW m \in D, NEW n \in D, m < n, ~(c(m) < c(n)) PROVE FALSE
    <3>1. c(n) = c(m) \/ c(n) < c(m)
      BY <1>9, <2>1
    <3>2. c(n) = c(m) => n = m
      BY <1>8, <2>1
    <3>3. c(n) < c(m) => n < m
      BY <1>4, <1>8, <2>1
    <3>4. QED
      BY <1>9, <2>1, <3>1, <3>2, <3>3
  <2>2. QED
    BY <2>1
<1>12. \A i \in S : \E n \in D : c(n) = i
  <2>1. ASSUME NEW i \in S PROVE c(R(i)) = i
    <3>1. R(i) \in D
      BY <1>3
    <3>2. c(R(i)) \in S /\ R(c(R(i))) = R(i)
      BY <1>8, <3>1
    <3>3. QED
      BY <1>4, <1>10, <3>2
  <2>2. QED
    BY <1>3, <2>1
<1> HIDE DEF c
<1>13. /\ DOMAIN Pulita(q) = D
       /\ \A n \in D : Pulita(q)[n] = q[c(n)]
  BY <1>6
<1>14. \A n \in D : q[c(n)] \in Pagina
  BY <1>1, <1>9, Pila
<1>15. Pulita(q) \in Seq(Pagina)
  BY <1>2, <1>6, <1>14
<1>16. e \in [DOMAIN Pulita(q) -> DOMAIN q] /\ \A n \in D : e[n] = c(n)
  BY <1>1, <1>9, <1>13
<1>17. Ridotta(q, Pulita(q))
  <2> HIDE DEF e, D
  <2>1. \A i \in Presenti(q) : \E n \in D : e[n] = i
    BY <1>7, <1>12, <1>16
  <2>2. /\ \A m, n \in D : m < n => e[m] < e[n]
        /\ \A n \in D : Pulita(q)[n] = q[e[n]]
    BY <1>11, <1>13, <1>16
  <2>3. QED
    BY <1>13, <1>16, <2>1, <2>2 DEF Ridotta
<1>18. QED
  BY <1>15, <1>17

LEMMA RimossaRidotta ==
  ASSUME NEW q \in Seq(Pagina), NEW i \in DOMAIN q, ~q[i].presente
  PROVE  RemoveAt(q, i) \in Seq(Pagina) /\ Ridotta(q, RemoveAt(q, i))
<1> DEFINE a == SubSeq(q, 1, i - 1)
           b == SubSeq(q, i + 1, Len(q))
           r == RemoveAt(q, i)
           e == [n \in 1..(Len(q) - 1) |-> IF n < i THEN n ELSE n + 1]
<1>1. Len(q) \in Nat /\ DOMAIN q = 1..Len(q) /\ i \in 1..Len(q)
  BY Pila
<1>2. /\ a \in Seq(Pagina) /\ Len(a) = i - 1
      /\ \A n \in 1..(i - 1) : a[n] = q[n]
  BY <1>1, SubSeqProperties
<1>3. /\ b \in Seq(Pagina) /\ Len(b) = Len(q) - i
      /\ \A n \in 1..(Len(q) - i) : b[n] = q[n + i]
  BY <1>1, SubSeqProperties
<1>4. r = a \o b
  BY DEF RemoveAt
<1> HIDE DEF a, b, r
<1>5. /\ r \in Seq(Pagina) /\ Len(r) = Len(a) + Len(b)
      /\ \A n \in 1..(Len(a) + Len(b)) : r[n] = IF n <= Len(a) THEN a[n] ELSE b[n - Len(a)]
  BY <1>2, <1>3, <1>4, ConcatProperties
<1>6. Len(r) = Len(q) - 1 /\ DOMAIN r = 1..(Len(q) - 1)
  BY <1>1, <1>2, <1>3, <1>5
<1>7. ASSUME NEW n \in 1..(Len(q) - 1) PROVE r[n] = q[IF n < i THEN n ELSE n + 1]
  <2>1. n \in 1..(Len(a) + Len(b))
    BY <1>1, <1>2, <1>3
  <2>2. CASE n < i
    BY <1>1, <1>2, <1>5, <2>1, <2>2
  <2>3. CASE ~(n < i)
    <3>1. ~(n <= Len(a)) /\ n - Len(a) \in 1..(Len(q) - i) /\ (n - Len(a)) + i = n + 1
      BY <1>1, <1>2, <2>3
    <3>2. r[n] = b[n - Len(a)]
      BY <1>5, <2>1, <3>1
    <3>3. b[n - Len(a)] = q[(n - Len(a)) + i]
      BY <1>3, <3>1
    <3>4. QED
      BY <2>3, <3>1, <3>2, <3>3
  <2>4. QED
    BY <2>2, <2>3
<1>8. e \in [1..(Len(q) - 1) -> 1..Len(q)]
  BY <1>1
<1>9. \A n \in 1..(Len(q) - 1) : e[n] = IF n < i THEN n ELSE n + 1
  OBVIOUS
<1> HIDE DEF e
<1>10. \A m, n \in 1..(Len(q) - 1) : m < n => e[m] < e[n]
  BY <1>1, <1>9
<1>11. ASSUME NEW j \in Presenti(q) PROVE \E n \in 1..(Len(q) - 1) : e[n] = j
  <2>1. j \in 1..Len(q) /\ j # i
    BY <1>1, <1>11 DEF Presenti
  <2>2. CASE j < i
    BY <1>1, <1>9, <2>1, <2>2
  <2>3. CASE ~(j < i)
    <3>1. j - 1 \in 1..(Len(q) - 1) /\ ~(j - 1 < i) /\ (j - 1) + 1 = j
      BY <1>1, <2>1, <2>3
    <3>2. QED
      BY <1>9, <3>1
  <2>4. QED
    BY <2>2, <2>3
<1>12. \A n \in 1..(Len(q) - 1) : r[n] = q[e[n]]
  BY <1>7, <1>9
<1>13. Ridotta(q, r)
  <2>1. e \in [DOMAIN r -> DOMAIN q]
    BY <1>1, <1>6, <1>8
  <2>2. /\ \A m, n \in DOMAIN r : m < n => e[m] < e[n]
        /\ \A n \in DOMAIN r : r[n] = q[e[n]]
        /\ \A j \in Presenti(q) : \E n \in DOMAIN r : e[n] = j
    BY <1>6, <1>10, <1>11, <1>12
  <2>3. QED
    BY <2>1, <2>2 DEF Ridotta
<1>14. QED
  BY <1>5, <1>13 DEF r

LEMMA RidottaMantiene ==
  ASSUME NEW q \in Seq(Pagina), NEW r \in Seq(Pagina), Ridotta(q, r)
  PROVE  /\ Sane(q) => Sane(r)
         /\ FondoBuono(q) => FondoBuono(r)
         /\ Attento(q) => Attento(r)
         /\ \A u : Protetta(u, q) => Protetta(u, r)
         /\ SoloLogin(q) => SoloLogin(r)
<1>1. PICK e \in [DOMAIN r -> DOMAIN q] :
         /\ \A m, n \in DOMAIN r : m < n => e[m] < e[n]
         /\ \A n \in DOMAIN r : r[n] = q[e[n]]
         /\ \A i \in Presenti(q) : \E n \in DOMAIN r : e[n] = i
  BY DEF Ridotta
<1>2. /\ Len(q) \in Nat /\ DOMAIN q = 1..Len(q) /\ Len(r) \in Nat /\ DOMAIN r = 1..Len(r)
  BY Pila
<1>3. \A n \in DOMAIN r : e[n] \in DOMAIN q /\ n \in Nat /\ e[n] \in Nat
  BY <1>1, <1>2
<1>4. \A m, n \in DOMAIN r : e[m] = e[n] => m = n
  BY <1>1, <1>3
<1>5. \A m, n \in DOMAIN r : e[m] < e[n] => m < n
  BY <1>1, <1>3
<1>6. \A n \in DOMAIN r : n \in Presenti(r) <=> e[n] \in Presenti(q)
  BY <1>1, <1>3 DEF Presenti
<1>7. \A n \in DOMAIN r : n \in Scanner(r) <=> e[n] \in Scanner(q)
  BY <1>1, <1>3 DEF Scanner
<1>8. Presenti(r) \subseteq DOMAIN r /\ Scanner(r) \subseteq DOMAIN r /\ Presenti(q) \subseteq DOMAIN q
  BY DEF Presenti, Scanner
<1>9. \A i \in DOMAIN r, k \in DOMAIN r : k \in Avvisi(r, i) <=> e[k] \in Avvisi(q, e[i])
  <2>1. ASSUME NEW i \in DOMAIN r, NEW k \in DOMAIN r PROVE k > i <=> e[k] > e[i]
    BY <1>1, <1>3, <1>5
  <2>2. QED
    BY <1>1, <1>6, <2>1 DEF Avvisi
<1>10. \A i \in DOMAIN r : Avvisi(q, e[i]) # {} => Avvisi(r, i) # {}
  <2>1. ASSUME NEW i \in DOMAIN r, NEW k \in Avvisi(q, e[i]) PROVE Avvisi(r, i) # {}
    <3>1. k \in Presenti(q)
      BY DEF Avvisi
    <3>2. PICK n \in DOMAIN r : e[n] = k
      BY <1>1, <3>1
    <3>3. QED
      BY <1>9, <2>1, <3>2
  <2>2. QED
    BY <2>1
<1>11. \A i \in DOMAIN r : Cardinality(Avvisi(r, i)) <= Cardinality(Avvisi(q, e[i]))
  <2> TAKE i \in DOMAIN r
  <2> DEFINE A == Avvisi(r, i)
             B == Avvisi(q, e[i])
             f == [k \in A |-> e[k]]
  <2>1. A \subseteq DOMAIN r /\ B \subseteq 1..Len(q)
    BY <1>2, <1>8 DEF Avvisi
  <2>2. \A k \in A : e[k] \in B
    BY <1>9, <2>1
  <2>3. \A k, l \in A : e[k] = e[l] => k = l
    BY <1>4, <2>1
  <2>4. IsFiniteSet(B)
    <3>1. Len(q) \in Nat /\ B \in SUBSET (1..Len(q))
      BY <1>2, <2>1
    <3>2. QED
      BY <3>1, Finito
  <2> HIDE DEF A, B
  <2>5. f \in Injection(A, B)
    BY <2>2, <2>3 DEF Injection, IsInjective
  <2>6. Cardinality(A) <= Cardinality(B)
    BY <2>4, <2>5, FS_Injection
  <2>7. QED
    BY <2>6 DEF A, B
<1>12. ASSUME Sane(q) PROVE Sane(r)
  <2>1. \A n \in DOMAIN r : PaginaSana(r[n])
    BY <1>1, <1>3, <1>12 DEF Sane
  <2>2. \A i, j \in Scanner(r) : i = j
    BY <1>4, <1>7, <1>8, <1>12 DEF Sane
  <2>3. ASSUME NEW i \in Scanner(r) \cap Presenti(r)
        PROVE  Cardinality(Avvisi(r, i)) <= r[i].avvisi
    <3>1. i \in DOMAIN r /\ e[i] \in Scanner(q) \cap Presenti(q)
      BY <1>6, <1>7, <1>8, <2>3
    <3>2. Cardinality(Avvisi(q, e[i])) <= q[e[i]].avvisi
      BY <1>12, <3>1 DEF Sane
    <3>3. Cardinality(Avvisi(r, i)) <= Cardinality(Avvisi(q, e[i])) /\ r[i] = q[e[i]]
      BY <1>1, <1>11, <3>1
    <3>4. q[e[i]].avvisi \in Nat
      BY <1>3, <3>1, Pila DEF Pagina
    <3>5. IsFiniteSet(Avvisi(r, i)) /\ IsFiniteSet(Avvisi(q, e[i]))
      <4>1. Avvisi(r, i) \in SUBSET (1..Len(r)) /\ Avvisi(q, e[i]) \in SUBSET (1..Len(q))
        BY <1>2, <1>8 DEF Avvisi
      <4>2. QED
        BY <1>2, <4>1, Finito
    <3>6. Cardinality(Avvisi(r, i)) \in Nat /\ Cardinality(Avvisi(q, e[i])) \in Nat
      BY <3>5, FS_CardinalityType
    <3>7. QED
      BY <3>2, <3>3, <3>4, <3>6
  <2>4. QED
    BY <2>1, <2>2, <2>3 DEF Sane
<1>13. ASSUME FondoBuono(q) PROVE FondoBuono(r)
  <2>1. PICK i \in Presenti(q) : (\A j \in Presenti(q) : i <= j) /\ q[i].tipo \in {"login", "home"}
    BY <1>13 DEF FondoBuono
  <2>2. PICK n \in DOMAIN r : e[n] = i
    BY <1>1
  <2>3. n \in Presenti(r) /\ r[n].tipo \in {"login", "home"}
    BY <1>1, <1>6, <2>1, <2>2
  <2>4. ASSUME NEW m \in Presenti(r) PROVE n <= m
    BY <1>1, <1>3, <1>6, <1>8, <2>1, <2>2, <2>4
  <2>5. QED
    BY <2>3, <2>4 DEF FondoBuono
<1>14. ASSUME Attento(q) PROVE Attento(r)
  <2>1. ASSUME NEW i \in Scanner(r) \cap Presenti(r)
        PROVE  \/ r[i].camera = "accesa"
               \/ r[i].attese["prima"] > 0 \/ r[i].attese["seconda"] > 0
               \/ Avvisi(r, i) # {}
    <3>1. i \in DOMAIN r /\ e[i] \in Scanner(q) \cap Presenti(q) /\ r[i] = q[e[i]]
      BY <1>1, <1>6, <1>7, <1>8, <2>1
    <3>2. QED
      BY <1>10, <1>14, <3>1 DEF Attento
  <2>2. QED
    BY <2>1 DEF Attento
<1>15. \A u : Protetta(u, q) => Protetta(u, r)
  BY <1>1, <1>6, <1>8 DEF Protetta
<1>16. ASSUME SoloLogin(q) PROVE SoloLogin(r)
  <2>1. Len(q) = 1 /\ 1 \in Presenti(q) /\ q[1].tipo = "login"
    BY <1>2, <1>16 DEF SoloLogin, Presenti
  <2>2. PICK n \in DOMAIN r : e[n] = 1
    BY <1>1, <2>1
  <2>3. \A m \in DOMAIN r : m = n
    BY <1>2, <1>3, <1>4, <2>1, <2>2
  <2>4. 1 \in DOMAIN r /\ Len(r) \in DOMAIN r
    BY <1>2, <2>2
  <2>5. Len(r) = 1 /\ n = 1
    BY <2>3, <2>4
  <2>6. r[1] = q[1]
    BY <1>1, <2>2, <2>5
  <2>7. QED
    BY <2>1, <2>5, <2>6 DEF SoloLogin, Presenti
<1>17. QED
  BY <1>12, <1>13, <1>14, <1>15, <1>16

(***************************************************************************)
(* A page is pushed                                                        *)
(***************************************************************************)
LEMMA NuovaPagina ==
  ASSUME NEW t \in Tipo
  PROVE  /\ Nuova(t) \in Pagina
         /\ Nuova(t).tipo = t /\ Nuova(t).presente /\ Nuova(t).avvisi = 0
         /\ Nuova(t).camera = "accesa"
         /\ t # "splash" => PaginaSana(Nuova(t))
<1>1. [a \in Attesa |-> IF a = "avvio" /\ t = "splash" THEN 1 ELSE 0] \in [Attesa -> Nat]
  OBVIOUS
<1>2. Nuova(t) \in Pagina
  BY <1>1 DEF Nuova, Pagina
<1>3. "avvio" \in Attesa /\ "salva" \in Attesa
  BY DEF Attesa
<1>4. t # "splash" => Nuova(t).attese["avvio"] = 0 /\ Nuova(t).attese["salva"] = 0
  BY <1>3 DEF Nuova
<1>5. QED
  BY <1>2, <1>4 DEF Nuova, PaginaSana

LEMMA PushFatti ==
  ASSUME NEW q \in Seq(Pagina), NEW t \in Tipo
  PROVE  /\ push(q, t) \in Seq(Pagina)
         /\ Len(push(q, t)) = Len(q) + 1
         /\ DOMAIN push(q, t) = DOMAIN q \cup {Len(q) + 1}
         /\ \A i \in DOMAIN q : push(q, t)[i] = q[i]
         /\ push(q, t)[Len(q) + 1] = Nuova(t)
         /\ Presenti(push(q, t)) = Presenti(q) \cup {Len(q) + 1}
         /\ \A i \in DOMAIN q : i < Len(q) + 1 /\ i \in Nat
<1>1. Len(q) \in Nat /\ DOMAIN q = 1..Len(q)
  BY Pila
<1>2. Nuova(t) \in Pagina /\ Nuova(t).presente
  BY NuovaPagina
<1>3. /\ push(q, t) \in Seq(Pagina)
      /\ Len(push(q, t)) = Len(q) + 1
      /\ \A i \in 1..Len(q) : push(q, t)[i] = q[i]
      /\ push(q, t)[Len(q) + 1] = Nuova(t)
  BY <1>1, <1>2, AppendProperties DEF push
<1>4. DOMAIN push(q, t) = 1..(Len(q) + 1)
  BY <1>3
<1>5. DOMAIN push(q, t) = DOMAIN q \cup {Len(q) + 1}
  BY <1>1, <1>4
<1>6. Presenti(push(q, t)) = Presenti(q) \cup {Len(q) + 1}
  BY <1>1, <1>2, <1>3, <1>5 DEF Presenti
<1>7. QED
  BY <1>1, <1>3, <1>5, <1>6

LEMMA PushPagine ==
  ASSUME NEW q \in Seq(Pagina), NEW t \in Tipo
  PROVE  /\ Scanner(push(q, t)) = IF t = "scanner" THEN Scanner(q) \cup {Len(q) + 1} ELSE Scanner(q)
         /\ \A i \in DOMAIN q :
              Avvisi(push(q, t), i) = IF t = "avvisoScanner" THEN Avvisi(q, i) \cup {Len(q) + 1}
                                      ELSE Avvisi(q, i)
         /\ Avvisi(push(q, t), Len(q) + 1) = {}
         /\ Len(q) + 1 \notin DOMAIN q
<1> DEFINE r == push(q, t)
<1>1. /\ r \in Seq(Pagina) /\ DOMAIN r = DOMAIN q \cup {Len(q) + 1}
      /\ \A i \in DOMAIN q : r[i] = q[i]
      /\ r[Len(q) + 1] = Nuova(t)
      /\ Presenti(r) = Presenti(q) \cup {Len(q) + 1}
      /\ \A i \in DOMAIN q : i < Len(q) + 1 /\ i \in Nat
  BY PushFatti
<1>2. Len(q) \in Nat /\ Presenti(q) \subseteq DOMAIN q
  BY Pila DEF Presenti
<1>3. Nuova(t).tipo = t
  BY NuovaPagina
<1>4. Len(q) + 1 \notin DOMAIN q
  BY <1>1, <1>2
<1> HIDE DEF r
<1>5. Scanner(r) = IF t = "scanner" THEN Scanner(q) \cup {Len(q) + 1} ELSE Scanner(q)
  BY <1>1, <1>3, <1>4 DEF Scanner
<1>6. ASSUME NEW i \in DOMAIN q
      PROVE  Avvisi(r, i) = IF t = "avvisoScanner" THEN Avvisi(q, i) \cup {Len(q) + 1}
                            ELSE Avvisi(q, i)
  <2>1. Len(q) + 1 > i /\ i \in Nat
    BY <1>1
  <2>2. \A k \in Presenti(q) : r[k] = q[k]
    BY <1>1, <1>2
  <2>3. QED
    BY <1>1, <1>3, <2>1, <2>2 DEF Avvisi
<1>7. Avvisi(r, Len(q) + 1) = {}
  BY <1>1, <1>2 DEF Avvisi
<1>8. QED
  BY <1>4, <1>5, <1>6, <1>7 DEF r

\* An alert is awaited, and a second scanner is not opened.
LEMMA PushSana ==
  ASSUME NEW q \in Seq(Pagina), NEW t \in Tipo, Sane(q), t # "splash",
         t = "scanner" => Scanner(q) = {},
         t = "avvisoScanner" =>
           \A i \in Scanner(q) \cap Presenti(q) : Cardinality(Avvisi(q, i)) < q[i].avvisi
  PROVE  Sane(push(q, t))
<1> DEFINE r == push(q, t)
<1>1. /\ r \in Seq(Pagina) /\ DOMAIN r = DOMAIN q \cup {Len(q) + 1}
      /\ \A i \in DOMAIN q : r[i] = q[i]
      /\ r[Len(q) + 1] = Nuova(t)
      /\ Presenti(r) = Presenti(q) \cup {Len(q) + 1}
  BY PushFatti
<1>2. /\ Scanner(r) = IF t = "scanner" THEN Scanner(q) \cup {Len(q) + 1} ELSE Scanner(q)
      /\ \A i \in DOMAIN q :
           Avvisi(r, i) = IF t = "avvisoScanner" THEN Avvisi(q, i) \cup {Len(q) + 1}
                          ELSE Avvisi(q, i)
      /\ Avvisi(r, Len(q) + 1) = {}
      /\ Len(q) + 1 \notin DOMAIN q
  BY PushPagine
<1>3. PaginaSana(Nuova(t)) /\ Nuova(t).avvisi = 0
  BY NuovaPagina
<1> HIDE DEF r
<1>4. \A i \in DOMAIN r : PaginaSana(r[i])
  BY <1>1, <1>3 DEF Sane
<1>5. \A i, j \in Scanner(r) : i = j
  BY <1>2 DEF Sane
<1>6. ASSUME NEW i \in Scanner(r) \cap Presenti(r)
      PROVE  Cardinality(Avvisi(r, i)) <= r[i].avvisi
  <2>1. CASE i = Len(q) + 1
    <3>1. Cardinality(Avvisi(r, i)) = 0
      BY <1>2, <2>1, FS_EmptySet
    <3>2. r[i].avvisi = 0
      BY <1>1, <1>3, <2>1
    <3>3. QED
      BY <3>1, <3>2
  <2>2. CASE i # Len(q) + 1
    <3>1. i \in Scanner(q) \cap Presenti(q) /\ i \in DOMAIN q /\ r[i] = q[i]
      BY <1>1, <1>2, <1>6, <2>2 DEF Scanner
    <3>2. Cardinality(Avvisi(q, i)) <= q[i].avvisi
      BY <3>1 DEF Sane
    <3>3. CASE t # "avvisoScanner"
      BY <1>2, <3>1, <3>2, <3>3
    <3>4. CASE t = "avvisoScanner"
      <4>1. Cardinality(Avvisi(q, i)) < q[i].avvisi /\ q[i].avvisi \in Nat
        BY <3>1, <3>4, Pila DEF Pagina
      <4>2. Avvisi(q, i) \in SUBSET (1..Len(q)) /\ Len(q) \in Nat
        BY Pila DEF Avvisi
      <4>3. IsFiniteSet(Avvisi(q, i)) /\ Cardinality(Avvisi(q, i)) \in Nat
        BY <4>2, Finito
      <4>4. Cardinality(Avvisi(r, i)) <= Cardinality(Avvisi(q, i)) + 1
        <5>1. Avvisi(r, i) = Avvisi(q, i) \cup {Len(q) + 1}
          BY <1>2, <3>1, <3>4
        <5>2. Cardinality(Avvisi(r, i)) = IF Len(q) + 1 \in Avvisi(q, i) THEN Cardinality(Avvisi(q, i))
                                          ELSE Cardinality(Avvisi(q, i)) + 1
          BY <4>3, <5>1, FS_AddElement
        <5>3. QED
          BY <4>3, <5>2
      <4>5. Cardinality(Avvisi(r, i)) \in Nat
        <5>1. Avvisi(r, i) = Avvisi(q, i) \cup {Len(q) + 1}
          BY <1>2, <3>1, <3>4
        <5>2. QED
          BY <4>3, <5>1, FS_AddElement, FS_CardinalityType
      <4>6. QED
        BY <3>1, <4>1, <4>3, <4>4, <4>5
    <3>5. QED
      BY <3>3, <3>4
  <2>3. QED
    BY <2>1, <2>2
<1>7. QED
  BY <1>4, <1>5, <1>6 DEF Sane, r

LEMMA PushMantiene ==
  ASSUME NEW q \in Seq(Pagina), NEW t \in Tipo
  PROVE  /\ FondoBuono(q) => FondoBuono(push(q, t))
         /\ Attento(q) => Attento(push(q, t))
         /\ \A u : Protetta(u, q) /\ t # "login" => Protetta(u, push(q, t))
         /\ Presenti(q) = {} /\ t \in {"login", "home"} => FondoBuono(push(q, t))
<1> DEFINE r == push(q, t)
           z == Len(q) + 1
<1>1. /\ r \in Seq(Pagina) /\ DOMAIN r = DOMAIN q \cup {z}
      /\ \A i \in DOMAIN q : r[i] = q[i]
      /\ r[z] = Nuova(t)
      /\ Presenti(r) = Presenti(q) \cup {z}
      /\ \A i \in DOMAIN q : i < z /\ i \in Nat
  BY PushFatti
<1>2. /\ Scanner(r) = IF t = "scanner" THEN Scanner(q) \cup {z} ELSE Scanner(q)
      /\ \A i \in DOMAIN q :
           Avvisi(r, i) = IF t = "avvisoScanner" THEN Avvisi(q, i) \cup {z} ELSE Avvisi(q, i)
  BY PushPagine
<1>3. Nuova(t).tipo = t /\ Nuova(t).camera = "accesa"
  BY NuovaPagina
<1>4. Presenti(q) \subseteq DOMAIN q /\ z \in Nat
  BY Pila DEF Presenti
<1> HIDE DEF r, z
<1>5. ASSUME FondoBuono(q) PROVE FondoBuono(r)
  <2>1. PICK i \in Presenti(q) : (\A j \in Presenti(q) : i <= j) /\ q[i].tipo \in {"login", "home"}
    BY <1>5 DEF FondoBuono
  <2>2. i \in Presenti(r) /\ r[i].tipo \in {"login", "home"} /\ i <= z
    BY <1>1, <1>4, <2>1
  <2>3. \A j \in Presenti(r) : i <= j
    BY <1>1, <2>1, <2>2
  <2>4. QED
    BY <2>2, <2>3 DEF FondoBuono
<1>6. ASSUME Attento(q) PROVE Attento(r)
  <2>1. ASSUME NEW i \in Scanner(r) \cap Presenti(r)
        PROVE  \/ r[i].camera = "accesa"
               \/ r[i].attese["prima"] > 0 \/ r[i].attese["seconda"] > 0
               \/ Avvisi(r, i) # {}
    <3>1. CASE i = z
      BY <1>1, <1>3, <3>1
    <3>2. CASE i # z
      <4>1. i \in Scanner(q) \cap Presenti(q) /\ i \in DOMAIN q /\ r[i] = q[i]
        BY <1>1, <1>2, <1>4, <2>1, <3>2
      <4>2. Avvisi(q, i) \subseteq Avvisi(r, i)
        BY <1>2, <4>1
      <4>3. QED
        BY <1>6, <4>1, <4>2 DEF Attento
    <3>3. QED
      BY <3>1, <3>2
  <2>2. QED
    BY <2>1 DEF Attento
<1>7. \A u : Protetta(u, q) /\ t # "login" => Protetta(u, r)
  <2>1. \A i \in Presenti(r) : i = z \/ (i \in Presenti(q) /\ r[i] = q[i])
    BY <1>1, <1>4
  <2>2. QED
    BY <1>1, <1>3, <2>1 DEF Protetta
<1>8. ASSUME Presenti(q) = {}, t \in {"login", "home"} PROVE FondoBuono(r)
  <2>1. Presenti(r) = {z} /\ r[z].tipo = t
    BY <1>1, <1>3, <1>8
  <2>2. \A j \in Presenti(r) : z <= j
    BY <1>4, <2>1
  <2>3. QED
    BY <1>8, <2>1, <2>2 DEF FondoBuono
<1>9. QED
  BY <1>5, <1>6, <1>7, <1>8 DEF r

(***************************************************************************)
(* The page on top goes                                                    *)
(***************************************************************************)
\* The scanners present below page i that await an alert.
InAscolto(q, i) == {j \in 1..(i - 1) : q[j].presente /\ q[j].avvisi > 0}

LEMMA InAscoltoFatti ==
  ASSUME NEW q \in Seq(Pagina), NEW i \in DOMAIN q, InAscolto(q, i) # {}
  PROVE  /\ Max(InAscolto(q, i)) \in InAscolto(q, i)
         /\ Max(InAscolto(q, i)) \in DOMAIN q
         /\ Max(InAscolto(q, i)) # i
<1>1. Len(q) \in Nat /\ DOMAIN q = 1..Len(q)
  BY Pila
<1>2. i - 1 \in Nat /\ InAscolto(q, i) \in SUBSET (0..(i - 1))
  BY <1>1 DEF InAscolto
<1>3. Max(InAscolto(q, i)) \in InAscolto(q, i)
  BY <1>2, MassimoVale
<1>4. Max(InAscolto(q, i)) \in 1..(i - 1)
  BY <1>3 DEF InAscolto
<1>5. QED
  BY <1>1, <1>3, <1>4

LEMMA Ripristinata ==
  ASSUME NEW p \in Pagina, p.avvisi > 0
  PROVE  LET w == [p EXCEPT !.avvisi = @ - 1, !.camera = "accesa"]
         IN /\ w \in Pagina /\ w.avvisi = p.avvisi - 1 /\ w.camera = "accesa"
            /\ w.tipo = p.tipo /\ w.presente = p.presente /\ w.attese = p.attese
<1>1. p.avvisi - 1 \in Nat
  BY DEF Pagina
<1>2. QED
  BY <1>1 DEF Pagina

\* Page i leaves; the others keep their type, their presence and their callbacks,
\* and only a scanner that awaits the alert changes.
LEMMA ChiusaFatti ==
  ASSUME NEW q \in Seq(Pagina), NEW i \in DOMAIN q
  PROVE  /\ Chiusa(q, i) \in Seq(Pagina)
         /\ DOMAIN Chiusa(q, i) = DOMAIN q /\ Len(Chiusa(q, i)) = Len(q)
         /\ \A j \in DOMAIN q : /\ Chiusa(q, i)[j].tipo = q[j].tipo
                                /\ Chiusa(q, i)[j].attese = q[j].attese
                                /\ Chiusa(q, i)[j].presente = (j # i /\ q[j].presente)
         /\ \A j \in DOMAIN q :
              IF q[i].tipo = "avvisoScanner" /\ InAscolto(q, i) # {} /\ j = Max(InAscolto(q, i))
              THEN Chiusa(q, i)[j].avvisi = q[j].avvisi - 1 /\ Chiusa(q, i)[j].camera = "accesa"
              ELSE Chiusa(q, i)[j].avvisi = q[j].avvisi /\ Chiusa(q, i)[j].camera = q[j].camera
<1> DEFINE p == [q[i] EXCEPT !.presente = FALSE]
           r == [q EXCEPT ![i].presente = FALSE]
           m == Max(InAscolto(q, i))
<1>1. q[i] \in Pagina /\ \A j \in DOMAIN q : q[j] \in Pagina
  BY Pila
<1>2. p \in Pagina /\ p.presente = FALSE /\ p.tipo = q[i].tipo /\ p.attese = q[i].attese
      /\ p.avvisi = q[i].avvisi /\ p.camera = q[i].camera
  BY <1>1 DEF Pagina
<1>3. r = [q EXCEPT ![i] = p]
  OBVIOUS
<1>4. /\ r \in Seq(Pagina) /\ DOMAIN r = DOMAIN q /\ Len(r) = Len(q)
      /\ r[i] = p /\ \A j \in DOMAIN q : j # i => r[j] = q[j]
  BY <1>2, <1>3, CambioPagina
<1> HIDE DEF p, r
<1>5. CASE ~(q[i].tipo = "avvisoScanner" /\ InAscolto(q, i) # {})
  <2>1. Chiusa(q, i) = r
    BY <1>5 DEF Chiusa, InAscolto, r
  <2>2. \A j \in DOMAIN q : q[j].presente \in BOOLEAN
    BY <1>1 DEF Pagina
  <2>3. QED
    BY <1>2, <1>4, <1>5, <2>1, <2>2
<1>6. CASE q[i].tipo = "avvisoScanner" /\ InAscolto(q, i) # {}
  <2> DEFINE w == [r[m] EXCEPT !.avvisi = @ - 1, !.camera = "accesa"]
  <2>1. m \in InAscolto(q, i) /\ m \in DOMAIN q /\ m # i
    BY <1>6, InAscoltoFatti
  <2>2. Chiusa(q, i) = [r EXCEPT ![m].avvisi = @ - 1, ![m].camera = "accesa"]
    BY <1>6 DEF Chiusa, InAscolto, r
  <2>3. q[m].avvisi > 0 /\ r[m] = q[m] /\ r[m] \in Pagina
    BY <1>1, <1>4, <2>1 DEF InAscolto
  <2> HIDE DEF m
  <2>4. w \in Pagina /\ w.avvisi = q[m].avvisi - 1 /\ w.camera = "accesa"
        /\ w.tipo = q[m].tipo /\ w.presente = q[m].presente /\ w.attese = q[m].attese
    BY <2>3, Ripristinata
  <2>5. Chiusa(q, i) = [r EXCEPT ![m] = w]
    BY <1>4, <2>1, <2>2
  <2> HIDE DEF w
  <2>6. /\ Chiusa(q, i) \in Seq(Pagina) /\ Len(Chiusa(q, i)) = Len(r)
        /\ DOMAIN Chiusa(q, i) = DOMAIN r
        /\ Chiusa(q, i)[m] = w /\ \A j \in DOMAIN r : j # m => Chiusa(q, i)[j] = r[j]
    BY <1>4, <2>1, <2>4, <2>5, CambioPagina
  <2>7. \A j \in DOMAIN q : q[j].presente \in BOOLEAN
    BY <1>1 DEF Pagina
  <2>8. ASSUME NEW j \in DOMAIN q
        PROVE  /\ Chiusa(q, i)[j].tipo = q[j].tipo
               /\ Chiusa(q, i)[j].attese = q[j].attese
               /\ Chiusa(q, i)[j].presente = (j # i /\ q[j].presente)
               /\ IF j = m
                  THEN Chiusa(q, i)[j].avvisi = q[j].avvisi - 1 /\ Chiusa(q, i)[j].camera = "accesa"
                  ELSE Chiusa(q, i)[j].avvisi = q[j].avvisi /\ Chiusa(q, i)[j].camera = q[j].camera
    <3>1. CASE j = m
      BY <2>1, <2>4, <2>6, <2>7, <3>1
    <3>2. CASE j = i
      BY <1>2, <1>4, <2>1, <2>6, <3>2
    <3>3. CASE j # i /\ j # m
      BY <1>4, <2>6, <2>7, <3>3
    <3>4. QED
      BY <3>1, <3>2, <3>3
  <2>9. QED
    BY <1>4, <1>6, <2>6, <2>8 DEF m
<1>7. QED
  BY <1>5, <1>6

LEMMA PopFatti ==
  ASSUME NEW q \in Seq(Pagina), Presenti(q) # {}
  PROVE  /\ pop(q) \in Seq(Pagina) /\ Len(pop(q)) = Len(q)
         /\ DOMAIN pop(q) = DOMAIN q
         /\ \A j \in DOMAIN q : pop(q)[j].tipo = q[j].tipo /\ pop(q)[j].attese = q[j].attese
         /\ Presenti(pop(q)) = Presenti(q) \ {Cima(q)}
         /\ Scanner(pop(q)) = Scanner(q)
         /\ \A i : Avvisi(pop(q), i) = Avvisi(q, i) \ {Cima(q)}
<1>1. Cima(q) \in DOMAIN q
  BY CimaFatti
<1>2. /\ pop(q) \in Seq(Pagina) /\ Len(pop(q)) = Len(q)
      /\ DOMAIN pop(q) = DOMAIN q
      /\ \A j \in DOMAIN q : /\ pop(q)[j].tipo = q[j].tipo /\ pop(q)[j].attese = q[j].attese
                             /\ pop(q)[j].presente = (j # Cima(q) /\ q[j].presente)
  BY <1>1, ChiusaFatti DEF pop
<1>3. Presenti(pop(q)) = Presenti(q) \ {Cima(q)} /\ Scanner(pop(q)) = Scanner(q)
  BY <1>2 DEF Presenti, Scanner
<1>4. \A k \in Presenti(q) : pop(q)[k].tipo = q[k].tipo
  BY <1>2 DEF Presenti
<1>5. \A i : Avvisi(pop(q), i) = Avvisi(q, i) \ {Cima(q)}
  BY <1>3, <1>4 DEF Avvisi
<1>6. QED
  BY <1>2, <1>3, <1>5

\* The alert that goes finds the one scanner, which awaits it.
LEMMA PopScanner ==
  ASSUME NEW q \in Seq(Pagina), Sane(q), Presenti(q) # {},
         NEW s \in Scanner(q) \cap Presenti(q), s # Cima(q)
  PROVE  IF q[Cima(q)].tipo = "avvisoScanner"
         THEN /\ pop(q)[s].avvisi = q[s].avvisi - 1 /\ pop(q)[s].camera = "accesa"
              /\ Cima(q) \in Avvisi(q, s)
         ELSE /\ pop(q)[s].avvisi = q[s].avvisi /\ pop(q)[s].camera = q[s].camera
              /\ Cima(q) \notin Avvisi(q, s)
<1> DEFINE c == Cima(q)
<1>1. /\ c \in Presenti(q) /\ c \in DOMAIN q /\ \A j \in Presenti(q) : j <= c
  BY CimaFatti
<1>2. s \in DOMAIN q /\ q[s].tipo = "scanner" /\ q[s].presente /\ s <= c
  BY <1>1 DEF Scanner, Presenti
<1>3. Len(q) \in Nat /\ DOMAIN q = 1..Len(q) /\ \A j \in DOMAIN q : q[j] \in Pagina
  BY Pila
<1>4. s \in 1..(c - 1) /\ s < c /\ c > s
  BY <1>1, <1>2, <1>3
<1>5. IF q[c].tipo = "avvisoScanner" /\ InAscolto(q, c) # {} /\ s = Max(InAscolto(q, c))
      THEN pop(q)[s].avvisi = q[s].avvisi - 1 /\ pop(q)[s].camera = "accesa"
      ELSE pop(q)[s].avvisi = q[s].avvisi /\ pop(q)[s].camera = q[s].camera
  BY <1>1, <1>2, ChiusaFatti DEF pop
<1>6. CASE q[c].tipo # "avvisoScanner"
  BY <1>5, <1>6 DEF Avvisi
<1>7. CASE q[c].tipo = "avvisoScanner"
  <2>1. c \in Avvisi(q, s)
    BY <1>1, <1>4, <1>7 DEF Avvisi
  <2>2. Avvisi(q, s) \in SUBSET (1..Len(q))
    BY Pila DEF Avvisi
  <2>3. IsFiniteSet(Avvisi(q, s)) /\ Cardinality(Avvisi(q, s)) \in Nat
    BY <1>3, <2>2, Finito
  <2>4. Cardinality(Avvisi(q, s)) # 0
    BY <2>1, <2>3, FS_EmptySet
  <2>5. Cardinality(Avvisi(q, s)) <= q[s].avvisi
    BY DEF Sane
  <2>6. q[s].avvisi > 0
    BY <1>2, <1>3, <2>3, <2>4, <2>5 DEF Pagina
  <2>7. s \in InAscolto(q, c)
    BY <1>2, <1>4, <2>6 DEF InAscolto
  <2>8. \A j \in InAscolto(q, c) : j = s
    <3>1. ASSUME NEW j \in InAscolto(q, c) PROVE j = s
      <4>1. j \in DOMAIN q /\ q[j].avvisi > 0
        BY <1>1, <1>3 DEF InAscolto
      <4>2. q[j].tipo = "scanner"
        BY <4>1 DEF Sane, PaginaSana
      <4>3. QED
        BY <4>1, <4>2 DEF Sane, Scanner
    <3>2. QED
      BY <3>1
  <2>9. Max(InAscolto(q, c)) = s
    BY <1>1, <2>7, <2>8, InAscoltoFatti
  <2>10. QED
    BY <1>5, <1>7, <2>1, <2>7, <2>9
<1>8. QED
  BY <1>6, <1>7

LEMMA PopSana ==
  ASSUME NEW q \in Seq(Pagina), Sane(q), Presenti(q) # {}
  PROVE  Sane(pop(q))
<1> DEFINE r == pop(q)
<1>1. /\ r \in Seq(Pagina) /\ DOMAIN r = DOMAIN q
      /\ \A j \in DOMAIN q : r[j].tipo = q[j].tipo /\ r[j].attese = q[j].attese
      /\ Presenti(r) = Presenti(q) \ {Cima(q)} /\ Scanner(r) = Scanner(q)
      /\ \A i : Avvisi(r, i) = Avvisi(q, i) \ {Cima(q)}
  BY PopFatti
<1>2. \A j \in DOMAIN q : r[j].avvisi > 0 => q[j].avvisi > 0
  <2>1. Cima(q) \in DOMAIN q
    BY CimaFatti
  <2>2. \A j \in DOMAIN q : r[j].avvisi = q[j].avvisi \/ r[j].avvisi = q[j].avvisi - 1
    BY <2>1, ChiusaFatti DEF pop
  <2>3. \A j \in DOMAIN q : q[j].avvisi \in Nat
    BY Pila DEF Pagina
  <2>4. QED
    BY <2>2, <2>3
<1>3. \A i \in DOMAIN r : PaginaSana(r[i])
  BY <1>1, <1>2 DEF Sane, PaginaSana
<1>4. \A i, j \in Scanner(r) : i = j
  BY <1>1 DEF Sane
<1>5. ASSUME NEW s \in Scanner(r) \cap Presenti(r)
      PROVE  Cardinality(Avvisi(r, s)) <= r[s].avvisi
  <2>1. s \in Scanner(q) \cap Presenti(q) /\ s # Cima(q)
    BY <1>1, <1>5
  <2>2. Avvisi(q, s) \in SUBSET (1..Len(q)) /\ Len(q) \in Nat
    BY Pila DEF Avvisi
  <2>3. IsFiniteSet(Avvisi(q, s)) /\ Cardinality(Avvisi(q, s)) \in Nat
    BY <2>2, Finito
  <2>4. Cardinality(Avvisi(r, s)) = IF Cima(q) \in Avvisi(q, s) THEN Cardinality(Avvisi(q, s)) - 1
                                    ELSE Cardinality(Avvisi(q, s))
    BY <1>1, <2>3, FS_RemoveElement
  <2>5. Cardinality(Avvisi(q, s)) <= q[s].avvisi /\ q[s].avvisi \in Nat
    BY <2>1, Pila DEF Sane, Scanner, Pagina
  <2>6. CASE q[Cima(q)].tipo = "avvisoScanner"
    <3>1. r[s].avvisi = q[s].avvisi - 1 /\ Cima(q) \in Avvisi(q, s)
      BY <2>1, <2>6, PopScanner
    <3>2. QED
      BY <2>3, <2>4, <2>5, <3>1
  <2>7. CASE q[Cima(q)].tipo # "avvisoScanner"
    <3>1. r[s].avvisi = q[s].avvisi /\ Cima(q) \notin Avvisi(q, s)
      BY <2>1, <2>7, PopScanner
    <3>2. QED
      BY <2>3, <2>4, <2>5, <3>1
  <2>8. QED
    BY <2>6, <2>7
<1>6. QED
  BY <1>3, <1>4, <1>5 DEF Sane

LEMMA PopAttento ==
  ASSUME NEW q \in Seq(Pagina), Sane(q), Attento(q), Presenti(q) # {}
  PROVE  Attento(pop(q))
<1>1. ASSUME NEW s \in Scanner(pop(q)) \cap Presenti(pop(q))
      PROVE  \/ pop(q)[s].camera = "accesa"
             \/ pop(q)[s].attese["prima"] > 0 \/ pop(q)[s].attese["seconda"] > 0
             \/ Avvisi(pop(q), s) # {}
  <2>1. s \in Scanner(q) \cap Presenti(q) /\ s # Cima(q) /\ s \in DOMAIN q
    BY <1>1, PopFatti DEF Scanner
  <2>2. pop(q)[s].attese = q[s].attese /\ Avvisi(pop(q), s) = Avvisi(q, s) \ {Cima(q)}
    BY <2>1, PopFatti
  <2>3. CASE q[Cima(q)].tipo = "avvisoScanner"
    BY <2>1, <2>3, PopScanner
  <2>4. CASE q[Cima(q)].tipo # "avvisoScanner"
    <3>1. pop(q)[s].camera = q[s].camera /\ Cima(q) \notin Avvisi(q, s)
      BY <2>1, <2>4, PopScanner
    <3>2. QED
      BY <2>1, <2>2, <3>1 DEF Attento
  <2>5. QED
    BY <2>3, <2>4
<1>2. QED
  BY <1>1 DEF Attento

\* Unless it is the oldest one that goes.
LEMMA PopFondo ==
  ASSUME NEW q \in Seq(Pagina), FondoBuono(q), Presenti(q) # {},
         InCima(q) \notin {"login", "home"} \/ \E j \in Presenti(q) : j # Cima(q)
  PROVE  FondoBuono(pop(q))
<1>1. PICK i \in Presenti(q) : (\A j \in Presenti(q) : i <= j) /\ q[i].tipo \in {"login", "home"}
  BY DEF FondoBuono
<1>2. /\ Cima(q) \in Presenti(q) /\ \A j \in Presenti(q) : j <= Cima(q)
      /\ InCima(q) = q[Cima(q)].tipo
  BY CimaFatti
<1>3. \A j \in Presenti(q) : j \in Nat
  BY Pila
<1>4. i # Cima(q)
  BY <1>1, <1>2, <1>3
<1>5. i \in Presenti(pop(q)) /\ pop(q)[i].tipo = q[i].tipo /\ Presenti(pop(q)) \subseteq Presenti(q)
  BY <1>4, PopFatti DEF Presenti
<1>6. QED
  BY <1>1, <1>5 DEF FondoBuono

LEMMA PopProtetta ==
  ASSUME NEW q \in Seq(Pagina), Presenti(q) # {}, NEW u, Protetta(u, q)
  PROVE  Protetta(u, pop(q))
<1>1. Presenti(pop(q)) \subseteq Presenti(q) /\ \A i \in Presenti(q) : pop(q)[i].tipo = q[i].tipo
  BY PopFatti DEF Presenti
<1>2. QED
  BY <1>1 DEF Protetta

(***************************************************************************)
(* Callbacks and cameras of one page                                       *)
(***************************************************************************)
LEMMA PaginaFatti ==
  ASSUME NEW p \in Pagina
  PROVE  /\ \A b \in Attesa : p.attese[b] \in Nat
         /\ p.avvisi \in Nat /\ p.presente \in BOOLEAN /\ p.tipo \in Tipo
<1>1. p.attese \in [Attesa -> Nat]
  BY DEF Pagina
<1>2. QED
  BY <1>1 DEF Pagina

\* The callbacks of page p, or of page i, that wait at a are n.
ConAttese(p, a, n) == [p EXCEPT !.attese[a] = n]
Attende(q, i, a, n) == [q EXCEPT ![i] = ConAttese(q[i], a, n)]

LEMMA ConAtteseFatti ==
  ASSUME NEW p \in Pagina, NEW a \in Attesa, NEW n \in Nat
  PROVE  /\ ConAttese(p, a, n) \in Pagina
         /\ ConAttese(p, a, n).attese[a] = n
         /\ \A b \in Attesa : b # a => ConAttese(p, a, n).attese[b] = p.attese[b]
         /\ ConAttese(p, a, n).avvisi = p.avvisi /\ ConAttese(p, a, n).camera = p.camera
         /\ ConAttese(p, a, n).tipo = p.tipo /\ ConAttese(p, a, n).presente = p.presente
<1>1. p.attese \in [Attesa -> Nat]
  BY DEF Pagina
<1>2. [p.attese EXCEPT ![a] = n] \in [Attesa -> Nat]
  BY <1>1
<1>3. ConAttese(p, a, n).attese = [p.attese EXCEPT ![a] = n]
  BY DEF ConAttese, Pagina
<1>4. ConAttese(p, a, n) \in Pagina
  BY <1>2 DEF ConAttese, Pagina
<1>5. QED
  BY <1>1, <1>3, <1>4 DEF ConAttese, Pagina

LEMMA AttesaPila ==
  ASSUME NEW q \in Seq(Pagina), NEW i \in DOMAIN q, NEW a \in Attesa, NEW n \in Nat
  PROVE  /\ Attende(q, i, a, n) \in Seq(Pagina) /\ Simile(q, Attende(q, i, a, n))
         /\ Attende(q, i, a, n)[i] = ConAttese(q[i], a, n)
<1>1. q[i] \in Pagina
  BY Pila
<1>2. /\ ConAttese(q[i], a, n) \in Pagina
      /\ ConAttese(q[i], a, n).tipo = q[i].tipo /\ ConAttese(q[i], a, n).presente = q[i].presente
  BY <1>1, ConAtteseFatti
<1>3. QED
  BY <1>2, CambioPagina DEF Simile, Attende

LEMMA AttesaCambia ==
  ASSUME NEW q \in Seq(Pagina), NEW i \in DOMAIN q, NEW a \in Attesa, NEW n \in Nat,
         NEW r, r = Attende(q, i, a, n)
  PROVE  /\ \A j \in DOMAIN q : j # i => r[j] = q[j]
         /\ r[i].attese[a] = n /\ \A b \in Attesa : b # a => r[i].attese[b] = q[i].attese[b]
         /\ r[i].avvisi = q[i].avvisi /\ r[i].camera = q[i].camera /\ r[i].tipo = q[i].tipo
<1> DEFINE p == ConAttese(q[i], a, n)
<1>1. q[i] \in Pagina
  BY Pila
<1>2. /\ p \in Pagina
      /\ p.attese[a] = n /\ \A b \in Attesa : b # a => p.attese[b] = q[i].attese[b]
      /\ p.avvisi = q[i].avvisi /\ p.camera = q[i].camera /\ p.tipo = q[i].tipo
  BY <1>1, ConAtteseFatti
<1>3. r = [q EXCEPT ![i] = p]
  BY DEF Attende
<1> HIDE DEF p
<1>4. r[i] = p /\ \A j \in DOMAIN q : j # i => r[j] = q[j]
  BY <1>2, <1>3, CambioPagina
<1>5. QED
  BY <1>2, <1>4

LEMMA SimileSana ==
  ASSUME NEW q \in Seq(Pagina), NEW r \in Seq(Pagina), Simile(q, r), Sane(q),
         \A j \in DOMAIN q : PaginaSana(r[j]) /\ r[j].avvisi >= q[j].avvisi
  PROVE  Sane(r)
<1>1. /\ Presenti(r) = Presenti(q) /\ Scanner(r) = Scanner(q) /\ DOMAIN r = DOMAIN q
      /\ \A i : Avvisi(r, i) = Avvisi(q, i)
  BY SimileFatti DEF Simile
<1>2. ASSUME NEW s \in Scanner(q) \cap Presenti(q) PROVE Cardinality(Avvisi(q, s)) <= r[s].avvisi
  <2>1. s \in DOMAIN q /\ Cardinality(Avvisi(q, s)) <= q[s].avvisi /\ r[s].avvisi >= q[s].avvisi
    BY DEF Sane, Scanner
  <2>2. q[s].avvisi \in Nat /\ r[s].avvisi \in Nat
    BY <1>1, <2>1, Pila DEF Pagina
  <2>3. Avvisi(q, s) \in SUBSET (1..Len(q)) /\ Len(q) \in Nat
    BY Pila DEF Avvisi
  <2>4. Cardinality(Avvisi(q, s)) \in Nat
    BY <2>3, Finito
  <2>5. QED
    BY <2>1, <2>2, <2>4
<1>3. \A i, j \in Scanner(r) : i = j
  BY <1>1 DEF Sane
<1>4. QED
  BY <1>1, <1>2, <1>3 DEF Sane

LEMMA SimileAttenta ==
  ASSUME NEW q \in Seq(Pagina), NEW r \in Seq(Pagina), Simile(q, r), Attento(q), NEW i \in DOMAIN q,
         \A j \in DOMAIN q : j # i => r[j] = q[j],
         q[i].tipo = "scanner" =>
           \/ /\ r[i].camera = q[i].camera \/ q[i].camera # "accesa"
              /\ r[i].attese["prima"] >= q[i].attese["prima"]
              /\ r[i].attese["seconda"] >= q[i].attese["seconda"]
           \/ r[i].attese["prima"] > 0 \/ r[i].attese["seconda"] > 0
  PROVE  Attento(r)
<1>1. /\ Presenti(r) = Presenti(q) /\ Scanner(r) = Scanner(q) /\ DOMAIN r = DOMAIN q
      /\ \A j : Avvisi(r, j) = Avvisi(q, j)
  BY SimileFatti DEF Simile
<1>2. ASSUME NEW s \in Scanner(q) \cap Presenti(q)
      PROVE  \/ r[s].camera = "accesa"
             \/ r[s].attese["prima"] > 0 \/ r[s].attese["seconda"] > 0
             \/ Avvisi(q, s) # {}
  <2>1. s \in DOMAIN q /\ q[s].tipo = "scanner"
    BY DEF Scanner
  <2>2. \/ q[s].camera = "accesa"
        \/ q[s].attese["prima"] > 0 \/ q[s].attese["seconda"] > 0
        \/ Avvisi(q, s) # {}
    BY DEF Attento
  <2>3. CASE s # i
    BY <2>1, <2>2, <2>3
  <2>4. CASE s = i
    <3>1. \A b \in Attesa : q[s].attese[b] \in Nat /\ r[s].attese[b] \in Nat
      BY <1>1, <2>1, Pila, PaginaFatti
    <3>2. "prima" \in Attesa /\ "seconda" \in Attesa
      BY DEF Attesa
    <3>3. QED
      BY <2>1, <2>2, <2>4, <3>1, <3>2
  <2>5. QED
    BY <2>3, <2>4
<1>3. QED
  BY <1>1, <1>2 DEF Attento

\* A callback of page i starts or goes on.
LEMMA AttesaSana ==
  ASSUME NEW q \in Seq(Pagina), Sane(q), NEW i \in DOMAIN q, NEW a \in Attesa, NEW n \in Nat,
         NEW r, r = Attende(q, i, a, n),
         a = "avvio" => n = 0, a = "salva" /\ n > 0 => q[i].tipo = "conferma"
  PROVE  Sane(r)
<1>0. r \in Seq(Pagina) /\ Simile(q, r)
  BY AttesaPila
<1>1. /\ \A j \in DOMAIN q : j # i => r[j] = q[j]
      /\ r[i].attese[a] = n /\ \A b \in Attesa : b # a => r[i].attese[b] = q[i].attese[b]
      /\ r[i].avvisi = q[i].avvisi /\ r[i].camera = q[i].camera /\ r[i].tipo = q[i].tipo
  BY AttesaCambia
<1>2. "avvio" \in Attesa /\ "salva" \in Attesa
  BY DEF Attesa
<1>3. \A j \in DOMAIN q : PaginaSana(q[j]) /\ q[j].avvisi \in Nat
  BY Pila DEF Sane, Pagina
<1>4. PaginaSana(r[i])
  BY <1>1, <1>2, <1>3 DEF PaginaSana
<1>5. \A j \in DOMAIN q : PaginaSana(r[j]) /\ r[j].avvisi >= q[j].avvisi
  BY <1>1, <1>3, <1>4
<1>6. QED
  BY <1>0, <1>1, <1>5, SimileSana

LEMMA AttesaAttenta ==
  ASSUME NEW q \in Seq(Pagina), Attento(q), NEW i \in DOMAIN q, NEW a \in Attesa, NEW n \in Nat,
         NEW r, r = Attende(q, i, a, n),
         q[i].tipo = "scanner" /\ a \in {"prima", "seconda"} => n >= q[i].attese[a]
  PROVE  Attento(r)
<1>0. r \in Seq(Pagina) /\ Simile(q, r)
  BY AttesaPila
<1>1. /\ \A j \in DOMAIN q : j # i => r[j] = q[j]
      /\ r[i].attese[a] = n /\ \A b \in Attesa : b # a => r[i].attese[b] = q[i].attese[b]
      /\ r[i].avvisi = q[i].avvisi /\ r[i].camera = q[i].camera /\ r[i].tipo = q[i].tipo
  BY AttesaCambia
<1>2. "prima" \in Attesa /\ "seconda" \in Attesa
  BY DEF Attesa
<1>3. \A b \in Attesa : q[i].attese[b] \in Nat
  BY Pila, PaginaFatti
<1>4. ASSUME q[i].tipo = "scanner"
      PROVE  r[i].attese["prima"] >= q[i].attese["prima"]
             /\ r[i].attese["seconda"] >= q[i].attese["seconda"]
  <2>1. CASE a \notin {"prima", "seconda"}
    BY <1>1, <1>2, <1>3, <2>1
  <2>2. CASE a = "prima"
    BY <1>1, <1>2, <1>3, <1>4, <2>2
  <2>3. CASE a = "seconda"
    BY <1>1, <1>2, <1>3, <1>4, <2>3
  <2>4. QED
    BY <2>1, <2>2, <2>3
<1>5. QED
  BY <1>0, <1>1, <1>4, SimileAttenta

(***************************************************************************)
(* One page in the place of another                                        *)
(***************************************************************************)
LEMMA PulitaMantiene ==
  ASSUME NEW q \in Seq(Pagina)
  PROVE  /\ Pulita(q) \in Seq(Pagina)
         /\ Sane(q) => Sane(Pulita(q))
         /\ FondoBuono(q) => FondoBuono(Pulita(q))
         /\ Attento(q) => Attento(Pulita(q))
         /\ \A u : Protetta(u, q) => Protetta(u, Pulita(q))
         /\ SoloLogin(q) => SoloLogin(Pulita(q))
  BY PulitaRidotta, RidottaMantiene

LEMMA SostituitaFatti ==
  ASSUME NEW q \in Seq(Pagina), Sane(q), NEW t \in Tipo \ {"splash", "avvisoScanner"},
         t = "scanner" => Scanner(q) = {}
  PROVE  LET r == Pulita(pushReplacement(q, t))
         IN /\ r \in Seq(Pagina) /\ Sane(r)
            /\ \/ Attento(q)
               \/ Scanner(q) \cap Presenti(q) \subseteq {Cima(q)} /\ Presenti(q) # {}
               => Attento(r)
            /\ \A u : Protetta(u, q) /\ t # "login" => Protetta(u, r)
            /\ /\ FondoBuono(q)
               /\ \/ InCima(q) \notin {"login", "home"} \/ t \in {"login", "home"}
                  \/ \E j \in Presenti(q) : j # Cima(q)
               => FondoBuono(r)
<1> DEFINE p == IF Presenti(q) = {} THEN q ELSE pop(q)
           r == push(p, t)
<1>1. p \in Seq(Pagina) /\ Sane(p) /\ Scanner(p) = Scanner(q)
  BY PopFatti, PopSana
<1>2. r \in Seq(Pagina)
  BY <1>1, PushFatti
<1>3. Sane(r)
  BY <1>1, PushSana
<1>4. ASSUME \/ Attento(q)
             \/ Scanner(q) \cap Presenti(q) \subseteq {Cima(q)} /\ Presenti(q) # {}
      PROVE  Attento(r)
  <2>1. Attento(p)
    <3>1. CASE Attento(q)
      BY <3>1, PopAttento
    <3>2. CASE Scanner(q) \cap Presenti(q) \subseteq {Cima(q)} /\ Presenti(q) # {}
      <4>1. Scanner(p) \cap Presenti(p) = {}
        BY <3>2, PopFatti
      <4>2. QED
        BY <4>1 DEF Attento
    <3>3. QED
      BY <1>4, <3>1, <3>2
  <2>2. QED
    BY <1>1, <2>1, PushMantiene
<1>5. ASSUME NEW u, Protetta(u, q), t # "login" PROVE Protetta(u, r)
  <2>1. Protetta(u, p)
    BY <1>5, PopProtetta
  <2>2. QED
    BY <1>1, <1>5, <2>1, PushMantiene
<1>6. ASSUME FondoBuono(q),
             \/ InCima(q) \notin {"login", "home"} \/ t \in {"login", "home"}
             \/ \E j \in Presenti(q) : j # Cima(q)
      PROVE  FondoBuono(r)
  <2>1. Presenti(q) # {}
    BY <1>6 DEF FondoBuono
  <2>2. CASE InCima(q) \notin {"login", "home"} \/ \E j \in Presenti(q) : j # Cima(q)
    <3>1. FondoBuono(p)
      BY <1>6, <2>1, <2>2, PopFondo
    <3>2. QED
      BY <1>1, <3>1, PushMantiene
  <2>3. CASE t \in {"login", "home"} /\ \A j \in Presenti(q) : j = Cima(q)
    <3>1. Presenti(p) = {}
      BY <2>1, <2>3, PopFatti
    <3>2. QED
      BY <1>1, <2>3, <3>1, PushMantiene
  <2>4. QED
    BY <1>6, <2>2, <2>3
<1>7. pushReplacement(q, t) = r
  BY DEF pushReplacement
<1> HIDE DEF r, p
<1>8. QED
  BY <1>2, <1>3, <1>4, <1>5, <1>6, <1>7, PulitaMantiene

(***************************************************************************)
(* The pages after the splash, step by step                                *)
(***************************************************************************)
LEMMA ReggePulita ==
  ASSUME NEW u, NEW q \in Seq(Pagina), NEW s, Regge(u, q, s)
  PROVE  Pulita(q) \in Seq(Pagina) /\ Regge(u, Pulita(q), s)
<1>1. Sane(q) /\ Sane(Pulita(q)) /\ Pulita(q) \in Seq(Pagina)
  BY PulitaMantiene DEF Regge
<1>2. FondoBuono(Pulita(q)) \/ "uscente" \in s.scanner
  BY PulitaMantiene DEF Regge
<1>3. Attento(Pulita(q)) \/ s.fallita \/ s.scanner # {}
  BY PulitaMantiene DEF Regge
<1>4. Protetta(u, Pulita(q)) \/ SoloLogin(Pulita(q)) \/ s.residui
  BY PulitaMantiene DEF Regge
<1>5. QED
  BY <1>1, <1>2, <1>3, <1>4 DEF Regge

\* A page is pushed; there is another one than a login page.
LEMMA ReggePush ==
  ASSUME NEW u, NEW q \in Seq(Pagina), NEW s, Regge(u, q, s), ~SoloLogin(q),
         NEW t \in Tipo \ {"splash", "login", "avvisoScanner"},
         t = "scanner" => Scanner(q) = {}
  PROVE  push(q, t) \in Seq(Pagina) /\ Regge(u, push(q, t), s)
<1>1. push(q, t) \in Seq(Pagina)
  BY PushFatti
<1>2. Sane(push(q, t))
  BY PushSana DEF Regge
<1>3. FondoBuono(push(q, t)) \/ "uscente" \in s.scanner
  BY PushMantiene DEF Regge
<1>4. Attento(push(q, t)) \/ s.fallita \/ s.scanner # {}
  BY PushMantiene DEF Regge
<1>5. Protetta(u, push(q, t)) \/ s.residui
  BY PushMantiene DEF Regge
<1>6. QED
  BY <1>1, <1>2, <1>3, <1>4, <1>5 DEF Regge

\* Page i's callback starts or goes on.
LEMMA ReggeAttende ==
  ASSUME NEW u, NEW q \in Seq(Pagina), NEW s, Regge(u, q, s),
         NEW i \in DOMAIN q, NEW a \in Attesa, NEW n \in Nat,
         NEW r, r = Attende(q, i, a, n),
         a = "avvio" => n = 0, a = "salva" /\ n > 0 => q[i].tipo = "conferma",
         \/ s.fallita \/ s.scanner # {}
         \/ q[i].tipo = "scanner" /\ a \in {"prima", "seconda"} => n >= q[i].attese[a]
  PROVE  r \in Seq(Pagina) /\ Regge(u, r, s)
<1>1. r \in Seq(Pagina) /\ Simile(q, r)
  BY AttesaPila
<1>2. Sane(r)
  BY AttesaSana DEF Regge
<1>3. FondoBuono(r) \/ "uscente" \in s.scanner
  BY <1>1, SimileFatti DEF Regge
<1>4. Attento(r) \/ s.fallita \/ s.scanner # {}
  <2>1. CASE Attento(q) /\ (q[i].tipo = "scanner" /\ a \in {"prima", "seconda"} => n >= q[i].attese[a])
    BY <2>1, AttesaAttenta
  <2>2. QED
    BY <2>1 DEF Regge
<1>5. Protetta(u, r) \/ SoloLogin(r) \/ s.residui
  BY <1>1, SimileFatti DEF Regge
<1>6. QED
  BY <1>1, <1>2, <1>3, <1>4, <1>5 DEF Regge

\* The page on top is popped, unless it is the oldest one.
LEMMA ReggePop ==
  ASSUME NEW u, NEW q \in Seq(Pagina), NEW s, Regge(u, q, s), Presenti(q) # {},
         InCima(q) \notin {"login", "home"} \/ \E j \in Presenti(q) : j # Cima(q)
  PROVE  pop(q) \in Seq(Pagina) /\ Regge(u, pop(q), s)
<1>1. pop(q) \in Seq(Pagina)
  BY PopFatti
<1>2. Sane(q) /\ Sane(pop(q))
  BY PopSana DEF Regge
<1>3. FondoBuono(pop(q)) \/ "uscente" \in s.scanner
  BY PopFondo DEF Regge
<1>4. Attento(pop(q)) \/ s.fallita \/ s.scanner # {}
  BY <1>2, PopAttento DEF Regge
<1>5. ~SoloLogin(q)
  <2>1. SUFFICES ASSUME SoloLogin(q) PROVE FALSE
    OBVIOUS
  <2>2. Presenti(q) = {1} /\ q[1].tipo = "login"
    BY <2>1, Pila DEF SoloLogin, Presenti
  <2>3. QED
    BY <2>2, CimaFatti
<1>6. Protetta(u, pop(q)) \/ s.residui
  BY <1>5, PopProtetta DEF Regge
<1>7. QED
  BY <1>1, <1>2, <1>3, <1>4, <1>6 DEF Regge

\* A page other than a login page is there.
LEMMA NonSoloLogin ==
  ASSUME NEW q \in Seq(Pagina), NEW i \in DOMAIN q, q[i].tipo # "login"
  PROVE  ~SoloLogin(q)
  BY Pila DEF SoloLogin

LEMMA NonSoloLoginInCima ==
  ASSUME NEW q \in Seq(Pagina), InCima(q) \notin {"login", "nessuna"}
  PROVE  ~SoloLogin(q) /\ Presenti(q) # {} /\ Cima(q) \in DOMAIN q /\ q[Cima(q)].tipo = InCima(q)
<1>1. Presenti(q) # {}
  BY CimaEsiste
<1>2. Cima(q) \in DOMAIN q /\ q[Cima(q)].tipo = InCima(q)
  BY <1>1, CimaFatti
<1>3. QED
  BY <1>1, <1>2, NonSoloLogin

\* A page comes in the place of the one on top.
LEMMA ReggeSostituita ==
  ASSUME NEW u, NEW q \in Seq(Pagina), NEW s, Regge(u, q, s), ~SoloLogin(q),
         NEW t \in Tipo \ {"splash", "login", "avvisoScanner"},
         t = "scanner" => Scanner(q) = {},
         \/ InCima(q) \notin {"login", "home"} \/ t = "home"
         \/ \E j \in Presenti(q) : j # Cima(q)
  PROVE  /\ Pulita(pushReplacement(q, t)) \in Seq(Pagina)
         /\ Regge(u, Pulita(pushReplacement(q, t)), s)
<1> DEFINE r == Pulita(pushReplacement(q, t))
<1>0. Sane(q)
  BY DEF Regge
<1>1. /\ r \in Seq(Pagina) /\ Sane(r)
      /\ Attento(q) => Attento(r)
      /\ Protetta(u, q) => Protetta(u, r)
      /\ FondoBuono(q) => FondoBuono(r)
  BY <1>0, SostituitaFatti
<1> HIDE DEF r
<1>2. Regge(u, r, s)
  BY <1>1 DEF Regge
<1>3. QED
  BY <1>1, <1>2 DEF r

\* Nothing but the stack changes.
SoloPagine(r) == pagine' = r /\ UNCHANGED <<utente, orfani, storia>>

Dopo == TypeOK' /\ Regge(utente, pagine, storia)'

LEMMA PassoPagine ==
  ASSUME TypeOK, NEW r \in Seq(Pagina), Regge(utente, r, storia), SoloPagine(r)
  PROVE  Dopo
  BY DEF Dopo, SoloPagine, TypeOK, Regge

LEMMA ApreMantiene ==
  ASSUME TypeOK, Regge(utente, pagine, storia),
         NEW da \in SUBSET (Tipo \ {"splash", "login"}),
         NEW t \in Tipo \ {"splash", "login", "avvisoScanner"},
         t = "scanner" => Scanner(pagine) = {},
         Apre(da, t)
  PROVE  Dopo
<1>1. pagine \in Seq(Pagina) /\ InCima(pagine) \notin {"login", "nessuna"} /\ SoloPagine(push(pagine, t))
  BY DEF Apre, TypeOK, SoloPagine, Tipo
<1>2. ~SoloLogin(pagine)
  BY <1>1, NonSoloLoginInCima
<1>3. push(pagine, t) \in Seq(Pagina) /\ Regge(utente, push(pagine, t), storia)
  BY <1>1, <1>2, ReggePush
<1>4. QED
  BY <1>1, <1>3, PassoPagine

LEMMA PassaMantiene ==
  ASSUME TypeOK, Regge(utente, pagine, storia),
         NEW da \in SUBSET (Tipo \ {"splash", "login", "home"}),
         NEW t \in Tipo \ {"splash", "login", "avvisoScanner"},
         t = "scanner" => Scanner(pagine) = {},
         Passa(da, t)
  PROVE  Dopo
<1> DEFINE r == Pulita(pushReplacement(pagine, t))
<1>1. pagine \in Seq(Pagina) /\ InCima(pagine) \notin {"login", "home", "nessuna"} /\ SoloPagine(r)
  BY DEF Passa, Rimane, TypeOK, SoloPagine, Tipo
<1>2. ~SoloLogin(pagine)
  BY <1>1, NonSoloLoginInCima
<1>3. r \in Seq(Pagina) /\ Regge(utente, r, storia)
  BY <1>1, <1>2, ReggeSostituita
<1> HIDE DEF r
<1>4. QED
  BY <1>1, <1>3, PassoPagine

LEMMA PremeMantiene ==
  ASSUME TypeOK, Regge(utente, pagine, storia),
         NEW t \in {"login", "cerca", "conferma"}, NEW a \in {"accesso", "prima", "salva"},
         a = "salva" => t = "conferma",
         Preme(t, a)
  PROVE  Dopo
<1> DEFINE i == Cima(pagine)
           n == pagine[i].attese[a] + 1
           r == Attende(pagine, i, a, n)
<1>1. pagine \in Seq(Pagina) /\ InCima(pagine) = t /\ a \in Attesa
  BY DEF Preme, TypeOK, Attesa
<1>2. i \in DOMAIN pagine /\ pagine[i].tipo = t
  BY <1>1, CimaEsiste, CimaFatti
<1>3. n \in Nat
  BY <1>1, <1>2, Pila, PaginaFatti
<1>4. SoloPagine(r)
  BY DEF Preme, SoloPagine, Attende, ConAttese
<1> HIDE DEF r, n, i
<1>5. r \in Seq(Pagina) /\ Regge(utente, r, storia)
  BY <1>1, <1>2, <1>3, ReggeAttende DEF r
<1>6. QED
  BY <1>4, <1>5, PassoPagine

LEMMA EsciMantiene ==
  ASSUME TypeOK, Regge(utente, pagine, storia), Esci
  PROVE  Dopo
<1> DEFINE q == pop(pagine)
           i == Cima(q)
           r == [q EXCEPT ![i].attese["uscita"] = @ + 1]
<1>1. pagine \in Seq(Pagina) /\ InCima(pagine) = "esci" /\ SoloPagine(Pulita(r))
  BY DEF Esci, Rimane, TypeOK, SoloPagine
<1>2. Presenti(pagine) # {}
  BY <1>1, CimaEsiste
<1>3. q \in Seq(Pagina) /\ Regge(utente, q, storia)
  BY <1>1, <1>2, ReggePop
<1>4. CASE i \in DOMAIN q
  <2> DEFINE n == q[i].attese["uscita"] + 1
  <2>1. "uscita" \in Attesa /\ q[i].attese["uscita"] \in Nat
    BY <1>3, <1>4, Pila, PaginaFatti DEF Attesa
  <2>2. n \in Nat
    BY <2>1
  <2>3. r = Attende(q, i, "uscita", n)
    BY DEF Attende, ConAttese
  <2> HIDE DEF r, n, i, q
  <2>4. r \in Seq(Pagina) /\ Regge(utente, r, storia)
    BY <1>3, <1>4, <2>1, <2>2, <2>3, ReggeAttende
  <2>5. Pulita(r) \in Seq(Pagina) /\ Regge(utente, Pulita(r), storia)
    BY <2>4, ReggePulita
  <2>6. QED
    BY <1>1, <2>5, PassoPagine
<1>5. CASE i \notin DOMAIN q
  <2>1. r = q
    <3> HIDE DEF i, q
    <3>1. q = [j \in DOMAIN q |-> q[j]]
      BY <1>3
    <3>2. QED
      BY <1>5, <3>1
  <2> HIDE DEF r, i, q
  <2>2. Pulita(r) \in Seq(Pagina) /\ Regge(utente, Pulita(r), storia)
    BY <1>3, <2>1, ReggePulita
  <2>3. QED
    BY <1>1, <2>2, PassoPagine
<1>6. QED
  BY <1>4, <1>5

\* Two pages are there: one of them is not on top.
LEMMA Almeno ==
  ASSUME NEW q \in Seq(Pagina), Cardinality(Presenti(q)) > 1
  PROVE  \E j \in Presenti(q) : j # Cima(q)
<1>1. SUFFICES ASSUME \A j \in Presenti(q) : j = Cima(q) PROVE FALSE
  OBVIOUS
<1>2. IsFiniteSet({Cima(q)}) /\ Cardinality({Cima(q)}) = 1
  BY FS_Singleton
<1>3. Presenti(q) \subseteq {Cima(q)}
  BY <1>1
<1>4. Cardinality(Presenti(q)) <= 1 /\ Cardinality(Presenti(q)) \in Nat
  BY <1>2, <1>3, FS_Subset, FS_CardinalityType
<1>5. QED
  BY <1>4

LEMMA IndietroMantiene ==
  ASSUME TypeOK, Regge(utente, pagine, storia), Indietro
  PROVE  Dopo
<1>1. pagine \in Seq(Pagina) /\ InCima(pagine) # "nessuna" /\ SoloPagine(Pulita(pop(pagine)))
  BY DEF Indietro, Rimane, TypeOK, SoloPagine
<1>2. Presenti(pagine) # {}
  BY <1>1, CimaEsiste
<1>3. \/ InCima(pagine) \notin {"login", "home"}
      \/ \E j \in Presenti(pagine) : j # Cima(pagine)
  BY <1>1, Almeno DEF Indietro
<1>4. pop(pagine) \in Seq(Pagina) /\ Regge(utente, pop(pagine), storia)
  BY <1>1, <1>2, <1>3, ReggePop
<1>5. Pulita(pop(pagine)) \in Seq(Pagina) /\ Regge(utente, Pulita(pop(pagine)), storia)
  BY <1>4, ReggePulita
<1>6. QED
  BY <1>1, <1>5, PassoPagine

\* What the user does.
LEMMA UtenteMantiene ==
  ASSUME TypeOK, Regge(utente, pagine, storia), Utente
  PROVE  Dopo
<1>0. ASSUME \A i \in DOMAIN pagine : pagine[i].tipo # "scanner"
      PROVE  Scanner(pagine) = {}
  BY <1>0 DEF Scanner
<1>1. CASE HomePage
  <2>1. PICK t \in Aperture :
          /\ t = "scanner" => \A i \in DOMAIN pagine : pagine[i].tipo # "scanner"
          /\ Apre({"home"}, t)
    BY <1>1 DEF HomePage
  <2>2. t \in Tipo \ {"splash", "login", "avvisoScanner"} /\ {"home"} \in SUBSET (Tipo \ {"splash", "login"})
    BY NavigazioneAssumption DEF Tipo
  <2>3. QED
    BY <1>0, <2>1, <2>2, ApreMantiene
<1>2. CASE AllControls
  <2>1. PICK t \in {"vista", "home"} : Apre({"elenco"}, t)
    BY <1>2 DEF AllControls
  <2>2. /\ t \in Tipo \ {"splash", "login", "avvisoScanner"} /\ t # "scanner"
        /\ {"elenco"} \in SUBSET (Tipo \ {"splash", "login"})
    BY DEF Tipo
  <2>3. QED
    BY <2>1, <2>2, ApreMantiene
<1>3. CASE ControlView
  <2>1. /\ "modulo" \in Tipo \ {"splash", "login", "avvisoScanner"}
        /\ {"vista"} \in SUBSET (Tipo \ {"splash", "login"})
    BY DEF Tipo
  <2>2. QED
    BY <1>3, <2>1, ApreMantiene DEF ControlView
<1>4. CASE Salva
  <2>1. /\ "conferma" \in Tipo \ {"splash", "login", "avvisoScanner"}
        /\ {"modulo"} \in SUBSET (Tipo \ {"splash", "login"})
    BY DEF Tipo
  <2>2. QED
    BY <1>4, <2>1, ApreMantiene DEF Salva
<1>5. CASE IconaQRCode
  <2>1. /\ "scanner" \in Tipo \ {"splash", "login", "avvisoScanner"}
        /\ {"modulo"} \in SUBSET (Tipo \ {"splash", "login", "home"})
    BY DEF Tipo
  <2>2. QED
    BY <1>0, <1>5, <2>1, PassaMantiene DEF IconaQRCode
<1>6. CASE UnregisteredMachineAlert
  <2>1. /\ "modulo" \in Tipo \ {"splash", "login", "avvisoScanner"}
        /\ {"avviso", "avvisoScanner"} \in SUBSET (Tipo \ {"splash", "login", "home"})
    BY DEF Tipo
  <2>2. QED
    BY <1>6, <2>1, PassaMantiene DEF UnregisteredMachineAlert
<1>7. CASE Entra
  BY <1>7, PremeMantiene DEF Entra
<1>8. CASE Cerca
  BY <1>8, PremeMantiene DEF Cerca
<1>9. CASE Conferma
  BY <1>9, PremeMantiene DEF Conferma
<1>10. CASE Esci
  BY <1>10, EsciMantiene
<1>11. CASE Indietro
  BY <1>11, IndietroMantiene
<1>12. QED
  BY <1>1, <1>2, <1>3, <1>4, <1>5, <1>6, <1>7, <1>8, <1>9, <1>10, <1>11 DEF Utente

(***************************************************************************)
(* The callbacks                                                           *)
(***************************************************************************)
LEMMA RipresaFatti ==
  ASSUME TypeOK, Sane(pagine), NEW i, NEW a \in Attesa, InAttesa(i, a)
  PROVE  /\ i \in DOMAIN pagine /\ a # "avvio" /\ (a = "salva" => pagine[i].tipo = "conferma")
         /\ \E n \in Nat : Ripresa(i, a) = Attende(pagine, i, a, n) /\ pagine[i].attese[a] = n + 1
<1>1. pagine \in Seq(Pagina) /\ i \in DOMAIN pagine /\ pagine[i].attese[a] > 0
  BY DEF InAttesa, TypeOK
<1>2. pagine[i].attese[a] \in Nat
  BY <1>1, Pila, PaginaFatti
<1>3. PaginaSana(pagine[i])
  BY <1>1 DEF Sane
<1>4. a # "avvio" /\ (a = "salva" => pagine[i].tipo = "conferma")
  BY <1>1, <1>3 DEF PaginaSana
<1>5. PICK n \in Nat : pagine[i].attese[a] = n + 1
  <2>1. pagine[i].attese[a] - 1 \in Nat /\ pagine[i].attese[a] = (pagine[i].attese[a] - 1) + 1
    BY <1>1, <1>2
  <2>2. QED
    BY <2>1
<1>6. pagine[i].attese[a] - 1 = n
  BY <1>2, <1>5
<1>7. Ripresa(i, a) = Attende(pagine, i, a, pagine[i].attese[a] - 1)
  BY DEF Ripresa, Attende, ConAttese
<1>8. Ripresa(i, a) = Attende(pagine, i, a, n)
  BY <1>6, <1>7
<1>9. QED
  BY <1>1, <1>4, <1>5, <1>8

\* The callback of page i goes on; where it was a scanner's lookup, that is
\* accounted for otherwise.
LEMMA RipresaSana ==
  ASSUME TypeOK, Sane(pagine), NEW i, NEW a \in Attesa, InAttesa(i, a)
  PROVE  /\ Ripresa(i, a) \in Seq(Pagina) /\ Simile(pagine, Ripresa(i, a))
         /\ Sane(Ripresa(i, a))
         /\ \A s : /\ Regge(utente, pagine, s)
                   /\ \/ s.fallita \/ s.scanner # {}
                      \/ pagine[i].tipo # "scanner" \/ a \notin {"prima", "seconda"}
                   => Regge(utente, Ripresa(i, a), s)
<1>1. i \in DOMAIN pagine /\ a # "avvio" /\ (a = "salva" => pagine[i].tipo = "conferma")
  BY RipresaFatti
<1>2. PICK n \in Nat : Ripresa(i, a) = Attende(pagine, i, a, n) /\ pagine[i].attese[a] = n + 1
  BY RipresaFatti
<1>3. pagine \in Seq(Pagina)
  BY DEF TypeOK
<1>4. Ripresa(i, a) \in Seq(Pagina) /\ Simile(pagine, Ripresa(i, a))
  BY <1>1, <1>2, <1>3, AttesaPila
<1>5. Sane(Ripresa(i, a))
  BY <1>1, <1>2, <1>3, AttesaSana
<1>6. ASSUME NEW s, Regge(utente, pagine, s),
             \/ s.fallita \/ s.scanner # {}
             \/ pagine[i].tipo # "scanner" \/ a \notin {"prima", "seconda"}
      PROVE  Regge(utente, Ripresa(i, a), s)
  BY <1>1, <1>2, <1>3, <1>6, ReggeAttende
<1>7. QED
  BY <1>4, <1>5, <1>6

\* What a scanner's callback records when it replaces a page that is not its own.
LEMMA StoriaFatti ==
  ASSUME NEW s \in Storia, NEW e \in {"coperto", "uscente"}, NEW z, z = [s EXCEPT !.scanner = @ \cup {e}]
  PROVE  z \in Storia /\ z.scanner = s.scanner \cup {e} /\ z.residui = s.residui /\ z.fallita = s.fallita
  BY DEF Storia

\* A page comes in the place of the one on top, and the history records it.
LEMMA SostituisceFatti ==
  ASSUME NEW q \in Seq(Pagina), Sane(q), NEW i \in DOMAIN q, NEW s \in Storia,
         NEW t \in {"login", "home", "vista"}, t = "vista" => q[i].tipo = "scanner",
         FondoBuono(q) \/ "uscente" \in s.scanner,
         Attento(q) \/ s.fallita \/ s.scanner # {} \/ q[i].tipo = "scanner",
         Sostituisce(i, q, t, s)
  PROVE  /\ pagine' = Pulita(pushReplacement(q, t)) /\ pagine' \in Seq(Pagina) /\ storia' \in Storia
         /\ storia'.residui = s.residui
         /\ Sane(pagine')
         /\ FondoBuono(pagine') \/ "uscente" \in storia'.scanner
         /\ Attento(pagine') \/ storia'.fallita \/ storia'.scanner # {}
         /\ \A u : Protetta(u, q) /\ t # "login" => Protetta(u, pagine')
<1>1. t \in Tipo \ {"splash", "avvisoScanner"} /\ t # "scanner"
  BY DEF Tipo
<1>2. pagine' = Pulita(pushReplacement(q, t))
  BY DEF Sostituisce, Rimane
<1>3. /\ pagine' \in Seq(Pagina) /\ Sane(pagine')
      /\ \/ Attento(q)
         \/ Scanner(q) \cap Presenti(q) \subseteq {Cima(q)} /\ Presenti(q) # {}
         => Attento(pagine')
      /\ \A u : Protetta(u, q) /\ t # "login" => Protetta(u, pagine')
      /\ /\ FondoBuono(q)
         /\ \/ InCima(q) \notin {"login", "home"} \/ t \in {"login", "home"}
            \/ \E j \in Presenti(q) : j # Cima(q)
         => FondoBuono(pagine')
  BY <1>1, <1>2, SostituitaFatti
<1>4. CASE q[i].tipo # "scanner"
  <2>1. storia' = s
    BY <1>4 DEF Sostituisce
  <2>2. t \in {"login", "home"}
    BY <1>4
  <2>3. QED
    BY <1>2, <1>3, <1>4, <2>1, <2>2
<1>5. CASE q[i].tipo = "scanner" /\ q[i].presente /\ Cima(q) = i
  <2>1. storia' = s
    BY <1>5 DEF Sostituisce
  <2>2. i \in Presenti(q) /\ InCima(q) = "scanner"
    BY <1>5, CimaFatti DEF Presenti
  <2>3. Scanner(q) \cap Presenti(q) \subseteq {Cima(q)}
    BY <1>5 DEF Sane, Scanner
  <2>4. QED
    BY <1>2, <1>3, <2>1, <2>2, <2>3
<1>6. CASE q[i].tipo = "scanner" /\ q[i].presente /\ Cima(q) # i
  <2>1. storia' = [s EXCEPT !.scanner = @ \cup {"coperto"}]
    BY <1>6 DEF Sostituisce
  <2>2. storia' \in Storia /\ storia'.residui = s.residui /\ storia'.scanner = s.scanner \cup {"coperto"}
    BY <2>1, StoriaFatti
  <2>3. i \in Presenti(q)
    BY <1>6 DEF Presenti
  <2>4. QED
    BY <1>2, <1>3, <1>6, <2>2, <2>3
<1>7. CASE q[i].tipo = "scanner" /\ ~q[i].presente
  <2>1. storia' = [s EXCEPT !.scanner = @ \cup {"uscente"}]
    BY <1>7 DEF Sostituisce
  <2>2. storia' \in Storia /\ storia'.residui = s.residui /\ storia'.scanner = s.scanner \cup {"uscente"}
    BY <2>1, StoriaFatti
  <2>3. QED
    BY <1>2, <1>3, <2>2
<1>8. QED
  BY <1>4, <1>5, <1>6, <1>7

LEMMA SignInMantiene ==
  ASSUME TypeOK, Regge(utente, pagine, storia), NEW i, signInWithEmailAndPassword(i)
  PROVE  Dopo
<1> DEFINE q == Ripresa(i, "accesso")
<1>0. "accesso" \in Attesa /\ Sane(pagine) /\ pagine \in Seq(Pagina) /\ storia \in Storia /\ utente \in BOOLEAN
  BY DEF Attesa, Regge, TypeOK
<1>1. /\ InAttesa(i, "accesso") /\ utente' = TRUE /\ UNCHANGED orfani
      /\ Sostituisce(i, q, "home", storia)
  BY DEF signInWithEmailAndPassword
<1>2. q \in Seq(Pagina) /\ Sane(q) /\ Regge(utente, q, storia) /\ Simile(pagine, q)
  BY <1>0, <1>1, RipresaSana
<1>3. i \in DOMAIN q
  BY <1>1, <1>2 DEF Simile, InAttesa
<1> HIDE DEF q
<1>4. /\ FondoBuono(q) \/ "uscente" \in storia.scanner
      /\ Attento(q) \/ storia.fallita \/ storia.scanner # {}
      /\ Protetta(utente, q) \/ SoloLogin(q) \/ storia.residui
  BY <1>2 DEF Regge
<1>5. /\ pagine' = Pulita(pushReplacement(q, "home")) /\ pagine' \in Seq(Pagina) /\ storia' \in Storia
      /\ storia'.residui = storia.residui
      /\ Sane(pagine')
      /\ FondoBuono(pagine') \/ "uscente" \in storia'.scanner
      /\ Attento(pagine') \/ storia'.fallita \/ storia'.scanner # {}
      /\ \A u : Protetta(u, q) => Protetta(u, pagine')
  BY <1>0, <1>1, <1>2, <1>3, <1>4, SostituisceFatti
<1>6. Protetta(utente', pagine') \/ storia'.residui
  <2>1. CASE Protetta(utente, q)
    <3>1. Protetta(TRUE, q)
      BY <2>1 DEF Protetta
    <3>2. QED
      BY <1>1, <1>5, <3>1
  <2>2. CASE SoloLogin(q)
    <3>1. Presenti(q) = {1} /\ q[1].tipo = "login"
      BY <1>2, <2>2, Pila DEF SoloLogin, Presenti
    <3>2. Presenti(pop(q)) = {} /\ pop(q) \in Seq(Pagina) /\ Cima(q) = 1
      BY <1>2, <3>1, CimaFatti, PopFatti
    <3>3. Protetta(TRUE, pop(q))
      BY <3>2 DEF Protetta
    <3>4. pushReplacement(q, "home") = push(pop(q), "home")
      BY <3>1 DEF pushReplacement
    <3>5. "home" \in Tipo
      BY DEF Tipo
    <3>6. push(pop(q), "home") \in Seq(Pagina) /\ Protetta(TRUE, push(pop(q), "home"))
      BY <3>2, <3>3, <3>5, PushFatti, PushMantiene
    <3>7. Protetta(TRUE, Pulita(push(pop(q), "home")))
      BY <3>6, PulitaMantiene
    <3>8. QED
      BY <1>1, <1>5, <3>4, <3>7
  <2>3. QED
    BY <1>4, <1>5, <2>1, <2>2
<1>7. QED
  BY <1>0, <1>1, <1>5, <1>6 DEF Dopo, TypeOK, Regge

LEMMA EccezioneMantiene ==
  ASSUME TypeOK, Regge(utente, pagine, storia), NEW i, FirebaseAuthException(i)
  PROVE  Dopo
<1> DEFINE q == Ripresa(i, "accesso")
<1>0. "accesso" \in Attesa /\ Sane(pagine)
  BY DEF Attesa, Regge
<1>1. InAttesa(i, "accesso") /\ SoloPagine(Pulita(q))
  BY DEF FirebaseAuthException, Rimane, SoloPagine
<1>2. q \in Seq(Pagina) /\ Regge(utente, q, storia)
  BY <1>0, <1>1, RipresaSana
<1>3. Pulita(q) \in Seq(Pagina) /\ Regge(utente, Pulita(q), storia)
  BY <1>2, ReggePulita
<1>4. QED
  BY <1>1, <1>3, PassoPagine

LEMMA SignOutMantiene ==
  ASSUME TypeOK, Regge(utente, pagine, storia), NEW i, signOut(i)
  PROVE  Dopo
<1> DEFINE q == Ripresa(i, "uscita")
           r == Pulita(pushReplacement(q, "login"))
           z == [storia EXCEPT !.residui = ~SenzaResidui(r)]
<1>0. "uscita" \in Attesa /\ Sane(pagine) /\ pagine \in Seq(Pagina) /\ storia \in Storia
  BY DEF Attesa, Regge, TypeOK
<1>1. /\ InAttesa(i, "uscita") /\ utente' = FALSE /\ UNCHANGED orfani
      /\ Sostituisce(i, q, "login", z)
  BY DEF signOut
<1>2. q \in Seq(Pagina) /\ Sane(q) /\ Regge(utente, q, storia) /\ Simile(pagine, q)
  BY <1>0, <1>1, RipresaSana
<1>3. i \in DOMAIN q
  BY <1>1, <1>2 DEF Simile, InAttesa
<1>4. SenzaResidui(r) \in BOOLEAN
  BY DEF SenzaResidui
<1>5. /\ z \in Storia /\ z.scanner = storia.scanner /\ z.fallita = storia.fallita
      /\ z.residui = ~SenzaResidui(r)
  <2> HIDE DEF r
  <2>1. QED
    BY <1>0, <1>4 DEF Storia
<1> HIDE DEF q, r, z
<1>6. /\ FondoBuono(q) \/ "uscente" \in z.scanner
      /\ Attento(q) \/ z.fallita \/ z.scanner # {}
  BY <1>2, <1>5 DEF Regge
<1>7. /\ pagine' = r /\ pagine' \in Seq(Pagina) /\ storia' \in Storia
      /\ storia'.residui = z.residui
      /\ Sane(pagine')
      /\ FondoBuono(pagine') \/ "uscente" \in storia'.scanner
      /\ Attento(pagine') \/ storia'.fallita \/ storia'.scanner # {}
  BY <1>1, <1>2, <1>3, <1>5, <1>6, SostituisceFatti DEF r
<1>8. SoloLogin(pagine') \/ storia'.residui
  <2>1. CASE SenzaResidui(r)
    <3>1. Len(r) = 1 /\ InCima(r) = "login" /\ r \in Seq(Pagina)
      BY <1>7, <2>1 DEF SenzaResidui
    <3>2. Presenti(r) # {} /\ Cima(r) \in DOMAIN r /\ r[Cima(r)].presente /\ r[Cima(r)].tipo = "login"
      BY <3>1, CimaEsiste, CimaFatti
    <3>3. Cima(r) = 1
      BY <3>1, <3>2, Pila
    <3>4. QED
      BY <1>7, <3>1, <3>2, <3>3 DEF SoloLogin
  <2>2. CASE ~SenzaResidui(r)
    BY <1>5, <1>7, <2>2
  <2>3. QED
    BY <2>1, <2>2
<1>9. QED
  BY <1>1, <1>7, <1>8 DEF Dopo, TypeOK, Regge

LEMMA OrfanoMantiene ==
  ASSUME TypeOK, Regge(utente, pagine, storia), NEW a \in DOMAIN orfani, orfano(a)
  PROVE  Dopo
<1>1. /\ orfani[a] > 0 /\ orfani' = [orfani EXCEPT ![a] = @ - 1] /\ pagine' = pagine
      /\ a \in {"accesso", "uscita"} /\ orfani \in [{"accesso", "uscita"} -> Nat]
      /\ utente' \in BOOLEAN
  BY DEF orfano, TypeOK
<1>2. orfani' \in [{"accesso", "uscita"} -> Nat]
  BY <1>1
<1>3. CASE a = "accesso"
  <2>1. utente' \in {utente, TRUE} /\ storia' = storia
    BY <1>3 DEF orfano
  <2>2. Protetta(utente, pagine) => Protetta(utente', pagine)
    BY <2>1 DEF Protetta
  <2>3. QED
    BY <1>1, <1>2, <2>1, <2>2 DEF Dopo, TypeOK, Regge
<1>4. CASE a = "uscita"
  <2>1. storia' = [storia EXCEPT !.residui = TRUE]
    BY <1>4 DEF orfano
  <2>2. storia' \in Storia /\ storia'.residui /\ storia'.scanner = storia.scanner
        /\ storia'.fallita = storia.fallita
    BY <2>1 DEF TypeOK, Storia
  <2>3. QED
    BY <1>1, <1>2, <2>2 DEF Dopo, TypeOK, Regge
<1>5. QED
  BY <1>1, <1>3, <1>4

\* The alert over a scanner that awaits it: the counter of alerts keeps up.
AvvisiPiu(p) == [p EXCEPT !.avvisi = @ + 1]

LEMMA AvvisiPiuPagina ==
  ASSUME NEW p \in Pagina
  PROVE  /\ AvvisiPiu(p) \in Pagina /\ AvvisiPiu(p).avvisi = p.avvisi + 1
         /\ AvvisiPiu(p).tipo = p.tipo /\ AvvisiPiu(p).presente = p.presente
         /\ AvvisiPiu(p).attese = p.attese
  BY DEF AvvisiPiu, Pagina

LEMMA AvvisiPiuFatti ==
  ASSUME NEW q \in Seq(Pagina), Sane(q), NEW i \in DOMAIN q, q[i].tipo = "scanner",
         NEW r, r = [q EXCEPT ![i] = AvvisiPiu(q[i])]
  PROVE  /\ r \in Seq(Pagina) /\ Simile(q, r) /\ Sane(r)
         /\ r[i].avvisi = q[i].avvisi + 1
<1>1. q[i] \in Pagina /\ q[i].avvisi \in Nat
  BY Pila, PaginaFatti
<1>2. /\ AvvisiPiu(q[i]) \in Pagina /\ AvvisiPiu(q[i]).avvisi = q[i].avvisi + 1
      /\ AvvisiPiu(q[i]).tipo = q[i].tipo /\ AvvisiPiu(q[i]).presente = q[i].presente
      /\ AvvisiPiu(q[i]).attese = q[i].attese
  BY <1>1, AvvisiPiuPagina
<1>3. /\ r \in Seq(Pagina) /\ Len(r) = Len(q) /\ DOMAIN r = DOMAIN q /\ r[i] = AvvisiPiu(q[i])
      /\ \A j \in DOMAIN q : j # i => r[j] = q[j]
  BY <1>2, CambioPagina
<1>4. Simile(q, r)
  BY <1>2, <1>3 DEF Simile
<1>5. \A j \in DOMAIN q : q[j].avvisi \in Nat /\ PaginaSana(q[j])
  BY Pila, PaginaFatti DEF Sane
<1>6. PaginaSana(r[i])
  BY <1>2, <1>3, <1>5 DEF PaginaSana
<1>7. \A j \in DOMAIN q : PaginaSana(r[j]) /\ r[j].avvisi >= q[j].avvisi
  BY <1>1, <1>2, <1>3, <1>5, <1>6
<1>8. Sane(r)
  BY <1>3, <1>4, <1>7, SimileSana
<1>9. QED
  BY <1>2, <1>3, <1>4, <1>8

\* The machine is registered: the second read of the lookup starts.
LEMMA SecondaMantiene ==
  ASSUME TypeOK, Regge(utente, pagine, storia), NEW i, InAttesa(i, "prima"),
         pagine' = [Ripresa(i, "prima") EXCEPT ![i].attese["seconda"] = @ + 1],
         UNCHANGED <<utente, orfani, storia>>
  PROVE  Dopo
<1> DEFINE q == Ripresa(i, "prima")
           k == q[i].attese["seconda"] + 1
           r == Attende(q, i, "seconda", k)
<1>0. /\ "prima" \in Attesa /\ "seconda" \in Attesa /\ Sane(pagine) /\ pagine \in Seq(Pagina)
      /\ i \in DOMAIN pagine
  BY DEF Attesa, Regge, TypeOK, InAttesa
<1>1. q \in Seq(Pagina) /\ Simile(pagine, q) /\ Sane(q)
  BY <1>0, RipresaSana
<1>2. i \in DOMAIN q
  BY <1>0, <1>1 DEF Simile
<1>3. k \in Nat /\ k > 0
  <2> HIDE DEF q
  <2>1. q[i].attese["seconda"] \in Nat
    BY <1>0, <1>1, <1>2, Pila, PaginaFatti
  <2>2. QED
    BY <2>1
<1>4. SoloPagine(r)
  BY DEF SoloPagine, Attende, ConAttese
<1>5. PICK n \in Nat : q = Attende(pagine, i, "prima", n)
  BY <1>0, RipresaFatti
<1>6. \A j \in DOMAIN pagine : j # i => q[j] = pagine[j]
  BY <1>0, <1>5, AttesaCambia
<1> HIDE DEF q, k
<1>7. r \in Seq(Pagina) /\ Simile(q, r)
  BY <1>0, <1>1, <1>2, <1>3, AttesaPila
<1>8. Sane(r)
  BY <1>0, <1>1, <1>2, <1>3, AttesaSana
<1>9. /\ \A j \in DOMAIN q : j # i => r[j] = q[j]
      /\ r[i].attese["seconda"] = k
  BY <1>0, <1>1, <1>2, <1>3, AttesaCambia
<1> HIDE DEF r
<1>10. Simile(pagine, r)
  BY <1>1, <1>7 DEF Simile
<1>11. \A j \in DOMAIN pagine : j # i => r[j] = pagine[j]
  BY <1>1, <1>6, <1>9 DEF Simile
<1>12. Attento(pagine) => Attento(r)
  BY <1>0, <1>3, <1>7, <1>9, <1>10, <1>11, SimileAttenta
<1>13. Regge(utente, r, storia)
  BY <1>0, <1>7, <1>8, <1>10, <1>12, SimileFatti DEF Regge
<1>14. QED
  BY <1>4, <1>7, <1>13, PassoPagine

\* It is not: the alert opens over the scanner's page.
LEMMA AvvisoMantiene ==
  ASSUME TypeOK, Regge(utente, pagine, storia), NEW i, InAttesa(i, "prima"),
         pagine[i].tipo = "scanner",
         SoloPagine(Pulita(push([Ripresa(i, "prima") EXCEPT ![i].avvisi = @ + 1], "avvisoScanner")))
  PROVE  Dopo
<1> DEFINE q == Ripresa(i, "prima")
           r == [q EXCEPT ![i].avvisi = @ + 1]
           w == push(r, "avvisoScanner")
<1>0. /\ "prima" \in Attesa /\ Sane(pagine) /\ pagine \in Seq(Pagina) /\ i \in DOMAIN pagine
      /\ "avvisoScanner" \in Tipo
  BY DEF Attesa, Regge, TypeOK, InAttesa, Tipo
<1>1. q \in Seq(Pagina) /\ Simile(pagine, q) /\ Sane(q)
  BY <1>0, RipresaSana
<1>2. i \in DOMAIN q /\ q[i].tipo = "scanner"
  BY <1>0, <1>1 DEF Simile
<1>3. r = [q EXCEPT ![i] = AvvisiPiu(q[i])]
  BY DEF AvvisiPiu
<1> HIDE DEF q, r
<1>4. r \in Seq(Pagina) /\ Simile(q, r) /\ Sane(r) /\ r[i].avvisi = q[i].avvisi + 1
  BY <1>1, <1>2, <1>3, AvvisiPiuFatti
<1>5. Scanner(r) = Scanner(q) /\ Presenti(r) = Presenti(q) /\ \A j : Avvisi(r, j) = Avvisi(q, j)
  BY <1>1, <1>4, SimileFatti
<1>6. ASSUME NEW s \in Scanner(r) \cap Presenti(r)
      PROVE  Cardinality(Avvisi(r, s)) < r[s].avvisi
  <2>1. i \in Scanner(q) /\ s \in Scanner(q) \cap Presenti(q)
    BY <1>2, <1>5, <1>6 DEF Scanner
  <2>2. s = i
    BY <1>1, <2>1 DEF Sane
  <2>3. Cardinality(Avvisi(q, i)) <= q[i].avvisi
    BY <1>1, <2>1, <2>2 DEF Sane
  <2>4. q[i].avvisi \in Nat
    BY <1>1, <1>2, Pila, PaginaFatti
  <2>5. Cardinality(Avvisi(q, i)) \in Nat
    <3>1. Avvisi(q, i) \in SUBSET (1..Len(q)) /\ Len(q) \in Nat
      BY <1>1, Pila DEF Avvisi
    <3>2. QED
      BY <3>1, Finito
  <2>6. QED
    BY <1>4, <1>5, <2>2, <2>3, <2>4, <2>5
<1>7. w \in Seq(Pagina)
  BY <1>0, <1>4, PushFatti
<1>8. Sane(w)
  BY <1>0, <1>4, <1>6, PushSana
<1>9. Attento(w)
  <2>1. \A s \in Scanner(w) \cap Presenti(w) : Avvisi(w, s) # {}
    <3>1. Scanner(w) = Scanner(r) /\ \A j \in DOMAIN r : Avvisi(w, j) = Avvisi(r, j) \cup {Len(r) + 1}
      BY <1>0, <1>4, PushPagine
    <3>2. QED
      BY <3>1 DEF Scanner
  <2>2. QED
    BY <2>1 DEF Attento
<1>10. FondoBuono(w) \/ "uscente" \in storia.scanner
  <2>1. FondoBuono(pagine) => FondoBuono(r)
    BY <1>0, <1>1, <1>4, SimileFatti
  <2>2. FondoBuono(r) => FondoBuono(w)
    BY <1>0, <1>4, PushMantiene
  <2>3. QED
    BY <2>1, <2>2 DEF Regge
<1>11. Protetta(utente, w) \/ storia.residui
  <2>1. ~SoloLogin(pagine)
    BY <1>0, NonSoloLogin
  <2>2. Protetta(utente, pagine) => Protetta(utente, r)
    BY <1>0, <1>1, <1>4, SimileFatti
  <2>3. Protetta(utente, r) => Protetta(utente, w)
    BY <1>0, <1>4, PushMantiene
  <2>4. QED
    BY <2>1, <2>2, <2>3 DEF Regge
<1>12. Regge(utente, w, storia)
  BY <1>8, <1>9, <1>10, <1>11 DEF Regge
<1>13. SoloPagine(Pulita(w))
  BY DEF q, r
<1> HIDE DEF w
<1>14. Pulita(w) \in Seq(Pagina) /\ Regge(utente, Pulita(w), storia)
  BY <1>7, <1>12, ReggePulita
<1>15. QED
  BY <1>13, <1>14, PassoPagine

\* A callback of page i, no scanner and no login page, pushes page t.
LEMMA ApertaMantiene ==
  ASSUME TypeOK, Regge(utente, pagine, storia), NEW i, NEW a \in Attesa, InAttesa(i, a),
         pagine[i].tipo \notin {"scanner", "login"},
         NEW t \in {"avviso", "vista", "home"},
         SoloPagine(Pulita(push(Ripresa(i, a), t)))
  PROVE  Dopo
<1> DEFINE q == Ripresa(i, a)
<1>0. Sane(pagine) /\ i \in DOMAIN pagine
  BY DEF Regge, InAttesa
<1>1. q \in Seq(Pagina) /\ Simile(pagine, q) /\ Regge(utente, q, storia)
  BY <1>0, RipresaSana
<1> HIDE DEF q
<1>2. ~SoloLogin(q)
  <2>1. i \in DOMAIN q /\ q[i].tipo # "login"
    BY <1>0, <1>1 DEF Simile
  <2>2. QED
    BY <1>1, <2>1, NonSoloLogin
<1>3. t \in Tipo \ {"splash", "login", "avvisoScanner"} /\ t # "scanner"
  BY DEF Tipo
<1>4. push(q, t) \in Seq(Pagina) /\ Regge(utente, push(q, t), storia)
  BY <1>1, <1>2, <1>3, ReggePush
<1>5. Pulita(push(q, t)) \in Seq(Pagina) /\ Regge(utente, Pulita(push(q, t)), storia)
  BY <1>4, ReggePulita
<1>6. SoloPagine(Pulita(push(q, t)))
  BY DEF q
<1>7. QED
  BY <1>5, <1>6, PassoPagine

LEMMA IsControlloPresenteMantiene ==
  ASSUME TypeOK, Regge(utente, pagine, storia), NEW i, isControlloPresente(i)
  PROVE  Dopo
<1>0. InAttesa(i, "prima") /\ UNCHANGED <<utente, orfani, storia>> /\ "prima" \in Attesa
  BY DEF isControlloPresente, Attesa
<1>1. CASE pagine' = [Ripresa(i, "prima") EXCEPT ![i].attese["seconda"] = @ + 1]
  BY <1>0, <1>1, SecondaMantiene
<1>2. CASE pagine[i].tipo = "cerca" /\ Rimane(push(Ripresa(i, "prima"), "avviso"))
  <2>1. SoloPagine(Pulita(push(Ripresa(i, "prima"), "avviso")))
    BY <1>0, <1>2 DEF SoloPagine, Rimane
  <2>2. QED
    BY <1>0, <1>2, <2>1, ApertaMantiene
<1>3. CASE /\ pagine[i].tipo = "scanner"
           /\ Rimane(push([Ripresa(i, "prima") EXCEPT ![i].avvisi = @ + 1], "avvisoScanner"))
  <2>1. SoloPagine(Pulita(push([Ripresa(i, "prima") EXCEPT ![i].avvisi = @ + 1], "avvisoScanner")))
    BY <1>0, <1>3 DEF SoloPagine, Rimane
  <2>2. QED
    BY <1>0, <1>3, <2>1, AvvisoMantiene
<1>4. QED
  BY <1>1, <1>2, <1>3 DEF isControlloPresente

\* A read fails: the callback throws.
LEMMA FallitaMantiene ==
  ASSUME TypeOK, Regge(utente, pagine, storia), NEW i, InAttesa(i, "seconda"),
         Rimane(Ripresa(i, "seconda")),
         storia' = IF pagine[i].tipo = "scanner" THEN [storia EXCEPT !.fallita = TRUE] ELSE storia,
         UNCHANGED <<utente, orfani>>
  PROVE  Dopo
<1> DEFINE q == Ripresa(i, "seconda")
<1>0. "seconda" \in Attesa /\ Sane(pagine) /\ storia \in Storia
  BY DEF Attesa, Regge, TypeOK
<1>1. /\ storia' \in Storia /\ storia'.scanner = storia.scanner /\ storia'.residui = storia.residui
      /\ storia'.fallita \/ pagine[i].tipo # "scanner"
      /\ storia.fallita => storia'.fallita
  BY <1>0 DEF Storia
<1>2. Regge(utente, pagine, storia')
  BY <1>1 DEF Regge
<1>3. q \in Seq(Pagina) /\ Regge(utente, q, storia')
  BY <1>0, <1>1, <1>2, RipresaSana
<1>4. pagine' = Pulita(q)
  BY DEF Rimane
<1> HIDE DEF q
<1>5. Pulita(q) \in Seq(Pagina) /\ Regge(utente, Pulita(q), storia')
  BY <1>3, ReggePulita
<1>6. QED
  BY <1>1, <1>4, <1>5 DEF Dopo, TypeOK, Regge

\* The machine takes the place of the page on top.
LEMMA VistaMantiene ==
  ASSUME TypeOK, Regge(utente, pagine, storia), NEW i, InAttesa(i, "seconda"),
         pagine[i].tipo = "scanner", Sostituisce(i, Ripresa(i, "seconda"), "vista", storia),
         UNCHANGED <<utente, orfani>>
  PROVE  Dopo
<1> DEFINE q == Ripresa(i, "seconda")
<1>0. /\ "seconda" \in Attesa /\ Sane(pagine) /\ pagine \in Seq(Pagina) /\ storia \in Storia
      /\ i \in DOMAIN pagine
  BY DEF Attesa, Regge, TypeOK, InAttesa
<1>1. q \in Seq(Pagina) /\ Simile(pagine, q) /\ Sane(q)
  BY <1>0, RipresaSana
<1>2. Sostituisce(i, q, "vista", storia)
  OBVIOUS
<1> HIDE DEF q
<1>3. i \in DOMAIN q /\ q[i].tipo = "scanner"
  BY <1>0, <1>1 DEF Simile
<1>4. FondoBuono(q) \/ "uscente" \in storia.scanner
  BY <1>0, <1>1, SimileFatti DEF Regge
<1>5. Protetta(utente, q) \/ storia.residui
  <2>1. ~SoloLogin(pagine)
    BY <1>0, NonSoloLogin
  <2>2. QED
    BY <1>0, <1>1, <2>1, SimileFatti DEF Regge
<1>6. /\ pagine' \in Seq(Pagina) /\ storia' \in Storia
      /\ storia'.residui = storia.residui
      /\ Sane(pagine')
      /\ FondoBuono(pagine') \/ "uscente" \in storia'.scanner
      /\ Attento(pagine') \/ storia'.fallita \/ storia'.scanner # {}
      /\ \A u : Protetta(u, q) => Protetta(u, pagine')
  BY <1>0, <1>1, <1>2, <1>3, <1>4, SostituisceFatti
<1>7. Protetta(utente, pagine') \/ storia'.residui
  BY <1>5, <1>6
<1>8. QED
  BY <1>6, <1>7 DEF Dopo, TypeOK, Regge

LEMMA GetControlloMantiene ==
  ASSUME TypeOK, Regge(utente, pagine, storia), NEW i, getControllo(i)
  PROVE  Dopo
<1>0. InAttesa(i, "seconda") /\ UNCHANGED <<utente, orfani>> /\ "seconda" \in Attesa
  BY DEF getControllo, Attesa
<1>1. CASE /\ pagine[i].tipo = "cerca" /\ Rimane(push(Ripresa(i, "seconda"), "vista"))
           /\ UNCHANGED storia
  <2>1. SoloPagine(Pulita(push(Ripresa(i, "seconda"), "vista")))
    BY <1>0, <1>1 DEF SoloPagine, Rimane
  <2>2. QED
    BY <1>0, <1>1, <2>1, ApertaMantiene
<1>2. CASE pagine[i].tipo = "scanner" /\ Sostituisce(i, Ripresa(i, "seconda"), "vista", storia)
  BY <1>0, <1>2, VistaMantiene
<1>3. CASE /\ Rimane(Ripresa(i, "seconda"))
           /\ storia' = IF pagine[i].tipo = "scanner" THEN [storia EXCEPT !.fallita = TRUE] ELSE storia
  BY <1>0, <1>3, FallitaMantiene
<1>4. QED
  BY <1>1, <1>2, <1>3 DEF getControllo

LEMMA SalvataMantiene ==
  ASSUME TypeOK, Regge(utente, pagine, storia), NEW i, Salvata(i)
  PROVE  Dopo
<1>0. /\ InAttesa(i, "salva") /\ UNCHANGED <<utente, orfani, storia>> /\ "salva" \in Attesa
      /\ Sane(pagine)
  BY DEF Salvata, Attesa, Regge
<1>1. pagine[i].tipo = "conferma"
  BY <1>0, RipresaFatti
<1>2. CASE Rimane(push(Ripresa(i, "salva"), "home"))
  <2>1. SoloPagine(Pulita(push(Ripresa(i, "salva"), "home")))
    BY <1>0, <1>2 DEF SoloPagine, Rimane
  <2>2. QED
    BY <1>0, <1>1, <2>1, ApertaMantiene
<1>3. CASE Rimane(Ripresa(i, "salva"))
  <2>1. Ripresa(i, "salva") \in Seq(Pagina) /\ Regge(utente, Ripresa(i, "salva"), storia)
    BY <1>0, RipresaSana
  <2>2. /\ Pulita(Ripresa(i, "salva")) \in Seq(Pagina)
        /\ Regge(utente, Pulita(Ripresa(i, "salva")), storia)
    BY <2>1, ReggePulita
  <2>3. SoloPagine(Pulita(Ripresa(i, "salva")))
    BY <1>0, <1>3 DEF SoloPagine, Rimane
  <2>4. QED
    BY <2>2, <2>3, PassoPagine
<1>4. QED
  BY <1>2, <1>3 DEF Salvata

(***************************************************************************)
(* The camera                                                              *)
(***************************************************************************)
ConCamera(p, c) == [p EXCEPT !.camera = c]

LEMMA ConCameraPagina ==
  ASSUME NEW p \in Pagina, NEW c \in {"accesa", "fermando", "ferma"}
  PROVE  /\ ConCamera(p, c) \in Pagina /\ ConCamera(p, c).camera = c
         /\ ConCamera(p, c).tipo = p.tipo /\ ConCamera(p, c).presente = p.presente
         /\ ConCamera(p, c).attese = p.attese /\ ConCamera(p, c).avvisi = p.avvisi
  BY DEF ConCamera, Pagina

\* The camera of a page changes; it does not stop running, or has somebody to wait for.
LEMMA ReggeCamera ==
  ASSUME NEW u, NEW q \in Seq(Pagina), NEW s, Regge(u, q, s), NEW i \in DOMAIN q,
         NEW c \in {"accesa", "fermando", "ferma"},
         NEW r, r = [q EXCEPT ![i] = ConCamera(q[i], c)],
         q[i].camera # "accesa" \/ q[i].attese["prima"] > 0
  PROVE  r \in Seq(Pagina) /\ Regge(u, r, s)
<1>0. q[i] \in Pagina /\ "prima" \in Attesa /\ "seconda" \in Attesa
  BY Pila DEF Attesa
<1>1. /\ ConCamera(q[i], c) \in Pagina
      /\ ConCamera(q[i], c).tipo = q[i].tipo /\ ConCamera(q[i], c).presente = q[i].presente
      /\ ConCamera(q[i], c).attese = q[i].attese /\ ConCamera(q[i], c).avvisi = q[i].avvisi
  BY <1>0, ConCameraPagina
<1>2. /\ r \in Seq(Pagina) /\ Len(r) = Len(q) /\ DOMAIN r = DOMAIN q /\ r[i] = ConCamera(q[i], c)
      /\ \A j \in DOMAIN q : j # i => r[j] = q[j]
  BY <1>1, CambioPagina
<1>3. Simile(q, r)
  BY <1>1, <1>2 DEF Simile
<1>4. \A j \in DOMAIN q : q[j].avvisi \in Nat /\ PaginaSana(q[j])
  BY Pila, PaginaFatti DEF Regge, Sane
<1>5. PaginaSana(r[i])
  BY <1>1, <1>2, <1>4 DEF PaginaSana
<1>6. \A j \in DOMAIN q : PaginaSana(r[j]) /\ r[j].avvisi >= q[j].avvisi
  BY <1>1, <1>2, <1>4, <1>5
<1>7. Sane(r)
  BY <1>2, <1>3, <1>6, SimileSana DEF Regge
<1>8. \A b \in Attesa : q[i].attese[b] \in Nat
  BY <1>0, PaginaFatti
<1>9. /\ r[i].attese["prima"] >= q[i].attese["prima"]
      /\ r[i].attese["seconda"] >= q[i].attese["seconda"]
      /\ q[i].camera # "accesa" \/ r[i].attese["prima"] > 0
  BY <1>0, <1>1, <1>2, <1>8
<1>10. Attento(q) => Attento(r)
  BY <1>2, <1>3, <1>9, SimileAttenta
<1>11. Regge(u, r, s)
  BY <1>2, <1>3, <1>7, <1>10, SimileFatti DEF Regge
<1>12. QED
  BY <1>2, <1>11

LEMMA InquadraMantiene ==
  ASSUME TypeOK, Regge(utente, pagine, storia), NEW i, scannedDataStream(i)
  PROVE  Dopo
<1> DEFINE n == pagine[i].attese["prima"] + 1
           q == Attende(pagine, i, "prima", n)
           r == [q EXCEPT ![i] = ConCamera(q[i], "fermando")]
<1>1. /\ i \in DOMAIN pagine /\ pagine \in Seq(Pagina) /\ "prima" \in Attesa
      /\ UNCHANGED <<utente, orfani, storia>>
      /\ pagine' = [pagine EXCEPT ![i].attese["prima"] = @ + 1, ![i].camera = "fermando"]
  BY DEF scannedDataStream, TypeOK, Attesa
<1>2. pagine[i].attese["prima"] \in Nat
  BY <1>1, Pila, PaginaFatti
<1>3. n \in Nat /\ n > 0 /\ n >= pagine[i].attese["prima"]
  BY <1>2
<1>4. pagine' = r
  BY <1>1 DEF Attende, ConAttese, ConCamera
<1> HIDE DEF n
<1>5. q \in Seq(Pagina) /\ Regge(utente, q, storia)
  BY <1>1, <1>3, ReggeAttende
<1>6. i \in DOMAIN q /\ q[i].attese["prima"] > 0
  <2>1. Simile(pagine, q)
    BY <1>1, <1>3, AttesaPila
  <2>2. q[i].attese["prima"] = n
    BY <1>1, <1>3, AttesaCambia
  <2>3. QED
    BY <1>1, <1>3, <2>1, <2>2 DEF Simile
<1> HIDE DEF q
<1>7. r \in Seq(Pagina) /\ Regge(utente, r, storia)
  BY <1>5, <1>6, ReggeCamera
<1> HIDE DEF r
<1>8. QED
  BY <1>1, <1>4, <1>7, PassoPagine DEF SoloPagine

LEMMA PauseCameraMantiene ==
  ASSUME TypeOK, Regge(utente, pagine, storia), NEW i, pauseCamera(i)
  PROVE  Dopo
<1> DEFINE r == [pagine EXCEPT ![i] = ConCamera(pagine[i], "ferma")]
<1>1. /\ i \in DOMAIN pagine /\ pagine \in Seq(Pagina) /\ pagine[i].camera # "accesa"
      /\ SoloPagine(r)
  BY DEF pauseCamera, TypeOK, SoloPagine, ConCamera
<1>2. r \in Seq(Pagina) /\ Regge(utente, r, storia)
  BY <1>1, ReggeCamera
<1> HIDE DEF r
<1>3. QED
  BY <1>1, <1>2, PassoPagine

\* A page is unmounted.
LEMMA DisposeMantiene ==
  ASSUME TypeOK, Regge(utente, pagine, storia), NEW i, dispose(i)
  PROVE  Dopo
<1> DEFINE r == RemoveAt(pagine, i)
<1>1. /\ i \in DOMAIN pagine /\ ~pagine[i].presente /\ pagine \in Seq(Pagina)
      /\ pagine' = r /\ UNCHANGED <<utente, storia>>
      /\ orfani' = [a \in DOMAIN orfani |-> orfani[a] + pagine[i].attese[a]]
      /\ orfani \in [{"accesso", "uscita"} -> Nat]
  BY DEF dispose, TypeOK
<1>2. r \in Seq(Pagina) /\ Ridotta(pagine, r)
  BY <1>1, RimossaRidotta
<1> HIDE DEF r
<1>3. /\ Sane(pagine) => Sane(r)
      /\ FondoBuono(pagine) => FondoBuono(r)
      /\ Attento(pagine) => Attento(r)
      /\ \A u : Protetta(u, pagine) => Protetta(u, r)
      /\ SoloLogin(pagine) => SoloLogin(r)
  BY <1>1, <1>2, RidottaMantiene
<1>4. Regge(utente, r, storia)
  BY <1>3 DEF Regge
<1>5. orfani' \in [{"accesso", "uscita"} -> Nat]
  <2>1. \A a \in Attesa : pagine[i].attese[a] \in Nat
    BY <1>1, Pila, PaginaFatti
  <2>2. "accesso" \in Attesa /\ "uscita" \in Attesa
    BY DEF Attesa
  <2>3. QED
    BY <1>1, <2>1, <2>2
<1>6. QED
  BY <1>1, <1>2, <1>4, <1>5 DEF Dopo, TypeOK, Regge

LEMMA CallbackMantiene ==
  ASSUME TypeOK, Regge(utente, pagine, storia), NEW i \in DOMAIN pagine, Callback(i)
  PROVE  Dopo
<1>1. CASE goToNextPage(i)
  <2>1. Sane(pagine) /\ "avvio" \in Attesa /\ InAttesa(i, "avvio")
    BY <1>1 DEF goToNextPage, Regge, Attesa
  <2>2. QED
    BY <2>1, RipresaFatti
<1>2. QED
  BY <1>1, SignInMantiene, EccezioneMantiene, SignOutMantiene, IsControlloPresenteMantiene,
     GetControlloMantiene, SalvataMantiene, InquadraMantiene, PauseCameraMantiene, DisposeMantiene
  DEF Callback

(***************************************************************************)
(* The splash                                                              *)
(***************************************************************************)
\* Of two pages only the second one is left.
LEMMA PulitaSola ==
  ASSUME NEW q \in Seq(Pagina), Restano(q) = {2}
  PROVE  Len(Pulita(q)) = 1 /\ Pulita(q)[1] = q[2]
<1>1. Cardinality({2}) = 1
  BY FS_Singleton
<1>2. {j \in {2} : j <= 2} = {2}
  OBVIOUS
<1>3. \A i \in {2} : Cardinality({j \in {2} : j <= i}) = 1
  BY <1>1, <1>2
<1>4. (CHOOSE i \in {2} : Cardinality({j \in {2} : j <= i}) = 1) = 2
  BY <1>3
<1>5. 1..1 = {1}
  OBVIOUS
<1>6. DOMAIN Pulita(q) = {1}
  BY <1>1, <1>5 DEF Pulita
<1>7. Pulita(q)[1] = q[2]
  BY <1>1, <1>4, <1>5 DEF Pulita
<1>8. Pulita(q) \in Seq(Pagina)
  BY PulitaMantiene
<1>9. Len(Pulita(q)) \in Nat /\ DOMAIN Pulita(q) = 1..Len(Pulita(q))
  BY <1>8, Pila
<1>10. Len(Pulita(q)) = 1
  <2>1. PICK l \in Nat : l = Len(Pulita(q))
    BY <1>9
  <2>2. 1..l = {1}
    BY <1>6, <1>9, <2>1
  <2>3. 1 \in 1..l /\ (l >= 2 => 2 \in 1..l)
    BY <2>1, <2>2
  <2>4. l = 1
    BY <2>1, <2>2, <2>3
  <2>5. QED
    BY <2>1, <2>4
<1>11. QED
  BY <1>7, <1>10

\* The first page after the splash.
LEMMA SolaPagina ==
  ASSUME NEW u \in BOOLEAN, NEW s, NEW r \in Seq(Pagina), Len(r) = 1,
         r[1] = Nuova(IF u THEN "home" ELSE "login")
  PROVE  Regge(u, r, s)
<1> DEFINE t == IF u THEN "home" ELSE "login"
<1>1. t \in Tipo /\ t \in {"login", "home"} /\ r[1] = Nuova(t)
  BY DEF Tipo
<1>2. t = "login" \/ u
  OBVIOUS
<1>3. t # "login" \/ ~u
  OBVIOUS
<1> HIDE DEF t
<1>4. r[1].tipo = t /\ r[1].presente /\ PaginaSana(r[1])
  BY <1>1, NuovaPagina
<1>5. DOMAIN r = {1}
  BY Pila
<1>6. Presenti(r) = {1} /\ Scanner(r) = {}
  BY <1>1, <1>4, <1>5 DEF Presenti, Scanner
<1>7. Sane(r)
  BY <1>4, <1>5, <1>6 DEF Sane
<1>8. FondoBuono(r)
  BY <1>1, <1>4, <1>6 DEF FondoBuono
<1>9. Attento(r)
  BY <1>6 DEF Attento
<1>10. CASE t = "login"
  BY <1>4, <1>7, <1>8, <1>9, <1>10 DEF Regge, SoloLogin
<1>11. CASE t # "login" /\ u
  <2>1. Protetta(u, r)
    BY <1>4, <1>6, <1>11 DEF Protetta
  <2>2. QED
    BY <1>7, <1>8, <1>9, <2>1 DEF Regge
<1>12. QED
  BY <1>2, <1>10, <1>11

LEMMA SplashFatti ==
  ASSUME NEW q, q = <<Nuova("splash")>>
  PROVE  /\ q \in Seq(Pagina) /\ DOMAIN q = {1} /\ Len(q) = 1
         /\ q[1] = Nuova("splash") /\ q[1].tipo = "splash" /\ q[1].presente
         /\ \A a \in Attesa : q[1].attese[a] = IF a = "avvio" THEN 1 ELSE 0
         /\ Presenti(q) = {1} /\ Cima(q) = 1 /\ Fondo(q) = 1 /\ InCima(q) = "splash"
<1>1. "splash" \in Tipo
  BY DEF Tipo
<1>2. Nuova("splash") \in Pagina /\ Nuova("splash").tipo = "splash" /\ Nuova("splash").presente
  BY <1>1, NuovaPagina
<1>3. \A a \in Attesa : Nuova("splash").attese[a] = IF a = "avvio" THEN 1 ELSE 0
  BY DEF Nuova
<1>4. q \in Seq(Pagina) /\ Len(q) = 1 /\ q[1] = Nuova("splash")
  <2> DEFINE p == Nuova("splash")
  <2>1. p \in Pagina /\ q = <<p>>
    BY <1>2
  <2> HIDE DEF p
  <2>2. q \in Seq(Pagina) /\ Len(q) = 1 /\ q[1] = p
    BY <2>1
  <2>3. QED
    BY <2>2 DEF p
<1>5. DOMAIN q = {1}
  BY <1>4, Pila
<1>6. Presenti(q) = {1}
  BY <1>2, <1>4, <1>5 DEF Presenti
<1>7. Cima(q) = 1 /\ Fondo(q) = 1 /\ InCima(q) = q[1].tipo
  BY <1>4, <1>6, CimaFatti, FondoFatti
<1>8. QED
  BY <1>2, <1>3, <1>4, <1>5, <1>6, <1>7

\* Three seconds later.
LEMMA AvvioMantiene ==
  ASSUME TypeOK, Iniziale, goToNextPage(1)
  PROVE  Dopo
<1> DEFINE q == Ripresa(1, "avvio")
           t == IF utente THEN "home" ELSE "login"
           w == push(pop(q), t)
<1>1. /\ pagine \in Seq(Pagina) /\ DOMAIN pagine = {1} /\ Len(pagine) = 1
      /\ pagine[1].tipo = "splash" /\ pagine[1].presente
      /\ \A a \in Attesa : pagine[1].attese[a] = IF a = "avvio" THEN 1 ELSE 0
      /\ Presenti(pagine) = {1}
  BY SplashFatti DEF Iniziale
<1>2. t \in Tipo /\ t \in {"login", "home"} /\ "avvio" \in Attesa
  BY DEF Tipo, Attesa
<1>3. q = Attende(pagine, 1, "avvio", pagine[1].attese["avvio"] - 1)
  BY DEF Ripresa, Attende, ConAttese
<1>4. pagine[1].attese["avvio"] - 1 = 0
  BY <1>1, <1>2
<1>5. q = Attende(pagine, 1, "avvio", 0)
  BY <1>3, <1>4
<1>6. /\ Sostituisce(1, q, t, storia) /\ UNCHANGED <<utente, orfani>>
  BY DEF goToNextPage
<1> HIDE DEF q, t
<1>7. q \in Seq(Pagina) /\ Simile(pagine, q)
  BY <1>1, <1>2, <1>5, AttesaPila
<1>8. q[1].attese["avvio"] = 0 /\ \A b \in Attesa : b # "avvio" => q[1].attese[b] = pagine[1].attese[b]
  BY <1>1, <1>2, <1>5, AttesaCambia
<1>9. \A a \in Attesa : q[1].attese[a] = 0
  BY <1>1, <1>2, <1>8
<1>10. DOMAIN q = {1} /\ Len(q) = 1 /\ Presenti(q) = {1} /\ q[1].tipo = "splash"
  BY <1>1, <1>7, SimileFatti DEF Simile
<1>11. Cima(q) = 1
  BY <1>7, <1>10, CimaFatti
<1>12. /\ pop(q) \in Seq(Pagina) /\ Len(pop(q)) = 1 /\ DOMAIN pop(q) = {1}
       /\ Presenti(pop(q)) = {} /\ pop(q)[1].attese = q[1].attese
  BY <1>7, <1>10, <1>11, PopFatti
<1>13. /\ w \in Seq(Pagina) /\ DOMAIN w = {1, 2} /\ w[1] = pop(q)[1] /\ w[2] = Nuova(t)
       /\ Presenti(w) = {2}
  <2>1. /\ w \in Seq(Pagina) /\ DOMAIN w = {1} \cup {1 + 1} /\ w[1] = pop(q)[1]
        /\ w[1 + 1] = Nuova(t) /\ Presenti(w) = {} \cup {1 + 1}
    BY <1>2, <1>12, PushFatti
  <2> HIDE DEF w
  <2>2. QED
    BY <2>1
<1>14. pushReplacement(q, t) = w
  BY <1>10 DEF pushReplacement
<1> HIDE DEF w
<1>15. Restano(w) = {2}
  <2>1. ~w[1].presente /\ w[2].presente
    BY <1>13 DEF Presenti
  <2>2. \A a \in Attesa : ~(w[1].attese[a] > 0)
    BY <1>9, <1>12, <1>13
  <2>3. QED
    BY <1>13, <2>1, <2>2 DEF Restano
<1>16. Pulita(w) \in Seq(Pagina) /\ Len(Pulita(w)) = 1 /\ Pulita(w)[1] = Nuova(t)
  BY <1>13, <1>15, PulitaSola, PulitaMantiene
<1>17. pagine' = Pulita(w) /\ storia' = storia
  BY <1>6, <1>10, <1>14 DEF Sostituisce, Rimane
<1>18. utente \in BOOLEAN
  BY DEF TypeOK
<1>19. Regge(utente, Pulita(w), storia)
  <2>1. Pulita(w)[1] = Nuova(IF utente THEN "home" ELSE "login")
    BY <1>16 DEF t
  <2>2. QED
    BY <1>16, <1>18, <2>1, SolaPagina
<1>20. QED
  BY <1>6, <1>16, <1>17, <1>19, PassoPagine DEF SoloPagine

\* The process starts.
LEMMA MainFatti ==
  ASSUME TypeOK, main
  PROVE  TypeOK' /\ Iniziale'
<1>1. pagine' = <<Nuova("splash")>> /\ utente' \in BOOLEAN
  BY DEF main
<1>2. pagine' \in Seq(Pagina)
  BY <1>1, SplashFatti
<1>3. orfani' \in [{"accesso", "uscita"} -> Nat]
  BY DEF main, TypeOK
<1>4. storia' \in Storia
  BY DEF main, Storia
<1>5. QED
  BY <1>1, <1>2, <1>3, <1>4 DEF TypeOK, Iniziale

\* Nothing but the splash's callback, a sign-in or sign-out of a page that is gone
\* and a restart takes place while the splash is there.
LEMMA InizialeMantiene ==
  ASSUME TypeOK, Iniziale, Next
  PROVE  Dopo \/ (TypeOK' /\ Iniziale')
<1>1. /\ DOMAIN pagine = {1} /\ InCima(pagine) = "splash"
      /\ pagine[1].tipo = "splash" /\ pagine[1].presente
      /\ \A a \in Attesa : pagine[1].attese[a] = IF a = "avvio" THEN 1 ELSE 0
  BY SplashFatti DEF Iniziale
<1>2. ASSUME Utente PROVE FALSE
  BY <1>1, <1>2 DEF Utente, HomePage, AllControls, ControlView, Salva, IconaQRCode,
     UnregisteredMachineAlert, Entra, Cerca, Conferma, Esci, Indietro, Apre, Passa, Preme
<1>3. ASSUME NEW a \in Attesa, a # "avvio", InAttesa(1, a) PROVE FALSE
  BY <1>1, <1>3 DEF InAttesa
<1>4. ASSUME Callback(1) PROVE Dopo
  <2>1. {"accesso", "uscita", "prima", "seconda", "salva"} \subseteq Attesa
    BY DEF Attesa
  <2>2. ~signInWithEmailAndPassword(1) /\ ~FirebaseAuthException(1) /\ ~signOut(1)
    BY <1>3, <2>1 DEF signInWithEmailAndPassword, FirebaseAuthException, signOut
  <2>3. ~isControlloPresente(1) /\ ~getControllo(1) /\ ~Salvata(1)
    BY <1>3, <2>1 DEF isControlloPresente, getControllo, Salvata
  <2>4. ~scannedDataStream(1) /\ ~pauseCamera(1) /\ ~dispose(1)
    BY <1>1 DEF scannedDataStream, pauseCamera, dispose
  <2>5. QED
    BY <1>4, <2>2, <2>3, <2>4, AvvioMantiene DEF Callback
<1>5. ASSUME NEW a \in DOMAIN orfani, orfano(a) PROVE TypeOK' /\ Iniziale'
  <2>1. /\ a \in {"accesso", "uscita"} /\ orfani \in [{"accesso", "uscita"} -> Nat]
        /\ orfani[a] > 0 /\ orfani' = [orfani EXCEPT ![a] = @ - 1] /\ pagine' = pagine
        /\ utente' \in BOOLEAN
    BY <1>5 DEF orfano, TypeOK
  <2>2. orfani' \in [{"accesso", "uscita"} -> Nat]
    BY <2>1
  <2>3. storia' \in Storia
    BY <1>5 DEF orfano, TypeOK, Storia
  <2>4. QED
    BY <2>1, <2>2, <2>3 DEF TypeOK, Iniziale
<1>6. QED
  BY <1>1, <1>2, <1>4, <1>5, MainFatti DEF Next

(***************************************************************************)
(* The theorems                                                            *)
(***************************************************************************)
LEMMA Inizio == Init => IInv
<1>1. SUFFICES ASSUME Init PROVE TypeOK /\ Iniziale
  BY DEF IInv
<1>2. pagine = <<Nuova("splash")>> /\ utente \in BOOLEAN
  BY <1>1 DEF Init
<1>3. pagine \in Seq(Pagina)
  BY <1>2, SplashFatti
<1>4. orfani \in [{"accesso", "uscita"} -> Nat] /\ storia \in Storia
  BY <1>1 DEF Init, Storia
<1>5. QED
  BY <1>2, <1>3, <1>4 DEF TypeOK, Iniziale

LEMMA Passo == IInv /\ [Next]_vars => IInv'
<1>1. SUFFICES ASSUME TypeOK, Iniziale \/ Regge(utente, pagine, storia), [Next]_vars
               PROVE  IInv'
  BY DEF IInv
<1>2. CASE UNCHANGED vars
  BY <1>1, <1>2 DEF vars, IInv, TypeOK, Iniziale, Regge
<1>3. CASE Iniziale /\ Next
  BY <1>1, <1>3, InizialeMantiene DEF Dopo, IInv
<1>4. CASE Regge(utente, pagine, storia) /\ Next
  <2>1. CASE Utente
    BY <1>1, <1>4, <2>1, UtenteMantiene DEF Dopo, IInv
  <2>2. CASE \E i \in DOMAIN pagine : Callback(i)
    BY <1>1, <1>4, <2>2, CallbackMantiene DEF Dopo, IInv
  <2>3. CASE \E a \in DOMAIN orfani : orfano(a)
    BY <1>1, <1>4, <2>3, OrfanoMantiene DEF Dopo, IInv
  <2>4. CASE main
    BY <1>1, <2>4, MainFatti DEF IInv
  <2>5. QED
    BY <1>4, <2>1, <2>2, <2>3, <2>4 DEF Next
<1>5. QED
  BY <1>1, <1>2, <1>3, <1>4

\* The inductive invariant holds in every reachable state, for stacks of every
\* height and any number of callbacks at once.
THEOREM Invariante == Spec => []IInv
<1>1. Init => IInv
  BY Inizio
<1>2. IInv /\ [Next]_vars => IInv'
  BY Passo
<1>3. QED
  BY <1>1, <1>2, PTL DEF Spec

\* The pages, who is signed in and the history keep their types: no callback goes on
\* more often than it was started, no alert is dismissed that no scanner awaits.
THEOREM TipiSani == Spec => []TypeOK
<1>1. IInv => TypeOK
  BY DEF IInv
<1>2. QED
  BY <1>1, Invariante, PTL

\* "Back" never leaves the splash or a form as the last page: the oldest page is a
\* login or a home page, unless a scanner that was closed replaced it.
THEOREM FondoSempreSano == Spec => []FondoSano
<1>1. IInv => FondoSano
  <2>1. ASSUME Iniziale PROVE FondoSano
    <3>1. Len(pagine) = 1 /\ InCima(pagine) = "splash" /\ Presenti(pagine) = {1}
      BY <2>1, SplashFatti DEF Iniziale
    <3>2. QED
      BY <3>1 DEF FondoSano
  <2>2. ASSUME TypeOK, FondoBuono(pagine) PROVE FondoSano
    <3>1. PICK i \in Presenti(pagine) :
            (\A j \in Presenti(pagine) : i <= j) /\ pagine[i].tipo \in {"login", "home"}
      BY <2>2 DEF FondoBuono
    <3>2. pagine \in Seq(Pagina) /\ Presenti(pagine) # {}
      BY <2>2, <3>1 DEF TypeOK
    <3>3. Fondo(pagine) \in Presenti(pagine) /\ \A j \in Presenti(pagine) : Fondo(pagine) <= j
      BY <3>2, FondoFatti
    <3>4. \A j \in Presenti(pagine) : j \in Nat
      BY <3>2, Pila
    <3>5. i <= Fondo(pagine) /\ Fondo(pagine) <= i
      BY <3>1, <3>3
    <3>6. i = Fondo(pagine)
      BY <3>3, <3>4, <3>5
    <3>7. QED
      BY <3>1, <3>2, <3>6 DEF FondoSano
  <2>3. ASSUME "uscente" \in storia.scanner PROVE FondoSano
    BY <2>3 DEF FondoSano
  <2>4. QED
    BY <2>1, <2>2, <2>3 DEF IInv, Regge
<1>2. QED
  BY <1>1, Invariante, PTL

\* A login page is on top wherever it is, unless the last sign-out left other pages.
THEOREM LoginSempreInCima == Spec => []LoginInCima
<1>1. IInv => LoginInCima
  <2>1. SUFFICES ASSUME IInv, ~storia.residui, NEW i \in DOMAIN pagine,
                        pagine[i].presente /\ pagine[i].tipo = "login"
                 PROVE  i = Cima(pagine)
    BY DEF LoginInCima
  <2>2. pagine \in Seq(Pagina) /\ i \in Presenti(pagine)
    BY <2>1 DEF IInv, TypeOK, Presenti
  <2>3. CASE Iniziale
    BY <2>1, <2>3, SplashFatti DEF Iniziale
  <2>4. CASE Protetta(utente, pagine)
    BY <2>1, <2>2, <2>4 DEF Protetta
  <2>5. CASE SoloLogin(pagine)
    <3>1. DOMAIN pagine = {1}
      BY <2>2, <2>5, Pila DEF SoloLogin
    <3>2. Cima(pagine) \in DOMAIN pagine
      BY <2>2, CimaFatti
    <3>3. QED
      BY <3>1, <3>2
  <2>6. QED
    BY <2>1, <2>3, <2>4, <2>5 DEF IInv, Regge
<1>2. QED
  BY <1>1, Invariante, PTL

\* Nobody sees the archive signed out, unless the last sign-out left other pages.
THEOREM ArchivioProtetto == Spec => []SenzaUtente
<1>1. IInv => SenzaUtente
  <2>1. SUFFICES ASSUME IInv, ~utente, InCima(pagine) \notin {"splash", "login", "nessuna"},
                        ~storia.residui
                 PROVE  FALSE
    BY DEF SenzaUtente, IInv, TypeOK, Storia
  <2>2. pagine \in Seq(Pagina)
    BY <2>1 DEF IInv, TypeOK
  <2>3. CASE Iniziale
    BY <2>1, <2>3, SplashFatti DEF Iniziale
  <2>4. CASE SoloLogin(pagine)
    BY <2>1, <2>2, <2>4, NonSoloLoginInCima
  <2>5. QED
    BY <2>1, <2>3, <2>4 DEF IInv, Regge, Protetta
<1>2. QED
  BY <1>1, Invariante, PTL

\* A scanner on top with its camera paused has a lookup under way, unless a read
\* failed or a scanner's callback replaced a page that was not its own.
THEOREM ScannerSempreVivo == Spec => []ScannerVivo
<1>1. IInv => ScannerVivo
  <2>1. SUFFICES ASSUME IInv, NEW i \in DOMAIN pagine, InCima(pagine) = "scanner", i = Cima(pagine),
                        pagine[i].camera = "ferma", ~storia.fallita, storia.scanner = {}
                 PROVE  pagine[i].attese["prima"] + pagine[i].attese["seconda"] > 0
    BY DEF ScannerVivo, IInv, TypeOK, Storia
  <2>2. pagine \in Seq(Pagina)
    BY <2>1 DEF IInv, TypeOK
  <2>3. Presenti(pagine) # {}
    BY <2>1, <2>2, CimaEsiste
  <2>4. i \in Presenti(pagine) /\ pagine[i].tipo = "scanner" /\ \A j \in Presenti(pagine) : j <= i
    BY <2>1, <2>2, <2>3, CimaFatti
  <2>5. CASE Iniziale
    BY <2>1, <2>5, SplashFatti DEF Iniziale
  <2>6. CASE Attento(pagine)
    <3>1. \A j \in Presenti(pagine) : j \in Nat
      BY <2>2, Pila
    <3>2. Avvisi(pagine, i) = {}
      BY <2>4, <3>1 DEF Avvisi
    <3>3. pagine[i].attese["prima"] > 0 \/ pagine[i].attese["seconda"] > 0
      BY <2>1, <2>4, <2>6, <3>2 DEF Attento, Scanner
    <3>4. \A b \in Attesa : pagine[i].attese[b] \in Nat
      BY <2>1, <2>2, Pila, PaginaFatti
    <3>5. "prima" \in Attesa /\ "seconda" \in Attesa
      BY DEF Attesa
    <3>6. QED
      BY <3>3, <3>4, <3>5
  <2>7. QED
    BY <2>1, <2>5, <2>6 DEF IInv, Regge
<1>2. QED
  BY <1>1, Invariante, PTL

=============================================================================
