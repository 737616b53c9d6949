---------------------------- MODULE ClientProofs ----------------------------
(***************************************************************************)
(* Theorems about ClientFirestore, for every set of users, every number of *)
(* writes, every length of the pipeline and every choice of faults.        *)
(***************************************************************************)
EXTENDS ClientFirestore, FiniteSetTheorems, SequenceTheorems, WellFoundedInduction, TLAPS

(***************************************************************************)
(* The invariant                                                           *)
(***************************************************************************)
\* What the pipeline holds of queue q when it is full.
Davanti(q) == SubSeq(q, 1, IF Len(q) < kMaxPendingWrites THEN Len(q) ELSE kMaxPendingWrites)

\* The ids of queue q grow.
Ordinata(q) == \A i, j \in DOMAIN q : i < j => q[i].id < q[j].id

\* The stream and the timers of client k between two operations.
StatoSano(k) ==
  /\ k.is_network_enabled
  /\ k.token <=> k.stato = "Starting"
  /\ k.handshake_complete => k.stato = "Open"
  /\ k.write_pipeline # <<>> => IsStarted(k)
  /\ IsStarted(k) /\ ~k.handshake_complete => k.write_pipeline # <<>>
  /\ k.idleness_timer => k.handshake_complete /\ k.write_pipeline = <<>>
  /\ k.rotte = {}

\* The stream has broken, and the client has not read it yet.
Rotto(k) == k.risposte = <<<<"caduta", 0>>>>

\* On a stream whose handshake is done, requests and answers are the pipeline.
Allineato(k) ==
  /\ Len(k.risposte) + Len(k.richieste) = Len(k.write_pipeline)
  /\ \A i \in 1..Len(k.risposte) :
       /\ k.risposte[i][2] = k.write_pipeline[i].n
       /\ k.risposte[i][1] = "risultato" \/ (i = Len(k.risposte) /\ k.risposte[i][1] = "rifiuto")
  /\ \A i \in 1..Len(k.richieste) :
       k.richieste[i] = k.write_pipeline[Len(k.risposte) + i].n

\* What is under way on the stream.
FlussoSano(k) ==
  /\ k.stato # "Open" => k.richieste = <<>> /\ k.risposte = <<>>
  /\ k.stato = "Open" /\ ~k.handshake_complete =>
       \/ k.richieste = <<0>> /\ k.risposte = <<>>
       \/ k.richieste = <<>> /\ k.risposte = <<<<"handshake", 0>>>>
       \/ k.richieste = <<>> /\ Rotto(k)
  /\ k.handshake_complete =>
       \/ Allineato(k)
       \/ /\ Rotto(k)
          /\ \A i \in 1..Len(k.richieste) : \E j \in 1..Len(k.write_pipeline) :
               k.richieste[i] = k.write_pipeline[j].n

\* What the answers under way say is true.
RisposteVere ==
  \A i \in DOMAIN c.risposte :
    /\ c.risposte[i][1] = "risultato" => c.risposte[i][2] \in storia.eseguite
    /\ c.risposte[i][1] = "rifiuto" => c.risposte[i][2] \in storia.rifiutate

\* Ids: of every user, as far as the next one and as the number of writes issued.
IdSani ==
  /\ \A u \in Utente :
       /\ Ordinata(coda[u])
       /\ c.mutation_callbacks[u] \subseteq Identificativi(coda[u])
       /\ \A i \in DOMAIN coda[u] : coda[u][i].id < c.next_batch_id
  /\ \A u, v \in Utente :
       u # v => Identificativi(coda[u]) \cap Identificativi(coda[v]) = {}
  /\ c.next_batch_id <= Len(storia.autore) + 1

\* What the callbacks have told is true, of the writes still to come too.
NotizieVere ==
  \A n \in 1..MaxScritture :
    /\ storia.esito[n] = "ok" => n \in storia.eseguite
    /\ storia.esito[n] = "errore" => n \in storia.rifiutate

IInv ==
  /\ TypeOK
  /\ StatoSano(c)
  /\ c.write_pipeline = Davanti(Mia)
  /\ FlussoSano(c)
  /\ RisposteVere
  /\ IdSani
  /\ NotizieVere
  /\ EsitoVero

(***************************************************************************)
(* Least and greatest elements                                             *)
(***************************************************************************)
\* Every set of naturals has a least element.
LEMMA Minimo ==
  ASSUME NEW T \in SUBSET Nat, T # {}
  PROVE  \E x \in T : \A y \in T : x <= y
<1>1. \E R : IsWellFoundedOn(R, Nat) /\ \A x, y \in Nat : <<y, x>> \in R <=> y < x
  <2>1. \A x, y \in Nat : <<y, x>> \in OpToRel(<, Nat) <=> y < x
    BY DEF OpToRel
  <2>2. QED
    BY <2>1, NatLessThanWellFounded
<1>2. PICK R : IsWellFoundedOn(R, Nat) /\ \A x, y \in Nat : <<y, x>> \in R <=> y < x
  BY <1>1
<1>3. T \subseteq Nat
  OBVIOUS
<1>4. \E x \in T : \A y \in T : ~(<<y, x>> \in R)
  BY <1>2, <1>3, WFMin
<1>5. PICK x \in T : \A y \in T : ~(<<y, x>> \in R)
  BY <1>4
<1>6. x \in Nat /\ \A y \in T : y \in Nat
  OBVIOUS
<1>7. \A y \in T : ~(y < x)
  BY <1>2, <1>5, <1>6
<1>8. \A y \in T : x <= y
  BY <1>6, <1>7
<1>9. QED
  BY <1>8

\* Max of a bounded set of naturals is its greatest element.
LEMMA MassimoVale ==
  ASSUME NEW n \in Nat, NEW S \in SUBSET (0..n), S # {}
  PROVE  Max(S) \in S /\ \A y \in S : y <= Max(S)
<1> DEFINE T == {m \in Nat : \A y \in S : y <= m}
<1>1. n \in T
  OBVIOUS
<1>2. PICK m \in T : \A y \in T : m <= y
  BY <1>1, Minimo
<1>3. m \in S
  <2> SUFFICES ASSUME m \notin S PROVE FALSE
    OBVIOUS
  <2>1. PICK z \in S : TRUE
    OBVIOUS
  <2>2. m \in Nat /\ m # 0
    BY <2>1
  <2>3. m - 1 \in Nat /\ \A y \in S : y <= m - 1
    BY <2>2
  <2>4. m - 1 \in T
    BY <2>3
  <2>5. QED
    BY <1>2, <2>2, <2>4
<1>4. \E x \in S : \A y \in S : x >= y
  BY <1>3
<1>5. QED
  BY <1>4 DEF Max

(***************************************************************************)
(* Queues                                                                  *)
(***************************************************************************)
LEMMA CodaFatti ==
  ASSUME NEW q \in Seq(Batch)
  PROVE  /\ Len(q) \in Nat /\ DOMAIN q = 1..Len(q)
         /\ \A i \in 1..Len(q) :
              q[i] \in Batch /\ q[i].id \in Nat \ {0} /\ q[i].n \in 1..MaxScritture
<1>1. Len(q) \in Nat /\ DOMAIN q = 1..Len(q) /\ \A i \in 1..Len(q) : q[i] \in Batch
  OBVIOUS
<1>2. \A b \in Batch : b.id \in Nat \ {0} /\ b.n \in 1..MaxScritture
  BY DEF Batch
<1>3. QED
  BY <1>1, <1>2

\* In a queue in order, an iterator parts the smaller keys from the others.
LEMMA SeekVale ==
  ASSUME NEW q \in Seq(Batch), Ordinata(q), NEW id \in Nat
  PROVE  /\ Seek(q, id) \in 1..Len(q) + 1
         /\ \A i \in 1..Seek(q, id) - 1 : q[i].id < id
         /\ \A i \in Seek(q, id)..Len(q) : q[i].id >= id
<1>1. /\ Len(q) \in Nat /\ DOMAIN q = 1..Len(q)
      /\ \A i \in 1..Len(q) : q[i].id \in Nat
  BY CodaFatti
<1> DEFINE S == {i \in DOMAIN q : q[i].id >= id} \cup {Len(q) + 1}
<1>2. S \in SUBSET Nat /\ S # {} /\ \A i \in S : i \in 1..Len(q) + 1
  BY <1>1
<1>3. PICK m \in S : \A y \in S : m <= y
  BY <1>2, Minimo
<1>4. Seek(q, id) \in S /\ \A y \in S : Seek(q, id) <= y
  BY <1>3 DEF Seek, Min
<1>5. ASSUME NEW i \in 1..Seek(q, id) - 1 PROVE q[i].id < id
  <2>1. i \in 1..Len(q) /\ i \notin S
    BY <1>1, <1>2, <1>4
  <2>2. QED
    BY <1>1, <2>1
<1>6. ASSUME NEW i \in Seek(q, id)..Len(q) PROVE q[i].id >= id
  <2>1. i \in 1..Len(q) /\ Seek(q, id) \in 1..Len(q)
    BY <1>1, <1>2, <1>4
  <2>2. q[Seek(q, id)].id >= id
    BY <1>1, <1>4, <2>1
  <2>3. CASE i = Seek(q, id)
    BY <2>2, <2>3
  <2>4. CASE Seek(q, id) < i
    <3>1. q[Seek(q, id)].id < q[i].id
      BY <1>1, <2>1, <2>4 DEF Ordinata
    <3>2. QED
      BY <1>1, <2>1, <2>2, <3>1
  <2>5. QED
    BY <2>1, <2>3, <2>4
<1>7. QED
  BY <1>2, <1>4, <1>5, <1>6

\* Removing the batch at the front leaves the rest.
LEMMA TestaRimossa ==
  ASSUME NEW q \in Seq(Batch), q # <<>>, Ordinata(q)
  PROVE  RemoveMutationBatch(q, q[1].id) = Tail(q)
<1>1. Len(q) \in Nat \ {0} /\ DOMAIN q = 1..Len(q) /\ q[1].id \in Nat
  BY CodaFatti, EmptySeq
<1>2. q[1].id \in Identificativi(q)
  BY <1>1 DEF Identificativi, InCoda
<1>3. Seek(q, q[1].id) = 1
  <2>1. Seek(q, q[1].id) \in 1..Len(q) + 1
        /\ \A i \in 1..Seek(q, q[1].id) - 1 : q[i].id < q[1].id
    BY <1>1, SeekVale
  <2>2. QED
    BY <1>1, <2>1
<1>4. SubSeq(q, 1, 0) = <<>> /\ SubSeq(q, 2, Len(q)) = Tail(q)
  BY <1>1
<1>5. <<>> \o Tail(q) = Tail(q)
  BY <1>1
<1>6. QED
  BY <1>2, <1>3, <1>4, <1>5 DEF RemoveMutationBatch, RemoveAt

\* What follows the first m batches.
LEMMA DopoPrefisso ==
  ASSUME NEW q \in Seq(Batch), Ordinata(q), NEW m \in 0..Len(q),
         NEW id \in Nat, id = IF m = 0 THEN 0 ELSE q[m].id
  PROVE  DopoBatch(q, id) = SubSeq(q, m + 1, Len(q))
<1>1. /\ Len(q) \in Nat /\ DOMAIN q = 1..Len(q)
      /\ \A i \in 1..Len(q) : q[i].id \in Nat \ {0}
  BY CodaFatti
<1>2. /\ Seek(q, id + 1) \in 1..Len(q) + 1
      /\ \A i \in 1..Seek(q, id + 1) - 1 : q[i].id < id + 1
      /\ \A i \in Seek(q, id + 1)..Len(q) : q[i].id >= id + 1
  <2>1. id + 1 \in Nat
    OBVIOUS
  <2>2. QED
    BY <2>1, SeekVale
<1>3. \A i \in 1..Len(q) : i <= m => q[i].id <= id
  BY <1>1 DEF Ordinata
<1>4. \A i \in 1..Len(q) : m < i => id < q[i].id
  BY <1>1 DEF Ordinata
<1>5. Seek(q, id + 1) = m + 1
  <2>1. ~(Seek(q, id + 1) <= m)
    BY <1>1, <1>2, <1>3
  <2>2. ~(Seek(q, id + 1) > m + 1)
    BY <1>1, <1>2, <1>4
  <2>3. QED
    BY <1>1, <1>2, <2>1, <2>2
<1>6. QED
  BY <1>5 DEF DopoBatch

\* A full pipeline.
LEMMA DavantiFatti ==
  ASSUME NEW q \in Seq(Batch)
  PROVE  /\ Davanti(q) \in Seq(Batch) /\ Len(Davanti(q)) \in Nat
         /\ Len(Davanti(q)) = IF Len(q) < kMaxPendingWrites THEN Len(q) ELSE kMaxPendingWrites
         /\ Len(Davanti(q)) <= Len(q)
         /\ Davanti(q) = SubSeq(q, 1, Len(Davanti(q)))
         /\ \A i \in 1..Len(Davanti(q)) : Davanti(q)[i] = q[i]
         /\ Davanti(q) = <<>> <=> q = <<>>
<1> USE ClientAssumption
<1>1. Len(q) \in Nat
  BY CodaFatti
<1> DEFINE n == IF Len(q) < kMaxPendingWrites THEN Len(q) ELSE kMaxPendingWrites
<1>2. n \in 0..Len(q) /\ (n = 0 <=> Len(q) = 0) /\ Davanti(q) = SubSeq(q, 1, n)
  BY <1>1 DEF Davanti
<1> HIDE DEF n
<1>3. /\ SubSeq(q, 1, n) \in Seq(Batch) /\ Len(SubSeq(q, 1, n)) = n
      /\ \A i \in 1..n : SubSeq(q, 1, n)[i] = q[i]
  BY <1>1, <1>2
<1>4. SubSeq(q, 1, n) = <<>> <=> q = <<>>
  BY <1>1, <1>2, <1>3, EmptySeq
<1>5. QED
  BY <1>2, <1>3, <1>4 DEF n

LEMMA FunzioneSeq ==
  ASSUME NEW S, NEW n \in Nat, NEW f \in [1..n -> S]
  PROVE  f \in Seq(S) /\ Len(f) = n
  OBVIOUS

\* The numbers of batches b, and what they are behind requests m.
Numeri(b) == [i \in DOMAIN b |-> b[i].n]

LEMMA NumeriInFondo ==
  ASSUME NEW m \in Seq(0..MaxScritture), NEW b \in Seq(Batch)
  PROVE  /\ Numeri(b) \in Seq(0..MaxScritture) /\ Len(Numeri(b)) = Len(b)
         /\ \A i \in 1..Len(b) : Numeri(b)[i] = b[i].n
         /\ m \o Numeri(b) \in Seq(0..MaxScritture) /\ Len(m \o Numeri(b)) = Len(m) + Len(b)
         /\ \A i \in 1..Len(m) : (m \o Numeri(b))[i] = m[i]
         /\ \A i \in 1..Len(b) : (m \o Numeri(b))[Len(m) + i] = b[i].n
<1> DEFINE n == Numeri(b)
<1>1. /\ DOMAIN b = 1..Len(b) /\ Len(b) \in Nat /\ \A i \in 1..Len(b) : b[i].n \in 0..MaxScritture
  BY CodaFatti, ClientAssumption
<1>2. n \in [1..Len(b) -> 0..MaxScritture] /\ \A i \in 1..Len(b) : n[i] = b[i].n
  BY <1>1 DEF Numeri
<1> HIDE DEF n
<1>3. n \in Seq(0..MaxScritture) /\ Len(n) = Len(b)
  BY <1>1, <1>2, FunzioneSeq
<1>4. Len(m) \in Nat
  OBVIOUS
<1>5. /\ m \o n \in Seq(0..MaxScritture) /\ Len(m \o n) = Len(m) + Len(n)
      /\ \A i \in 1..Len(m) + Len(n) : (m \o n)[i] = IF i <= Len(m) THEN m[i] ELSE n[i - Len(m)]
  BY <1>3, ConcatProperties
<1>6. ASSUME NEW i \in 1..Len(m) PROVE (m \o n)[i] = m[i]
  BY <1>1, <1>3, <1>4, <1>5
<1>7. ASSUME NEW i \in 1..Len(b) PROVE (m \o n)[Len(m) + i] = b[i].n
  <2>1. Len(m) + i \in 1..Len(m) + Len(n) /\ ~(Len(m) + i <= Len(m)) /\ (Len(m) + i) - Len(m) = i
    BY <1>1, <1>3, <1>4
  <2>2. QED
    BY <1>2, <1>5, <2>1
<1>8. QED
  BY <1>2, <1>3, <1>5, <1>6, <1>7 DEF n

(***************************************************************************)
(* The client's methods, from one state k of its memory to the next, r     *)
(***************************************************************************)
LEMMA ClientFatti ==
  ASSUME NEW k \in Client
  PROVE  /\ k.current_user \in Utente /\ k.next_batch_id \in Nat \ {0}
         /\ k.mutation_callbacks \in [Utente -> SUBSET (Nat \ {0})]
         /\ k.write_pipeline \in Seq(Batch)
         /\ k.is_network_enabled \in BOOLEAN /\ k.handshake_complete \in BOOLEAN
         /\ k.idleness_timer \in BOOLEAN /\ k.token \in BOOLEAN /\ k.superato \in BOOLEAN
         /\ k.stato \in {"Initial", "Starting", "Open", "Backoff", "Error"}
         /\ k.richieste \in Seq(0..MaxScritture) /\ k.risposte \in Seq(Messaggio)
         /\ k.rotte \in SUBSET STRING
  BY DEF Client

\* The fields that filling the pipeline and starting the stream leave alone.
Quieti(k, r) ==
  /\ r.current_user = k.current_user /\ r.next_batch_id = k.next_batch_id
  /\ r.mutation_callbacks = k.mutation_callbacks
  /\ r.is_network_enabled = k.is_network_enabled
  /\ r.handshake_complete = k.handshake_complete
  /\ r.superato = k.superato /\ r.risposte = k.risposte /\ r.rotte = k.rotte

Riparte(k) == IF ShouldStartWriteStream(k) THEN StartWriteStream(k) ELSE k

\* The stream is started if there is something to send and it is not on its way.
LEMMA RiparteFatti ==
  ASSUME NEW k \in Client, k.is_network_enabled, NEW r, r = Riparte(k)
  PROVE  /\ r \in Client /\ Quieti(k, r)
         /\ r.write_pipeline = k.write_pipeline /\ r.richieste = k.richieste
         /\ r.idleness_timer = k.idleness_timer
         /\ k.write_pipeline = <<>> \/ IsStarted(k) => r.stato = k.stato /\ r.token = k.token
         /\ k.write_pipeline # <<>> /\ k.stato = "Initial" => r.stato = "Starting" /\ r.token
         /\ k.write_pipeline # <<>> /\ k.stato = "Error" =>
              r.stato = "Backoff" /\ r.token = k.token
<1>1. CASE ~ShouldStartWriteStream(k)
  <2>1. r = k
    BY <1>1 DEF Riparte
  <2>2. k.write_pipeline = <<>> \/ IsStarted(k)
    BY <1>1 DEF ShouldStartWriteStream
  <2>3. QED
    BY <2>1, <2>2 DEF Quieti, IsStarted
<1>2. CASE ShouldStartWriteStream(k)
  <2>1. k.write_pipeline # <<>> /\ ~IsStarted(k) /\ k.stato \in {"Initial", "Error"}
    BY <1>2 DEF ShouldStartWriteStream, IsStarted, Client
  <2>2. r = StreamStart(k)
    BY <1>2 DEF Riparte, StartWriteStream, HARD_ASSERT
  <2>3. CASE k.stato = "Error"
    <3>1. r = [k EXCEPT !.stato = "Backoff"]
      BY <2>2, <2>3 DEF StreamStart
    <3>2. r \in Client
      BY <3>1 DEF Client
    <3>3. /\ Quieti(k, r) /\ r.write_pipeline = k.write_pipeline /\ r.richieste = k.richieste
          /\ r.idleness_timer = k.idleness_timer /\ r.stato = "Backoff" /\ r.token = k.token
      BY <3>1 DEF Client, Quieti
    <3>4. QED
      BY <2>1, <2>3, <3>2, <3>3
  <2>4. CASE k.stato = "Initial"
    <3>1. r = [[k EXCEPT !.stato = "Starting"] EXCEPT !.token = TRUE]
      BY <2>2, <2>4 DEF StreamStart, HARD_ASSERT, RequestCredentials
    <3>2. r \in Client
      BY <3>1 DEF Client
    <3>3. /\ Quieti(k, r) /\ r.write_pipeline = k.write_pipeline /\ r.richieste = k.richieste
          /\ r.idleness_timer = k.idleness_timer /\ r.stato = "Starting" /\ r.token
      BY <3>1 DEF Client, Quieti
    <3>4. QED
      BY <2>1, <2>4, <3>2, <3>3
  <2>5. QED
    BY <2>1, <2>3, <2>4
<1>3. QED
  BY <1>1, <1>2

\* Batches go to the end of the pipeline, and are sent if the handshake is done.
LEMMA AggiungeFatti ==
  ASSUME NEW k \in Client, NEW b \in Seq(Batch), NEW r, r = AddToWritePipeline(k, b)
  PROVE  /\ r \in Client /\ Quieti(k, r)
         /\ r.write_pipeline = k.write_pipeline \o b
         /\ r.stato = k.stato /\ r.token = k.token
         /\ IsOpen(k) /\ k.handshake_complete =>
              /\ r.richieste = k.richieste \o Numeri(b)
              /\ b = <<>> => r.idleness_timer = k.idleness_timer
              /\ b # <<>> => ~r.idleness_timer
         /\ ~(IsOpen(k) /\ k.handshake_complete) =>
              r.richieste = k.richieste /\ r.idleness_timer = k.idleness_timer
<1> DEFINE n == Numeri(b)
           k1 == [k EXCEPT !.write_pipeline = @ \o b]
<1>1. k1 \in Client
  <2>1. k.write_pipeline \o b \in Seq(Batch)
    BY ClientFatti, ConcatProperties
  <2>2. \A p \in Seq(Batch) : [k EXCEPT !.write_pipeline = p] \in Client
    BY DEF Client
  <2>3. QED
    BY <2>1, <2>2
<1>2. /\ Quieti(k, k1) /\ k1.write_pipeline = k.write_pipeline \o b
      /\ k1.stato = k.stato /\ k1.token = k.token /\ k1.richieste = k.richieste
      /\ k1.idleness_timer = k.idleness_timer
  BY DEF Client, Quieti
<1> HIDE DEF k1
<1>3. CASE ~(IsOpen(k) /\ k.handshake_complete)
  <2>1. r = k1
    BY <1>3 DEF AddToWritePipeline, k1
  <2>2. QED
    BY <1>1, <1>2, <1>3, <2>1
<1>4. CASE IsOpen(k) /\ k.handshake_complete
  <2>1. IsOpen(k1) /\ k1.handshake_complete
    BY <1>2, <1>4 DEF IsOpen, Quieti
  <2>2. r = WriteMutations(k1, b)
    BY <1>4 DEF AddToWritePipeline, k1
  <2>3. n \in Seq(0..MaxScritture) /\ Len(n) = Len(b)
    BY ClientFatti, NumeriInFondo
  <2>4. n = <<>> <=> b = <<>>
    BY <2>3, EmptySeq
  <2> HIDE DEF n
  <2>5. r = [k1 EXCEPT !.richieste = @ \o n,
                       !.idleness_timer = IF n = <<>> THEN @ ELSE FALSE]
    BY <2>1, <2>2 DEF WriteMutations, StreamWrite, HARD_ASSERT, n, Numeri
  <2>6. r \in Client
    <3>1. k1.richieste \o n \in Seq(0..MaxScritture)
      BY <1>1, <2>3, ClientFatti, ConcatProperties
    <3>2. (IF n = <<>> THEN k1.idleness_timer ELSE FALSE) \in BOOLEAN
      BY <1>1, ClientFatti
    <3>3. \A m \in Seq(0..MaxScritture), i \in BOOLEAN :
            [k1 EXCEPT !.richieste = m, !.idleness_timer = i] \in Client
      BY <1>1 DEF Client
    <3>4. QED
      BY <2>5, <3>1, <3>2, <3>3
  <2>7. /\ Quieti(k1, r) /\ r.write_pipeline = k1.write_pipeline /\ r.stato = k1.stato
        /\ r.token = k1.token /\ r.richieste = k1.richieste \o n
        /\ r.idleness_timer = IF n = <<>> THEN k1.idleness_timer ELSE FALSE
    BY <1>1, <2>5 DEF Client, Quieti
  <2>8. Quieti(k, r)
    BY <1>2, <2>7 DEF Quieti
  <2>9. QED
    BY <1>2, <1>4, <2>4, <2>6, <2>7, <2>8 DEF n
<1>5. QED
  BY <1>3, <1>4

\* The first m batches of a queue, and those between m and n.
LEMMA PrefissoFatti ==
  ASSUME NEW q \in Seq(Batch), NEW m \in 0..Len(q), NEW n \in m..Len(q)
  PROVE  /\ SubSeq(q, m + 1, n) \in Seq(Batch) /\ Len(SubSeq(q, m + 1, n)) = n - m
         /\ \A i \in 1..n - m : SubSeq(q, m + 1, n)[i] = q[m + i]
         /\ SubSeq(q, 1, m) \o SubSeq(q, m + 1, n) = SubSeq(q, 1, n)
         /\ SubSeq(q, m + 1, n) = SubSeq(SubSeq(q, m + 1, Len(q)), 1, n - m)
<1>1. Len(q) \in Nat /\ m \in Nat /\ n \in Nat /\ \A i \in 1..Len(q) : q[i] \in Batch
  BY CodaFatti
<1> DEFINE p == SubSeq(q, m + 1, n)
           d == SubSeq(q, m + 1, Len(q))
<1>2. p \in Seq(Batch) /\ Len(p) = n - m /\ \A i \in 1..n - m : p[i] = q[m + i]
  BY <1>1
<1>3. SubSeq(q, 1, m) \o p = SubSeq(q, 1, n)
  BY <1>1
<1>4. d \in Seq(Batch) /\ Len(d) = Len(q) - m /\ \A i \in 1..Len(q) - m : d[i] = q[m + i]
  BY <1>1
<1> HIDE DEF d, p
<1>5. /\ SubSeq(d, 1, n - m) \in Seq(Batch) /\ Len(SubSeq(d, 1, n - m)) = n - m
      /\ \A i \in 1..n - m : SubSeq(d, 1, n - m)[i] = d[i]
  BY <1>1, <1>4
<1>6. \A i \in 1..n - m : SubSeq(d, 1, n - m)[i] = p[i]
  BY <1>1, <1>2, <1>4, <1>5
<1>7. p = SubSeq(d, 1, n - m)
  BY <1>1, <1>2, <1>5, <1>6, SeqEqual
<1>8. QED
  BY <1>2, <1>3, <1>7 DEF d, p

\* The pipeline of k holds the front of queue q, as far as it goes.
Avanza(k, q) ==
  /\ k.is_network_enabled
  /\ Len(k.write_pipeline) <= Len(Davanti(q))
  /\ k.write_pipeline = SubSeq(q, 1, Len(k.write_pipeline))

\* FillWritePipeline from k on queue q, up to the start of the stream.
Riempita(k, q, r) ==
  LET m == Len(k.write_pipeline)
      d == Davanti(q)
  IN /\ r \in Client /\ Quieti(k, r)
     /\ r.write_pipeline = d
     /\ r.stato = k.stato /\ r.token = k.token
     /\ IsOpen(k) /\ k.handshake_complete =>
          /\ Len(r.richieste) = Len(k.richieste) + Len(d) - m
          /\ \A i \in 1..Len(k.richieste) : r.richieste[i] = k.richieste[i]
          /\ \A i \in 1..Len(d) - m : r.richieste[Len(k.richieste) + i] = q[m + i].n
          /\ r.idleness_timer => q = <<>> \/ (m = Len(d) /\ k.idleness_timer)
     /\ ~(IsOpen(k) /\ k.handshake_complete) => r.richieste = k.richieste
     /\ ~k.handshake_complete /\ q # <<>> => r.idleness_timer = k.idleness_timer
     /\ ~IsOpen(k) => r.idleness_timer = k.idleness_timer

\* The batches that FillWritePipeline takes of queue q behind pipeline w.
Ultimo(w) == IF w = <<>> THEN 0 ELSE Last(w).id
Nuovi(w, q) ==
  LET dopo == DopoBatch(q, Ultimo(w))
      posti == kMaxPendingWrites - Len(w)
  IN SubSeq(dopo, 1, IF Len(dopo) < posti THEN Len(dopo) ELSE posti)

LEMMA NuoviFatti ==
  ASSUME NEW q \in Seq(Batch), Ordinata(q), NEW w \in Seq(Batch),
         Len(w) <= Len(Davanti(q)), w = SubSeq(q, 1, Len(w))
  PROVE  /\ Nuovi(w, q) \in Seq(Batch) /\ Len(Nuovi(w, q)) = Len(Davanti(q)) - Len(w)
         /\ w \o Nuovi(w, q) = Davanti(q)
         /\ \A i \in 1..Len(Davanti(q)) - Len(w) : Nuovi(w, q)[i] = q[Len(w) + i]
         /\ w = <<>> /\ DopoBatch(q, Ultimo(w)) = <<>> <=> q = <<>>
<1> USE ClientAssumption
<1> DEFINE m == Len(w)
           d == Davanti(q)
           dopo == DopoBatch(q, Ultimo(w))
           posti == kMaxPendingWrites - Len(w)
<1>1. /\ m \in Nat /\ Len(q) \in Nat
      /\ \A i \in 1..Len(q) : q[i] \in Batch /\ q[i].id \in Nat
  BY CodaFatti
<1>2. /\ Len(d) \in Nat /\ Len(d) <= Len(q) /\ d = SubSeq(q, 1, Len(d))
      /\ Len(d) = IF Len(q) < kMaxPendingWrites THEN Len(q) ELSE kMaxPendingWrites
  BY DavantiFatti
<1> HIDE DEF d
<1>3. m \in 0..Len(q) /\ Len(q) \in m..Len(q) /\ Len(d) \in m..Len(q)
  BY <1>1, <1>2 DEF d
<1>4. Ultimo(w) \in Nat /\ Ultimo(w) = IF m = 0 THEN 0 ELSE q[m].id
  <2>1. w = <<>> <=> m = 0
    BY <1>1, EmptySeq
  <2>2. CASE m # 0
    <3>1. w[m] = q[m] /\ m \in 1..Len(q)
      BY <1>1, <1>3, <2>2
    <3>2. QED
      BY <1>1, <2>1, <2>2, <3>1 DEF Last, Ultimo
  <2>3. QED
    BY <2>1, <2>2 DEF Ultimo
<1>5. dopo = SubSeq(q, m + 1, Len(q)) /\ Len(dopo) = Len(q) - m /\ dopo \in Seq(Batch)
  <2>1. dopo = SubSeq(q, m + 1, Len(q))
    BY <1>3, <1>4, DopoPrefisso
  <2>2. QED
    BY <1>3, <2>1, PrefissoFatti
<1>6. w = <<>> /\ dopo = <<>> <=> q = <<>>
  <2>1. (w = <<>> <=> m = 0) /\ (q = <<>> <=> Len(q) = 0) /\ (dopo = <<>> <=> Len(dopo) = 0)
    BY <1>1, <1>5, EmptySeq
  <2>2. QED
    BY <1>1, <1>3, <1>5, <2>1
<1> HIDE DEF dopo
<1>7. (IF Len(dopo) < posti THEN Len(dopo) ELSE posti) = Len(d) - m
  BY <1>1, <1>2, <1>3, <1>5
<1>8. Nuovi(w, q) = SubSeq(SubSeq(q, m + 1, Len(q)), 1, Len(d) - m)
  <2>1. Nuovi(w, q) = SubSeq(dopo, 1, IF Len(dopo) < posti THEN Len(dopo) ELSE posti)
    BY DEF Nuovi, dopo
  <2>2. QED
    BY <1>5, <1>7, <2>1
<1> DEFINE n == Len(d)
<1>9. /\ Nuovi(w, q) \in Seq(Batch) /\ Len(Nuovi(w, q)) = n - m
      /\ \A i \in 1..n - m : Nuovi(w, q)[i] = q[m + i]
      /\ SubSeq(q, 1, m) \o Nuovi(w, q) = SubSeq(q, 1, n)
  <2>1. n \in m..Len(q) /\ m \in 0..Len(q)
    BY <1>3
  <2> HIDE DEF n, m
  <2>2. /\ SubSeq(q, m + 1, n) \in Seq(Batch) /\ Len(SubSeq(q, m + 1, n)) = n - m
        /\ \A i \in 1..n - m : SubSeq(q, m + 1, n)[i] = q[m + i]
        /\ SubSeq(q, 1, m) \o SubSeq(q, m + 1, n) = SubSeq(q, 1, n)
        /\ SubSeq(q, m + 1, n) = SubSeq(SubSeq(q, m + 1, Len(q)), 1, n - m)
    BY <2>1, PrefissoFatti
  <2>3. Nuovi(w, q) = SubSeq(q, m + 1, n)
    BY <1>8, <2>2 DEF n
  <2>4. QED
    BY <2>2, <2>3
<1>10. w \o Nuovi(w, q) = d
  BY <1>2, <1>9
<1>11. QED
  BY <1>6, <1>9, <1>10 DEF d, dopo

LEMMA RiempieConBatch ==
  ASSUME NEW k \in Client, NEW q \in Seq(Batch), q # <<>>,
         NEW b \in Seq(Batch), Len(b) = Len(Davanti(q)) - Len(k.write_pipeline),
         k.write_pipeline \o b = Davanti(q),
         \A i \in 1..Len(b) : b[i] = q[Len(k.write_pipeline) + i],
         NEW r, r = AddToWritePipeline(k, b)
  PROVE  Riempita(k, q, r)
<1> DEFINE s == k.richieste \o Numeri(b)
<1>1. /\ r \in Client /\ Quieti(k, r)
      /\ r.write_pipeline = Davanti(q) /\ r.stato = k.stato /\ r.token = k.token
      /\ ~(IsOpen(k) /\ k.handshake_complete) =>
           r.richieste = k.richieste /\ r.idleness_timer = k.idleness_timer
  BY AggiungeFatti
<1>2. IsOpen(k) /\ k.handshake_complete =>
        /\ r.richieste = s
        /\ b = <<>> => r.idleness_timer = k.idleness_timer
        /\ b # <<>> => ~r.idleness_timer
  BY AggiungeFatti
<1>3. /\ Len(s) = Len(k.richieste) + Len(b)
      /\ \A i \in 1..Len(k.richieste) : s[i] = k.richieste[i]
      /\ \A i \in 1..Len(b) : s[Len(k.richieste) + i] = b[i].n
  BY ClientFatti, NumeriInFondo
<1> HIDE DEF s
<1>4. /\ Len(k.write_pipeline) \in Nat /\ Len(k.richieste) \in Nat /\ Len(Davanti(q)) \in Nat
      /\ Len(b) \in Nat /\ (b = <<>> => Len(b) = 0)
  <2>1. Len(k.write_pipeline) \in Nat /\ Len(k.richieste) \in Nat
    BY ClientFatti
  <2>2. Len(Davanti(q)) \in Nat
    BY DavantiFatti
  <2>3. Len(b) \in Nat /\ (b = <<>> => Len(b) = 0)
    OBVIOUS
  <2>4. QED
    BY <2>1, <2>2, <2>3
<1>5. b = <<>> => Len(k.write_pipeline) = Len(Davanti(q))
  BY <1>4
<1>6. /\ Len(s) = Len(k.richieste) + Len(Davanti(q)) - Len(k.write_pipeline)
      /\ \A i \in 1..Len(Davanti(q)) - Len(k.write_pipeline) :
           s[Len(k.richieste) + i] = q[Len(k.write_pipeline) + i].n
  BY <1>3, <1>4
<1>7. QED
  BY <1>1, <1>2, <1>3, <1>5, <1>6 DEF Riempita, IsOpen

LEMMA RiempieFatti ==
  ASSUME NEW k \in Client, NEW q \in Seq(Batch), Ordinata(q), Avanza(k, q)
  PROVE  \E r : Riempita(k, q, r) /\ FillWritePipeline(k, q) = Riparte(r)
<1> DEFINE w == k.write_pipeline
           b == Nuovi(w, q)
           r == IF w = <<>> /\ DopoBatch(q, Ultimo(w)) = <<>> THEN MarkIdle(k)
                ELSE AddToWritePipeline(k, b)
<1>1. w \in Seq(Batch) /\ Len(w) \in Nat /\ k.richieste \in Seq(0..MaxScritture)
      /\ Len(k.richieste) \in Nat /\ Len(Davanti(q)) \in Nat
  BY ClientFatti, DavantiFatti
<1>2. /\ b \in Seq(Batch) /\ Len(b) = Len(Davanti(q)) - Len(w) /\ w \o b = Davanti(q)
      /\ \A i \in 1..Len(Davanti(q)) - Len(w) : b[i] = q[Len(w) + i]
      /\ w = <<>> /\ DopoBatch(q, Ultimo(w)) = <<>> <=> q = <<>>
  BY <1>1, NuoviFatti DEF Avanza
<1>3. FillWritePipeline(k, q) = Riparte(r)
  BY DEF FillWritePipeline, Avanza, Riparte, Nuovi, Ultimo
<1>4. ASSUME q = <<>> PROVE Riempita(k, q, r)
  <2>1. r = MarkIdle(k) /\ w = <<>> /\ Davanti(q) = <<>> /\ Len(w) = 0 /\ Len(Davanti(q)) = 0
    BY <1>2, <1>4, DavantiFatti
  <2> HIDE DEF r, b
  <2>2. CASE ~IsOpen(k)
    <3>1. r = k
      BY <2>1, <2>2 DEF MarkIdle
    <3>2. QED
      BY <1>4, <2>1, <2>2, <3>1 DEF Riempita, Quieti
  <2>3. CASE IsOpen(k)
    <3>1. r = [k EXCEPT !.idleness_timer = TRUE]
      BY <2>1, <2>3 DEF MarkIdle
    <3>2. /\ r \in Client /\ Quieti(k, r) /\ r.write_pipeline = k.write_pipeline
          /\ r.richieste = k.richieste /\ r.stato = k.stato /\ r.token = k.token
      BY <3>1 DEF Client, Quieti
    <3>3. QED
      BY <1>1, <1>4, <2>1, <2>3, <3>2 DEF Riempita
  <2>4. QED
    BY <2>2, <2>3
<1>5. ASSUME q # <<>> PROVE Riempita(k, q, r)
  <2>1. r = AddToWritePipeline(k, b)
    BY <1>2, <1>5
  <2> HIDE DEF r, b
  <2>2. QED
    BY <1>2, <1>5, <2>1, RiempieConBatch
<1>6. QED
  BY <1>3, <1>4, <1>5

\* What is under way on the stream still fits the pipeline when it has grown.
LEMMA FlussoCresce ==
  ASSUME NEW k \in Client, NEW q \in Seq(Batch), Avanza(k, q), StatoSano(k), FlussoSano(k),
         NEW r, Riempita(k, q, r), k.handshake_complete
  PROVE  Allineato(r) \/
         (Rotto(r) /\ \A i \in 1..Len(r.richieste) : \E j \in 1..Len(r.write_pipeline) :
                        r.richieste[i] = r.write_pipeline[j].n)
<1> DEFINE w == k.write_pipeline
           m == Len(w)
           d == Davanti(q)
           a == Len(k.risposte)
           b == Len(k.richieste)
<1>1. m \in Nat /\ a \in Nat /\ b \in Nat
  BY ClientFatti
<1>2. /\ Len(d) \in Nat /\ Len(d) <= Len(q) /\ Len(q) \in Nat
      /\ \A i \in 1..Len(d) : d[i] = q[i]
  BY DavantiFatti, CodaFatti
<1>3. m <= Len(d) /\ \A i \in 1..m : w[i] = q[i]
  <2>1. m <= Len(d) /\ w = SubSeq(q, 1, m)
    BY DEF Avanza
  <2> HIDE DEF w, d
  <2>2. \A i \in 1..m : SubSeq(q, 1, m)[i] = q[i]
    BY <1>1, <1>2, <2>1
  <2>3. QED
    BY <2>1, <2>2
<1>4. /\ r.write_pipeline = d /\ r.risposte = k.risposte
      /\ Len(r.richieste) = b + Len(d) - m
      /\ \A i \in 1..b : r.richieste[i] = k.richieste[i]
      /\ \A i \in 1..Len(d) - m : r.richieste[b + i] = q[m + i].n
  BY DEF Riempita, Quieti, StatoSano, IsOpen
<1> HIDE DEF w, d
<1>5. ASSUME Allineato(k) PROVE Allineato(r)
  <2>1. /\ a + b = m
        /\ \A i \in 1..a :
             /\ k.risposte[i][2] = w[i].n
             /\ k.risposte[i][1] = "risultato" \/ (i = a /\ k.risposte[i][1] = "rifiuto")
        /\ \A i \in 1..b : k.richieste[i] = w[a + i].n
    BY <1>5 DEF Allineato, w
  <2> HIDE DEF a, b, m
  <2>2. \A i \in 1..a : k.risposte[i][2] = d[i].n
    BY <1>1, <1>2, <1>3, <2>1
  <2>3. ASSUME NEW i \in 1..b + Len(d) - m PROVE r.richieste[i] = d[a + i].n
    <3>1. CASE i <= b
      <4>1. i \in 1..b /\ a + i \in 1..m /\ a + i \in 1..Len(d)
        BY <1>1, <1>2, <1>3, <2>1, <3>1
      <4>2. QED
        BY <1>2, <1>3, <1>4, <2>1, <4>1
    <3>2. CASE ~(i <= b)
      <4>1. i - b \in 1..Len(d) - m /\ b + (i - b) = i /\ m + (i - b) = a + i /\ a + i \in 1..Len(d)
        BY <1>1, <1>2, <1>3, <2>1, <3>2
      <4>2. r.richieste[b + (i - b)] = q[m + (i - b)].n
        BY <1>4, <4>1
      <4>3. QED
        BY <1>2, <4>1, <4>2
    <3>3. QED
      BY <3>1, <3>2
  <2>4. a + (b + Len(d) - m) = Len(d)
    BY <1>1, <1>2, <2>1
  <2>5. QED
    BY <1>4, <2>1, <2>2, <2>3, <2>4 DEF Allineato, a
<1>6. ASSUME Rotto(k), \A i \in 1..Len(k.richieste) : \E j \in 1..Len(k.write_pipeline) :
                         k.richieste[i] = k.write_pipeline[j].n
      PROVE  Rotto(r) /\ \A i \in 1..Len(r.richieste) : \E j \in 1..Len(r.write_pipeline) :
                           r.richieste[i] = r.write_pipeline[j].n
  <2>1. Rotto(r)
    BY <1>4, <1>6 DEF Rotto
  <2>2. \A i \in 1..b : \E j \in 1..m : k.richieste[i] = w[j].n
    BY <1>6 DEF w
  <2> HIDE DEF a, b, m
  <2>3. ASSUME NEW i \in 1..b + Len(d) - m
        PROVE  \E j \in 1..Len(d) : r.richieste[i] = d[j].n
    <3>1. CASE i <= b
      <4>1. i \in 1..b
        BY <1>1, <3>1
      <4>2. PICK j \in 1..m : k.richieste[i] = w[j].n
        BY <2>2, <4>1
      <4>3. j \in 1..Len(d) /\ w[j] = d[j]
        BY <1>1, <1>2, <1>3, <4>2
      <4>4. QED
        BY <1>4, <4>1, <4>2, <4>3
    <3>2. CASE ~(i <= b)
      <4>1. i - b \in 1..Len(d) - m /\ b + (i - b) = i /\ m + (i - b) \in 1..Len(d)
        BY <1>1, <1>2, <1>3, <3>2
      <4>2. r.richieste[b + (i - b)] = q[m + (i - b)].n
        BY <1>4, <4>1
      <4>3. QED
        BY <1>2, <4>1, <4>2
    <3>3. QED
      BY <3>1, <3>2
  <2>4. QED
    BY <1>4, <2>1, <2>3
<1>7. QED
  BY <1>5, <1>6 DEF FlussoSano

\* From a sane state, filling the pipeline leads to a sane state with a full pipeline.
LEMMA RiempieSano ==
  ASSUME NEW k \in Client, NEW q \in Seq(Batch), Ordinata(q), Avanza(k, q),
         StatoSano(k), FlussoSano(k), NEW f, f = FillWritePipeline(k, q)
  PROVE  /\ f \in Client /\ Quieti(k, f) /\ f.write_pipeline = Davanti(q)
         /\ StatoSano(f) /\ FlussoSano(f)
<1>1. PICK r : Riempita(k, q, r) /\ f = Riparte(r)
  BY RiempieFatti
<1>2. /\ r \in Client /\ Quieti(k, r) /\ r.write_pipeline = Davanti(q)
      /\ r.stato = k.stato /\ r.token = k.token
  BY <1>1 DEF Riempita
<1>3. /\ f \in Client /\ Quieti(r, f) /\ f.write_pipeline = r.write_pipeline
      /\ f.richieste = r.richieste /\ f.idleness_timer = r.idleness_timer
      /\ r.write_pipeline = <<>> \/ IsStarted(r) => f.stato = r.stato /\ f.token = r.token
      /\ r.write_pipeline # <<>> /\ r.stato = "Initial" => f.stato = "Starting" /\ f.token
      /\ r.write_pipeline # <<>> /\ r.stato = "Error" => f.stato = "Backoff" /\ f.token = r.token
  <2>1. r.is_network_enabled
    BY <1>2 DEF Quieti, StatoSano
  <2>2. QED
    BY <1>1, <1>2, <2>1, RiparteFatti
<1>4. Quieti(k, f)
  BY <1>2, <1>3 DEF Quieti
<1>5. k.write_pipeline # <<>> => Davanti(q) # <<>> /\ q # <<>>
  <2>1. Len(k.write_pipeline) \in Nat /\ (k.write_pipeline # <<>> => Len(k.write_pipeline) # 0)
    BY ClientFatti, EmptySeq
  <2>2. Len(k.write_pipeline) <= Len(Davanti(q)) /\ Len(Davanti(q)) \in Nat
        /\ (Davanti(q) = <<>> => Len(Davanti(q)) = 0) /\ (Davanti(q) = <<>> <=> q = <<>>)
    BY DavantiFatti DEF Avanza
  <2>3. QED
    BY <2>1, <2>2
<1>6. f.idleness_timer => f.handshake_complete /\ f.write_pipeline = <<>>
  <2> SUFFICES ASSUME r.idleness_timer
               PROVE  k.handshake_complete /\ Davanti(q) = <<>>
    BY <1>2, <1>3, <1>4 DEF Quieti
  <2>1. CASE IsOpen(k) /\ k.handshake_complete
    <3>1. q = <<>> \/ (Len(k.write_pipeline) = Len(Davanti(q)) /\ k.idleness_timer)
      BY <1>1, <2>1 DEF Riempita
    <3>2. CASE q = <<>>
      BY <2>1, <3>2, DavantiFatti
    <3>3. CASE Len(k.write_pipeline) = Len(Davanti(q)) /\ k.idleness_timer
      <4>1. Len(Davanti(q)) = 0 /\ Davanti(q) \in Seq(Batch)
        BY <3>3, DavantiFatti DEF StatoSano
      <4>2. QED
        BY <2>1, <4>1, EmptySeq
    <3>4. QED
      BY <3>1, <3>2, <3>3
  <2>2. CASE IsOpen(k) /\ ~k.handshake_complete
    <3>1. k.write_pipeline # <<>>
      BY <2>2 DEF StatoSano, IsStarted, IsOpen
    <3>2. k.idleness_timer
      BY <1>1, <1>5, <2>2, <3>1 DEF Riempita
    <3>3. QED
      BY <2>2, <3>2 DEF StatoSano
  <2>3. CASE ~IsOpen(k)
    <3>1. k.idleness_timer
      BY <1>1, <2>3 DEF Riempita
    <3>2. QED
      BY <2>3, <3>1 DEF StatoSano, IsOpen
  <2>4. QED
    BY <2>1, <2>2, <2>3
<1>7. k.stato \in {"Initial", "Starting", "Open", "Backoff", "Error"}
  BY ClientFatti
<1>8. StatoSano(f)
  <2>1. /\ f.is_network_enabled /\ f.rotte = {}
        /\ f.handshake_complete = k.handshake_complete
        /\ k.handshake_complete => k.stato = "Open"
        /\ k.token <=> k.stato = "Starting"
        /\ k.write_pipeline # <<>> => IsStarted(k)
        /\ IsStarted(k) /\ ~k.handshake_complete => k.write_pipeline # <<>>
    BY <1>4 DEF Quieti, StatoSano
  <2>2. CASE IsStarted(k)
    <3>1. f.stato = k.stato /\ (f.token <=> k.token) /\ IsStarted(f)
      BY <1>2, <1>3, <2>2 DEF IsStarted
    <3>2. IsStarted(f) /\ ~f.handshake_complete => f.write_pipeline # <<>>
      BY <1>2, <1>3, <1>5, <2>1, <2>2
    <3>3. QED
      BY <1>6, <2>1, <3>1, <3>2 DEF StatoSano
  <2>3. CASE ~IsStarted(k)
    <3>1. k.stato \in {"Initial", "Error"} /\ ~k.handshake_complete /\ ~k.token
      BY <1>7, <2>1, <2>3 DEF IsStarted
    <3>2. CASE r.write_pipeline = <<>>
      <4>1. f.stato = k.stato /\ (f.token <=> k.token) /\ ~IsStarted(f) /\ f.write_pipeline = <<>>
        BY <1>2, <1>3, <2>3, <3>2 DEF IsStarted
      <4>2. QED
        BY <1>6, <2>1, <3>1, <4>1 DEF StatoSano
    <3>3. CASE r.write_pipeline # <<>>
      <4>1. /\ f.stato \in {"Starting", "Backoff"} /\ f.write_pipeline # <<>>
            /\ (f.token <=> f.stato = "Starting")
        BY <1>2, <1>3, <3>1, <3>3
      <4>2. QED
        BY <1>6, <2>1, <3>1, <4>1 DEF StatoSano, IsStarted
    <3>4. QED
      BY <3>2, <3>3
  <2>4. QED
    BY <2>2, <2>3
<1>9. FlussoSano(f)
  <2>1. f.risposte = k.risposte /\ f.handshake_complete = k.handshake_complete
        /\ f.richieste = r.richieste /\ f.write_pipeline = r.write_pipeline
        /\ r.risposte = k.risposte
    BY <1>2, <1>3, <1>4 DEF Quieti
  <2>2. f.stato = "Open" <=> k.stato = "Open"
    BY <1>2, <1>3, <1>7 DEF IsStarted
  <2>3. ~(IsOpen(k) /\ k.handshake_complete) => f.richieste = k.richieste
    BY <1>1, <2>1 DEF Riempita
  <2>4. f.stato # "Open" => f.richieste = <<>> /\ f.risposte = <<>>
    BY <2>1, <2>2, <2>3 DEF FlussoSano, IsOpen
  <2>5. f.stato = "Open" /\ ~f.handshake_complete =>
          \/ f.richieste = <<0>> /\ f.risposte = <<>>
          \/ f.richieste = <<>> /\ f.risposte = <<<<"handshake", 0>>>>
          \/ f.richieste = <<>> /\ Rotto(f)
    BY <2>1, <2>2, <2>3 DEF FlussoSano, Rotto
  <2>6. ASSUME f.handshake_complete
        PROVE  Allineato(f) \/
               (Rotto(f) /\ \A i \in 1..Len(f.richieste) : \E j \in 1..Len(f.write_pipeline) :
                              f.richieste[i] = f.write_pipeline[j].n)
    <3>1. k.handshake_complete
      BY <2>1, <2>6
    <3>2. Allineato(r) \/
          (Rotto(r) /\ \A i \in 1..Len(r.richieste) : \E j \in 1..Len(r.write_pipeline) :
                         r.richieste[i] = r.write_pipeline[j].n)
      BY <1>1, <3>1, FlussoCresce
    <3>3. Allineato(r) => Allineato(f)
      <4>1. f.risposte = r.risposte /\ f.richieste = r.richieste
            /\ f.write_pipeline = r.write_pipeline
        BY <2>1
      <4>2. QED
        BY ONLY <4>1 DEF Allineato
    <3>4. Rotto(r) => Rotto(f)
      BY <2>1 DEF Rotto
    <3>5. QED
      BY <2>1, <3>2, <3>3, <3>4
  <2>7. QED
    BY <2>4, <2>5, <2>6 DEF FlussoSano
<1>10. QED
  BY <1>2, <1>3, <1>4, <1>8, <1>9

(***************************************************************************)
(* Ends of a stream                                                        *)
(***************************************************************************)
\* The fields that identify batches and their owner.
Conservati(k, r) ==
  /\ r.current_user = k.current_user /\ r.next_batch_id = k.next_batch_id
  /\ r.mutation_callbacks = k.mutation_callbacks

\* A stream that is gone with all that was under way on it.
Spenta(r) ==
  /\ r.richieste = <<>> /\ r.risposte = <<>> /\ ~r.idleness_timer /\ r.rotte = {}

\* What Close hands to the listener.
Interrotta(k, status) ==
  [k EXCEPT !.idleness_timer = FALSE, !.token = FALSE, !.superato = @ \/ k.token,
            !.richieste = <<>>, !.risposte = <<>>,
            !.stato = IF status = "ok" THEN "Initial" ELSE "Error"]

LEMMA InterrottaFatti ==
  ASSUME NEW k \in Client, k.rotte = {}, NEW status, NEW r, r = Interrotta(k, status)
  PROVE  /\ r \in Client /\ Conservati(k, r) /\ Spenta(r) /\ ~r.token
         /\ r.write_pipeline = k.write_pipeline
         /\ r.is_network_enabled = k.is_network_enabled
         /\ r.handshake_complete = k.handshake_complete
         /\ r.stato = IF status = "ok" THEN "Initial" ELSE "Error"
<1>1. r \in Client
  <2>1. /\ (k.superato \/ k.token) \in BOOLEAN
        /\ <<>> \in Seq(0..MaxScritture) /\ <<>> \in Seq(Messaggio)
        /\ (IF status = "ok" THEN "Initial" ELSE "Error") \in
             {"Initial", "Starting", "Open", "Backoff", "Error"}
    BY EmptySeq
  <2>2. \A p \in BOOLEAN, s \in {"Initial", "Starting", "Open", "Backoff", "Error"} :
          [k EXCEPT !.idleness_timer = FALSE, !.token = FALSE, !.superato = p,
                    !.richieste = <<>>, !.risposte = <<>>, !.stato = s] \in Client
    BY <2>1 DEF Client
  <2>3. QED
    BY <2>1, <2>2 DEF Interrotta
<1>2. Conservati(k, r) /\ r.write_pipeline = k.write_pipeline
  BY DEF Conservati, Interrotta, Client
<1>3. Spenta(r) /\ ~r.token
  BY DEF Spenta, Interrotta, Client
<1>4. /\ r.is_network_enabled = k.is_network_enabled
      /\ r.handshake_complete = k.handshake_complete
      /\ r.stato = IF status = "ok" THEN "Initial" ELSE "Error"
  BY DEF Interrotta, Client
<1>5. QED
  BY <1>1, <1>2, <1>3, <1>4

\* The handshake is forgotten last.
LEMMA Dimenticata ==
  ASSUME NEW k \in Client, NEW r, r = [k EXCEPT !.handshake_complete = FALSE]
  PROVE  /\ r \in Client /\ ~r.handshake_complete /\ Conservati(k, r)
         /\ r.write_pipeline = k.write_pipeline
         /\ r.is_network_enabled = k.is_network_enabled
         /\ r.stato = k.stato /\ r.token = k.token /\ r.richieste = k.richieste
         /\ r.risposte = k.risposte /\ r.idleness_timer = k.idleness_timer
         /\ r.rotte = k.rotte
<1>1. r \in Client
  BY DEF Client
<1>2. QED
  BY DEF Client, Conservati

\* A client without stream, or with one that has just been started, is sane.
LEMMA SpentaSana ==
  ASSUME NEW r \in Client, Spenta(r), ~r.handshake_complete, r.is_network_enabled,
         r.token <=> r.stato = "Starting",
         \/ r.stato \in {"Starting", "Backoff"} /\ r.write_pipeline # <<>>
         \/ r.stato \in {"Initial", "Error"} /\ r.write_pipeline = <<>>
  PROVE  StatoSano(r) /\ FlussoSano(r)
  BY DEF StatoSano, FlussoSano, Spenta, IsStarted

\* The stream ends with a status that is not about a write.
LEMMA ChiudeCaduta ==
  ASSUME NEW k \in Client, k.rotte = {}, IsStarted(k), k.is_network_enabled,
         NEW q, NEW r, r = Close(k, "caduta", q)
  PROVE  /\ r \in Client /\ Conservati(k, r) /\ r.write_pipeline = k.write_pipeline
         /\ StatoSano(r) /\ FlussoSano(r) /\ r.risposte = <<>>
<1> DEFINE k1 == Interrotta(k, "caduta")
           k2 == Riparte(k1)
<1>1. r = [k2 EXCEPT !.handshake_complete = FALSE]
  BY DEF Close, OnWriteStreamClose, Rifiutata, HARD_ASSERT, Riparte, Interrotta
<1>2. /\ k1 \in Client /\ Conservati(k, k1) /\ Spenta(k1) /\ ~k1.token
      /\ k1.write_pipeline = k.write_pipeline /\ k1.is_network_enabled /\ k1.stato = "Error"
  BY InterrottaFatti
<1> HIDE DEF k1
<1>3. /\ k2 \in Client /\ Quieti(k1, k2)
      /\ k2.write_pipeline = k1.write_pipeline /\ k2.richieste = k1.richieste
      /\ k2.idleness_timer = k1.idleness_timer
      /\ k1.write_pipeline = <<>> => k2.stato = k1.stato /\ k2.token = k1.token
      /\ k1.write_pipeline # <<>> => k2.stato = "Backoff" /\ k2.token = k1.token
  BY <1>2, RiparteFatti
<1> HIDE DEF k2
<1>4. /\ r \in Client /\ ~r.handshake_complete /\ Conservati(k2, r)
      /\ r.write_pipeline = k2.write_pipeline
      /\ r.is_network_enabled = k2.is_network_enabled
      /\ r.stato = k2.stato /\ r.token = k2.token /\ r.richieste = k2.richieste
      /\ r.risposte = k2.risposte /\ r.idleness_timer = k2.idleness_timer
      /\ r.rotte = k2.rotte
  BY <1>1, <1>3, Dimenticata
<1>5. Spenta(r) /\ r.is_network_enabled /\ r.write_pipeline = k.write_pipeline
  BY <1>2, <1>3, <1>4 DEF Spenta, Quieti
<1>6. Conservati(k, r)
  BY <1>2, <1>3, <1>4 DEF Conservati, Quieti
<1>7. /\ ~r.token /\ r.stato \in {"Backoff", "Error"}
      /\ r.write_pipeline = <<>> <=> r.stato = "Error"
  BY <1>2, <1>3, <1>4
<1>8. StatoSano(r) /\ FlussoSano(r)
  BY <1>4, <1>5, <1>7, SpentaSana
<1>9. QED
  BY <1>4, <1>5, <1>6, <1>8 DEF Spenta

\* The client closes the stream itself, because it is idle or has no network.
LEMMA ChiudeOk ==
  ASSUME NEW k \in Client, k.rotte = {}, IsStarted(k),
         ~k.is_network_enabled \/ k.write_pipeline = <<>>,
         NEW q, NEW r, r = Close(k, "ok", q)
  PROVE  /\ r \in Client /\ Conservati(k, r) /\ r.write_pipeline = k.write_pipeline
         /\ Spenta(r) /\ ~r.handshake_complete /\ ~r.token /\ r.stato = "Initial"
         /\ r.is_network_enabled = k.is_network_enabled
<1> DEFINE k1 == Interrotta(k, "ok")
<1>2. /\ k1 \in Client /\ Conservati(k, k1) /\ Spenta(k1) /\ ~k1.token
      /\ k1.write_pipeline = k.write_pipeline /\ k1.stato = "Initial"
      /\ k1.is_network_enabled = k.is_network_enabled
  BY InterrottaFatti
<1>3. ~ShouldStartWriteStream(k1)
  BY <1>2 DEF ShouldStartWriteStream
<1>1. r = [k1 EXCEPT !.handshake_complete = FALSE]
  <2>1. Close(k, "ok", q) = [OnWriteStreamClose(k1, "ok", q) EXCEPT !.handshake_complete = FALSE]
    BY DEF Close, HARD_ASSERT, Interrotta
  <2> HIDE DEF k1
  <2>2. OnWriteStreamClose(k1, "ok", q) = k1
    BY <1>3 DEF OnWriteStreamClose, HARD_ASSERT, Rifiutata
  <2>3. QED
    BY <2>1, <2>2
<1> HIDE DEF k1
<1>4. /\ r \in Client /\ ~r.handshake_complete /\ Conservati(k1, r)
      /\ r.write_pipeline = k1.write_pipeline
      /\ r.is_network_enabled = k1.is_network_enabled
      /\ r.stato = k1.stato /\ r.token = k1.token /\ r.richieste = k1.richieste
      /\ r.risposte = k1.risposte /\ r.idleness_timer = k1.idleness_timer
      /\ r.rotte = k1.rotte
  BY <1>1, <1>2, Dimenticata
<1>5. Spenta(r) /\ Conservati(k, r)
  BY <1>2, <1>4 DEF Spenta, Conservati
<1>6. QED
  BY <1>2, <1>4, <1>5

\* From a stopped stream, filling the pipeline starts one if there is a batch to send.
LEMMA RiempieDaFermo ==
  ASSUME NEW k \in Client, NEW q \in Seq(Batch), Ordinata(q), Avanza(k, q),
         Spenta(k), k.stato = "Initial", ~k.token, NEW f, f = FillWritePipeline(k, q)
  PROVE  /\ f \in Client /\ Quieti(k, f) /\ f.write_pipeline = Davanti(q) /\ Spenta(f)
         /\ Davanti(q) = <<>> => f.stato = "Initial" /\ ~f.token
         /\ Davanti(q) # <<>> => f.stato = "Starting" /\ f.token
<1>1. PICK r : Riempita(k, q, r) /\ f = Riparte(r)
  BY RiempieFatti
<1>2. /\ r \in Client /\ Quieti(k, r) /\ r.write_pipeline = Davanti(q)
      /\ r.stato = "Initial" /\ ~r.token /\ r.richieste = <<>> /\ ~r.idleness_timer
  BY <1>1 DEF Riempita, IsOpen, Spenta
<1>3. r.is_network_enabled
  BY <1>2 DEF Quieti, Avanza
<1>4. /\ f \in Client /\ Quieti(r, f) /\ f.write_pipeline = r.write_pipeline
      /\ f.richieste = r.richieste /\ f.idleness_timer = r.idleness_timer
      /\ r.write_pipeline = <<>> => f.stato = r.stato /\ f.token = r.token
      /\ r.write_pipeline # <<>> => f.stato = "Starting" /\ f.token
  BY <1>1, <1>2, <1>3, RiparteFatti
<1>5. Quieti(k, f) /\ Spenta(f)
  BY <1>2, <1>4 DEF Quieti, Spenta
<1>6. QED
  BY <1>2, <1>4, <1>5

\* The pipeline's own batches are the front of the queue without its head.
LEMMA AvanzaCoda ==
  ASSUME NEW w \in Seq(Batch), NEW q \in Seq(Batch), w # <<>>, w = Davanti(q)
  PROVE  /\ q # <<>> /\ w[1] = q[1] /\ Head(w) = q[1] /\ Head(q) = q[1] /\ q[1] \in Batch
         /\ Tail(q) \in Seq(Batch) /\ Tail(w) \in Seq(Batch)
         /\ Len(Tail(w)) <= Len(Davanti(Tail(q)))
         /\ Tail(w) = SubSeq(Tail(q), 1, Len(Tail(w)))
<1> USE ClientAssumption
<1>1. /\ Len(q) \in Nat \ {0} /\ q # <<>> /\ Len(w) \in Nat \ {0}
      /\ Len(w) = IF Len(q) < kMaxPendingWrites THEN Len(q) ELSE kMaxPendingWrites
      /\ Len(w) <= Len(q) /\ \A i \in 1..Len(w) : w[i] = q[i]
  <2>1. q # <<>> /\ Len(q) \in Nat \ {0} /\ Len(w) \in Nat \ {0}
    BY DavantiFatti, EmptySeq
  <2>2. QED
    BY <2>1, DavantiFatti
<1>2. /\ Tail(q) \in Seq(Batch) /\ Len(Tail(q)) = Len(q) - 1
      /\ \A i \in 1..Len(q) - 1 : Tail(q)[i] = q[i + 1]
  BY <1>1, HeadTailProperties
<1>3. /\ Tail(w) \in Seq(Batch) /\ Len(Tail(w)) = Len(w) - 1
      /\ \A i \in 1..Len(w) - 1 : Tail(w)[i] = w[i + 1]
  BY <1>1, HeadTailProperties
<1>4. Len(Tail(w)) <= Len(Davanti(Tail(q)))
  <2>1. Len(Davanti(Tail(q))) =
          IF Len(Tail(q)) < kMaxPendingWrites THEN Len(Tail(q)) ELSE kMaxPendingWrites
    BY <1>2, DavantiFatti
  <2>2. kMaxPendingWrites \in Nat
    OBVIOUS
  <2>3. CASE Len(q) - 1 < kMaxPendingWrites
    BY <1>1, <1>2, <1>3, <2>1, <2>2, <2>3
  <2>4. CASE ~(Len(q) - 1 < kMaxPendingWrites)
    BY <1>1, <1>2, <1>3, <2>1, <2>2, <2>4
  <2>5. QED
    BY <2>3, <2>4
<1>5. Tail(w) = SubSeq(Tail(q), 1, Len(Tail(w)))
  <2> DEFINE s == SubSeq(Tail(q), 1, Len(w) - 1)
  <2>1. /\ s \in Seq(Batch) /\ Len(s) = Len(w) - 1
        /\ \A i \in 1..Len(w) - 1 : s[i] = Tail(q)[i]
    BY <1>1, <1>2
  <2> HIDE DEF s
  <2>2. \A i \in 1..Len(w) - 1 : s[i] = Tail(w)[i]
    BY <1>1, <1>2, <1>3, <2>1
  <2>3. s = Tail(w)
    BY <1>3, <2>1, <2>2, SeqEqual
  <2>4. QED
    BY <1>3, <2>3 DEF s
<1>6. w[1] = q[1] /\ Head(w) = q[1] /\ Head(q) = q[1] /\ q[1] \in Batch
  BY <1>1
<1>7. QED
  BY <1>1, <1>2, <1>3, <1>4, <1>5, <1>6

LEMMA CodaOrdinata ==
  ASSUME NEW q \in Seq(Batch), q # <<>>, Ordinata(q)
  PROVE  Ordinata(Tail(q))
<1>1. /\ Len(q) \in Nat \ {0} /\ DOMAIN q = 1..Len(q)
      /\ Tail(q) \in Seq(Batch) /\ Len(Tail(q)) = Len(q) - 1
      /\ \A i \in 1..Len(q) - 1 : Tail(q)[i] = q[i + 1]
  BY HeadTailProperties, CodaFatti, EmptySeq
<1>2. DOMAIN Tail(q) = 1..Len(q) - 1
  BY <1>1
<1>3. ASSUME NEW i \in 1..Len(q) - 1, NEW j \in 1..Len(q) - 1, i < j
      PROVE  Tail(q)[i].id < Tail(q)[j].id
  <2>1. i + 1 \in DOMAIN q /\ j + 1 \in DOMAIN q /\ i + 1 < j + 1
    BY <1>1, <1>3
  <2>2. q[i + 1].id < q[j + 1].id
    BY <2>1 DEF Ordinata
  <2>3. QED
    BY <1>1, <2>2
<1>4. QED
  BY <1>2, <1>3 DEF Ordinata

\* The stream ends with a refusal: the front of the pipeline and its callback go.
LEMMA ChiudeRifiuto ==
  ASSUME NEW k \in Client, k.rotte = {}, IsStarted(k), k.is_network_enabled,
         k.handshake_complete, NEW p \in Seq(Batch), Ordinata(p),
         k.write_pipeline = Davanti(p), k.write_pipeline # <<>>,
         NEW r, r = Close(k, "rifiuto", Tail(p))
  PROVE  /\ r \in Client /\ r.current_user = k.current_user
         /\ r.next_batch_id = k.next_batch_id
         /\ r.mutation_callbacks =
              [k.mutation_callbacks EXCEPT ![k.current_user] = @ \ {p[1].id}]
         /\ r.write_pipeline = Davanti(Tail(p))
         /\ StatoSano(r) /\ FlussoSano(r) /\ r.risposte = <<>>
<1> DEFINE q == Tail(p)
           k1 == Interrotta(k, "rifiuto")
           b == Head(k1.write_pipeline)
           mc == [k1.mutation_callbacks EXCEPT ![k1.current_user] = @ \ {b.id}]
           k2 == [k1 EXCEPT !.write_pipeline = Tail(@), !.mutation_callbacks = mc]
           k3 == [k2 EXCEPT !.stato = "Initial"]
           k4 == FillWritePipeline(k3, q)
           k5 == Riparte(k4)
<1>1. /\ k1 \in Client /\ Conservati(k, k1) /\ Spenta(k1) /\ ~k1.token
      /\ k1.write_pipeline = k.write_pipeline /\ k1.is_network_enabled
      /\ k1.handshake_complete /\ k1.stato = "Error"
  BY InterrottaFatti
<1>2. r = [k5 EXCEPT !.handshake_complete = FALSE]
  <2>1. r = [OnWriteStreamClose(k1, "rifiuto", q) EXCEPT !.handshake_complete = FALSE]
    BY DEF Close, HARD_ASSERT, Interrotta
  <2> HIDE DEF k1, q
  <2>2. OnWriteStreamClose(k1, "rifiuto", q) = Riparte(HandleWriteError(k1, q))
    BY <1>1 DEF OnWriteStreamClose, HARD_ASSERT, Rifiutata, Riparte
  <2>3. HandleWriteError(k1, q) =
          FillWritePipeline(InhibitBackoff([k1 EXCEPT
            !.write_pipeline = Tail(@),
            !.mutation_callbacks[k1.current_user] = @ \ {b.id}]), q)
    BY DEF HandleWriteError
  <2>4. [k1 EXCEPT !.write_pipeline = Tail(@),
                   !.mutation_callbacks[k1.current_user] = @ \ {b.id}] = k2
    BY <1>1 DEF Client
  <2>5. k2.stato = "Error"
    BY <1>1 DEF Client
  <2> HIDE DEF k2
  <2>6. InhibitBackoff(k2) = k3
    BY <2>5 DEF InhibitBackoff, HARD_ASSERT, IsStarted
  <2>7. QED
    BY <2>1, <2>2, <2>3, <2>4, <2>6
<1> HIDE DEF k1
<1>3. /\ k.write_pipeline \in Seq(Batch) /\ p # <<>> /\ q \in Seq(Batch)
      /\ b = p[1] /\ Tail(k1.write_pipeline) \in Seq(Batch)
      /\ Len(Tail(k1.write_pipeline)) <= Len(Davanti(q))
      /\ Tail(k1.write_pipeline) = SubSeq(q, 1, Len(Tail(k1.write_pipeline)))
  <2>1. k.write_pipeline \in Seq(Batch) /\ k1.write_pipeline = k.write_pipeline
    BY <1>1, ClientFatti
  <2>2. QED
    BY <2>1, AvanzaCoda
<1>4. Ordinata(q)
  BY <1>3, CodaOrdinata
<1> HIDE DEF b, q
<1>5. mc \in [Utente -> SUBSET (Nat \ {0})]
  BY <1>1, ClientFatti
<1> HIDE DEF mc
<1>6. /\ k2 \in Client /\ Spenta(k2) /\ ~k2.token /\ k2.is_network_enabled
      /\ k2.current_user = k1.current_user /\ k2.next_batch_id = k1.next_batch_id
      /\ k2.mutation_callbacks = mc /\ k2.write_pipeline = Tail(k1.write_pipeline)
  <2>1. \A w \in Seq(Batch) :
          [k1 EXCEPT !.write_pipeline = w, !.mutation_callbacks = mc] \in Client
    BY <1>1, <1>5 DEF Client
  <2>2. k2 \in Client
    BY <1>3, <2>1
  <2>3. Spenta(k2) /\ ~k2.token /\ k2.is_network_enabled
    BY <1>1 DEF Client, Spenta
  <2>4. /\ k2.current_user = k1.current_user /\ k2.next_batch_id = k1.next_batch_id
        /\ k2.mutation_callbacks = mc /\ k2.write_pipeline = Tail(k1.write_pipeline)
    BY <1>1 DEF Client
  <2>5. QED
    BY <2>2, <2>3, <2>4
<1> HIDE DEF k2
<1>7. /\ k3 \in Client /\ Spenta(k3) /\ ~k3.token /\ k3.is_network_enabled
      /\ Conservati(k2, k3) /\ k3.write_pipeline = k2.write_pipeline /\ k3.stato = "Initial"
  <2>1. k3 \in Client
    BY <1>6 DEF Client
  <2>2. Spenta(k3) /\ ~k3.token /\ k3.is_network_enabled
    BY <1>6 DEF Client, Spenta
  <2>3. Conservati(k2, k3) /\ k3.write_pipeline = k2.write_pipeline /\ k3.stato = "Initial"
    BY <1>6 DEF Client, Conservati
  <2>4. QED
    BY <2>1, <2>2, <2>3
<1> HIDE DEF k3
<1>8. Avanza(k3, q)
  BY <1>3, <1>6, <1>7 DEF Avanza
<1>9. /\ k4 \in Client /\ Quieti(k3, k4) /\ k4.write_pipeline = Davanti(q) /\ Spenta(k4)
      /\ Davanti(q) = <<>> => k4.stato = "Initial" /\ ~k4.token
      /\ Davanti(q) # <<>> => k4.stato = "Starting" /\ k4.token
  BY <1>3, <1>4, <1>7, <1>8, RiempieDaFermo
<1> HIDE DEF k4
<1>10. k4.is_network_enabled /\ (k4.write_pipeline = <<>> \/ IsStarted(k4))
  BY <1>7, <1>9 DEF Quieti, IsStarted
<1>11. /\ k5 \in Client /\ Quieti(k4, k5) /\ k5.write_pipeline = k4.write_pipeline
       /\ k5.richieste = k4.richieste /\ k5.idleness_timer = k4.idleness_timer
       /\ k5.stato = k4.stato /\ k5.token = k4.token
  BY <1>9, <1>10, RiparteFatti
<1> HIDE DEF k5
<1>12. /\ r \in Client /\ ~r.handshake_complete /\ Conservati(k5, r)
       /\ r.write_pipeline = k5.write_pipeline
       /\ r.is_network_enabled = k5.is_network_enabled
       /\ r.stato = k5.stato /\ r.token = k5.token /\ r.richieste = k5.richieste
       /\ r.risposte = k5.risposte /\ r.idleness_timer = k5.idleness_timer
       /\ r.rotte = k5.rotte
  BY <1>2, <1>11, Dimenticata
<1>13. Spenta(r) /\ r.is_network_enabled
  BY <1>9, <1>10, <1>11, <1>12 DEF Spenta, Quieti
<1>14. StatoSano(r) /\ FlussoSano(r)
  <2>1. /\ r.write_pipeline = Davanti(q)
        /\ Davanti(q) = <<>> => r.stato = "Initial" /\ ~r.token
        /\ Davanti(q) # <<>> => r.stato = "Starting" /\ r.token
    BY <1>9, <1>11, <1>12
  <2>2. QED
    BY <1>12, <1>13, <2>1, SpentaSana
<1>15. /\ r.current_user = k.current_user /\ r.next_batch_id = k.next_batch_id
       /\ r.mutation_callbacks = mc
       /\ k1.mutation_callbacks = k.mutation_callbacks /\ k1.current_user = k.current_user
  BY <1>1, <1>6, <1>7, <1>9, <1>11, <1>12 DEF Conservati, Quieti
<1>16. r.mutation_callbacks = [k.mutation_callbacks EXCEPT ![k.current_user] = @ \ {p[1].id}]
  BY <1>3, <1>15 DEF mc
<1>17. QED
  BY <1>9, <1>11, <1>12, <1>13, <1>14, <1>15, <1>16 DEF Spenta, q

\* An empty pipeline is the front of every queue.
LEMMA AvanzaDaVuota ==
  ASSUME NEW k, NEW q \in Seq(Batch), k.is_network_enabled, k.write_pipeline = <<>>
  PROVE  Avanza(k, q)
<1>1. Len(Davanti(q)) \in Nat
  BY DavantiFatti
<1>2. <<>> = SubSeq(q, 1, 0) /\ Len(<<>>) = 0
  OBVIOUS
<1>3. QED
  BY <1>1, <1>2 DEF Avanza

\* From a client that has nothing and is given a network.
LEMMA Riaccesa ==
  ASSUME NEW k \in Client, NEW q \in Seq(Batch), Ordinata(q), Spenta(k), ~k.token,
         k.stato = "Initial", ~k.handshake_complete, k.write_pipeline = <<>>,
         NEW f, f = EnableNetwork(k, q)
  PROVE  /\ f \in Client /\ Conservati(k, f) /\ f.write_pipeline = Davanti(q)
         /\ StatoSano(f) /\ FlussoSano(f) /\ f.risposte = <<>>
<1> DEFINE k1 == [k EXCEPT !.is_network_enabled = TRUE]
<1>1. f = FillWritePipeline(k1, q)
  BY DEF EnableNetwork
<1>2. k1 \in Client
  BY DEF Client
<1>3. /\ Spenta(k1) /\ ~k1.token /\ k1.stato = "Initial" /\ ~k1.handshake_complete
      /\ k1.write_pipeline = <<>> /\ k1.is_network_enabled /\ Conservati(k, k1)
      /\ k1.risposte = <<>>
  BY DEF Client, Spenta, Conservati
<1> HIDE DEF k1
<1>4. StatoSano(k1) /\ FlussoSano(k1)
  BY <1>2, <1>3, SpentaSana
<1>5. Avanza(k1, q)
  BY <1>3, AvanzaDaVuota
<1>6. /\ f \in Client /\ Quieti(k1, f) /\ f.write_pipeline = Davanti(q)
      /\ StatoSano(f) /\ FlussoSano(f)
  BY <1>1, <1>2, <1>4, <1>5, RiempieSano
<1>7. Conservati(k, f) /\ f.risposte = <<>>
  BY <1>3, <1>6 DEF Conservati, Quieti
<1>8. QED
  BY <1>6, <1>7

\* The network is disabled and enabled: everything starts again on queue q.
LEMMA RiavviaSano ==
  ASSUME NEW k \in Client, NEW q \in Seq(Batch), Ordinata(q), StatoSano(k), FlussoSano(k),
         NEW f, f = RestartNetwork(k, q)
  PROVE  /\ f \in Client /\ Conservati(k, f) /\ f.write_pipeline = Davanti(q)
         /\ StatoSano(f) /\ FlussoSano(f) /\ f.risposte = <<>>
<1> DEFINE k1 == [k EXCEPT !.is_network_enabled = FALSE]
           k2 == Close(k1, "ok", q)
           k3 == [k2 EXCEPT !.write_pipeline = <<>>]
           k4 == [k3 EXCEPT !.stato = "Initial"]
<1>1. f = EnableNetwork(InhibitBackoff(k3), q)
  BY DEF RestartNetwork, DisableNetworkInternal
<1>2. k1 \in Client
  BY DEF Client
<1>3. /\ Conservati(k, k1) /\ ~k1.is_network_enabled
      /\ k1.rotte = k.rotte /\ k1.stato = k.stato /\ k1.token = k.token
      /\ k1.handshake_complete = k.handshake_complete
      /\ k1.idleness_timer = k.idleness_timer
      /\ k1.richieste = k.richieste /\ k1.risposte = k.risposte
  BY DEF Client, Conservati
<1> HIDE DEF k1
<1>4. /\ k2 \in Client /\ Conservati(k, k2) /\ Spenta(k2) /\ ~k2.handshake_complete
      /\ ~k2.token /\ k2.stato \in {"Initial", "Error"}
  <2>1. CASE IsStarted(k1)
    <3>1. k1.rotte = {}
      BY <1>3 DEF StatoSano
    <3>2. /\ k2 \in Client /\ Conservati(k1, k2) /\ Spenta(k2) /\ ~k2.handshake_complete
          /\ ~k2.token /\ k2.stato = "Initial"
      BY <1>2, <1>3, <2>1, <3>1, ChiudeOk
    <3>3. QED
      BY <1>3, <3>2 DEF Conservati
  <2>2. CASE ~IsStarted(k1)
    <3>1. k2 = k1
      BY <2>2 DEF Close
    <3>2. k.stato \in {"Initial", "Error"}
      BY <1>3, <2>2, ClientFatti DEF IsStarted
    <3>3. /\ Spenta(k1) /\ ~k1.handshake_complete /\ ~k1.token
      BY <1>3, <3>2 DEF StatoSano, FlussoSano, Spenta
    <3>4. QED
      BY <1>2, <1>3, <3>1, <3>2, <3>3
  <2>3. QED
    BY <2>1, <2>2
<1> HIDE DEF k2
<1>5. k3 \in Client
  <2>1. <<>> \in Seq(Batch)
    BY EmptySeq
  <2>2. QED
    BY <1>4, <2>1 DEF Client
<1>6. /\ Conservati(k, k3) /\ Spenta(k3) /\ ~k3.handshake_complete /\ ~k3.token
      /\ k3.stato \in {"Initial", "Error"} /\ k3.write_pipeline = <<>>
  BY <1>4 DEF Client, Conservati, Spenta
<1> HIDE DEF k3
<1>7. InhibitBackoff(k3) = k4
  BY <1>6 DEF InhibitBackoff, HARD_ASSERT, IsStarted
<1>8. k4 \in Client
  BY <1>5 DEF Client
<1>9. /\ Conservati(k, k4) /\ Spenta(k4) /\ ~k4.handshake_complete /\ ~k4.token
      /\ k4.stato = "Initial" /\ k4.write_pipeline = <<>>
  BY <1>5, <1>6 DEF Client, Conservati, Spenta
<1> HIDE DEF k4
<1>10. /\ f \in Client /\ Conservati(k4, f) /\ f.write_pipeline = Davanti(q)
       /\ StatoSano(f) /\ FlussoSano(f) /\ f.risposte = <<>>
  BY <1>1, <1>7, <1>8, <1>9, Riaccesa
<1>11. QED
  BY <1>9, <1>10 DEF Conservati

\* A new process, whose next id is a positive number.
LEMMA AvviataSana ==
  ASSUME NEW q \in [Utente -> Seq(Batch)], NEW u \in Utente, Ordinata(q[u]),
         LoadNextBatchIdFromDb(q, u) \in Nat \ {0}, NEW f, f = Avviata(q, u)
  PROVE  /\ f \in Client /\ f.current_user = u
         /\ f.next_batch_id = LoadNextBatchIdFromDb(q, u)
         /\ \A v \in Utente : f.mutation_callbacks[v] = {}
         /\ f.write_pipeline = Davanti(q[u])
         /\ StatoSano(f) /\ FlussoSano(f) /\ f.risposte = <<>>
<1> DEFINE id == LoadNextBatchIdFromDb(q, u)
           k == [current_user |-> u, next_batch_id |-> id,
                 mutation_callbacks |-> [v \in Utente |-> {}],
                 write_pipeline |-> <<>>, is_network_enabled |-> FALSE,
                 stato |-> "Initial", handshake_complete |-> FALSE,
                 idleness_timer |-> FALSE, token |-> FALSE, superato |-> FALSE,
                 richieste |-> <<>>, risposte |-> <<>>, rotte |-> {}]
<1>1. f = EnableNetwork(k, q[u])
  BY DEF Avviata
<1> HIDE DEF id
<1>2. k \in Client
  <2>1. /\ <<>> \in Seq(Batch) /\ <<>> \in Seq(0..MaxScritture) /\ <<>> \in Seq(Messaggio)
        /\ [v \in Utente |-> {}] \in [Utente -> SUBSET (Nat \ {0})]
    BY EmptySeq
  <2>2. id \in Nat \ {0}
    BY DEF id
  <2>3. QED
    BY <2>1, <2>2 DEF Client
<1>3. /\ Spenta(k) /\ ~k.token /\ k.stato = "Initial" /\ ~k.handshake_complete
      /\ k.write_pipeline = <<>> /\ k.current_user = u /\ k.next_batch_id = id
      /\ \A v \in Utente : k.mutation_callbacks[v] = {}
  BY DEF Spenta
<1> HIDE DEF k
<1>4. /\ f \in Client /\ Conservati(k, f) /\ f.write_pipeline = Davanti(q[u])
      /\ StatoSano(f) /\ FlussoSano(f) /\ f.risposte = <<>>
  BY <1>1, <1>2, <1>3, Riaccesa
<1>5. QED
  BY <1>3, <1>4 DEF Conservati, id

(***************************************************************************)
(* Steps of the client and of the server that change nothing but c         *)
(***************************************************************************)
\* A step of c alone that leaves the client sane, its batches and their owner.
Resta(k, r) ==
  /\ r \in Client /\ Conservati(k, r) /\ r.write_pipeline = k.write_pipeline
  /\ StatoSano(r) /\ FlussoSano(r)

\* Where a stream with something on it may be.
LEMMA FlussoFatti ==
  ASSUME NEW k \in Client, StatoSano(k), FlussoSano(k), k.richieste # <<>> \/ k.risposte # <<>>
  PROVE  /\ k.stato = "Open" /\ ~k.token
         /\ ~k.handshake_complete =>
              /\ ~k.idleness_timer /\ k.write_pipeline # <<>>
              /\ \/ k.richieste = <<0>> /\ k.risposte = <<>>
                 \/ k.richieste = <<>> /\ k.risposte = <<<<"handshake", 0>>>>
                 \/ k.richieste = <<>> /\ Rotto(k)
  BY DEF StatoSano, FlussoSano, IsStarted

LEMMA ResumeResta ==
  ASSUME NEW k \in Client, StatoSano(k), FlussoSano(k), k.token,
         NEW r, r = WriteHandshake([HARD_ASSERT(k, k.stato = "Starting", "State should still be 'Starting'")
                            EXCEPT !.token = FALSE, !.stato = "Open"])
  PROVE  Resta(k, r) /\ r.risposte = <<>>
<1> DEFINE k1 == [k EXCEPT !.token = FALSE, !.stato = "Open"]
<1>1. /\ k.stato = "Starting" /\ ~k.handshake_complete /\ k.write_pipeline # <<>>
      /\ k.richieste = <<>> /\ k.risposte = <<>> /\ ~k.idleness_timer
      /\ k.is_network_enabled /\ k.rotte = {}
  BY DEF StatoSano, FlussoSano, IsStarted
<1>2. r = WriteHandshake(k1)
  BY <1>1 DEF HARD_ASSERT
<1>3. k1 \in Client
  BY DEF Client
<1>4. /\ Conservati(k, k1) /\ k1.write_pipeline = k.write_pipeline /\ k1.stato = "Open"
      /\ ~k1.handshake_complete /\ k1.richieste = <<>> /\ k1.risposte = <<>> /\ ~k1.token
      /\ ~k1.idleness_timer /\ k1.is_network_enabled /\ k1.rotte = {}
  BY <1>1 DEF Client, Conservati
<1> HIDE DEF k1
<1>5. <<>> \o <<0>> = <<0>> /\ <<0>> # <<>> /\ <<0>> \in Seq(0..MaxScritture)
  BY ClientAssumption
<1>6. r = [k1 EXCEPT !.richieste = <<0>>, !.idleness_timer = FALSE]
  BY <1>2, <1>4, <1>5 DEF WriteHandshake, StreamWrite, HARD_ASSERT, IsOpen
<1>7. r \in Client
  BY <1>3, <1>5, <1>6 DEF Client
<1>8. /\ Conservati(k, r) /\ r.write_pipeline = k.write_pipeline /\ r.stato = "Open"
      /\ ~r.handshake_complete /\ r.richieste = <<0>> /\ r.risposte = <<>> /\ ~r.token
      /\ ~r.idleness_timer /\ r.is_network_enabled /\ r.rotte = {}
  BY <1>3, <1>4, <1>6 DEF Client, Conservati
<1>9. StatoSano(r) /\ FlussoSano(r)
  BY <1>1, <1>8 DEF StatoSano, FlussoSano, IsStarted
<1>10. QED
  BY <1>7, <1>8, <1>9 DEF Resta

LEMMA BackoffResta ==
  ASSUME NEW k \in Client, StatoSano(k), FlussoSano(k), k.stato = "Backoff",
         NEW r, r = StreamStart([k EXCEPT !.stato = "Initial"])
  PROVE  Resta(k, r) /\ r.risposte = <<>>
<1> DEFINE k1 == [k EXCEPT !.stato = "Initial"]
<1>1. /\ ~k.handshake_complete /\ k.write_pipeline # <<>> /\ ~k.token
      /\ k.richieste = <<>> /\ k.risposte = <<>> /\ ~k.idleness_timer
      /\ k.is_network_enabled /\ k.rotte = {}
  BY DEF StatoSano, FlussoSano, IsStarted
<1>2. k1 \in Client
  BY DEF Client
<1>3. /\ Conservati(k, k1) /\ k1.write_pipeline = k.write_pipeline /\ k1.stato = "Initial"
      /\ ~k1.handshake_complete /\ k1.richieste = <<>> /\ k1.risposte = <<>> /\ ~k1.token
      /\ ~k1.idleness_timer /\ k1.is_network_enabled /\ k1.rotte = {}
  BY <1>1 DEF Client, Conservati
<1> HIDE DEF k1
<1>4. r = [[k1 EXCEPT !.stato = "Starting"] EXCEPT !.token = TRUE]
  BY <1>3 DEF StreamStart, HARD_ASSERT, RequestCredentials, k1
<1>5. r \in Client
  BY <1>2, <1>4 DEF Client
<1>6. /\ Conservati(k, r) /\ r.write_pipeline = k.write_pipeline /\ r.stato = "Starting"
      /\ ~r.handshake_complete /\ r.richieste = <<>> /\ r.risposte = <<>> /\ r.token
      /\ ~r.idleness_timer /\ r.is_network_enabled /\ r.rotte = {}
  BY <1>2, <1>3, <1>4 DEF Client, Conservati
<1>7. StatoSano(r) /\ FlussoSano(r)
  BY <1>1, <1>6 DEF StatoSano, FlussoSano, IsStarted
<1>8. QED
  BY <1>5, <1>6, <1>7 DEF Resta

LEMMA HandshakeResta ==
  ASSUME NEW k \in Client, StatoSano(k), FlussoSano(k), k.risposte # <<>>,
         Head(k.risposte)[1] \in {"handshake", "risultato"}, ~k.handshake_complete,
         NEW r, r = WriteMutations([k EXCEPT !.risposte = Tail(@), !.handshake_complete = TRUE],
                                   k.write_pipeline)
  PROVE  Resta(k, r) /\ r.risposte = <<>>
<1> DEFINE k1 == [k EXCEPT !.risposte = Tail(@), !.handshake_complete = TRUE]
           w == k.write_pipeline
           m == Numeri(w)
<1>1. /\ k.stato = "Open" /\ ~k.token /\ ~k.idleness_timer /\ w # <<>>
      /\ k.is_network_enabled /\ k.rotte = {} /\ w \in Seq(Batch)
  BY FlussoFatti, ClientFatti DEF StatoSano
<1>2. k.richieste = <<>> /\ k.risposte = <<<<"handshake", 0>>>>
  <2>1. ~Rotto(k)
    BY DEF Rotto
  <2>2. QED
    BY <2>1, FlussoFatti
<1>3. k1 \in Client
  <2>1. Tail(k.risposte) = <<>> /\ <<>> \in Seq(Messaggio)
    BY <1>2, EmptySeq
  <2>2. QED
    BY <2>1 DEF Client
<1>4. /\ Conservati(k, k1) /\ k1.write_pipeline = w /\ k1.stato = "Open" /\ ~k1.token
      /\ k1.handshake_complete /\ k1.richieste = <<>> /\ k1.risposte = <<>>
      /\ ~k1.idleness_timer /\ k1.is_network_enabled /\ k1.rotte = {}
  BY <1>1, <1>2 DEF Client, Conservati
<1> HIDE DEF k1
<1>5. /\ m \in Seq(0..MaxScritture) /\ Len(m) = Len(w)
      /\ \A i \in 1..Len(w) : m[i] = w[i].n
  <2>1. w \in Seq(Batch) /\ <<>> \in Seq(0..MaxScritture)
    BY <1>1, EmptySeq
  <2> HIDE DEF w
  <2>2. QED
    BY <2>1, NumeriInFondo
<1>6. <<>> \o m = m /\ m # <<>>
  BY <1>1, <1>5, ConcatEmptySeq, EmptySeq
<1>7. r = [k1 EXCEPT !.richieste = m, !.idleness_timer = FALSE]
  BY <1>4, <1>6 DEF WriteMutations, StreamWrite, HARD_ASSERT, IsOpen, Numeri, k1
<1> HIDE DEF m, w
<1>8. r \in Client
  BY <1>3, <1>5, <1>7 DEF Client
<1>9. /\ Conservati(k, r) /\ r.write_pipeline = w /\ r.stato = "Open" /\ ~r.token
      /\ r.handshake_complete /\ r.richieste = m /\ r.risposte = <<>>
      /\ ~r.idleness_timer /\ r.is_network_enabled /\ r.rotte = {}
  BY <1>3, <1>4, <1>7 DEF Client, Conservati
<1>10. StatoSano(r)
  BY <1>9 DEF StatoSano, IsStarted
<1>11. Allineato(r)
  <2>1. /\ Len(r.risposte) = 0 /\ Len(w) \in Nat /\ Len(r.richieste) = Len(w)
        /\ \A i \in 1..Len(w) : r.richieste[i] = w[i].n
    BY <1>1, <1>5, <1>9
  <2>2. /\ Len(r.risposte) + Len(r.richieste) = Len(w)
        /\ \A i \in 1..Len(r.risposte) : FALSE
    BY ONLY <2>1
  <2>3. \A i \in 1..Len(r.richieste) : r.richieste[i] = w[Len(r.risposte) + i].n
    BY ONLY <2>1
  <2>4. r.write_pipeline = w
    BY <1>9
  <2>5. QED
    BY ONLY <2>2, <2>3, <2>4 DEF Allineato
<1>12. FlussoSano(r)
  BY <1>9, <1>11 DEF FlussoSano
<1>13. QED
  BY <1>8, <1>9, <1>10, <1>12 DEF Resta, w

LEMMA CadutoResta ==
  ASSUME NEW k \in Client, StatoSano(k), FlussoSano(k), IsOpen(k),
         NEW r, r = [k EXCEPT !.richieste = <<>>, !.risposte = <<<<"caduta", 0>>>>]
  PROVE  Resta(k, r) /\ r.risposte = <<<<"caduta", 0>>>>
<1>1. <<>> \in Seq(0..MaxScritture) /\ <<<<"caduta", 0>>>> \in Seq(Messaggio)
  BY ClientAssumption, EmptySeq DEF Messaggio
<1>2. r \in Client
  BY <1>1 DEF Client
<1>3. /\ Conservati(k, r) /\ r.write_pipeline = k.write_pipeline /\ r.stato = k.stato
      /\ r.token = k.token /\ r.handshake_complete = k.handshake_complete
      /\ r.richieste = <<>> /\ r.risposte = <<<<"caduta", 0>>>>
      /\ r.idleness_timer = k.idleness_timer
      /\ r.is_network_enabled = k.is_network_enabled /\ r.rotte = k.rotte
  BY DEF Client, Conservati
<1>4. StatoSano(r)
  BY <1>3 DEF StatoSano, IsStarted
<1>5. FlussoSano(r)
  <2>1. r.stato = "Open" /\ Rotto(r) /\ Len(r.richieste) = 0
    BY <1>3 DEF Rotto, IsOpen
  <2>2. QED
    BY <1>3, <2>1 DEF FlussoSano
<1>6. QED
  BY <1>2, <1>3, <1>4, <1>5 DEF Resta

\* The server answers the oldest write on the stream, which is then an answer.
LEMMA ServerResta ==
  ASSUME NEW k \in Client, StatoSano(k), FlussoSano(k),
         k.richieste # <<>>, Head(k.richieste) # 0,
         ~(k.risposte # <<>> /\ Last(k.risposte)[1] \in {"rifiuto", "caduta"}),
         NEW t \in {"risultato", "rifiuto"},
         NEW r, r = [k EXCEPT !.richieste = Tail(@),
                              !.risposte = Append(@, <<t, Head(k.richieste)>>)]
  PROVE  /\ Resta(k, r) /\ k.handshake_complete /\ Allineato(k)
         /\ Head(k.richieste) \in 1..MaxScritture
         /\ r.risposte = Append(k.risposte, <<t, Head(k.richieste)>>)
<1> DEFINE h == Head(k.richieste)
           w == k.write_pipeline
           a == Len(k.risposte)
           b == Len(k.richieste)
<1>1. k.handshake_complete
  <2> SUFFICES ASSUME ~k.handshake_complete PROVE FALSE
    BY ClientFatti
  <2>1. k.richieste = <<0>>
    BY FlussoFatti
  <2>2. QED
    BY <2>1
<1>2. k.richieste \in Seq(0..MaxScritture) /\ k.risposte \in Seq(Messaggio) /\ w \in Seq(Batch)
  BY ClientFatti
<1>3. /\ a \in Nat /\ b \in Nat \ {0} /\ Len(w) \in Nat
      /\ h = k.richieste[1] /\ h \in 0..MaxScritture
      /\ k.risposte = <<>> <=> a = 0
  <2>1. a \in Nat /\ Len(w) \in Nat
    BY ONLY <1>2
  <2>2. k.risposte = <<>> <=> a = 0
    BY ONLY <1>2, EmptySeq
  <2>3. b \in Nat \ {0}
    BY <1>2, EmptySeq
  <2>4. h = k.richieste[1]
    OBVIOUS
  <2>6. h \in 0..MaxScritture
    BY <1>2, HeadTailProperties
  <2>7. QED
    BY <2>1, <2>2, <2>3, <2>4, <2>6
<1>4. h \in 1..MaxScritture /\ <<t, h>> \in Messaggio
  BY <1>3, ClientAssumption DEF Messaggio
<1>5. Allineato(k)
  <2> SUFFICES ASSUME Rotto(k) PROVE FALSE
    BY <1>1 DEF FlussoSano
  <2>1. k.risposte # <<>> /\ Last(k.risposte) = <<"caduta", 0>>
    BY DEF Rotto, Last
  <2>2. QED
    BY <2>1
<1> DEFINE s == Append(k.risposte, <<t, h>>)
           m == Tail(k.richieste)
<1>6. /\ m \in Seq(0..MaxScritture) /\ Len(m) = b - 1
      /\ \A i \in 1..b - 1 : m[i] = k.richieste[i + 1]
  BY <1>2, HeadTailProperties
<1>7. /\ s \in Seq(Messaggio) /\ Len(s) = a + 1 /\ s[a + 1] = <<t, h>>
      /\ \A i \in 1..a : s[i] = k.risposte[i]
  BY <1>2, <1>4, AppendProperties
<1>8. r \in Client
  <2>1. \A p \in Seq(0..MaxScritture), v \in Seq(Messaggio) :
          [k EXCEPT !.richieste = p, !.risposte = v] \in Client
    BY DEF Client
  <2>2. QED
    BY <1>6, <1>7, <2>1
<1>9. /\ Conservati(k, r) /\ r.write_pipeline = w /\ r.stato = k.stato
      /\ r.token = k.token /\ r.handshake_complete = k.handshake_complete
      /\ r.richieste = m /\ r.risposte = s /\ r.idleness_timer = k.idleness_timer
      /\ r.is_network_enabled = k.is_network_enabled /\ r.rotte = k.rotte
  BY DEF Client, Conservati
<1>10. k.stato = "Open"
  BY <1>1 DEF StatoSano
<1>11. StatoSano(r)
  BY <1>9 DEF StatoSano, IsStarted
<1>12. \A i \in 1..a : k.risposte[i][1] = "risultato" /\ k.risposte[i][2] = w[i].n
  <2> SUFFICES ASSUME NEW i \in 1..a, k.risposte[i][1] # "risultato" PROVE FALSE
    BY <1>5 DEF Allineato
  <2>1. i = a /\ k.risposte[a][1] = "rifiuto"
    BY <1>5 DEF Allineato
  <2>2. Last(k.risposte) = k.risposte[a] /\ k.risposte # <<>>
    BY <1>3, <2>1 DEF Last
  <2>3. QED
    BY <2>1, <2>2
<1>13. a + b = Len(w) /\ \A i \in 1..b : k.richieste[i] = w[a + i].n
  BY <1>5 DEF Allineato
<1> HIDE DEF a, b, h, w, m, s
<1>14. Len(s) + Len(m) = Len(w)
  BY <1>3, <1>6, <1>7, <1>13
<1>15. ASSUME NEW i \in 1..Len(s)
       PROVE  s[i][2] = w[i].n /\ (s[i][1] = "risultato" \/ (i = Len(s) /\ s[i][1] = "rifiuto"))
  <2>1. CASE i \in 1..a
    BY <1>7, <1>12, <2>1
  <2>2. CASE i = a + 1
    <3>1. h = w[a + 1].n
      BY <1>3, <1>13
    <3>2. s[i][2] = h /\ s[i][1] = t /\ i = Len(s)
      BY <1>7, <2>2
    <3>3. QED
      BY <2>2, <3>1, <3>2
  <2>3. QED
    BY <1>3, <1>7, <2>1, <2>2
<1>16. ASSUME NEW i \in 1..Len(m) PROVE m[i] = w[Len(s) + i].n
  <2>1. i \in 1..b - 1 /\ i + 1 \in 1..b /\ a + (i + 1) = Len(s) + i
    <3>1. a \in Nat /\ b \in Nat \ {0} /\ Len(m) = b - 1 /\ Len(s) = a + 1 /\ i \in 1..Len(m)
      BY <1>3, <1>6, <1>7
    <3>2. QED
      BY ONLY <3>1
  <2>2. m[i] = k.richieste[i + 1] /\ k.richieste[i + 1] = w[a + (i + 1)].n
    BY <1>6, <1>13, <2>1
  <2>3. QED
    BY <2>1, <2>2
<1>17. Allineato(r)
  <2>1. r.richieste = m /\ r.risposte = s /\ r.write_pipeline = w
    BY <1>9
  <2>2. QED
    BY ONLY <1>14, <1>15, <1>16, <2>1 DEF Allineato
<1>18. FlussoSano(r)
  BY <1>1, <1>9, <1>10, <1>17 DEF FlussoSano
<1>19. QED
  BY <1>1, <1>4, <1>5, <1>8, <1>9, <1>11, <1>18 DEF Resta, h, s, w

\* The server answers the handshake.
LEMMA ServerHandshakeResta ==
  ASSUME NEW k \in Client, StatoSano(k), FlussoSano(k),
         k.richieste # <<>>, Head(k.richieste) = 0,
         ~(k.risposte # <<>> /\ Last(k.risposte)[1] \in {"rifiuto", "caduta"}),
         NEW r, r = [k EXCEPT !.richieste = Tail(@), !.risposte = Append(@, <<"handshake", 0>>)]
  PROVE  Resta(k, r) /\ r.risposte = <<<<"handshake", 0>>>>
<1>1. ~k.handshake_complete
  <2> SUFFICES ASSUME k.handshake_complete PROVE FALSE
    OBVIOUS
  <2>1. ~Rotto(k)
    <3> SUFFICES ASSUME Rotto(k) PROVE FALSE
      OBVIOUS
    <3>1. k.risposte # <<>> /\ Last(k.risposte) = <<"caduta", 0>>
      BY DEF Rotto, Last
    <3>2. QED
      BY <3>1
  <2>2. Allineato(k)
    BY <2>1 DEF FlussoSano
  <2>3. /\ k.richieste \in Seq(0..MaxScritture) /\ Len(k.risposte) \in Nat
        /\ k.write_pipeline \in Seq(Batch)
    BY ClientFatti
  <2>4. k.richieste[1] = 0 /\ Len(k.richieste) \in Nat \ {0}
    BY <2>3, EmptySeq
  <2>5. Len(k.risposte) + 1 \in 1..Len(k.write_pipeline)
        /\ k.richieste[1] = k.write_pipeline[Len(k.risposte) + 1].n
    <3> DEFINE a == Len(k.risposte)
               b == Len(k.richieste)
               m == Len(k.write_pipeline)
    <3>1. a + b = m /\ \A i \in 1..b : k.richieste[i] = k.write_pipeline[a + i].n
      BY <2>2 DEF Allineato
    <3>2. a \in Nat /\ b \in Nat \ {0}
      BY <2>3, <2>4
    <3> HIDE DEF a, b, m
    <3>3. a + 1 \in 1..m /\ 1 \in 1..b
      BY ONLY <3>1, <3>2
    <3>4. k.richieste[1] = k.write_pipeline[a + 1].n
      BY <3>1, <3>3
    <3>5. QED
      BY <3>3, <3>4 DEF a, m
  <2>6. k.write_pipeline[Len(k.risposte) + 1].n \in 1..MaxScritture
    BY <2>3, <2>5, CodaFatti
  <2>7. QED
    BY <2>4, <2>5, <2>6, ClientAssumption
<1>2. /\ k.richieste = <<0>> /\ k.risposte = <<>> /\ k.stato = "Open"
      /\ ~k.idleness_timer /\ k.write_pipeline # <<>>
  BY <1>1, FlussoFatti
<1>3. /\ Tail(k.richieste) = <<>> /\ Append(k.risposte, <<"handshake", 0>>) = <<<<"handshake", 0>>>>
      /\ <<>> \in Seq(0..MaxScritture) /\ <<<<"handshake", 0>>>> \in Seq(Messaggio)
  BY <1>2, ClientAssumption, EmptySeq DEF Messaggio
<1>4. r = [k EXCEPT !.richieste = <<>>, !.risposte = <<<<"handshake", 0>>>>]
  BY <1>3
<1>5. r \in Client
  BY <1>3, <1>4 DEF Client
<1>6. /\ Conservati(k, r) /\ r.write_pipeline = k.write_pipeline /\ r.stato = k.stato
      /\ r.token = k.token /\ r.handshake_complete = k.handshake_complete
      /\ r.richieste = <<>> /\ r.risposte = <<<<"handshake", 0>>>>
      /\ r.idleness_timer = k.idleness_timer
      /\ r.is_network_enabled = k.is_network_enabled /\ r.rotte = k.rotte
  BY <1>4 DEF Client, Conservati
<1>7. StatoSano(r)
  BY <1>6 DEF StatoSano, IsStarted
<1>8. FlussoSano(r)
  BY <1>1, <1>2, <1>6 DEF FlussoSano
<1>9. QED
  BY <1>5, <1>6, <1>7, <1>8 DEF Resta

(***************************************************************************)
(* The disk and the history                                                *)
(***************************************************************************)
\* The batches of a queue are its head and those behind it.
LEMMA CodaTesta ==
  ASSUME NEW q \in Seq(Batch), q # <<>>
  PROVE  InCoda(q) = {q[1]} \cup InCoda(Tail(q)) /\ q[1] \in Batch
<1>1. /\ Len(q) \in Nat \ {0} /\ DOMAIN q = 1..Len(q) /\ q[1] \in Batch
      /\ Tail(q) \in Seq(Batch) /\ Len(Tail(q)) = Len(q) - 1
      /\ \A i \in 1..Len(q) - 1 : Tail(q)[i] = q[i + 1]
  BY HeadTailProperties, CodaFatti, EmptySeq
<1>2. DOMAIN Tail(q) = 1..Len(q) - 1
  BY <1>1
<1> DEFINE t == Tail(q)
<1>3. ASSUME NEW i \in 1..Len(q) PROVE q[i] = q[1] \/ \E j \in DOMAIN t : q[i] = t[j]
  <2>1. CASE i = 1
    BY <2>1
  <2>2. CASE i # 1
    <3>1. i - 1 \in 1..Len(q) - 1 /\ (i - 1) + 1 = i
      BY <1>1, <2>2
    <3>2. t[i - 1] = q[i]
      BY <1>1, <3>1
    <3>3. QED
      BY <1>2, <3>1, <3>2
  <2>3. QED
    BY <2>1, <2>2
<1>4. ASSUME NEW j \in DOMAIN t PROVE \E i \in 1..Len(q) : t[j] = q[i]
  <2>1. j + 1 \in 1..Len(q) /\ t[j] = q[j + 1]
    BY <1>1, <1>2
  <2>2. QED
    BY <2>1
<1>5. 1 \in DOMAIN q
  BY <1>1
<1> HIDE DEF t
<1>6. InCoda(q) = {q[1]} \cup InCoda(t)
  BY <1>1, <1>3, <1>4, <1>5 DEF InCoda
<1>7. QED
  BY <1>1, <1>6 DEF t

LEMMA CodaAllungata ==
  ASSUME NEW q \in Seq(Batch), NEW b \in Batch
  PROVE  /\ Append(q, b) \in Seq(Batch)
         /\ InCoda(Append(q, b)) = InCoda(q) \cup {b}
         /\ Len(Append(q, b)) = Len(q) + 1
         /\ \A i \in 1..Len(q) : Append(q, b)[i] = q[i]
         /\ Append(q, b)[Len(q) + 1] = b
<1> DEFINE s == Append(q, b)
<1>1. /\ s \in Seq(Batch) /\ Len(s) = Len(q) + 1 /\ Len(q) \in Nat
      /\ s[Len(q) + 1] = b /\ \A i \in 1..Len(q) : s[i] = q[i]
  BY AppendProperties
<1>2. DOMAIN s = 1..Len(q) + 1 /\ DOMAIN q = 1..Len(q)
  BY <1>1
<1> HIDE DEF s
<1>3. \A i \in 1..Len(q) + 1 : i \in 1..Len(q) \/ i = Len(q) + 1
  BY <1>1
<1>4. /\ \A i \in 1..Len(q) : i \in 1..Len(q) + 1
      /\ Len(q) + 1 \in 1..Len(q) + 1
  BY <1>1
<1>5. InCoda(s) = InCoda(q) \cup {b}
  BY <1>1, <1>2, <1>3, <1>4 DEF InCoda
<1>6. QED
  BY <1>1, <1>5 DEF s

\* A new batch with the largest id keeps a queue in order.
LEMMA CodaOrdinataAllungata ==
  ASSUME NEW q \in Seq(Batch), Ordinata(q), NEW b \in Batch,
         \A i \in DOMAIN q : q[i].id < b.id
  PROVE  Ordinata(Append(q, b))
<1> DEFINE s == Append(q, b)
<1>1. /\ s \in Seq(Batch) /\ Len(s) = Len(q) + 1 /\ Len(q) \in Nat /\ DOMAIN q = 1..Len(q)
      /\ s[Len(q) + 1] = b /\ \A i \in 1..Len(q) : s[i] = q[i]
  BY CodaAllungata, CodaFatti
<1>2. DOMAIN s = 1..Len(q) + 1
  BY <1>1
<1> HIDE DEF s
<1>3. ASSUME NEW i \in 1..Len(q) + 1, NEW j \in 1..Len(q) + 1, i < j PROVE s[i].id < s[j].id
  <2>1. i \in 1..Len(q) /\ s[i] = q[i]
    BY <1>1, <1>3
  <2>2. CASE j \in 1..Len(q)
    <3>1. q[i].id < q[j].id
      BY <1>1, <1>3, <2>1, <2>2 DEF Ordinata
    <3>2. QED
      BY <1>1, <2>1, <2>2, <3>1
  <2>3. CASE j = Len(q) + 1
    BY <1>1, <2>1, <2>3
  <2>4. QED
    BY <1>1, <2>2, <2>3
<1>4. QED
  BY <1>2, <1>3 DEF Ordinata, s

\* The pipeline goes on along its queue when a batch is put at the end of it.
LEMMA AvanzaAllungata ==
  ASSUME NEW q \in Seq(Batch), NEW b \in Batch, NEW k, k.is_network_enabled,
         k.write_pipeline = Davanti(q)
  PROVE  Avanza(k, Append(q, b))
<1> USE ClientAssumption
<1> DEFINE s == Append(q, b)
           d == Davanti(q)
<1>1. /\ s \in Seq(Batch) /\ Len(s) = Len(q) + 1 /\ Len(q) \in Nat
      /\ \A i \in 1..Len(q) : s[i] = q[i]
  BY CodaAllungata, CodaFatti
<1> HIDE DEF s
<1>2. /\ d \in Seq(Batch) /\ Len(d) \in Nat /\ Len(d) <= Len(q)
      /\ Len(d) = IF Len(q) < kMaxPendingWrites THEN Len(q) ELSE kMaxPendingWrites
      /\ \A i \in 1..Len(d) : d[i] = q[i]
  BY DavantiFatti
<1> HIDE DEF d
<1>3. Len(Davanti(s)) = IF Len(s) < kMaxPendingWrites THEN Len(s) ELSE kMaxPendingWrites
  BY <1>1, DavantiFatti
<1>4. Len(d) <= Len(Davanti(s))
  <2>1. kMaxPendingWrites \in Nat
    OBVIOUS
  <2>2. CASE Len(q) + 1 < kMaxPendingWrites
    BY <1>1, <1>2, <1>3, <2>1, <2>2
  <2>3. CASE ~(Len(q) + 1 < kMaxPendingWrites)
    BY <1>1, <1>2, <1>3, <2>1, <2>3
  <2>4. QED
    BY <2>2, <2>3
<1>5. d = SubSeq(s, 1, Len(d))
  <2> DEFINE p == SubSeq(s, 1, Len(d))
  <2>1. p \in Seq(Batch) /\ Len(p) = Len(d) /\ \A i \in 1..Len(d) : p[i] = s[i]
    BY <1>1, <1>2
  <2> HIDE DEF p
  <2>2. \A i \in 1..Len(d) : p[i] = d[i]
    BY <1>1, <1>2, <2>1
  <2>3. p = d
    BY <1>2, <2>1, <2>2, SeqEqual
  <2>4. QED
    BY <2>3 DEF p
<1>6. QED
  BY <1>4, <1>5 DEF Avanza, d, s

\* The next id after a restart: above every id on disk, and no further than their bound.
LEMMA ProssimoId ==
  ASSUME NEW q \in [Utente -> Seq(Batch)], NEW n \in Nat,
         \A u \in Utente : \A i \in DOMAIN q[u] : q[u][i].id <= n,
         NEW v \in Utente, NEW id, id = LoadNextBatchIdFromDb(q, v)
  PROVE  /\ id \in Nat \ {0} /\ id <= n + 1
         /\ \A u \in Utente : \A i \in DOMAIN q[u] : q[u][i].id < id
<1> DEFINE S == {0} \cup UNION {Identificativi(q[u]) : u \in Utente}
<1>1. \A u \in Utente : q[u] \in Seq(Batch)
  OBVIOUS
<1>2. \A u \in Utente : \A x \in Identificativi(q[u]) : x \in 0..n
  <2> SUFFICES ASSUME NEW u \in Utente, NEW i \in DOMAIN q[u] PROVE q[u][i].id \in 0..n
    BY DEF Identificativi, InCoda
  <2>1. q[u][i].id \in Nat
    BY <1>1, CodaFatti
  <2>2. QED
    BY <2>1
<1>3. S \in SUBSET (0..n) /\ S # {}
  BY <1>2
<1>4. \A u \in Utente : \A i \in DOMAIN q[u] : q[u][i].id \in S
  BY DEF Identificativi, InCoda
<1>5. id = Max(S) + 1
  BY DEF LoadNextBatchIdFromDb
<1> HIDE DEF S
<1>6. Max(S) \in S /\ \A y \in S : y <= Max(S)
  BY <1>3, MassimoVale
<1>7. Max(S) \in 0..n /\ \A y \in S : y \in 0..n
  BY <1>3, <1>6
<1>8. id \in Nat \ {0} /\ id <= n + 1 /\ \A y \in S : y < id
  BY <1>5, <1>6, <1>7
<1>9. QED
  BY <1>4, <1>8

LEMMA StoriaFatti ==
  ASSUME NEW s \in Storia
  PROVE  /\ s.autore \in Seq(Utente) /\ Len(s.autore) \in 0..MaxScritture
         /\ s.eseguite \in SUBSET (1..MaxScritture) /\ s.rifiutate \in SUBSET (1..MaxScritture)
         /\ s.esito \in [1..MaxScritture -> {"nessuno", "ok", "errore"}]
<1>1. PICK k \in 0..MaxScritture : s.autore \in [1..k -> Utente]
  BY DEF Storia
<1>2. s.autore \in Seq(Utente) /\ Len(s.autore) = k
  BY <1>1, FunzioneSeq, ClientAssumption
<1>3. QED
  BY <1>1, <1>2 DEF Storia

\* A step of history: the server may have done more writes, and what callbacks
\* have been told is true.
Veritiera(s, t) ==
  /\ t \in Storia /\ t.autore = s.autore
  /\ s.eseguite \subseteq t.eseguite /\ s.rifiutate \subseteq t.rifiutate
  /\ \A n \in 1..MaxScritture :
       /\ t.esito[n] = "ok" => s.esito[n] = "ok" \/ n \in t.eseguite
       /\ t.esito[n] = "errore" => s.esito[n] = "errore" \/ n \in t.rifiutate

LEMMA VeritieraSeUguale ==
  ASSUME NEW s \in Storia
  PROVE  Veritiera(s, s)
  BY DEF Veritiera

\* The writes queued in q.
ScrittureIn(q) == {b.n : b \in InCoda(q)}

\* EsitoVero is kept by a step that takes off the disk only writes the server has done.
LEMMA EsitoConservato ==
  ASSUME storia \in Storia, EsitoVero, NotizieVere, Veritiera(storia, storia'),
         \A u \in Utente : ScrittureIn(coda[u]) \subseteq
           ScrittureIn(coda'[u]) \cup storia'.eseguite \cup storia'.rifiutate
  PROVE  EsitoVero' /\ NotizieVere'
<1>1. /\ storia.autore \in Seq(Utente) /\ Len(storia.autore) \in 0..MaxScritture
  BY StoriaFatti
<1>2. /\ storia'.autore = storia.autore
      /\ storia.eseguite \subseteq storia'.eseguite /\ storia.rifiutate \subseteq storia'.rifiutate
      /\ \A n \in 1..MaxScritture :
           /\ storia'.esito[n] = "ok" => storia.esito[n] = "ok" \/ n \in storia'.eseguite
           /\ storia'.esito[n] = "errore" => storia.esito[n] = "errore" \/ n \in storia'.rifiutate
  BY DEF Veritiera
<1>3. \A n \in 1..Len(storia.autore) : n \in 1..MaxScritture /\ storia.autore[n] \in Utente
  <2>1. \A n \in 1..Len(storia.autore) : storia.autore[n] \in Utente
    BY ONLY <1>1
  <2>2. \A n \in 1..Len(storia.autore) : n \in 1..MaxScritture
    BY ONLY <1>1, ClientAssumption
  <2>3. QED
    BY ONLY <2>1, <2>2
<1>4. \A n \in 1..Len(storia.autore) :
        /\ n \in ScrittureIn(coda[storia.autore[n]]) \cup storia.eseguite \cup storia.rifiutate
        /\ storia.esito[n] = "ok" => n \in storia.eseguite
        /\ storia.esito[n] = "errore" => n \in storia.rifiutate
  BY DEF EsitoVero, Scritture, ScrittureIn
<1>5. \A n \in 1..Len(storia'.autore) :
        /\ n \in ScrittureIn(coda'[storia'.autore[n]]) \cup storia'.eseguite \cup storia'.rifiutate
        /\ storia'.esito[n] = "ok" => n \in storia'.eseguite
        /\ storia'.esito[n] = "errore" => n \in storia'.rifiutate
  <2> SUFFICES ASSUME NEW n \in 1..Len(storia.autore)
               PROVE  /\ n \in ScrittureIn(coda'[storia.autore[n]]) \cup storia'.eseguite
                                 \cup storia'.rifiutate
                      /\ storia'.esito[n] = "ok" => n \in storia'.eseguite
                      /\ storia'.esito[n] = "errore" => n \in storia'.rifiutate
    BY <1>2
  <2>1. PICK u \in Utente : u = storia.autore[n]
    BY <1>3
  <2>2. ScrittureIn(coda[u]) \subseteq
          ScrittureIn(coda'[u]) \cup storia'.eseguite \cup storia'.rifiutate
    OBVIOUS
  <2>3. QED
    BY <1>2, <1>3, <1>4, <2>1, <2>2
<1>6. EsitoVero'
  BY <1>5 DEF EsitoVero, Scritture, ScrittureIn
<1>7. NotizieVere'
  BY <1>2 DEF NotizieVere
<1>8. QED
  BY <1>6, <1>7

\* The callback of batch b tells what the server has done with its write.
LEMMA NotificaVera ==
  ASSUME storia \in Storia, NEW b \in Batch, NEW s \in {"ok", "errore"},
         s = "ok" => b.n \in storia.eseguite, s = "errore" => b.n \in storia.rifiutate,
         NotifyUser(b, s)
  PROVE  /\ Veritiera(storia, storia')
         /\ storia'.eseguite = storia.eseguite /\ storia'.rifiutate = storia.rifiutate
<1>1. CASE ~(b.id \in c.mutation_callbacks[c.current_user])
  BY <1>1, VeritieraSeUguale DEF NotifyUser
<1>2. CASE b.id \in c.mutation_callbacks[c.current_user]
  <2> DEFINE e == [storia.esito EXCEPT ![b.n] = s]
  <2>1. storia' = [storia EXCEPT !.esito = e]
    BY <1>2 DEF NotifyUser, Storia
  <2>2. storia.esito \in [1..MaxScritture -> {"nessuno", "ok", "errore"}]
    BY StoriaFatti
  <2>3. /\ e \in [1..MaxScritture -> {"nessuno", "ok", "errore"}]
        /\ \A n \in 1..MaxScritture : e[n] = storia.esito[n] \/ (n = b.n /\ e[n] = s)
    BY <2>2
  <2> HIDE DEF e
  <2>4. storia' \in Storia
    BY <2>1, <2>3 DEF Storia
  <2>5. /\ storia'.autore = storia.autore /\ storia'.eseguite = storia.eseguite
        /\ storia'.rifiutate = storia.rifiutate /\ storia'.esito = e
    BY <2>1 DEF Storia
  <2>6. ASSUME NEW n \in 1..MaxScritture
        PROVE  /\ e[n] = "ok" => storia.esito[n] = "ok" \/ n \in storia.eseguite
               /\ e[n] = "errore" => storia.esito[n] = "errore" \/ n \in storia.rifiutate
    BY <2>3
  <2>7. QED
    BY <2>4, <2>5, <2>6 DEF Veritiera
<1>3. QED
  BY <1>1, <1>2

(***************************************************************************)
(* The invariant is kept                                                   *)
(***************************************************************************)
\* What the invariant says of the state before a step.
LEMMA InvFatti ==
  ASSUME IInv
  PROVE  /\ coda \in [Utente -> Seq(Batch)] /\ c \in Client /\ storia \in Storia
         /\ StatoSano(c) /\ FlussoSano(c) /\ c.rotte = {} /\ c.is_network_enabled
         /\ c.current_user \in Utente /\ Mia \in Seq(Batch) /\ Ordinata(Mia)
         /\ c.write_pipeline = Davanti(Mia)
         /\ RisposteVere /\ IdSani /\ NotizieVere /\ EsitoVero
<1>1. /\ coda \in [Utente -> Seq(Batch)] /\ c \in Client /\ storia \in Storia
  BY DEF IInv, TypeOK
<1>2. StatoSano(c) /\ FlussoSano(c) /\ RisposteVere /\ IdSani /\ NotizieVere /\ EsitoVero
      /\ c.write_pipeline = Davanti(Mia)
  BY DEF IInv
<1>3. c.current_user \in Utente
  BY <1>1, ClientFatti
<1>4. Mia \in Seq(Batch) /\ Ordinata(Mia)
  BY <1>1, <1>2, <1>3 DEF Mia, IdSani
<1>5. c.rotte = {} /\ c.is_network_enabled
  BY <1>2 DEF StatoSano
<1>6. QED
  BY <1>1, <1>2, <1>3, <1>4, <1>5

\* A step that leaves the disk alone and the client sane.
LEMMA InvResta ==
  ASSUME IInv, coda' = coda, Resta(c, c'), Veritiera(storia, storia'), RisposteVere'
  PROVE  IInv'
<1>1. /\ c' \in Client /\ StatoSano(c') /\ FlussoSano(c')
      /\ c'.current_user = c.current_user /\ c'.next_batch_id = c.next_batch_id
      /\ c'.mutation_callbacks = c.mutation_callbacks /\ c'.write_pipeline = c.write_pipeline
  BY DEF Resta, Conservati
<1>2. storia' \in Storia /\ storia'.autore = storia.autore
  BY DEF Veritiera
<1>3. TypeOK'
  BY <1>1, <1>2, InvFatti DEF TypeOK
<1>4. Mia' = Mia
  BY <1>1 DEF Mia
<1>5. IdSani'
  BY <1>1, <1>2, <1>4, InvFatti DEF IdSani
<1>6. EsitoVero' /\ NotizieVere'
  BY InvFatti, EsitoConservato DEF Scritture
<1>7. c'.write_pipeline = Davanti(Mia')
  BY <1>1, <1>4, InvFatti
<1>8. QED
  BY <1>1, <1>3, <1>5, <1>6, <1>7 DEF IInv

\* The same when no answer is left on the stream.
LEMMA InvRestaMuta ==
  ASSUME IInv, coda' = coda, Resta(c, c'), storia' = storia, c'.risposte = <<>>
  PROVE  IInv'
<1>1. Veritiera(storia, storia')
  BY InvFatti, VeritieraSeUguale
<1>2. RisposteVere'
  BY DEF RisposteVere
<1>3. QED
  BY <1>1, <1>2, InvResta

\* Two clients whose streams are in the same state are both sane or neither.
LEMMA SanoUguale ==
  ASSUME NEW k \in Client, NEW r \in Client, StatoSano(k), FlussoSano(k),
         r.write_pipeline = k.write_pipeline,
         r.is_network_enabled = k.is_network_enabled, r.stato = k.stato,
         r.handshake_complete = k.handshake_complete,
         r.idleness_timer = k.idleness_timer, r.token = k.token,
         r.richieste = k.richieste, r.risposte = k.risposte, r.rotte = k.rotte
  PROVE  StatoSano(r) /\ FlussoSano(r)
<1>1. StatoSano(r)
  BY DEF StatoSano, IsStarted
<1>2. Rotto(k) <=> Rotto(r)
  BY DEF Rotto
<1>3. Allineato(k) => Allineato(r)
  BY DEF Allineato
<1>4. FlussoSano(r)
  BY <1>2, <1>3 DEF FlussoSano
<1>5. QED
  BY <1>1, <1>4

\* A step that leaves the batches alone, and after which nothing is under way to
\* the client.
Silenzio == coda' = coda /\ Resta(c, c') /\ c'.risposte = <<>>

\* A step that takes the front of the queue away with its callback, and leaves
\* answers t under way.
TestaTolta(t) ==
  /\ Mia # <<>> /\ coda' = [coda EXCEPT ![c.current_user] = Tail(Mia)]
  /\ c'.current_user = c.current_user
  /\ c'.mutation_callbacks =
       [c.mutation_callbacks EXCEPT ![c.current_user] = @ \ {Mia[1].id}]
  /\ c'.risposte = t

LEMMA InvResume ==
  ASSUME IInv, ResumeStartWithCredentials
  PROVE  IInv' /\ Silenzio
<1>1. c.token /\ coda' = coda /\ storia' = storia
      /\ c' = WriteHandshake([HARD_ASSERT(c, c.stato = "Starting",
                                "State should still be 'Starting'")
                                EXCEPT !.token = FALSE, !.stato = "Open"])
  BY DEF ResumeStartWithCredentials
<1>2. Resta(c, c') /\ c'.risposte = <<>>
  BY <1>1, InvFatti, ResumeResta
<1>3. QED
  BY <1>1, <1>2, InvRestaMuta DEF Silenzio

LEMMA InvNegate ==
  ASSUME IInv, CredenzialiNegate
  PROVE  IInv' /\ Silenzio
<1> DEFINE k == [c EXCEPT !.token = FALSE]
<1>1. c.token /\ coda' = coda /\ storia' = storia /\ c' = Close(k, "caduta", Mia)
  BY DEF CredenzialiNegate
<1>2. c \in Client /\ c.rotte = {} /\ c.is_network_enabled /\ c.stato = "Starting"
  BY <1>1, InvFatti DEF StatoSano
<1>3. /\ k \in Client /\ Conservati(c, k) /\ k.write_pipeline = c.write_pipeline
      /\ k.rotte = {} /\ k.is_network_enabled /\ IsStarted(k)
  BY <1>2 DEF Client, Conservati, IsStarted
<1> HIDE DEF k
<1>4. /\ c' \in Client /\ Conservati(k, c') /\ c'.write_pipeline = k.write_pipeline
      /\ StatoSano(c') /\ FlussoSano(c') /\ c'.risposte = <<>>
  BY <1>1, <1>3, ChiudeCaduta
<1>5. Resta(c, c')
  BY <1>3, <1>4 DEF Resta, Conservati
<1>6. QED
  BY <1>1, <1>4, <1>5, InvRestaMuta DEF Silenzio

LEMMA InvSuperate ==
  ASSUME IInv, CredenzialiSuperate
  PROVE  IInv' /\ coda' = coda /\ Resta(c, c') /\ c'.risposte = c.risposte
<1>1. coda' = coda /\ storia' = storia /\ c' = [c EXCEPT !.superato = FALSE]
  BY DEF CredenzialiSuperate
<1>2. c \in Client /\ StatoSano(c) /\ FlussoSano(c)
  BY InvFatti
<1>3. c' \in Client
  BY <1>1, <1>2 DEF Client
<1>4. /\ Conservati(c, c') /\ c'.write_pipeline = c.write_pipeline
      /\ c'.is_network_enabled = c.is_network_enabled /\ c'.stato = c.stato
      /\ c'.handshake_complete = c.handshake_complete
      /\ c'.idleness_timer = c.idleness_timer /\ c'.token = c.token
      /\ c'.richieste = c.richieste /\ c'.risposte = c.risposte /\ c'.rotte = c.rotte
  BY <1>1, <1>2 DEF Client, Conservati
<1>5. StatoSano(c') /\ FlussoSano(c')
  BY <1>2, <1>3, <1>4, SanoUguale
<1>6. RisposteVere'
  BY <1>1, <1>4, InvFatti DEF RisposteVere
<1>7. Veritiera(storia, storia')
  BY <1>1, InvFatti, VeritieraSeUguale
<1>8. QED
  BY <1>1, <1>3, <1>4, <1>5, <1>6, <1>7, InvResta DEF Resta

LEMMA InvBackoff ==
  ASSUME IInv, BackoffScaduto
  PROVE  IInv' /\ Silenzio
<1>1. c.stato = "Backoff" /\ coda' = coda /\ storia' = storia
      /\ c' = StreamStart([c EXCEPT !.stato = "Initial"])
  BY DEF BackoffScaduto
<1>2. Resta(c, c') /\ c'.risposte = <<>>
  BY <1>1, InvFatti, BackoffResta
<1>3. QED
  BY <1>1, <1>2, InvRestaMuta DEF Silenzio

LEMMA InvInattivo ==
  ASSUME IInv, Inattivo
  PROVE  IInv' /\ Silenzio
<1>1. c.idleness_timer /\ coda' = coda /\ storia' = storia /\ c' = Close(c, "ok", Mia)
  BY DEF Inattivo
<1>2. /\ c \in Client /\ c.rotte = {} /\ c.is_network_enabled
      /\ c.write_pipeline = <<>> /\ IsStarted(c)
  BY <1>1, InvFatti DEF StatoSano, IsStarted
<1>3. /\ c' \in Client /\ Conservati(c, c') /\ c'.write_pipeline = c.write_pipeline
      /\ Spenta(c') /\ ~c'.handshake_complete /\ ~c'.token /\ c'.stato = "Initial"
      /\ c'.is_network_enabled = c.is_network_enabled
  BY <1>1, <1>2, ChiudeOk
<1>4. StatoSano(c') /\ FlussoSano(c')
  BY <1>2, <1>3, SpentaSana
<1>5. Resta(c, c') /\ c'.risposte = <<>>
  BY <1>3, <1>4 DEF Resta, Spenta
<1>6. QED
  BY <1>1, <1>5, InvRestaMuta DEF Silenzio

LEMMA InvHandshake ==
  ASSUME IInv, OnWriteStreamHandshakeComplete
  PROVE  IInv' /\ Silenzio
<1>1. /\ c.risposte # <<>> /\ Head(c.risposte)[1] \in {"handshake", "risultato"}
      /\ ~c.handshake_complete /\ coda' = coda /\ storia' = storia
      /\ c' = WriteMutations([c EXCEPT !.risposte = Tail(@), !.handshake_complete = TRUE],
                             c.write_pipeline)
  BY DEF OnWriteStreamHandshakeComplete
<1>2. Resta(c, c') /\ c'.risposte = <<>>
  BY <1>1, InvFatti, HandshakeResta
<1>3. QED
  BY <1>1, <1>2, InvRestaMuta DEF Silenzio

LEMMA InvCaduto ==
  ASSUME IInv, FlussoCaduto
  PROVE  IInv' /\ coda' = coda /\ Resta(c, c') /\ c'.risposte = <<<<"caduta", 0>>>>
<1>1. /\ IsOpen(c) /\ coda' = coda /\ storia' = storia
      /\ c' = [c EXCEPT !.richieste = <<>>, !.risposte = <<<<"caduta", 0>>>>]
  BY DEF FlussoCaduto
<1>2. Resta(c, c') /\ c'.risposte = <<<<"caduta", 0>>>>
  BY <1>1, InvFatti, CadutoResta
<1>3. RisposteVere'
  BY <1>2 DEF RisposteVere
<1>4. Veritiera(storia, storia')
  BY <1>1, InvFatti, VeritieraSeUguale
<1>5. QED
  BY <1>1, <1>2, <1>3, <1>4, InvResta

LEMMA InvServerHandshake ==
  ASSUME IInv, ServerHandshake
  PROVE  IInv' /\ coda' = coda /\ Resta(c, c') /\ c'.risposte = <<<<"handshake", 0>>>>
<1>1. /\ c.richieste # <<>> /\ Head(c.richieste) = 0 /\ coda' = coda /\ storia' = storia
      /\ ~(c.risposte # <<>> /\ Last(c.risposte)[1] \in {"rifiuto", "caduta"})
      /\ c' = [c EXCEPT !.richieste = Tail(@), !.risposte = Append(@, <<"handshake", 0>>)]
  BY DEF ServerHandshake, Terminato, Risponde
<1>2. Resta(c, c') /\ c'.risposte = <<<<"handshake", 0>>>>
  BY <1>1, InvFatti, ServerHandshakeResta
<1>3. RisposteVere'
  BY <1>2 DEF RisposteVere
<1>4. Veritiera(storia, storia')
  BY <1>1, InvFatti, VeritieraSeUguale
<1>5. QED
  BY <1>1, <1>2, <1>3, <1>4, InvResta

\* An answer t to the oldest request, when the history notes what was done.
LEMMA RisposteCresciute ==
  ASSUME IInv, NEW t \in {"risultato", "rifiuto"}, NEW h \in 1..MaxScritture,
         c'.risposte = Append(c.risposte, <<t, h>>), Veritiera(storia, storia'),
         t = "risultato" => h \in storia'.eseguite, t = "rifiuto" => h \in storia'.rifiutate
  PROVE  RisposteVere'
<1> DEFINE s == Append(c.risposte, <<t, h>>)
           a == Len(c.risposte)
<1>1. /\ Len(s) = a + 1 /\ a \in Nat /\ s[a + 1] = <<t, h>>
      /\ \A i \in 1..a : s[i] = c.risposte[i]
      /\ s \in Seq(Messaggio) /\ DOMAIN c.risposte = 1..a
  <2>1. c.risposte \in Seq(Messaggio) /\ <<t, h>> \in Messaggio
    BY InvFatti, ClientFatti, ClientAssumption DEF Messaggio
  <2>2. QED
    BY <2>1, AppendProperties
<1>2. DOMAIN s = 1..a + 1
  BY <1>1
<1>3. storia.eseguite \subseteq storia'.eseguite /\ storia.rifiutate \subseteq storia'.rifiutate
  BY DEF Veritiera
<1>4. \A i \in 1..a :
        /\ c.risposte[i][1] = "risultato" => c.risposte[i][2] \in storia.eseguite
        /\ c.risposte[i][1] = "rifiuto" => c.risposte[i][2] \in storia.rifiutate
  BY <1>1, InvFatti DEF RisposteVere
<1>5. ASSUME NEW i \in 1..a + 1
      PROVE  /\ s[i][1] = "risultato" => s[i][2] \in storia'.eseguite
             /\ s[i][1] = "rifiuto" => s[i][2] \in storia'.rifiutate
  <2>1. i \in 1..a \/ i = a + 1
    BY <1>1
  <2>2. CASE i \in 1..a
    BY <1>1, <1>3, <1>4, <2>2
  <2>3. CASE i = a + 1
    <3>1. s[i][1] = t /\ s[i][2] = h
      BY <1>1, <2>3
    <3>2. QED
      BY <3>1
  <2>4. QED
    BY <2>1, <2>2, <2>3
<1> HIDE DEF s
<1>6. QED
  BY <1>2, <1>5 DEF RisposteVere, s

LEMMA InvServerEsegue ==
  ASSUME IInv, ServerEsegue
  PROVE  /\ IInv' /\ coda' = coda /\ Resta(c, c')
         /\ c.handshake_complete /\ Allineato(c) /\ ~Terminato /\ c.richieste # <<>>
         /\ c'.risposte = Append(c.risposte, <<"risultato", Head(c.richieste)>>)
<1> DEFINE h == Head(c.richieste)
<1>1. /\ c.richieste # <<>> /\ h # 0 /\ coda' = coda
      /\ storia' = [storia EXCEPT !.eseguite = @ \cup {h}]
      /\ ~(c.risposte # <<>> /\ Last(c.risposte)[1] \in {"rifiuto", "caduta"})
      /\ c' = [c EXCEPT !.richieste = Tail(@), !.risposte = Append(@, <<"risultato", h>>)]
  BY DEF ServerEsegue, Terminato, Risponde
<1>2. Resta(c, c') /\ c.handshake_complete /\ Allineato(c)
      /\ h \in 1..MaxScritture /\ c'.risposte = Append(c.risposte, <<"risultato", h>>)
  BY <1>1, InvFatti, ServerResta
<1> HIDE DEF h
<1>3. storia \in Storia
  BY InvFatti
<1>4. storia' \in Storia
  BY <1>1, <1>2, <1>3 DEF Storia
<1>5. /\ storia'.autore = storia.autore /\ storia'.eseguite = storia.eseguite \cup {h}
      /\ storia'.rifiutate = storia.rifiutate /\ storia'.esito = storia.esito
  BY <1>1, <1>3 DEF Storia
<1>6. Veritiera(storia, storia')
  BY <1>4, <1>5 DEF Veritiera
<1>7. RisposteVere'
  BY <1>2, <1>5, <1>6, RisposteCresciute
<1>8. QED
  BY <1>1, <1>2, <1>6, <1>7, InvResta DEF h, Terminato

LEMMA InvServerRifiuta ==
  ASSUME IInv, ServerRifiuta
  PROVE  /\ IInv' /\ coda' = coda /\ Resta(c, c')
         /\ c.handshake_complete /\ Allineato(c) /\ ~Terminato /\ c.richieste # <<>>
         /\ c'.risposte = Append(c.risposte, <<"rifiuto", Head(c.richieste)>>)
<1> DEFINE h == Head(c.richieste)
<1>1. /\ c.richieste # <<>> /\ h # 0 /\ coda' = coda
      /\ storia' = [storia EXCEPT !.rifiutate = @ \cup {h}]
      /\ ~(c.risposte # <<>> /\ Last(c.risposte)[1] \in {"rifiuto", "caduta"})
      /\ c' = [c EXCEPT !.richieste = Tail(@), !.risposte = Append(@, <<"rifiuto", h>>)]
  BY DEF ServerRifiuta, Terminato, Risponde
<1>2. Resta(c, c') /\ c.handshake_complete /\ Allineato(c)
      /\ h \in 1..MaxScritture /\ c'.risposte = Append(c.risposte, <<"rifiuto", h>>)
  BY <1>1, InvFatti, ServerResta
<1> HIDE DEF h
<1>3. storia \in Storia
  BY InvFatti
<1>4. storia' \in Storia
  BY <1>1, <1>2, <1>3 DEF Storia
<1>5. /\ storia'.autore = storia.autore /\ storia'.eseguite = storia.eseguite
      /\ storia'.rifiutate = storia.rifiutate \cup {h} /\ storia'.esito = storia.esito
  BY <1>1, <1>3 DEF Storia
<1>6. Veritiera(storia, storia')
  BY <1>4, <1>5 DEF Veritiera
<1>7. RisposteVere'
  BY <1>2, <1>5, <1>6, RisposteCresciute
<1>8. QED
  BY <1>1, <1>2, <1>6, <1>7, InvResta DEF h, Terminato

\* Ids on disk are no larger than the number of writes issued.
LEMMA IdLimitati ==
  ASSUME IInv, NEW v \in Utente, NEW id, id = LoadNextBatchIdFromDb(coda, v)
  PROVE  /\ id \in Nat \ {0} /\ id <= Len(storia.autore) + 1
         /\ \A u \in Utente : \A i \in DOMAIN coda[u] : coda[u][i].id < id
<1>1. Len(storia.autore) \in Nat /\ c.next_batch_id \in Nat /\ coda \in [Utente -> Seq(Batch)]
  <2>1. Len(storia.autore) \in 0..MaxScritture
    BY InvFatti, StoriaFatti
  <2>2. QED
    BY <2>1, InvFatti, ClientFatti, ClientAssumption
<1>2. \A u \in Utente : \A i \in DOMAIN coda[u] : coda[u][i].id <= Len(storia.autore)
  <2> SUFFICES ASSUME NEW u \in Utente, NEW i \in DOMAIN coda[u]
               PROVE  coda[u][i].id <= Len(storia.autore)
    OBVIOUS
  <2>1. coda[u][i].id \in Nat
    BY <1>1, CodaFatti
  <2>2. coda[u][i].id < c.next_batch_id /\ c.next_batch_id <= Len(storia.autore) + 1
    BY InvFatti DEF IdSani
  <2>3. QED
    BY ONLY <1>1, <2>1, <2>2
<1>3. QED
  BY <1>1, <1>2, ProssimoId

\* A step that leaves the disk alone and starts the client, perhaps of another user, again.
LEMMA InvRicomincia ==
  ASSUME IInv, coda' = coda, c' \in Client, StatoSano(c'), FlussoSano(c'),
         c'.write_pipeline = Davanti(coda[c'.current_user]), c'.risposte = <<>>,
         \/ c'.next_batch_id = c.next_batch_id
         \/ c'.next_batch_id = LoadNextBatchIdFromDb(coda, c'.current_user),
         \A u \in Utente : c'.mutation_callbacks[u] \subseteq c.mutation_callbacks[u],
         Veritiera(storia, storia')
  PROVE  IInv'
<1>1. storia' \in Storia /\ storia'.autore = storia.autore
  BY DEF Veritiera
<1>2. TypeOK'
  BY <1>1, InvFatti DEF TypeOK
<1>3. c'.write_pipeline = Davanti(Mia')
  BY DEF Mia
<1>4. /\ c'.next_batch_id <= Len(storia.autore) + 1
      /\ \A u \in Utente : \A i \in DOMAIN coda[u] : coda[u][i].id < c'.next_batch_id
  <2>1. CASE c'.next_batch_id = c.next_batch_id
    BY <2>1, InvFatti DEF IdSani
  <2>2. CASE c'.next_batch_id = LoadNextBatchIdFromDb(coda, c'.current_user)
    <3>1. c'.current_user \in Utente
      BY ClientFatti
    <3>2. QED
      BY <2>2, <3>1, IdLimitati
  <2>3. QED
    BY <2>1, <2>2
<1>5. IdSani'
  <2>1. \A u \in Utente : Ordinata(coda[u])
                          /\ c'.mutation_callbacks[u] \subseteq Identificativi(coda[u])
    BY InvFatti DEF IdSani
  <2>2. \A u, v \in Utente : u # v => Identificativi(coda[u]) \cap Identificativi(coda[v]) = {}
    BY InvFatti DEF IdSani
  <2>3. QED
    BY <1>1, <1>4, <2>1, <2>2 DEF IdSani
<1>6. EsitoVero' /\ NotizieVere'
  BY InvFatti, EsitoConservato
<1>7. RisposteVere'
  BY DEF RisposteVere
<1>8. QED
  BY <1>2, <1>3, <1>5, <1>6, <1>7 DEF IInv

LEMMA InvConnettivita ==
  ASSUME IInv, ConnettivitaCambiata
  PROVE  IInv' /\ Silenzio
<1> DEFINE k == IF IsOpen(c) THEN Close(c, "caduta", Mia) ELSE c
<1>1. coda' = coda /\ storia' = storia /\ (c' = k \/ c' = RestartNetwork(k, Mia))
  BY DEF ConnettivitaCambiata
<1>2. /\ c \in Client /\ StatoSano(c) /\ FlussoSano(c) /\ c.rotte = {} /\ c.is_network_enabled
      /\ Mia \in Seq(Batch) /\ Ordinata(Mia) /\ c.write_pipeline = Davanti(Mia)
  BY InvFatti
<1>3. /\ k \in Client /\ Conservati(c, k) /\ k.write_pipeline = c.write_pipeline
      /\ StatoSano(k) /\ FlussoSano(k) /\ k.risposte = <<>>
  <2>1. CASE IsOpen(c)
    <3>1. IsStarted(c) /\ k = Close(c, "caduta", Mia)
      BY <2>1 DEF IsOpen, IsStarted
    <3> HIDE DEF k
    <3>2. QED
      BY <1>2, <3>1, ChiudeCaduta
  <2>2. CASE ~IsOpen(c)
    BY <1>2, <2>2 DEF Conservati, FlussoSano, IsOpen
  <2>3. QED
    BY <2>1, <2>2
<1> HIDE DEF k
<1>4. CASE c' = k
  <2>1. Resta(c, c') /\ c'.risposte = <<>>
    BY <1>3, <1>4 DEF Resta
  <2>2. QED
    BY <1>1, <2>1, InvRestaMuta DEF Silenzio
<1>5. CASE c' = RestartNetwork(k, Mia)
  <2>1. /\ c' \in Client /\ Conservati(k, c') /\ c'.write_pipeline = Davanti(Mia)
        /\ StatoSano(c') /\ FlussoSano(c') /\ c'.risposte = <<>>
    BY <1>2, <1>3, <1>5, RiavviaSano
  <2>2. Resta(c, c')
    BY <1>2, <1>3, <2>1 DEF Resta, Conservati
  <2>3. QED
    BY <1>1, <2>1, <2>2, InvRestaMuta DEF Silenzio
<1>6. QED
  BY <1>1, <1>4, <1>5

LEMMA InvCambio ==
  ASSUME IInv, NEW u \in Utente, HandleCredentialChange(u)
  PROVE  IInv' /\ coda' = coda /\ c'.risposte = <<>>
         /\ c'.mutation_callbacks = c.mutation_callbacks
<1> DEFINE id == LoadNextBatchIdFromDb(coda, u)
           k == IF u = c.current_user THEN c
                ELSE [c EXCEPT !.current_user = u, !.next_batch_id = id]
<1>1. coda' = coda /\ storia' = storia /\ c' = RestartNetwork(k, coda[u])
  BY DEF HandleCredentialChange
<1>2. c \in Client /\ StatoSano(c) /\ FlussoSano(c) /\ coda \in [Utente -> Seq(Batch)]
  BY InvFatti
<1>3. id \in Nat \ {0}
  BY IdLimitati
<1>4. coda[u] \in Seq(Batch) /\ Ordinata(coda[u])
  BY <1>2, InvFatti DEF IdSani
<1>5. /\ k \in Client /\ StatoSano(k) /\ FlussoSano(k) /\ k.current_user = u
      /\ k.mutation_callbacks = c.mutation_callbacks
      /\ k.next_batch_id = c.next_batch_id \/ k.next_batch_id = id
  <2> HIDE DEF id
  <2>1. CASE u = c.current_user
    BY <1>2, <2>1
  <2>2. CASE u # c.current_user
    <3>1. k = [c EXCEPT !.current_user = u, !.next_batch_id = id]
      BY <2>2
    <3> HIDE DEF k
    <3>2. k \in Client
      BY <1>2, <1>3, <3>1 DEF Client
    <3>3. /\ k.current_user = u /\ k.next_batch_id = id
          /\ k.mutation_callbacks = c.mutation_callbacks
          /\ k.write_pipeline = c.write_pipeline
          /\ k.is_network_enabled = c.is_network_enabled /\ k.stato = c.stato
          /\ k.handshake_complete = c.handshake_complete
          /\ k.idleness_timer = c.idleness_timer /\ k.token = c.token
          /\ k.richieste = c.richieste /\ k.risposte = c.risposte /\ k.rotte = c.rotte
      BY <1>2, <3>1 DEF Client
    <3>4. QED
      BY <1>2, <3>2, <3>3, SanoUguale
  <2>3. QED
    BY <2>1, <2>2
<1> HIDE DEF k
<1>6. /\ c' \in Client /\ Conservati(k, c') /\ c'.write_pipeline = Davanti(coda[u])
      /\ StatoSano(c') /\ FlussoSano(c') /\ c'.risposte = <<>>
  BY <1>1, <1>4, <1>5, RiavviaSano
<1>7. /\ c'.current_user = u /\ c'.mutation_callbacks = c.mutation_callbacks
      /\ c'.next_batch_id = c.next_batch_id
         \/ c'.next_batch_id = LoadNextBatchIdFromDb(coda, c'.current_user)
  BY <1>5, <1>6 DEF Conservati, id
<1>8. Veritiera(storia, storia')
  BY <1>1, InvFatti, VeritieraSeUguale
<1>9. QED
  BY <1>1, <1>6, <1>7, <1>8, InvRicomincia

LEMMA InvAvviata ==
  ASSUME IInv, NEW u \in Utente, coda' = coda, c' = Avviata(coda, u),
         Veritiera(storia, storia')
  PROVE  IInv'
<1>1. /\ coda \in [Utente -> Seq(Batch)] /\ Ordinata(coda[u])
      /\ LoadNextBatchIdFromDb(coda, u) \in Nat \ {0}
  BY InvFatti, IdLimitati DEF IdSani
<1>2. /\ c' \in Client /\ c'.current_user = u
      /\ c'.next_batch_id = LoadNextBatchIdFromDb(coda, u)
      /\ \A v \in Utente : c'.mutation_callbacks[v] = {}
      /\ c'.write_pipeline = Davanti(coda[u])
      /\ StatoSano(c') /\ FlussoSano(c') /\ c'.risposte = <<>>
  BY <1>1, AvviataSana
<1>3. \A v \in Utente : c'.mutation_callbacks[v] \subseteq c.mutation_callbacks[v]
  BY <1>2
<1>4. QED
  BY <1>2, <1>3, InvRicomincia

LEMMA InvCrash ==
  ASSUME IInv, NEW u \in Utente, Crash(u)
  PROVE  IInv'
<1>1. coda' = coda /\ storia' = storia /\ c' = Avviata(coda, u)
  BY DEF Crash
<1>2. Veritiera(storia, storia')
  BY <1>1, InvFatti, VeritieraSeUguale
<1>3. QED
  BY <1>1, <1>2, InvAvviata

\* The oldest answer after the handshake is about the front of the pipeline.
LEMMA PrimaRisposta ==
  ASSUME IInv, c.risposte # <<>>, c.handshake_complete,
         Head(c.risposte)[1] # "caduta"
  PROVE  /\ Allineato(c) /\ c.write_pipeline # <<>>
         /\ Head(c.write_pipeline) \in Batch /\ Head(c.write_pipeline) = Mia[1] /\ Mia # <<>>
         /\ Head(c.risposte)[1] = "risultato" => Head(c.write_pipeline).n \in storia.eseguite
         /\ Head(c.risposte)[1] = "rifiuto" => Head(c.write_pipeline).n \in storia.rifiutate
         /\ Head(c.risposte)[1] \in {"risultato", "rifiuto"}
<1>1. /\ c \in Client /\ FlussoSano(c) /\ RisposteVere
      /\ c.write_pipeline = Davanti(Mia) /\ Mia \in Seq(Batch)
  BY InvFatti
<1>2. ~Rotto(c)
  BY DEF Rotto
<1>3. Allineato(c)
  BY <1>1, <1>2 DEF FlussoSano
<1>4. /\ c.risposte \in Seq(Messaggio) /\ c.write_pipeline \in Seq(Batch)
      /\ c.richieste \in Seq(0..MaxScritture)
  BY <1>1, ClientFatti
<1>5. /\ Len(c.risposte) \in Nat \ {0} /\ Len(c.richieste) \in Nat
      /\ 1 \in DOMAIN c.risposte /\ 1 \in 1..Len(c.risposte)
      /\ Head(c.risposte) = c.risposte[1]
  BY <1>4, EmptySeq
<1>6. /\ c.risposte[1][2] = c.write_pipeline[1].n
      /\ c.risposte[1][1] \in {"risultato", "rifiuto"}
      /\ Len(c.write_pipeline) = Len(c.risposte) + Len(c.richieste)
  BY <1>3, <1>5 DEF Allineato
<1>7. c.write_pipeline # <<>>
  <2>1. /\ Len(c.write_pipeline) = Len(c.risposte) + Len(c.richieste)
        /\ Len(c.risposte) \in Nat \ {0} /\ Len(c.richieste) \in Nat
    BY <1>5, <1>6
  <2>2. \A a \in Nat \ {0}, b \in Nat : a + b # 0
    OBVIOUS
  <2>3. Len(c.write_pipeline) # 0
    BY ONLY <2>1, <2>2
  <2>4. QED
    BY <2>3
<1>8. Head(c.write_pipeline) = Mia[1] /\ Mia[1] \in Batch /\ Mia # <<>>
      /\ c.write_pipeline[1] = Mia[1]
  BY <1>1, <1>4, <1>7, AvanzaCoda
<1>9. /\ c.risposte[1][1] = "risultato" => c.risposte[1][2] \in storia.eseguite
      /\ c.risposte[1][1] = "rifiuto" => c.risposte[1][2] \in storia.rifiutate
  BY <1>1, <1>5 DEF RisposteVere
<1>10. QED
  BY <1>3, <1>5, <1>6, <1>7, <1>8, <1>9

LEMMA InvCrashInRisposta ==
  ASSUME IInv, NEW u \in Utente, CrashInRisposta(u)
  PROVE  IInv'
<1>1. /\ c.risposte # <<>> /\ Head(c.risposte)[1] = "risultato" /\ c.handshake_complete
      /\ coda' = coda /\ c' = Avviata(coda, u) /\ NotifyUser(Head(c.write_pipeline), "ok")
  BY DEF CrashInRisposta
<1>2. Head(c.write_pipeline) \in Batch /\ Head(c.write_pipeline).n \in storia.eseguite
  BY <1>1, PrimaRisposta
<1>3. Veritiera(storia, storia')
  BY <1>1, <1>2, InvFatti, NotificaVera
<1>4. QED
  BY <1>1, <1>3, InvAvviata

\* The batch at the front of the user's queue is done and leaves disk and callbacks.
LEMMA InvTolta ==
  ASSUME IInv, Mia # <<>>, coda' = [coda EXCEPT ![c.current_user] = Tail(Mia)],
         c' \in Client, StatoSano(c'), FlussoSano(c'),
         c'.current_user = c.current_user, c'.next_batch_id = c.next_batch_id,
         c'.mutation_callbacks =
           [c.mutation_callbacks EXCEPT ![c.current_user] = @ \ {Mia[1].id}],
         c'.write_pipeline = Davanti(Tail(Mia)), Veritiera(storia, storia'), RisposteVere',
         Mia[1].n \in storia'.eseguite \cup storia'.rifiutate
  PROVE  IInv'
<1> DEFINE u == c.current_user
<1>1. /\ coda \in [Utente -> Seq(Batch)] /\ c \in Client /\ u \in Utente
      /\ Mia \in Seq(Batch) /\ Ordinata(Mia) /\ Mia = coda[u]
      /\ c.mutation_callbacks \in [Utente -> SUBSET (Nat \ {0})]
  BY InvFatti, ClientFatti DEF Mia
<1>2. /\ InCoda(Mia) = {Mia[1]} \cup InCoda(Tail(Mia)) /\ Tail(Mia) \in Seq(Batch)
      /\ Ordinata(Tail(Mia))
  BY <1>1, CodaTesta, CodaOrdinata, HeadTailProperties
<1>3. storia' \in Storia /\ storia'.autore = storia.autore
  BY DEF Veritiera
<1> HIDE DEF u
<1>4. coda'[u] = Tail(Mia) /\ \A v \in Utente : v # u => coda'[v] = coda[v]
  BY <1>1 DEF u
<1>5. TypeOK'
  <2>1. coda' \in [Utente -> Seq(Batch)]
    BY <1>1, <1>2 DEF u
  <2>2. QED
    BY <1>3, <2>1 DEF TypeOK
<1>6. c'.write_pipeline = Davanti(Mia')
  BY <1>4 DEF Mia, u
<1>7. \A v \in Utente : InCoda(coda'[v]) \subseteq InCoda(coda[v])
  BY <1>1, <1>2, <1>4
<1>8. \A v \in Utente : Identificativi(coda'[v]) \subseteq Identificativi(coda[v])
  BY <1>7 DEF Identificativi
<1>9. \A v \in Utente : c'.mutation_callbacks[v] \subseteq Identificativi(coda'[v])
  <2>1. \A v \in Utente : c.mutation_callbacks[v] \subseteq Identificativi(coda[v])
    BY InvFatti DEF IdSani
  <2>2. c'.mutation_callbacks[u] = c.mutation_callbacks[u] \ {Mia[1].id}
        /\ \A v \in Utente : v # u => c'.mutation_callbacks[v] = c.mutation_callbacks[v]
    BY <1>1 DEF u
  <2>3. Identificativi(Mia) \ {Mia[1].id} \subseteq Identificativi(Tail(Mia))
    BY <1>2 DEF Identificativi
  <2>4. c'.mutation_callbacks[u] \subseteq Identificativi(coda'[u])
    BY <1>1, <1>4, <2>1, <2>2, <2>3
  <2>5. QED
    BY <1>4, <2>1, <2>2, <2>4
<1>10. ASSUME NEW v \in Utente, NEW i \in DOMAIN coda'[v] PROVE coda'[v][i].id < c.next_batch_id
  <2>1. coda'[v][i] \in InCoda(coda[v])
    BY <1>7 DEF InCoda
  <2>2. PICK j \in DOMAIN coda[v] : coda'[v][i] = coda[v][j]
    BY <2>1 DEF InCoda
  <2>3. QED
    BY <2>2, InvFatti DEF IdSani
<1>11. IdSani'
  <2>1. \A v \in Utente : Ordinata(coda'[v])
    BY <1>2, <1>4, InvFatti DEF IdSani
  <2>2. \A v, w \in Utente : v # w => Identificativi(coda'[v]) \cap Identificativi(coda'[w]) = {}
    <3>1. \A v, w \in Utente : v # w => Identificativi(coda[v]) \cap Identificativi(coda[w]) = {}
      BY InvFatti DEF IdSani
    <3>2. QED
      BY <1>8, <3>1
  <2>3. c'.next_batch_id <= Len(storia'.autore) + 1
    BY <1>3, InvFatti DEF IdSani
  <2>4. QED
    BY <1>9, <1>10, <2>1, <2>2, <2>3 DEF IdSani
<1>12. EsitoVero' /\ NotizieVere'
  <2>1. ASSUME NEW v \in Utente
        PROVE  ScrittureIn(coda[v]) \subseteq
                 ScrittureIn(coda'[v]) \cup storia'.eseguite \cup storia'.rifiutate
    <3>1. CASE v = u
      BY <1>1, <1>2, <1>4, <3>1 DEF ScrittureIn
    <3>2. CASE v # u
      BY <1>4, <3>2
    <3>3. QED
      BY <3>1, <3>2
  <2>2. QED
    BY <2>1, InvFatti, EsitoConservato
<1>13. QED
  BY <1>5, <1>6, <1>11, <1>12 DEF IInv

\* The callbacks without that of batch id of the current user.
SenzaCallback(k, id) == [k.mutation_callbacks EXCEPT ![k.current_user] = @ \ {id}]

\* What HandleSuccessfulWrite takes from memory before it fills the pipeline.
Tolta(k, id) ==
  [k EXCEPT !.risposte = Tail(@), !.write_pipeline = Tail(@),
            !.mutation_callbacks[k.current_user] = @ \ {id}]

\* An answer about the front of the pipeline, and what is left.
LEMMA RispostaTolta ==
  ASSUME NEW k \in Client, StatoSano(k), k.handshake_complete, k.risposte # <<>>, Allineato(k),
         NEW id, NEW r, r = Tolta(k, id)
  PROVE  /\ r \in Client /\ StatoSano(r) /\ FlussoSano(r) /\ r.is_network_enabled
         /\ r.current_user = k.current_user /\ r.next_batch_id = k.next_batch_id
         /\ r.mutation_callbacks = SenzaCallback(k, id)
         /\ r.write_pipeline = Tail(k.write_pipeline) /\ r.risposte = Tail(k.risposte)
<1> DEFINE w == k.write_pipeline
           s == k.risposte
           m == k.richieste
           mc == [k.mutation_callbacks EXCEPT ![k.current_user] = @ \ {id}]
<1>1. w \in Seq(Batch) /\ s \in Seq(Messaggio) /\ m \in Seq(0..MaxScritture)
      /\ mc \in [Utente -> SUBSET (Nat \ {0})]
  BY ClientFatti
<1>2. /\ Len(s) + Len(m) = Len(w)
      /\ \A i \in 1..Len(s) :
           /\ s[i][2] = w[i].n
           /\ s[i][1] = "risultato" \/ (i = Len(s) /\ s[i][1] = "rifiuto")
      /\ \A i \in 1..Len(m) : m[i] = w[Len(s) + i].n
  BY DEF Allineato
<1>3. r = [k EXCEPT !.risposte = Tail(s), !.write_pipeline = Tail(w), !.mutation_callbacks = mc]
  BY DEF Client, Tolta
<1> HIDE DEF mc, s, w, m
<1>4. s # <<>>
  BY DEF s
<1>5. /\ Len(s) \in Nat \ {0} /\ Len(m) \in Nat /\ Len(w) \in Nat
      /\ Tail(s) \in Seq(Messaggio) /\ Len(Tail(s)) = Len(s) - 1
      /\ \A i \in 1..Len(s) - 1 : Tail(s)[i] = s[i + 1]
  BY <1>1, <1>4, HeadTailProperties, EmptySeq
<1>6. w # <<>>
  <2>1. \A a \in Nat \ {0}, b \in Nat : a + b # 0
    OBVIOUS
  <2>2. Len(w) # 0
    BY <1>2, <1>5, <2>1
  <2>3. QED
    BY <2>2
<1>7. /\ Tail(w) \in Seq(Batch) /\ Len(Tail(w)) = Len(w) - 1
      /\ \A i \in 1..Len(w) - 1 : Tail(w)[i] = w[i + 1]
  BY <1>1, <1>6, HeadTailProperties
<1>8. r \in Client
  <2>1. \A p \in Seq(Batch), t \in Seq(Messaggio), f \in [Utente -> SUBSET (Nat \ {0})] :
          [k EXCEPT !.risposte = t, !.write_pipeline = p, !.mutation_callbacks = f] \in Client
    BY DEF Client
  <2>2. QED
    BY ONLY <1>1, <1>3, <1>5, <1>7, <2>1, Zenon
<1>9. /\ r.current_user = k.current_user /\ r.next_batch_id = k.next_batch_id
      /\ r.mutation_callbacks = mc /\ r.write_pipeline = Tail(w) /\ r.risposte = Tail(s)
      /\ r.richieste = m /\ r.is_network_enabled = k.is_network_enabled
      /\ r.stato = k.stato /\ r.token = k.token /\ r.idleness_timer = k.idleness_timer
      /\ r.handshake_complete = k.handshake_complete /\ r.rotte = k.rotte
  BY <1>3 DEF Client, m
<1>10. k.stato = "Open" /\ ~k.idleness_timer
  BY <1>6 DEF StatoSano, w
<1>11. StatoSano(r)
  BY <1>9, <1>10 DEF StatoSano, IsStarted
<1>12. Len(Tail(s)) + Len(m) = Len(Tail(w))
  <2>1. /\ Len(s) + Len(m) = Len(w) /\ Len(s) \in Nat \ {0} /\ Len(m) \in Nat
        /\ Len(Tail(s)) = Len(s) - 1 /\ Len(Tail(w)) = Len(w) - 1
    BY <1>2, <1>5, <1>7
  <2>2. QED
    BY ONLY <2>1
<1>13. ASSUME NEW i \in 1..Len(Tail(s))
       PROVE  /\ Tail(s)[i][2] = Tail(w)[i].n
              /\ \/ Tail(s)[i][1] = "risultato"
                 \/ i = Len(Tail(s)) /\ Tail(s)[i][1] = "rifiuto"
  <2>1. /\ i \in 1..Len(s) - 1 /\ i + 1 \in 1..Len(s) /\ i \in 1..Len(w) - 1
        /\ i + 1 = Len(s) => i = Len(Tail(s))
    <3>1. /\ i \in 1..Len(s) - 1 /\ Len(Tail(s)) = Len(s) - 1
          /\ Len(s) \in Nat \ {0} /\ Len(w) \in Nat
      BY <1>5
    <3>2. Len(s) - 1 <= Len(w) - 1
      <4>1. Len(s) + Len(m) = Len(w) /\ Len(s) \in Nat \ {0} /\ Len(m) \in Nat
        BY <1>2, <1>5
      <4>2. QED
        BY ONLY <4>1
    <3>3. i \in Nat /\ 1 <= i /\ i <= Len(s) - 1 /\ i <= Len(w) - 1
      BY ONLY <3>1, <3>2
    <3>4. i + 1 \in 1..Len(s) /\ i \in 1..Len(w) - 1
      BY ONLY <3>1, <3>3
    <3>5. i + 1 = Len(s) => i = Len(s) - 1
      <4>1. \A x, n \in Nat : x + 1 = n => x = n - 1
        OBVIOUS
      <4>2. i \in Nat /\ Len(s) \in Nat
        BY <3>1, <3>3
      <4>3. QED
        BY ONLY <4>1, <4>2
    <3>6. QED
      BY ONLY <3>1, <3>4, <3>5
  <2>2. Tail(s)[i] = s[i + 1] /\ Tail(w)[i] = w[i + 1]
    BY <1>5, <1>7, <2>1
  <2>3. QED
    BY <1>2, <2>1, <2>2
<1>14. ASSUME NEW i \in 1..Len(m) PROVE m[i] = Tail(w)[Len(Tail(s)) + i].n
  <2>1. /\ Len(Tail(s)) + i \in 1..Len(w) - 1
        /\ (Len(Tail(s)) + i) + 1 = Len(s) + i
    <3>1. Len(Tail(s)) = Len(s) - 1 /\ Len(s) \in Nat \ {0} /\ Len(m) \in Nat
      BY <1>5
    <3>2. Len(s) + Len(m) = Len(w)
      BY <1>2
    <3>3. i \in 1..Len(m)
      OBVIOUS
    <3>4. QED
      BY ONLY <3>1, <3>2, <3>3
  <2>2. Tail(w)[Len(Tail(s)) + i] = w[Len(s) + i]
    BY <1>7, <2>1
  <2>3. QED
    BY <1>2, <2>2
<1>15. Allineato(r)
  BY ONLY <1>9, <1>12, <1>13, <1>14 DEF Allineato
<1>16. FlussoSano(r)
  BY <1>9, <1>10, <1>15 DEF FlussoSano
<1>17. r.is_network_enabled
  BY <1>11 DEF StatoSano
<1>18. QED
  BY <1>8, <1>9, <1>11, <1>16, <1>17 DEF mc, s, w, SenzaCallback

\* The result of a write: its batch is the one at the front, and leaves the disk.
LEMMA InvRisultato ==
  ASSUME IInv, OnWriteStreamMutationResult
  PROVE  /\ IInv' /\ c.handshake_complete /\ c.risposte # <<>> /\ Allineato(c)
         /\ Head(c.risposte)[1] = "risultato" /\ TestaTolta(Tail(c.risposte))
<1> DEFINE b == Head(c.write_pipeline)
           q == Tail(Mia)
           k == Tolta(c, b.id)
<1>1. /\ c.risposte # <<>> /\ Head(c.risposte)[1] \in {"handshake", "risultato"}
      /\ c.handshake_complete
  BY DEF OnWriteStreamMutationResult
<1>2. /\ Allineato(c) /\ c.write_pipeline # <<>> /\ b \in Batch /\ b = Mia[1] /\ Mia # <<>>
      /\ b.n \in storia.eseguite /\ Head(c.risposte)[1] = "risultato"
  BY <1>1, PrimaRisposta
<1>3. NotifyUser(b, "ok") /\ HandleSuccessfulWrite(b)
  BY <1>1, <1>2 DEF OnWriteStreamMutationResult
<1>4. /\ c \in Client /\ StatoSano(c) /\ FlussoSano(c) /\ Mia \in Seq(Batch) /\ Ordinata(Mia)
      /\ c.write_pipeline = Davanti(Mia) /\ c.write_pipeline \in Seq(Batch)
  BY InvFatti, ClientFatti
<1>5. RemoveMutationBatch(Mia, b.id) = q /\ q \in Seq(Batch) /\ Ordinata(q)
  BY <1>2, <1>4, TestaRimossa, CodaOrdinata, HeadTailProperties
<1>6. b.id \in Identificativi(Mia)
  BY <1>2, <1>4, CodaTesta DEF Identificativi
<1> HIDE DEF b, q
<1>7. coda' = [coda EXCEPT ![c.current_user] = q] /\ c' = FillWritePipeline(k, q)
  BY <1>3, <1>5, <1>6 DEF HandleSuccessfulWrite, HARD_ASSERT, Tolta
<1>8. k = Tolta(c, b.id)
  OBVIOUS
<1> HIDE DEF k
<1>9. /\ k \in Client /\ StatoSano(k) /\ FlussoSano(k) /\ k.is_network_enabled
      /\ k.current_user = c.current_user /\ k.next_batch_id = c.next_batch_id
      /\ k.mutation_callbacks = SenzaCallback(c, b.id)
      /\ k.write_pipeline = Tail(c.write_pipeline) /\ k.risposte = Tail(c.risposte)
  <2>1. /\ c \in Client /\ StatoSano(c) /\ c.handshake_complete /\ c.risposte # <<>>
        /\ Allineato(c)
    BY <1>1, <1>2, <1>4
  <2> DEFINE id == b.id
  <2>2. k = Tolta(c, id)
    BY <1>8
  <2> HIDE DEF id
  <2>3. /\ k \in Client /\ StatoSano(k) /\ FlussoSano(k) /\ k.is_network_enabled
        /\ k.current_user = c.current_user /\ k.next_batch_id = c.next_batch_id
        /\ k.mutation_callbacks = SenzaCallback(c, id)
        /\ k.write_pipeline = Tail(c.write_pipeline) /\ k.risposte = Tail(c.risposte)
    BY ONLY <2>1, <2>2, RispostaTolta
  <2>4. QED
    BY <2>3 DEF id
<1>10. Avanza(k, q)
  <2>1. /\ Len(Tail(c.write_pipeline)) <= Len(Davanti(Tail(Mia)))
        /\ Tail(c.write_pipeline) = SubSeq(Tail(Mia), 1, Len(Tail(c.write_pipeline)))
    BY <1>2, <1>4, AvanzaCoda
  <2>2. QED
    BY <1>9, <2>1 DEF Avanza, q
<1>11. /\ c' \in Client /\ Quieti(k, c') /\ c'.write_pipeline = Davanti(q)
       /\ StatoSano(c') /\ FlussoSano(c')
  BY <1>5, <1>7, <1>9, <1>10, RiempieSano
<1>12. /\ Veritiera(storia, storia')
       /\ storia'.eseguite = storia.eseguite /\ storia'.rifiutate = storia.rifiutate
  BY <1>2, <1>3, InvFatti, NotificaVera
<1>13. /\ c'.current_user = c.current_user /\ c'.next_batch_id = c.next_batch_id
       /\ c'.mutation_callbacks = [c.mutation_callbacks EXCEPT ![c.current_user] = @ \ {Mia[1].id}]
       /\ c'.risposte = Tail(c.risposte)
  BY <1>2, <1>9, <1>11 DEF Quieti, SenzaCallback
<1>14. RisposteVere'
  <2>1. /\ Len(c.risposte) \in Nat \ {0} /\ DOMAIN c.risposte = 1..Len(c.risposte)
        /\ c.risposte \in Seq(Messaggio)
        /\ Tail(c.risposte) \in Seq(Messaggio) /\ Len(Tail(c.risposte)) = Len(c.risposte) - 1
        /\ \A i \in 1..Len(c.risposte) - 1 : Tail(c.risposte)[i] = c.risposte[i + 1]
    BY <1>1, <1>4, ClientFatti, HeadTailProperties, EmptySeq
  <2>2. ASSUME NEW i \in DOMAIN Tail(c.risposte)
        PROVE  /\ Tail(c.risposte)[i][1] = "risultato" => Tail(c.risposte)[i][2] \in storia.eseguite
               /\ Tail(c.risposte)[i][1] = "rifiuto" => Tail(c.risposte)[i][2] \in storia.rifiutate
    <3>1. i \in 1..Len(c.risposte) - 1
      BY <2>1
    <3>2. i + 1 \in DOMAIN c.risposte /\ Tail(c.risposte)[i] = c.risposte[i + 1]
      BY <2>1, <3>1
    <3>3. QED
      BY <3>2, InvFatti DEF RisposteVere
  <2>3. QED
    BY <1>12, <1>13, <2>2 DEF RisposteVere
<1>15. QED
  BY <1>1, <1>2, <1>7, <1>11, <1>12, <1>13, <1>14, InvTolta DEF q, TestaTolta

\* The stream ends: a refused batch is the one at the front, and leaves the disk.
LEMMA InvFine ==
  ASSUME IInv, OnStreamFinish
  PROVE  /\ IInv'
         /\ \/ Silenzio
            \/ /\ c.handshake_complete /\ c.risposte # <<>> /\ Allineato(c)
               /\ Head(c.risposte)[1] = "rifiuto" /\ TestaTolta(<<>>)
<1> DEFINE status == Head(c.risposte)[1]
           b == Head(c.write_pipeline)
<1>1. c.risposte # <<>> /\ status \in {"rifiuto", "caduta"}
  BY DEF OnStreamFinish
<1>2. /\ c \in Client /\ StatoSano(c) /\ FlussoSano(c) /\ Mia \in Seq(Batch) /\ Ordinata(Mia)
      /\ c.write_pipeline = Davanti(Mia) /\ c.rotte = {} /\ c.is_network_enabled
      /\ coda \in [Utente -> Seq(Batch)]
  BY InvFatti
<1>3. IsStarted(c)
  BY <1>1, <1>2, FlussoFatti DEF IsStarted
<1>4. CASE status = "rifiuto"
  <2>1. c.handshake_complete
    <3> SUFFICES ASSUME ~c.handshake_complete PROVE FALSE
      OBVIOUS
    <3>1. c.risposte = <<<<"handshake", 0>>>> \/ Rotto(c)
      BY <1>1, <1>2, FlussoFatti
    <3>2. QED
      BY <1>4, <3>1 DEF Rotto
  <2>2. /\ Allineato(c) /\ c.write_pipeline # <<>> /\ b \in Batch /\ b = Mia[1] /\ Mia # <<>>
        /\ b.n \in storia.rifiutate
    BY <1>1, <1>4, <2>1, PrimaRisposta
  <2>3. RemoveMutationBatch(Mia, b.id) = Tail(Mia)
    BY <1>2, <2>2, TestaRimossa
  <2>4. b.id \in Identificativi(Mia)
    BY <1>2, <2>2, CodaTesta DEF Identificativi
  <2>5. Rifiutata(c, "rifiuto")
    BY <2>1, <2>2 DEF Rifiutata
  <2> HIDE DEF b
  <2>6. /\ coda' = [coda EXCEPT ![c.current_user] = Tail(Mia)]
        /\ c' = Close(c, "rifiuto", Tail(Mia)) /\ NotifyUser(b, "errore")
    BY <1>4, <2>3, <2>4, <2>5 DEF OnStreamFinish, HARD_ASSERT, b
  <2>7. /\ c' \in Client /\ c'.current_user = c.current_user
        /\ c'.next_batch_id = c.next_batch_id
        /\ c'.mutation_callbacks =
             [c.mutation_callbacks EXCEPT ![c.current_user] = @ \ {Mia[1].id}]
        /\ c'.write_pipeline = Davanti(Tail(Mia))
        /\ StatoSano(c') /\ FlussoSano(c') /\ c'.risposte = <<>>
    BY <1>2, <1>3, <2>1, <2>2, <2>6, ChiudeRifiuto
  <2>8. /\ Veritiera(storia, storia')
        /\ storia'.eseguite = storia.eseguite /\ storia'.rifiutate = storia.rifiutate
    BY <2>2, <2>6, InvFatti, NotificaVera
  <2>9. RisposteVere'
    BY <2>7 DEF RisposteVere
  <2>10. QED
    BY <1>1, <1>4, <2>1, <2>2, <2>6, <2>7, <2>8, <2>9, InvTolta DEF TestaTolta
<1>5. CASE status = "caduta"
  <2>1. ~Rifiutata(c, status)
    BY <1>5 DEF Rifiutata
  <2>2. coda' = [coda EXCEPT ![c.current_user] = Mia] /\ storia' = storia
        /\ c' = Close(c, "caduta", Mia)
    BY <1>5, <2>1 DEF OnStreamFinish, HARD_ASSERT
  <2>3. coda' = coda
    BY <1>2, <2>2 DEF Mia
  <2>4. /\ c' \in Client /\ Conservati(c, c') /\ c'.write_pipeline = c.write_pipeline
        /\ StatoSano(c') /\ FlussoSano(c') /\ c'.risposte = <<>>
    BY <1>2, <1>3, <2>2, ChiudeCaduta
  <2>5. Resta(c, c')
    BY <2>4 DEF Resta
  <2>6. QED
    BY <2>2, <2>3, <2>4, <2>5, InvRestaMuta DEF Silenzio
<1>6. QED
  BY <1>1, <1>4, <1>5

\* What a write leaves in memory before the pipeline is filled.
Annotata(k) ==
  [k EXCEPT !.next_batch_id = @ + 1,
            !.mutation_callbacks[k.current_user] = @ \cup {k.next_batch_id}]

LEMMA AnnotataFatti ==
  ASSUME NEW k \in Client, StatoSano(k), FlussoSano(k), NEW r, r = Annotata(k)
  PROVE  /\ r \in Client /\ StatoSano(r) /\ FlussoSano(r)
         /\ r.current_user = k.current_user /\ r.next_batch_id = k.next_batch_id + 1
         /\ r.mutation_callbacks[k.current_user] =
              k.mutation_callbacks[k.current_user] \cup {k.next_batch_id}
         /\ \A v \in Utente : v # k.current_user =>
              r.mutation_callbacks[v] = k.mutation_callbacks[v]
         /\ r.write_pipeline = k.write_pipeline /\ r.risposte = k.risposte
<1> DEFINE mc == [k.mutation_callbacks EXCEPT ![k.current_user] = @ \cup {k.next_batch_id}]
<1>1. /\ k.current_user \in Utente /\ k.next_batch_id \in Nat \ {0}
      /\ k.mutation_callbacks \in [Utente -> SUBSET (Nat \ {0})]
  BY ClientFatti
<1>2. /\ mc \in [Utente -> SUBSET (Nat \ {0})]
      /\ mc[k.current_user] = k.mutation_callbacks[k.current_user] \cup {k.next_batch_id}
      /\ \A v \in Utente : v # k.current_user => mc[v] = k.mutation_callbacks[v]
  BY <1>1
<1>3. r = [k EXCEPT !.next_batch_id = @ + 1, !.mutation_callbacks = mc]
  BY DEF Annotata, Client
<1> HIDE DEF mc
<1>4. r \in Client
  <2>1. k.next_batch_id + 1 \in Nat \ {0}
    BY <1>1
  <2>2. \A n \in Nat \ {0} : [k EXCEPT !.next_batch_id = n, !.mutation_callbacks = mc] \in Client
    BY <1>2 DEF Client
  <2>3. QED
    BY <1>3, <2>1, <2>2
<1>5. /\ r.current_user = k.current_user /\ r.next_batch_id = k.next_batch_id + 1
      /\ r.mutation_callbacks = mc
      /\ r.write_pipeline = k.write_pipeline /\ r.risposte = k.risposte
      /\ r.is_network_enabled = k.is_network_enabled /\ r.stato = k.stato
      /\ r.handshake_complete = k.handshake_complete
      /\ r.idleness_timer = k.idleness_timer /\ r.token = k.token
      /\ r.richieste = k.richieste /\ r.rotte = k.rotte
  BY <1>3 DEF Client
<1>6. StatoSano(r) /\ FlussoSano(r)
  BY <1>4, <1>5, SanoUguale
<1>7. QED
  BY <1>2, <1>4, <1>5, <1>6

\* The app writes: the batch goes on disk with an id that is nobody's.
LEMMA InvScrive ==
  ASSUME IInv, SyncEngine_WriteMutations
  PROVE  /\ IInv' /\ c'.current_user = c.current_user /\ c'.risposte = c.risposte
         /\ \E b \in Batch : /\ b.id = c.next_batch_id
                           /\ coda' = [coda EXCEPT ![c.current_user] = Append(Mia, b)]
         /\ \A v \in Utente : \A i \in DOMAIN coda[v] :
              /\ coda[v][i].id # c.next_batch_id
              /\ coda[v][i].id \in c'.mutation_callbacks[v] <=>
                   coda[v][i].id \in c.mutation_callbacks[v]
<1> DEFINE u == c.current_user
           n == Len(storia.autore) + 1
           b == [id |-> c.next_batch_id, n |-> n]
           q == Append(Mia, b)
           k == Annotata(c)
<1>1. /\ n <= MaxScritture /\ coda' = [coda EXCEPT ![u] = q]
      /\ c' = FillWritePipeline(k, q)
      /\ storia' = [storia EXCEPT !.autore = Append(@, u)]
  BY DEF SyncEngine_WriteMutations, Annotata
<1>2. /\ c \in Client /\ StatoSano(c) /\ FlussoSano(c) /\ Mia \in Seq(Batch) /\ Ordinata(Mia)
      /\ c.write_pipeline = Davanti(Mia) /\ c.is_network_enabled
      /\ coda \in [Utente -> Seq(Batch)] /\ storia \in Storia
  BY InvFatti
<1>3. /\ u \in Utente /\ Mia = coda[u] /\ c.next_batch_id \in Nat \ {0}
  BY <1>2, ClientFatti DEF Mia
<1>4. /\ storia.autore \in Seq(Utente) /\ Len(storia.autore) \in 0..MaxScritture
      /\ Len(storia.autore) \in Nat
  BY <1>2, StoriaFatti
<1>5. b \in Batch /\ b.id = c.next_batch_id /\ b.n = n
  BY <1>1, <1>3, <1>4 DEF Batch
<1>6. k = Annotata(c)
  OBVIOUS
<1> HIDE DEF k, b
<1>7. /\ q \in Seq(Batch) /\ InCoda(q) = InCoda(Mia) \cup {b}
  BY <1>2, <1>5, CodaAllungata
<1>8. \A v \in Utente : \A i \in DOMAIN coda[v] : coda[v][i].id < c.next_batch_id
  BY InvFatti DEF IdSani
<1>9. Ordinata(q)
  BY <1>2, <1>3, <1>5, <1>8, CodaOrdinataAllungata
<1>10. /\ k \in Client /\ StatoSano(k) /\ FlussoSano(k)
       /\ k.current_user = c.current_user /\ k.next_batch_id = c.next_batch_id + 1
       /\ k.mutation_callbacks[u] = c.mutation_callbacks[u] \cup {c.next_batch_id}
       /\ \A v \in Utente : v # u => k.mutation_callbacks[v] = c.mutation_callbacks[v]
       /\ k.write_pipeline = c.write_pipeline /\ k.risposte = c.risposte
  <2>1. /\ k \in Client /\ StatoSano(k) /\ FlussoSano(k)
        /\ k.current_user = c.current_user /\ k.next_batch_id = c.next_batch_id + 1
        /\ k.mutation_callbacks[c.current_user] =
             c.mutation_callbacks[c.current_user] \cup {c.next_batch_id}
        /\ \A v \in Utente : v # c.current_user =>
             k.mutation_callbacks[v] = c.mutation_callbacks[v]
        /\ k.write_pipeline = c.write_pipeline /\ k.risposte = c.risposte
    <3>1. c \in Client /\ StatoSano(c) /\ FlussoSano(c)
      BY <1>2
    <3>2. QED
      BY ONLY <1>6, <3>1, AnnotataFatti
  <2>2. QED
    BY <2>1
<1>11. Avanza(k, q)
  <2>1. k.is_network_enabled /\ k.write_pipeline = Davanti(Mia)
    BY <1>2, <1>10 DEF StatoSano
  <2>2. QED
    BY <1>2, <1>5, <2>1, AvanzaAllungata
<1> HIDE DEF q, u, n
<1>12. /\ c' \in Client /\ Quieti(k, c') /\ c'.write_pipeline = Davanti(q)
       /\ StatoSano(c') /\ FlussoSano(c')
  BY <1>1, <1>7, <1>9, <1>10, <1>11, RiempieSano
<1>13. coda'[u] = q /\ (\A v \in Utente : v # u => coda'[v] = coda[v])
       /\ coda' \in [Utente -> Seq(Batch)]
  BY <1>1, <1>2, <1>3, <1>7
<1>14. /\ c'.current_user = u /\ c'.next_batch_id = c.next_batch_id + 1
       /\ c'.mutation_callbacks[u] = c.mutation_callbacks[u] \cup {c.next_batch_id}
       /\ \A v \in Utente : v # u => c'.mutation_callbacks[v] = c.mutation_callbacks[v]
       /\ c'.risposte = c.risposte
  BY <1>10, <1>12 DEF Quieti, u
<1>15. /\ storia'.eseguite = storia.eseguite /\ storia'.rifiutate = storia.rifiutate
       /\ storia'.esito = storia.esito /\ storia'.autore = Append(storia.autore, u)
  BY <1>1, <1>2 DEF Storia
<1>16. /\ Len(storia'.autore) = n /\ storia'.autore[n] = u
       /\ \A i \in 1..Len(storia.autore) : storia'.autore[i] = storia.autore[i]
       /\ storia'.autore \in Seq(Utente)
  BY <1>3, <1>4, <1>15, AppendProperties DEF n
<1>17. storia' \in Storia
  <2>1. storia'.autore \in [1..n -> Utente]
    BY <1>16
  <2>2. n \in 0..MaxScritture
    BY <1>1, <1>4 DEF n
  <2>3. storia'.autore \in UNION {[1..j -> Utente] : j \in 0..MaxScritture}
    BY <2>1, <2>2
  <2>4. \A f \in UNION {[1..j -> Utente] : j \in 0..MaxScritture} :
          [storia EXCEPT !.autore = f] \in Storia
    BY <1>2 DEF Storia
  <2>5. storia' = [storia EXCEPT !.autore = storia'.autore]
    BY <1>1, <1>2, <1>15 DEF Storia
  <2>6. QED
    BY <2>3, <2>4, <2>5
<1>18. TypeOK'
  BY <1>12, <1>13, <1>17 DEF TypeOK
<1>19. c'.write_pipeline = Davanti(Mia')
  BY <1>12, <1>13, <1>14 DEF Mia
<1>20. RisposteVere'
  BY <1>14, <1>15, InvFatti DEF RisposteVere
<1>21. \A v \in Utente : v # u => Identificativi(coda'[v]) = Identificativi(coda[v])
  BY <1>13
<1>22. Identificativi(coda'[u]) = Identificativi(coda[u]) \cup {c.next_batch_id}
  BY <1>3, <1>5, <1>7, <1>13 DEF Identificativi
<1>23. \A v \in Utente : c.next_batch_id \notin Identificativi(coda[v])
  <2> SUFFICES ASSUME NEW v \in Utente, NEW i \in DOMAIN coda[v],
                      c.next_batch_id = coda[v][i].id
               PROVE  FALSE
    BY DEF Identificativi, InCoda
  <2>1. coda[v][i].id < c.next_batch_id
    BY <1>8
  <2>2. QED
    BY <1>3, <2>1
<1>24. IdSani'
  <2>1. \A v \in Utente : Ordinata(coda'[v])
    BY <1>9, <1>13, InvFatti DEF IdSani
  <2>2. \A v \in Utente : c'.mutation_callbacks[v] \subseteq Identificativi(coda'[v])
    <3>1. \A v \in Utente : c.mutation_callbacks[v] \subseteq Identificativi(coda[v])
      BY InvFatti DEF IdSani
    <3>2. QED
      BY <1>3, <1>14, <1>21, <1>22, <3>1
  <2>3. ASSUME NEW v \in Utente, NEW i \in DOMAIN coda'[v]
        PROVE  coda'[v][i].id < c'.next_batch_id
    <3>1. coda'[v][i] \in InCoda(coda[v]) \cup {b}
      <4>1. coda'[v][i] \in InCoda(coda'[v])
        BY DEF InCoda
      <4>2. CASE v = u
        BY <1>3, <1>7, <1>13, <4>1, <4>2
      <4>3. CASE v # u
        BY <1>13, <4>1, <4>3
      <4>4. QED
        BY <4>2, <4>3
    <3>2. CASE coda'[v][i] = b
      BY <1>3, <1>5, <1>14, <3>2
    <3>3. CASE coda'[v][i] \in InCoda(coda[v])
      <4>1. PICK j \in DOMAIN coda[v] : coda'[v][i] = coda[v][j]
        BY <3>3 DEF InCoda
      <4>2. coda[v][j].id \in Nat /\ coda[v][j].id < c.next_batch_id
        <5>1. coda[v] \in Seq(Batch)
          BY <1>2
        <5>2. QED
          BY <1>8, <5>1, CodaFatti
      <4>3. QED
        BY <1>3, <1>14, <4>1, <4>2
    <3>4. QED
      BY <3>1, <3>2, <3>3
  <2>4. \A v, w \in Utente : v # w => Identificativi(coda'[v]) \cap Identificativi(coda'[w]) = {}
    <3>1. \A v, w \in Utente : v # w => Identificativi(coda[v]) \cap Identificativi(coda[w]) = {}
      BY InvFatti DEF IdSani
    <3>2. QED
      BY <1>3, <1>21, <1>22, <1>23, <3>1
  <2>5. c'.next_batch_id <= Len(storia'.autore) + 1
    <3>1. c.next_batch_id <= Len(storia.autore) + 1
      BY InvFatti DEF IdSani
    <3>2. QED
      BY <1>3, <1>4, <1>14, <1>16, <3>1 DEF n
  <2>6. QED
    BY <2>1, <2>2, <2>3, <2>4, <2>5 DEF IdSani
<1>25. NotizieVere'
  BY <1>15, InvFatti DEF NotizieVere
<1>26. EsitoVero'
  <2>1. \A i \in 1..Len(storia.autore) :
          /\ i \in ScrittureIn(coda[storia.autore[i]]) \cup storia.eseguite \cup storia.rifiutate
          /\ storia.esito[i] = "ok" => i \in storia.eseguite
          /\ storia.esito[i] = "errore" => i \in storia.rifiutate
    BY InvFatti DEF EsitoVero, Scritture, ScrittureIn
  <2>2. \A v \in Utente : ScrittureIn(coda[v]) \subseteq ScrittureIn(coda'[v])
    <3>1. InCoda(coda[u]) \subseteq InCoda(coda'[u])
      BY <1>3, <1>7, <1>13
    <3>2. QED
      BY <1>13, <3>1 DEF ScrittureIn
  <2>3. n \in ScrittureIn(coda'[u])
    BY <1>5, <1>7, <1>13 DEF ScrittureIn
  <2>4. ASSUME NEW i \in 1..n
        PROVE  /\ i \in ScrittureIn(coda'[storia'.autore[i]]) \cup storia.eseguite
                          \cup storia.rifiutate
               /\ storia.esito[i] = "ok" => i \in storia.eseguite
               /\ storia.esito[i] = "errore" => i \in storia.rifiutate
    <3>1. CASE i \in 1..Len(storia.autore)
      <4>1. PICK v \in Utente : v = storia.autore[i]
        BY <1>4, <3>1
      <4>2. QED
        BY <1>16, <2>1, <2>2, <3>1, <4>1
    <3>2. CASE i = n
      <4>1. /\ storia.esito[n] = "ok" => n \in storia.eseguite
            /\ storia.esito[n] = "errore" => n \in storia.rifiutate
        <5>1. n \in 1..MaxScritture
          BY <1>1, <1>4 DEF n
        <5>2. QED
          BY <5>1, InvFatti DEF NotizieVere
      <4>2. QED
        BY <1>16, <2>3, <3>2, <4>1
    <3>3. QED
      BY <1>4, <3>1, <3>2 DEF n
  <2>5. QED
    BY <1>15, <1>16, <2>4 DEF EsitoVero, Scritture, ScrittureIn
<1>27. QED
  <2>1. IInv'
    BY <1>12, <1>18, <1>19, <1>20, <1>24, <1>25, <1>26 DEF IInv
  <2>2. \A v \in Utente : \A i \in DOMAIN coda[v] : coda[v][i].id # c.next_batch_id
    BY <1>23 DEF Identificativi, InCoda
  <2>3. ASSUME NEW v \in Utente, NEW i \in DOMAIN coda[v]
        PROVE  coda[v][i].id \in c'.mutation_callbacks[v] <=>
                 coda[v][i].id \in c.mutation_callbacks[v]
    BY <1>14, <2>2
  <2>4. coda' = [coda EXCEPT ![c.current_user] = Append(Mia, b)]
    BY <1>1 DEF q, u
  <2>5. QED
    BY <1>5, <1>14, <2>1, <2>2, <2>3, <2>4 DEF u

LEMMA IInvIniziale == Init => IInv
<1> SUFFICES ASSUME Init PROVE IInv
  OBVIOUS
<1>1. coda \in [Utente -> Seq(Batch)] /\ \A u \in Utente : coda[u] = <<>>
  BY EmptySeq DEF Init
<1>2. PICK u \in Utente : c = Avviata(coda, u)
  BY DEF Init
<1>3. /\ \A v \in Utente : Ordinata(coda[v]) /\ InCoda(coda[v]) = {}
      /\ \A v \in Utente : DOMAIN coda[v] = {}
  BY <1>1 DEF Ordinata, InCoda
<1>4. LoadNextBatchIdFromDb(coda, u) \in Nat \ {0} /\ LoadNextBatchIdFromDb(coda, u) <= 1
  <2>1. \A v \in Utente : \A i \in DOMAIN coda[v] : coda[v][i].id <= 0
    BY <1>3
  <2> DEFINE id == LoadNextBatchIdFromDb(coda, u)
  <2>2. id = LoadNextBatchIdFromDb(coda, u) /\ 0 \in Nat /\ u \in Utente
    OBVIOUS
  <2> HIDE DEF id
  <2>3. id \in Nat \ {0} /\ id <= 0 + 1
    BY ONLY <1>1, <2>1, <2>2, ProssimoId
  <2>4. QED
    BY <2>3 DEF id
<1>5. /\ c \in Client /\ c.current_user = u
      /\ c.next_batch_id = LoadNextBatchIdFromDb(coda, u)
      /\ \A v \in Utente : c.mutation_callbacks[v] = {}
      /\ c.write_pipeline = Davanti(coda[u])
      /\ StatoSano(c) /\ FlussoSano(c) /\ c.risposte = <<>>
  <2>1. LoadNextBatchIdFromDb(coda, u) \in Nat \ {0} /\ Ordinata(coda[u])
    BY <1>3, <1>4
  <2>2. QED
    BY ONLY <1>1, <1>2, <2>1, AvviataSana
<1>6. /\ storia.autore = <<>> /\ storia.eseguite = {} /\ storia.rifiutate = {}
      /\ storia.esito = [n \in 1..MaxScritture |-> "nessuno"] /\ storia \in Storia
  <2>1. storia = [autore |-> <<>>, eseguite |-> {}, rifiutate |-> {},
                  esito |-> [n \in 1..MaxScritture |-> "nessuno"]]
    BY DEF Init
  <2>2. <<>> \in [1..0 -> Utente] /\ 0 \in 0..MaxScritture
    BY ClientAssumption
  <2>3. <<>> \in UNION {[1..k -> Utente] : k \in 0..MaxScritture}
    BY <2>2
  <2>4. [n \in 1..MaxScritture |-> "nessuno"] \in [1..MaxScritture -> {"nessuno", "ok", "errore"}]
    OBVIOUS
  <2>5. storia \in Storia
    BY <2>1, <2>3, <2>4 DEF Storia
  <2>6. QED
    BY <2>1, <2>5
<1>7. TypeOK
  BY <1>1, <1>5, <1>6 DEF TypeOK
<1>8. c.write_pipeline = Davanti(Mia)
  BY <1>5 DEF Mia
<1>9. RisposteVere
  BY <1>5 DEF RisposteVere
<1>10. IdSani
  <2>1. Len(storia.autore) = 0
    BY <1>6
  <2>2. \A v \in Utente : Identificativi(coda[v]) = {}
    BY <1>3 DEF Identificativi
  <2>3. /\ \A v \in Utente : Ordinata(coda[v])
        /\ \A v \in Utente : c.mutation_callbacks[v] \subseteq Identificativi(coda[v])
        /\ \A v \in Utente : \A i \in DOMAIN coda[v] : coda[v][i].id < c.next_batch_id
        /\ \A v, w \in Utente : Identificativi(coda[v]) \cap Identificativi(coda[w]) = {}
    BY <1>3, <1>5, <2>2
  <2>4. c.next_batch_id <= Len(storia.autore) + 1
    BY <1>4, <1>5, <2>1
  <2>5. QED
    BY <2>3, <2>4 DEF IdSani
<1>11. NotizieVere
  BY <1>6 DEF NotizieVere
<1>12. EsitoVero
  <2>1. Len(storia.autore) = 0
    BY <1>6
  <2>2. QED
    BY <2>1 DEF EsitoVero
<1>13. QED
  BY <1>5, <1>7, <1>8, <1>9, <1>10, <1>11, <1>12 DEF IInv

LEMMA IInvPasso == IInv /\ [Next]_vars => IInv'
<1> SUFFICES ASSUME IInv, [Next]_vars PROVE IInv'
  OBVIOUS
<1>1. CASE SyncEngine_WriteMutations
  BY <1>1, InvScrive
<1>2. CASE ResumeStartWithCredentials
  BY <1>2, InvResume
<1>3. CASE CredenzialiNegate
  BY <1>3, InvNegate
<1>4. CASE CredenzialiSuperate
  BY <1>4, InvSuperate
<1>5. CASE BackoffScaduto
  BY <1>5, InvBackoff
<1>6. CASE Inattivo
  BY <1>6, InvInattivo
<1>7. CASE OnWriteStreamHandshakeComplete
  BY <1>7, InvHandshake
<1>8. CASE OnWriteStreamMutationResult
  BY <1>8, InvRisultato
<1>9. CASE OnStreamFinish
  BY <1>9, InvFine
<1>10. CASE ConnettivitaCambiata
  BY <1>10, InvConnettivita
<1>11. ASSUME NEW u \in Utente, HandleCredentialChange(u) PROVE IInv'
  BY <1>11, InvCambio
<1>12. ASSUME NEW u \in Utente, Crash(u) PROVE IInv'
  BY <1>12, InvCrash
<1>13. ASSUME NEW u \in Utente, CrashInRisposta(u) PROVE IInv'
  BY <1>13, InvCrashInRisposta
<1>14. CASE ServerHandshake
  BY <1>14, InvServerHandshake
<1>15. CASE ServerEsegue
  BY <1>15, InvServerEsegue
<1>16. CASE ServerRifiuta
  BY <1>16, InvServerRifiuta
<1>17. CASE FlussoCaduto
  BY <1>17, InvCaduto
<1>18. CASE UNCHANGED vars
  <2>1. coda' = coda /\ c' = c /\ storia' = storia
    BY <1>18 DEF vars
  <2>2. Resta(c, c')
    BY <2>1, InvFatti DEF Resta, Conservati
  <2>3. RisposteVere'
    BY <2>1, InvFatti DEF RisposteVere
  <2>4. Veritiera(storia, storia')
    BY <2>1, InvFatti, VeritieraSeUguale
  <2>5. QED
    BY <2>1, <2>2, <2>3, <2>4, InvResta
<1>19. QED
  BY <1>1, <1>2, <1>3, <1>4, <1>5, <1>6, <1>7, <1>8, <1>9, <1>10, <1>11, <1>12, <1>13,
     <1>14, <1>15, <1>16, <1>17, <1>18 DEF Next

\* The invariant holds in every state of every behaviour, whatever order timers,
\* credentials, answers, faults, sign-ins and restarts come in.
THEOREM Invariante == Spec => []IInv
  BY IInvIniziale, IInvPasso, PTL DEF Spec

(***************************************************************************)
(* The properties                                                          *)
(***************************************************************************)
\* Every variable keeps its type: in particular no method ever leaves a stream in
\* a state that the enumeration does not have, or a batch without an id.
THEOREM TipiSani == Spec => []TypeOK
<1>1. IInv => TypeOK
  BY DEF IInv
<1>2. QED
  BY <1>1, Invariante, PTL

\* No HARD_ASSERT of WriteStream and RemoteStore ever fails.
THEOREM NessunaAsserzione == Spec => []AsserzioniRispettate
<1>1. IInv => AsserzioniRispettate
  BY InvFatti DEF AsserzioniRispettate
<1>2. QED
  BY <1>1, Invariante, PTL

\* FillWritePipeline is called wherever it must be: the pipeline is the front of the
\* user's queue, and a stream is on its way whenever there is something to send.
THEOREM SemprePiena == Spec => []PipelinePiena
<1>1. IInv => PipelinePiena
  BY InvFatti DEF PipelinePiena, Davanti, StatoSano
<1>2. QED
  BY <1>1, Invariante, PTL

\* No write is lost and no callback lies, across every crash and every sign-in.
THEOREM EsitiVeri == Spec => []EsitoVero
<1>1. IInv => EsitoVero
  BY DEF IInv
<1>2. QED
  BY <1>1, Invariante, PTL

\* OnWriteStreamMutationResult may take an answer for the front of the pipeline.
THEOREM RisposteAllineate == Spec => []Allineamento
<1>1. ASSUME IInv PROVE Allineamento
  <2> SUFFICES ASSUME c.handshake_complete,
                      ~(c.risposte # <<>> /\ Last(c.risposte)[1] = "caduta")
               PROVE  /\ \A i \in DOMAIN c.risposte : c.risposte[i][1] # "handshake"
                      /\ SulFlusso = Numeri(c.write_pipeline)
    BY DEF Allineamento, Numeri
  <2> DEFINE s == c.risposte
             m == c.richieste
             w == c.write_pipeline
             t == [i \in 1..Len(s) |-> s[i][2]]
  <2>1. ~Rotto(c)
    <3> SUFFICES ASSUME Rotto(c) PROVE FALSE
      OBVIOUS
    <3>1. s # <<>> /\ Last(s) = <<"caduta", 0>>
      BY DEF Rotto, Last
    <3>2. QED
      BY <3>1
  <2>2. Allineato(c)
    BY <1>1, <2>1, InvFatti DEF FlussoSano
  <2>3. s \in Seq(Messaggio) /\ m \in Seq(0..MaxScritture) /\ w \in Seq(Batch)
    BY <1>1, InvFatti, ClientFatti
  <2>4. /\ Len(s) + Len(m) = Len(w)
        /\ \A i \in 1..Len(s) : s[i][2] = w[i].n /\ s[i][1] \in {"risultato", "rifiuto"}
        /\ \A i \in 1..Len(m) : m[i] = w[Len(s) + i].n
    BY <2>2 DEF Allineato
  <2>5. SulFlusso = t \o m
    BY DEF SulFlusso
  <2> HIDE DEF s, m, w
  <2>6. Len(s) \in Nat /\ Len(m) \in Nat /\ Len(w) \in Nat /\ DOMAIN s = 1..Len(s)
    BY <2>3
  <2>7. t \in [1..Len(s) -> 0..MaxScritture] /\ \A i \in 1..Len(s) : t[i] = w[i].n
    <3>1. \A i \in 1..Len(s) : s[i][2] \in 0..MaxScritture
      BY <2>3, <2>6 DEF Messaggio
    <3>2. QED
      BY <2>4, <3>1
  <2> HIDE DEF t
  <2>8. t \in Seq(0..MaxScritture) /\ Len(t) = Len(s)
    BY <2>6, <2>7, FunzioneSeq
  <2>9. /\ t \o m \in Seq(0..MaxScritture) /\ Len(t \o m) = Len(t) + Len(m)
        /\ \A i \in 1..Len(t) + Len(m) : (t \o m)[i] = IF i <= Len(t) THEN t[i] ELSE m[i - Len(t)]
    BY <2>3, <2>8, ConcatProperties
  <2>10. Numeri(w) \in Seq(0..MaxScritture) /\ Len(Numeri(w)) = Len(w)
         /\ \A i \in 1..Len(w) : Numeri(w)[i] = w[i].n
    <3>1. <<>> \in Seq(0..MaxScritture)
      BY EmptySeq
    <3>2. QED
      BY <2>3, <3>1, NumeriInFondo
  <2>11. ASSUME NEW i \in 1..Len(w) PROVE (t \o m)[i] = Numeri(w)[i]
    <3>1. i \in 1..Len(t) + Len(m)
      BY <2>4, <2>8
    <3>2. CASE i <= Len(s)
      BY <2>6, <2>7, <2>8, <2>9, <2>10, <3>1, <3>2
    <3>3. CASE ~(i <= Len(s))
      <4>1. i - Len(s) \in 1..Len(m) /\ Len(s) + (i - Len(s)) = i
        BY <2>4, <2>6, <3>3
      <4>2. (t \o m)[i] = m[i - Len(s)]
        BY <2>8, <2>9, <3>1, <3>3
      <4>3. m[i - Len(s)] = w[i].n
        BY <2>4, <4>1
      <4>4. QED
        BY <2>10, <4>2, <4>3
    <3>4. QED
      BY <3>2, <3>3
  <2>12. t \o m = Numeri(w)
    <3>1. Len(t \o m) = Len(w) /\ Len(Numeri(w)) = Len(w)
      BY <2>4, <2>8, <2>9, <2>10
    <3>2. QED
      BY <2>9, <2>10, <2>11, <3>1, SeqEqual
  <2>13. \A i \in DOMAIN s : s[i][1] # "handshake"
    BY <2>4, <2>6
  <2>14. QED
    BY <2>5, <2>12, <2>13 DEF s, w
<1>2. QED
  BY <1>1, Invariante, PTL

\* Whatever is under way to the server is still queued, and the current user's.
THEOREM RichiesteSane == Spec => []RichiesteVive
<1>1. ASSUME IInv PROVE RichiesteVive
  <2> SUFFICES ASSUME NEW i \in DOMAIN c.richieste, c.richieste[i] # 0
               PROVE  c.richieste[i] \in Scritture(c.current_user)
    BY DEF RichiesteVive
  <2>1. /\ c \in Client /\ StatoSano(c) /\ FlussoSano(c) /\ c.write_pipeline = Davanti(Mia)
        /\ Mia \in Seq(Batch)
    BY <1>1, InvFatti
  <2>2. /\ c.richieste \in Seq(0..MaxScritture) /\ Len(c.richieste) \in Nat
        /\ Len(c.risposte) \in Nat /\ c.write_pipeline \in Seq(Batch)
        /\ Len(c.write_pipeline) \in Nat
    BY <2>1, ClientFatti
  <2>3. i \in 1..Len(c.richieste) /\ c.richieste # <<>>
    BY <2>2
  <2>4. c.handshake_complete
    <3> SUFFICES ASSUME ~c.handshake_complete PROVE FALSE
      BY <2>1, ClientFatti
    <3>1. c.richieste = <<0>>
      BY <2>1, <2>3, FlussoFatti
    <3>2. QED
      BY <2>3, <3>1
  <2>5. \E j \in 1..Len(c.write_pipeline) : c.richieste[i] = c.write_pipeline[j].n
    <3>1. CASE Allineato(c)
      <4> DEFINE a == Len(c.risposte)
                 b == Len(c.richieste)
                 m == Len(c.write_pipeline)
      <4>1. a + b = m /\ \A x \in 1..b : c.richieste[x] = c.write_pipeline[a + x].n
        BY <3>1 DEF Allineato
      <4>2. a \in Nat /\ b \in Nat /\ i \in 1..b
        BY <2>2, <2>3
      <4> HIDE DEF a, b, m
      <4>3. a + i \in 1..m
        BY ONLY <4>1, <4>2
      <4>4. QED
        BY <4>1, <4>2, <4>3 DEF m
    <3>2. CASE ~Allineato(c)
      BY <2>1, <2>3, <2>4, <3>2 DEF FlussoSano
    <3>3. QED
      BY <3>1, <3>2
  <2>6. PICK j \in 1..Len(c.write_pipeline) : c.richieste[i] = c.write_pipeline[j].n
    BY <2>5
  <2>7. c.write_pipeline[j] = Mia[j] /\ j \in DOMAIN Mia
    <3>1. /\ \A x \in 1..Len(Davanti(Mia)) : Davanti(Mia)[x] = Mia[x]
          /\ Len(Davanti(Mia)) <= Len(Mia) /\ Len(Davanti(Mia)) \in Nat
          /\ DOMAIN Mia = 1..Len(Mia) /\ Len(Mia) \in Nat
      BY <2>1, DavantiFatti, CodaFatti
    <3>2. j \in 1..Len(Davanti(Mia))
      BY <2>1, <2>6
    <3>3. QED
      BY <2>1, <3>1, <3>2
  <2>8. QED
    BY <2>6, <2>7 DEF Scritture, InCoda, Mia
<1>2. QED
  BY <1>1, Invariante, PTL

\* Ids, although used again after a restart or a sign-in, never get confused.
THEOREM NessunaConfusione == Spec => []IdentificativiSani
<1>1. ASSUME IInv PROVE IdentificativiSani
  <2>1. \A j \in Identificativi(Mia) : j < c.next_batch_id
    <3>1. c.current_user \in Utente
      BY <1>1, InvFatti
    <3>2. \A i \in DOMAIN Mia : Mia[i].id < c.next_batch_id
      BY <1>1, <3>1, InvFatti DEF IdSani, Mia
    <3>3. QED
      BY <3>2 DEF Identificativi, InCoda
  <2>2. QED
    BY <1>1, <2>1, InvFatti DEF IdSani, Ordinata, IdentificativiSani
<1>2. QED
  BY <1>1, Invariante, PTL

(***************************************************************************)
(* The client implements Coda                                              *)
(***************************************************************************)
\* What Coda sees of batch b and of queue q when the callbacks of ids M are in
\* memory, and of answers s.
Voce(b, M) == [n |-> b.n, attesa |-> b.id \in M]
Vista(q, M) == [i \in DOMAIN q |-> Voce(q[i], M)]
VistaBatch == [n : 1..MaxScritture, attesa : BOOLEAN]
Risultati(s) == Cardinality({i \in DOMAIN s : s[i][1] = "risultato"})

\* A step leaves what Coda sees alone, or Coda allows it.
Consentito == Contratto!Next \/ UNCHANGED <<CodaVista, InviateViste>>

\* What a step does to what Coda sees.
LEMMA VistaFatti ==
  /\ \A u \in Utente : CodaVista[u] = Vista(coda[u], c.mutation_callbacks[u])
  /\ \A u \in Utente : CodaVista'[u] = Vista(coda'[u], c'.mutation_callbacks[u])
  /\ \A u \in Utente :
       InviateViste[u] = IF u # c.current_user THEN 0 ELSE Risultati(c.risposte)
  /\ \A u \in Utente :
       InviateViste'[u] = IF u # c'.current_user THEN 0 ELSE Risultati(c'.risposte)
  /\ \E f : CodaVista = [u \in Utente |-> f[u]]
  /\ \E f : CodaVista' = [u \in Utente |-> f[u]]
  /\ \E f : InviateViste = [u \in Utente |-> f[u]]
  /\ \E f : InviateViste' = [u \in Utente |-> f[u]]
<1>1. CodaVista = [u \in Utente |-> Vista(coda[u], c.mutation_callbacks[u])]
  BY DEF CodaVista, Vista, Voce
<1>2. CodaVista' = [u \in Utente |-> Vista(coda'[u], c'.mutation_callbacks[u])]
  BY DEF CodaVista, Vista, Voce
<1>3. InviateViste = [u \in Utente |-> IF u # c.current_user THEN 0 ELSE Risultati(c.risposte)]
  BY DEF InviateViste, Risultati
<1>4. InviateViste' = [u \in Utente |-> IF u # c'.current_user THEN 0 ELSE Risultati(c'.risposte)]
  BY DEF InviateViste, Risultati
<1>5. CodaVista = [u \in Utente |-> CodaVista[u]] /\ CodaVista' = [u \in Utente |-> (CodaVista')[u]]
  BY <1>1, <1>2
<1>6. InviateViste = [u \in Utente |-> InviateViste[u]]
      /\ InviateViste' = [u \in Utente |-> (InviateViste')[u]]
  BY <1>3, <1>4
<1>7. QED
  BY <1>1, <1>2, <1>3, <1>4, <1>5, <1>6

LEMMA VoceFatti ==
  ASSUME NEW b \in Batch, NEW M
  PROVE  /\ Voce(b, M) \in VistaBatch
         /\ NonAttesa(Voce(b, M)) = Voce(b, {})
         /\ \A N : (b.id \in M <=> b.id \in N) => Voce(b, M) = Voce(b, N)
<1>1. \A N : Voce(b, N) \in VistaBatch
  BY DEF Voce, VistaBatch, Batch
<1>2. \A N : Voce(b, N).n = b.n
  BY DEF Voce
<1>3. \A N : Voce(b, N).attesa = (b.id \in N)
  BY DEF Voce
<1>4. \A x, y \in VistaBatch : x.n = y.n /\ x.attesa = y.attesa => x = y
  BY DEF VistaBatch
<1>5. \A w \in VistaBatch :
        NonAttesa(w) \in VistaBatch /\ NonAttesa(w).n = w.n /\ NonAttesa(w).attesa = FALSE
  BY DEF NonAttesa, VistaBatch
<1>6. (b.id \in {}) = FALSE
  OBVIOUS
<1>7. NonAttesa(Voce(b, M)) = Voce(b, {})
  <2>1. Voce(b, {}).attesa = FALSE
    BY <1>3, <1>6, Zenon
  <2>2. NonAttesa(Voce(b, M)) \in VistaBatch /\ NonAttesa(Voce(b, M)).n = b.n
        /\ NonAttesa(Voce(b, M)).attesa = FALSE
    BY <1>1, <1>2, <1>5, Zenon
  <2>3. NonAttesa(Voce(b, M)).attesa = Voce(b, {}).attesa
    BY <2>1, <2>2, Zenon
  <2>4. QED
    BY <1>1, <1>2, <1>4, <2>2, <2>3, Zenon
<1>8. ASSUME NEW N, b.id \in M <=> b.id \in N PROVE Voce(b, M) = Voce(b, N)
  <2>1. (b.id \in M) = (b.id \in N)
    BY <1>8
  <2>2. Voce(b, M).attesa = Voce(b, N).attesa
    BY <1>3, <2>1, Zenon
  <2>3. QED
    BY <1>1, <1>2, <1>4, <2>2
<1>9. QED
  BY <1>1, <1>7, <1>8

\* A queue as Coda sees it.
LEMMA VistaCoda ==
  ASSUME NEW q \in Seq(Batch), NEW M
  PROVE  /\ Vista(q, M) \in Seq(VistaBatch)
         /\ Len(Vista(q, M)) = Len(q) /\ DOMAIN Vista(q, M) = 1..Len(q)
         /\ \A i \in 1..Len(q) : Vista(q, M)[i] = Voce(q[i], M)
<1> DEFINE v == Vista(q, M)
<1>1. DOMAIN q = 1..Len(q) /\ Len(q) \in Nat /\ \A i \in 1..Len(q) : q[i] \in Batch
  BY CodaFatti
<1>2. v = [i \in 1..Len(q) |-> Voce(q[i], M)]
  BY <1>1 DEF Vista
<1>3. \A i \in 1..Len(q) : Voce(q[i], M) \in VistaBatch
  BY <1>1, VoceFatti
<1>4. v \in [1..Len(q) -> VistaBatch] /\ DOMAIN v = 1..Len(q)
      /\ \A i \in 1..Len(q) : v[i] = Voce(q[i], M)
  BY <1>2, <1>3
<1> HIDE DEF v
<1>5. v \in Seq(VistaBatch) /\ Len(v) = Len(q)
  BY <1>1, <1>4, FunzioneSeq
<1>6. QED
  BY <1>4, <1>5 DEF v

\* The results among answers that are all results but perhaps the last one.
LEMMA RisultatiContati ==
  ASSUME NEW s \in Seq(Messaggio), \A i \in 1..Len(s) - 1 : s[i][1] = "risultato"
  PROVE  Risultati(s) = IF s # <<>> /\ s[Len(s)][1] # "risultato" THEN Len(s) - 1 ELSE Len(s)
<1> DEFINE S == {i \in DOMAIN s : s[i][1] = "risultato"}
<1>1. PICK l \in Nat : l = Len(s) /\ DOMAIN s = 1..l /\ (s = <<>> <=> l = 0)
  BY EmptySeq
<1>2. PICK n \in Nat : n = IF l # 0 /\ s[l][1] # "risultato" THEN l - 1 ELSE l
  <2>1. l # 0 => l - 1 \in Nat
    OBVIOUS
  <2>2. QED
    BY <2>1
<1>3. \A i \in 1..l - 1 : s[i][1] = "risultato"
  BY <1>1
<1>4. ASSUME NEW i \in 1..l PROVE s[i][1] = "risultato" <=> i \in 1..n
  <2>1. CASE i = l
    BY <1>2, <2>1
  <2>2. CASE i # l
    BY <1>2, <1>3, <2>2
  <2>3. QED
    BY <2>1, <2>2
<1>5. \A i \in 1..n : i \in 1..l
  BY <1>2
<1>6. S = 1..n
  BY <1>1, <1>4, <1>5
<1> HIDE DEF S
<1>7. Cardinality(1..n) = n
  <2>1. Cardinality(1..n) = IF 1 > n THEN 0 ELSE n - 1 + 1
    BY FS_Interval
  <2>2. QED
    BY <2>1
<1>8. Risultati(s) = n
  BY <1>6, <1>7 DEF Risultati, S
<1>9. QED
  BY <1>1, <1>2, <1>8

LEMMA NessunRisultato ==
  ASSUME NEW s, s = <<>> \/ \E m : s = <<m>> /\ m[1] # "risultato"
  PROVE  Risultati(s) = 0
<1>1. {i \in DOMAIN s : s[i][1] = "risultato"} = {}
  OBVIOUS
<1>2. QED
  BY <1>1, FS_EmptySet DEF Risultati

\* A step that leaves queues and callbacks alone and drops the answers under way.
LEMMA RaffInterrotta ==
  ASSUME coda' = coda, c.current_user \in Utente,
         \A u \in Utente : c'.mutation_callbacks[u] = c.mutation_callbacks[u],
         Risultati(c'.risposte) = 0
  PROVE  Consentito
<1> DEFINE a == c.current_user
<1>1. CodaVista' = CodaVista
  <2>1. \A u \in Utente : CodaVista'[u] = CodaVista[u]
    BY VistaFatti
  <2>2. QED
    BY <2>1, VistaFatti
<1>2. InviateViste' = [InviateViste EXCEPT ![a] = 0]
  <2>1. \A u \in Utente : InviateViste'[u] = 0 /\ (u # a => InviateViste[u] = 0)
    BY VistaFatti
  <2>2. PICK f : InviateViste = [u \in Utente |-> f[u]]
    BY VistaFatti
  <2>3. PICK g : InviateViste' = [u \in Utente |-> g[u]]
    BY VistaFatti
  <2>4. QED
    BY <2>1, <2>2, <2>3
<1>3. Contratto!Interrompi(a)
  BY <1>1, <1>2 DEF Contratto!Interrompi
<1>4. QED
  BY <1>3 DEF Consentito, Contratto!Next

\* A step that leaves the queues, the callbacks and the results under way alone.
LEMMA RaffFerma ==
  ASSUME coda' = coda, c'.current_user = c.current_user,
         \A u \in Utente : c'.mutation_callbacks[u] = c.mutation_callbacks[u],
         Risultati(c'.risposte) = Risultati(c.risposte)
  PROVE  Consentito
<1>1. CodaVista' = CodaVista
  <2>1. \A u \in Utente : CodaVista'[u] = CodaVista[u]
    BY VistaFatti
  <2>2. QED
    BY <2>1, VistaFatti
<1>2. InviateViste' = InviateViste
  <2>1. \A u \in Utente : InviateViste'[u] = InviateViste[u]
    BY VistaFatti
  <2>2. QED
    BY <2>1, VistaFatti
<1>3. QED
  BY <1>1, <1>2 DEF Consentito

\* A new process has the queues, no callback and no answer.
LEMMA RaffRiavvia ==
  ASSUME IInv, NEW u \in Utente, coda' = coda, c' = Avviata(coda, u)
  PROVE  Consentito
<1>1. coda \in [Utente -> Seq(Batch)]
  BY InvFatti
<1>2. c'.risposte = <<>> /\ \A v \in Utente : c'.mutation_callbacks[v] = {}
  <2>1. Ordinata(coda[u]) /\ LoadNextBatchIdFromDb(coda, u) \in Nat \ {0}
    BY InvFatti, IdLimitati DEF IdSani
  <2>2. QED
    BY <1>1, <2>1, AvviataSana
<1>3. \A v \in Utente : /\ CodaVista[v] = Vista(coda[v], c.mutation_callbacks[v])
                        /\ CodaVista'[v] = Vista(coda[v], {})
  BY <1>2, VistaFatti
<1>4. \A v \in Utente : InviateViste'[v] = 0
  BY <1>2, VistaFatti, NessunRisultato
<1>5. ASSUME NEW v \in Utente
      PROVE  /\ Len(CodaVista[v]) <= Len(CodaVista'[v])
             /\ \A i \in DOMAIN CodaVista'[v] :
                  CodaVista'[v][i] = NonAttesa(IF i <= Len(CodaVista[v]) THEN CodaVista[v][i]
                                                ELSE CodaVista'[v][i])
  <2> DEFINE q == coda[v]
             M == c.mutation_callbacks[v]
  <2>1. q \in Seq(Batch)
    BY <1>1
  <2> HIDE DEF q, M
  <2>2. /\ Len(Vista(q, M)) = Len(q) /\ Len(Vista(q, {})) = Len(q) /\ Len(q) \in Nat
        /\ DOMAIN Vista(q, {}) = 1..Len(q)
    BY <2>1, VistaCoda
  <2>3. \A i \in 1..Len(q) : /\ Vista(q, M)[i] = Voce(q[i], M)
                             /\ Vista(q, {})[i] = Voce(q[i], {})
    BY <2>1, VistaCoda
  <2>4. ASSUME NEW i \in 1..Len(q) PROVE Vista(q, {})[i] = NonAttesa(Vista(q, M)[i])
    <3>1. q[i] \in Batch
      BY <2>1, CodaFatti
    <3>2. QED
      BY <2>3, <3>1, VoceFatti
  <2>5. \A i \in 1..Len(q) : i <= Len(q)
    BY <2>2
  <2>6. QED
    BY <1>3, <2>2, <2>4, <2>5 DEF q, M
<1>6. InviateViste' = [v \in Utente |-> IF v \in Utente THEN 0 ELSE InviateViste[v]]
  <2>1. PICK g : InviateViste' = [v \in Utente |-> g[v]]
    BY VistaFatti
  <2>2. QED
    BY <1>4, <2>1
<1>7. Contratto!Riavvia(Utente)
  BY <1>5, <1>6 DEF Contratto!Riavvia
<1>8. QED
  BY <1>7 DEF Consentito, Contratto!Next

LEMMA RestaFatti ==
  ASSUME IInv, Resta(c, c')
  PROVE  /\ c'.current_user = c.current_user /\ c.current_user \in Utente
         /\ \A u \in Utente : c'.mutation_callbacks[u] = c.mutation_callbacks[u]
BY InvFatti DEF Resta, Conservati

LEMMA RaffSilenzio ==
  ASSUME IInv, Silenzio
  PROVE  Consentito
<1>1. coda' = coda /\ Risultati(c'.risposte) = 0
  BY NessunRisultato DEF Silenzio
<1>2. c.current_user \in Utente /\ \A u \in Utente : c'.mutation_callbacks[u] = c.mutation_callbacks[u]
  BY RestaFatti DEF Silenzio
<1>3. QED
  BY <1>1, <1>2, RaffInterrotta

\* The answer to a handshake and a break are not results.
LEMMA RaffMuta ==
  ASSUME IInv, coda' = coda, Resta(c, c'),
         NEW m, c'.risposte = <<m>>, m[1] # "risultato"
  PROVE  Consentito
<1>1. Risultati(c'.risposte) = 0
  BY NessunRisultato
<1>2. c.current_user \in Utente /\ \A u \in Utente : c'.mutation_callbacks[u] = c.mutation_callbacks[u]
  BY RestaFatti
<1>3. QED
  BY <1>1, <1>2, RaffInterrotta

\* Another user signs in.
LEMMA RaffCambio ==
  ASSUME IInv, NEW u \in Utente, HandleCredentialChange(u)
  PROVE  Consentito
<1>1. coda' = coda /\ c'.mutation_callbacks = c.mutation_callbacks /\ Risultati(c'.risposte) = 0
  BY InvCambio, NessunRisultato
<1>2. c.current_user \in Utente
  BY InvFatti
<1>3. QED
  BY <1>1, <1>2, RaffInterrotta

\* The results under way on an aligned stream.
LEMMA RisultatiAllineati ==
  ASSUME IInv, Allineato(c)
  PROVE  /\ c.risposte \in Seq(Messaggio)
         /\ \A i \in 1..Len(c.risposte) - 1 : c.risposte[i][1] = "risultato"
         /\ \A i \in 1..Len(c.risposte) : c.risposte[i][1] \in {"risultato", "rifiuto"}
         /\ Len(c.risposte) \in Nat /\ Len(c.richieste) \in Nat
         /\ Len(c.risposte) + Len(c.richieste) <= Len(Mia)
<1>1. c.risposte \in Seq(Messaggio) /\ c.richieste \in Seq(0..MaxScritture)
  BY InvFatti, ClientFatti
<1>2. Len(c.risposte) \in Nat /\ Len(c.richieste) \in Nat
  BY <1>1
<1>3. \A i \in 1..Len(c.risposte) - 1 : i \in 1..Len(c.risposte) /\ i # Len(c.risposte)
  BY <1>2
<1>4. Len(c.risposte) + Len(c.richieste) <= Len(Mia)
  <2>1. Mia \in Seq(Batch) /\ c.write_pipeline = Davanti(Mia)
    BY InvFatti
  <2>2. Len(Davanti(Mia)) <= Len(Mia)
    BY <2>1, DavantiFatti
  <2>3. Len(c.risposte) + Len(c.richieste) = Len(Davanti(Mia))
    BY <2>1 DEF Allineato
  <2>4. QED
    BY ONLY <2>2, <2>3
<1>5. QED
  BY <1>1, <1>2, <1>3, <1>4 DEF Allineato

\* The queue of a user is seen as long as it is.
LEMMA VistaLunga ==
  ASSUME IInv, NEW u \in Utente
  PROVE  Len(CodaVista[u]) = Len(coda[u])
<1>1. coda[u] \in Seq(Batch) /\ CodaVista[u] = Vista(coda[u], c.mutation_callbacks[u])
  BY InvFatti, VistaFatti
<1>2. QED
  BY <1>1, VistaCoda

\* An answer more: a result, or the refusal that ends the stream.
LEMMA RisultatoInFondo ==
  ASSUME NEW s \in Seq(Messaggio), \A i \in 1..Len(s) : s[i][1] = "risultato",
         NEW m \in Messaggio
  PROVE  /\ Risultati(s) = Len(s)
         /\ m[1] = "risultato" => Risultati(Append(s, m)) = Len(s) + 1
         /\ m[1] # "risultato" => Risultati(Append(s, m)) = Len(s)
<1> DEFINE t == Append(s, m)
<1>1. /\ t \in Seq(Messaggio) /\ Len(t) = Len(s) + 1 /\ Len(s) \in Nat
      /\ t[Len(s) + 1] = m /\ \A i \in 1..Len(s) : t[i] = s[i]
  BY AppendProperties
<1>2. t # <<>>
  <2>1. Len(<<>>) = 0 /\ \A n \in Nat : n + 1 # 0
    OBVIOUS
  <2>2. QED
    BY ONLY <1>1, <2>1
<1> HIDE DEF t
<1>3. \A i \in 1..Len(s) - 1 : i \in 1..Len(s)
  BY <1>1
<1>4. \A i \in 1..Len(t) - 1 : t[i][1] = "risultato"
  BY <1>1
<1>5. s = <<>> \/ Len(s) \in 1..Len(s)
  BY <1>1, EmptySeq
<1>6. Risultati(s) = Len(s)
  BY <1>3, <1>5, RisultatiContati
<1>7. Risultati(t) = IF t[Len(t)][1] # "risultato" THEN Len(t) - 1 ELSE Len(t)
  BY <1>1, <1>2, <1>4, RisultatiContati
<1>8. Len(t) - 1 = Len(s)
  BY <1>1
<1>9. QED
  BY <1>1, <1>6, <1>7, <1>8 DEF t

\* On an aligned stream that has not ended, every answer is a result.
LEMMA NessunaFine ==
  ASSUME IInv, Allineato(c), ~Terminato
  PROVE  \A i \in 1..Len(c.risposte) : c.risposte[i][1] = "risultato"
<1>1. PICK l \in Nat : l = Len(c.risposte)
  BY RisultatiAllineati
<1>2. /\ \A i \in 1..l - 1 : c.risposte[i][1] = "risultato"
      /\ \A i \in 1..l : c.risposte[i][1] \in {"risultato", "rifiuto"}
      /\ c.risposte \in Seq(Messaggio)
  BY <1>1, RisultatiAllineati
<1>3. l = 0 \/ c.risposte[l][1] # "rifiuto"
  BY <1>1, <1>2, EmptySeq DEF Terminato, Last
<1>4. ASSUME NEW i \in 1..l PROVE c.risposte[i][1] = "risultato"
  <2>1. CASE i = l
    BY <1>2, <1>3, <2>1
  <2>2. CASE i # l
    <3>1. i \in 1..l - 1
      BY <2>2
    <3>2. QED
      BY <1>2, <3>1
  <2>3. QED
    BY <2>1, <2>2
<1>5. QED
  BY <1>1, <1>4

\* The server executes a write.
LEMMA RaffEsegue ==
  ASSUME IInv, ServerEsegue
  PROVE  Consentito
<1> DEFINE u == c.current_user
           m == <<"risultato", Head(c.richieste)>>
<1>1. /\ coda' = coda /\ Resta(c, c') /\ Allineato(c) /\ ~Terminato /\ c.richieste # <<>>
      /\ c'.risposte = Append(c.risposte, m)
  BY InvServerEsegue
<1>2. u \in Utente /\ c'.current_user = u
      /\ \A v \in Utente : c'.mutation_callbacks[v] = c.mutation_callbacks[v]
  BY <1>1, RestaFatti
<1>3. c.risposte \in Seq(Messaggio) /\ c.richieste \in Seq(0..MaxScritture)
  BY InvFatti, ClientFatti
<1>4. m \in Messaggio /\ m[1] = "risultato"
  <2>1. Head(c.richieste) \in 0..MaxScritture
    BY <1>1, <1>3, HeadTailProperties
  <2>2. QED
    BY <2>1 DEF Messaggio
<1> HIDE DEF m
<1>5. /\ Risultati(c.risposte) = Len(c.risposte)
      /\ Risultati(c'.risposte) = Len(c.risposte) + 1
  <2>1. \A i \in 1..Len(c.risposte) : c.risposte[i][1] = "risultato"
    BY <1>1, NessunaFine
  <2> DEFINE s == c.risposte
  <2>2. s \in Seq(Messaggio) /\ \A i \in 1..Len(s) : s[i][1] = "risultato"
    BY <1>3, <2>1
  <2> HIDE DEF s
  <2>3. Risultati(s) = Len(s) /\ Risultati(Append(s, m)) = Len(s) + 1
    BY ONLY <1>4, <2>2, RisultatoInFondo
  <2>4. QED
    BY <1>1, <2>3 DEF s
<1>6. CodaVista' = CodaVista
  <2>1. \A v \in Utente : CodaVista'[v] = CodaVista[v]
    BY <1>1, <1>2, VistaFatti
  <2>2. QED
    BY <2>1, VistaFatti
<1>7. InviateViste[u] = Len(c.risposte) /\ InviateViste'[u] = Len(c.risposte) + 1
      /\ \A v \in Utente : v # u => InviateViste'[v] = 0 /\ InviateViste[v] = 0
  BY <1>2, <1>5, VistaFatti
<1>8. InviateViste' = [InviateViste EXCEPT ![u] = @ + 1]
  <2>1. PICK f : InviateViste = [v \in Utente |-> f[v]]
    BY VistaFatti
  <2>2. PICK g : InviateViste' = [v \in Utente |-> g[v]]
    BY VistaFatti
  <2> HIDE DEF u
  <2>3. QED
    BY <1>2, <1>7, <2>1, <2>2
<1>9. InviateViste[u] < Len(CodaVista[u])
  <2>1. Len(CodaVista[u]) = Len(Mia)
    BY <1>2, VistaLunga DEF Mia
  <2>2. Len(c.richieste) # 0
    BY <1>1, <1>3, EmptySeq
  <2>3. /\ Len(c.risposte) \in Nat /\ Len(c.richieste) \in Nat
        /\ Len(c.risposte) + Len(c.richieste) <= Len(Mia)
    BY <1>1, RisultatiAllineati
  <2>4. Len(Mia) \in Nat
    BY InvFatti, CodaFatti
  <2>5. \A a, b, n \in Nat : b # 0 /\ a + b <= n => a < n
    OBVIOUS
  <2>6. Len(c.risposte) < Len(Mia)
    BY ONLY <2>2, <2>3, <2>4, <2>5
  <2>7. QED
    BY <1>7, <2>1, <2>6
<1>10. Contratto!Esegui(u)
  BY <1>6, <1>8, <1>9 DEF Contratto!Esegui
<1> HIDE DEF u
<1>11. QED
  BY <1>2, <1>10 DEF Consentito, Contratto!Next

\* The server refuses a write.
LEMMA RaffRifiutaServer ==
  ASSUME IInv, ServerRifiuta
  PROVE  Consentito
<1> DEFINE m == <<"rifiuto", Head(c.richieste)>>
           s == c.risposte
<1>1. /\ coda' = coda /\ Resta(c, c') /\ Allineato(c) /\ ~Terminato /\ c.richieste # <<>>
      /\ c'.risposte = Append(s, m)
  BY InvServerRifiuta
<1>2. /\ c'.current_user = c.current_user
      /\ \A v \in Utente : c'.mutation_callbacks[v] = c.mutation_callbacks[v]
  BY <1>1, RestaFatti
<1>3. s \in Seq(Messaggio) /\ c.richieste \in Seq(0..MaxScritture)
  BY InvFatti, ClientFatti
<1>4. m \in Messaggio /\ m[1] # "risultato"
  <2>1. Head(c.richieste) \in 0..MaxScritture
    BY <1>1, <1>3, HeadTailProperties
  <2>2. QED
    BY <2>1 DEF Messaggio
<1>5. \A i \in 1..Len(s) : s[i][1] = "risultato"
  BY <1>1, NessunaFine
<1> HIDE DEF m, s
<1>6. Risultati(s) = Len(s) /\ Risultati(Append(s, m)) = Len(s)
  BY ONLY <1>3, <1>4, <1>5, RisultatoInFondo
<1>7. Risultati(c'.risposte) = Risultati(c.risposte)
  BY <1>1, <1>6 DEF s
<1>8. QED
  BY <1>1, <1>2, <1>7, RaffFerma

\* Without its front and the callback of it, a queue looks like its tail.
LEMMA VistaCodata ==
  ASSUME NEW q \in Seq(Batch), q # <<>>, Ordinata(q), NEW M
  PROVE  Vista(Tail(q), M \ {q[1].id}) = Tail(Vista(q, M))
<1> DEFINE N == M \ {q[1].id}
           p == Tail(q)
           v == Vista(q, M)
           w == Vista(p, N)
<1>1. PICK l \in Nat \ {0} : l = Len(q) /\ DOMAIN q = 1..l
  BY CodaFatti, EmptySeq
<1>2. /\ p \in Seq(Batch) /\ Len(p) = l - 1
      /\ \A i \in 1..l - 1 : p[i] = q[i + 1]
  BY <1>1, HeadTailProperties
<1>3. v \in Seq(VistaBatch) /\ Len(v) = l /\ \A i \in 1..l : v[i] = Voce(q[i], M)
  BY <1>1, VistaCoda
<1> HIDE DEF p
<1>4. w \in Seq(VistaBatch) /\ Len(w) = l - 1 /\ \A i \in 1..l - 1 : w[i] = Voce(p[i], N)
  BY <1>2, VistaCoda
<1> HIDE DEF v, w
<1>5. v # <<>>
  <2>1. Len(<<>>) = 0
    OBVIOUS
  <2>2. QED
    BY <1>3, <2>1
<1>6. /\ Tail(v) \in Seq(VistaBatch) /\ Len(Tail(v)) = l - 1
      /\ \A i \in 1..l - 1 : Tail(v)[i] = v[i + 1]
  BY <1>3, <1>5, HeadTailProperties
<1>7. ASSUME NEW i \in 1..l - 1 PROVE Tail(v)[i] = w[i]
  <2>1. i + 1 \in 1..l /\ 1 \in 1..l /\ 1 < i + 1
    BY <1>1
  <2>2. q[i + 1] \in Batch /\ q[i + 1].id \in Nat /\ q[1].id \in Nat
    BY <1>1, <2>1, CodaFatti
  <2>3. q[1].id < q[i + 1].id
    BY <1>1, <2>1 DEF Ordinata
  <2>4. q[1].id # q[i + 1].id
    BY <2>2, <2>3
  <2>5. q[i + 1].id \in M <=> q[i + 1].id \in N
    BY <2>4
  <2> HIDE DEF N
  <2>6. Voce(q[i + 1], M) = Voce(q[i + 1], N)
    BY <2>2, <2>5, VoceFatti
  <2>7. QED
    BY <1>2, <1>3, <1>4, <1>6, <2>1, <2>6
<1>8. Tail(v) = w
  <2>1. Len(Tail(v)) = Len(w) /\ \A i \in 1..Len(w) : Tail(v)[i] = w[i]
    BY <1>4, <1>6, <1>7
  <2>2. QED
    BY <1>4, <1>6, <2>1, SeqEqual
<1>9. QED
  BY <1>8 DEF v, w, p, N

\* What Coda sees of a step that takes the front of the queue away.
LEMMA RaffTolta ==
  ASSUME IInv, NEW t, TestaTolta(t), NEW u, u = c.current_user
  PROVE  /\ u \in Utente /\ CodaVista' = [CodaVista EXCEPT ![u] = Tail(@)]
         /\ CodaVista[u] # <<>>
         /\ InviateViste[u] = Risultati(c.risposte)
         /\ InviateViste' = [InviateViste EXCEPT ![u] = Risultati(t)]
<1>1. /\ Mia # <<>> /\ coda' = [coda EXCEPT ![u] = Tail(Mia)] /\ c'.current_user = u
      /\ c'.mutation_callbacks = [c.mutation_callbacks EXCEPT ![u] = @ \ {Mia[1].id}]
      /\ c'.risposte = t
  BY DEF TestaTolta
<1>2. /\ u \in Utente /\ coda \in [Utente -> Seq(Batch)] /\ Mia = coda[u]
      /\ Mia \in Seq(Batch) /\ Ordinata(Mia)
      /\ c.mutation_callbacks \in [Utente -> SUBSET (Nat \ {0})]
  BY InvFatti, ClientFatti DEF Mia
<1>3. CodaVista'[u] = Tail(CodaVista[u])
  <2>1. coda'[u] = Tail(Mia)
        /\ c'.mutation_callbacks[u] = c.mutation_callbacks[u] \ {Mia[1].id}
    BY <1>1, <1>2
  <2>2. /\ CodaVista'[u] = Vista(Tail(Mia), c.mutation_callbacks[u] \ {Mia[1].id})
        /\ CodaVista[u] = Vista(Mia, c.mutation_callbacks[u])
    BY <1>2, <2>1, VistaFatti
  <2> DEFINE M == c.mutation_callbacks[u]
             q == Mia
  <2>3. q \in Seq(Batch) /\ q # <<>> /\ Ordinata(q)
    BY <1>1, <1>2
  <2> HIDE DEF M, q
  <2>4. Vista(Tail(q), M \ {q[1].id}) = Tail(Vista(q, M))
    BY ONLY <2>3, VistaCodata
  <2>5. QED
    BY <2>2, <2>4 DEF M, q
<1>4. ASSUME NEW v \in Utente, v # u PROVE CodaVista'[v] = CodaVista[v]
  <2>1. coda'[v] = coda[v] /\ c'.mutation_callbacks[v] = c.mutation_callbacks[v]
    BY <1>1, <1>2, <1>4
  <2>2. QED
    BY <2>1, VistaFatti
<1>5. CodaVista' = [CodaVista EXCEPT ![u] = Tail(@)]
  <2>1. PICK f : CodaVista = [v \in Utente |-> f[v]]
    BY VistaFatti
  <2>2. PICK g : CodaVista' = [v \in Utente |-> g[v]]
    BY VistaFatti
  <2>3. QED
    BY <1>2, <1>3, <1>4, <2>1, <2>2
<1>6. CodaVista[u] # <<>>
  <2>1. Len(CodaVista[u]) = Len(Mia) /\ Len(Mia) # 0 /\ Len(<<>>) = 0
    BY <1>1, <1>2, VistaLunga, EmptySeq
  <2>2. QED
    BY <2>1
<1>7. /\ InviateViste[u] = Risultati(c.risposte) /\ InviateViste'[u] = Risultati(t)
      /\ \A v \in Utente : v # u => InviateViste'[v] = 0 /\ InviateViste[v] = 0
  BY <1>1, <1>2, VistaFatti
<1>8. InviateViste' = [InviateViste EXCEPT ![u] = Risultati(t)]
  <2>1. PICK f : InviateViste = [v \in Utente |-> f[v]]
    BY VistaFatti
  <2>2. PICK g : InviateViste' = [v \in Utente |-> g[v]]
    BY VistaFatti
  <2>3. QED
    BY <1>2, <1>7, <2>1, <2>2
<1>9. QED
  BY <1>2, <1>5, <1>6, <1>7, <1>8

\* The results among answers whose first one is a result, and among the others.
LEMMA RisultatoInTesta ==
  ASSUME NEW s \in Seq(Messaggio), s # <<>>, s[1][1] = "risultato",
         \A i \in 1..Len(s) - 1 : s[i][1] = "risultato"
  PROVE  Risultati(s) \in Nat \ {0} /\ Risultati(Tail(s)) = Risultati(s) - 1
<1> DEFINE t == Tail(s)
<1> SUFFICES Risultati(s) \in Nat \ {0} /\ Risultati(t) = Risultati(s) - 1
  OBVIOUS
<1>1. PICK l \in Nat \ {0} : l = Len(s)
  BY EmptySeq
<1>2. t \in Seq(Messaggio) /\ Len(t) = l - 1 /\ \A i \in 1..l - 1 : t[i] = s[i + 1]
  BY <1>1, HeadTailProperties
<1>3. Len(t) \in Nat
  BY <1>2
<1> HIDE DEF t
<1>4. \A i \in 1..Len(t) - 1 : t[i][1] = "risultato"
  <2>1. ASSUME NEW i \in 1..l - 2 PROVE i \in 1..l - 1 /\ i + 1 \in 1..l - 1
    OBVIOUS
  <2>2. Len(t) - 1 = l - 2
    BY <1>2
  <2>3. QED
    BY <1>1, <1>2, <2>1, <2>2
<1>5. Risultati(s) = IF s # <<>> /\ s[Len(s)][1] # "risultato" THEN Len(s) - 1 ELSE Len(s)
  BY RisultatiContati
<1>6. Risultati(t) = IF t # <<>> /\ t[Len(t)][1] # "risultato" THEN Len(t) - 1 ELSE Len(t)
  BY <1>2, <1>4, RisultatiContati
<1>7. t = <<>> <=> l = 1
  <2>1. l - 1 = 0 <=> l = 1
    OBVIOUS
  <2>2. QED
    BY <1>2, <2>1, EmptySeq
<1>8. CASE l = 1
  BY <1>1, <1>2, <1>5, <1>6, <1>7, <1>8
<1>9. CASE l # 1
  <2>1. l - 1 \in 1..l - 1 /\ (l - 1) + 1 = l
    BY <1>9
  <2>2. t[l - 1] = s[l] /\ t # <<>>
    BY <1>2, <1>7, <1>9, <2>1
  <2>3. CASE s[l][1] # "risultato"
    BY <1>1, <1>2, <1>5, <1>6, <1>9, <2>2, <2>3
  <2>4. CASE s[l][1] = "risultato"
    BY <1>1, <1>2, <1>5, <1>6, <1>9, <2>2, <2>4
  <2>5. QED
    BY <2>3, <2>4
<1>10. QED
  BY <1>8, <1>9

\* The result of a write is taken.
LEMMA RaffRisultato ==
  ASSUME IInv, OnWriteStreamMutationResult
  PROVE  Consentito
<1> DEFINE s == c.risposte
           u == c.current_user
<1>1. /\ s # <<>> /\ Allineato(c) /\ Head(s)[1] = "risultato" /\ TestaTolta(Tail(s))
  BY InvRisultato
<1>2. s \in Seq(Messaggio) /\ \A i \in 1..Len(s) - 1 : s[i][1] = "risultato"
  BY <1>1, RisultatiAllineati
<1>3. s[1][1] = "risultato"
  BY <1>1, <1>2, HeadTailProperties
<1>4. u = c.current_user
  OBVIOUS
<1>5. /\ u \in Utente /\ CodaVista' = [CodaVista EXCEPT ![u] = Tail(@)]
      /\ InviateViste[u] = Risultati(s)
      /\ InviateViste' = [InviateViste EXCEPT ![u] = Risultati(Tail(s))]
  <2> HIDE DEF u
  <2> DEFINE t == Tail(s)
  <2>1. TestaTolta(t)
    BY <1>1
  <2> HIDE DEF t
  <2>2. /\ u \in Utente /\ CodaVista' = [CodaVista EXCEPT ![u] = Tail(@)]
        /\ InviateViste[u] = Risultati(c.risposte)
        /\ InviateViste' = [InviateViste EXCEPT ![u] = Risultati(t)]
    BY <1>4, <2>1, RaffTolta
  <2>3. QED
    BY <2>2 DEF t
<1> HIDE DEF s, u
<1>6. Risultati(s) \in Nat \ {0} /\ Risultati(Tail(s)) = Risultati(s) - 1
  BY ONLY <1>1, <1>2, <1>3, RisultatoInTesta
<1>7. InviateViste[u] > 0
  BY <1>5, <1>6
<1>8. InviateViste' = [InviateViste EXCEPT ![u] = @ - 1]
  <2>1. Risultati(Tail(s)) = InviateViste[u] - 1
    BY <1>5, <1>6
  <2>2. QED
    BY <1>5, <2>1
<1>9. Contratto!Risposta(u)
  BY <1>5, <1>7, <1>8 DEF Contratto!Risposta
<1>10. QED
  BY <1>5, <1>9 DEF Consentito, Contratto!Next

\* The stream ends: whether it refuses the front of the queue or not.
LEMMA RaffFine ==
  ASSUME IInv, OnStreamFinish
  PROVE  Consentito
<1> DEFINE s == c.risposte
           u == c.current_user
<1>1. CASE Silenzio
  BY <1>1, RaffSilenzio
<1>2. CASE s # <<>> /\ Allineato(c) /\ Head(s)[1] = "rifiuto" /\ TestaTolta(<<>>)
  <2>1. s \in Seq(Messaggio) /\ \A i \in 1..Len(s) - 1 : s[i][1] = "risultato"
    BY <1>2, RisultatiAllineati
  <2>2. s[1][1] # "risultato"
    BY <1>2, <2>1, HeadTailProperties
  <2>3. u = c.current_user
    OBVIOUS
  <2>4. /\ u \in Utente /\ CodaVista' = [CodaVista EXCEPT ![u] = Tail(@)]
        /\ CodaVista[u] # <<>> /\ InviateViste[u] = Risultati(s)
        /\ InviateViste' = [InviateViste EXCEPT ![u] = Risultati(<<>>)]
    <3> HIDE DEF u
    <3> DEFINE t == <<>>
    <3>1. TestaTolta(t)
      BY <1>2
    <3> HIDE DEF t
    <3>2. /\ u \in Utente /\ CodaVista' = [CodaVista EXCEPT ![u] = Tail(@)]
          /\ CodaVista[u] # <<>> /\ InviateViste[u] = Risultati(c.risposte)
          /\ InviateViste' = [InviateViste EXCEPT ![u] = Risultati(t)]
      BY <2>3, <3>1, RaffTolta
    <3>3. QED
      BY <3>2 DEF t
  <2> HIDE DEF s, u
  <2>5. Risultati(s) = 0
    <3>1. Risultati(s) = IF s # <<>> /\ s[Len(s)][1] # "risultato" THEN Len(s) - 1 ELSE Len(s)
      BY <2>1, RisultatiContati
    <3>2. PICK l \in Nat \ {0} : l = Len(s)
      BY <1>2, <2>1, EmptySeq
    <3>3. l = 1
      <4>1. l # 1 => 1 \in 1..l - 1
        OBVIOUS
      <4>2. QED
        BY <2>1, <2>2, <3>2, <4>1
    <3>4. QED
      BY <1>2, <2>2, <3>1, <3>2, <3>3
  <2>6. Risultati(<<>>) = 0
    BY NessunRisultato
  <2>7. InviateViste' = InviateViste
    <3>1. PICK f : InviateViste = [v \in Utente |-> f[v]]
      BY VistaFatti
    <3>2. InviateViste' = [InviateViste EXCEPT ![u] = 0] /\ InviateViste[u] = 0
      BY <2>4, <2>5, <2>6
    <3>3. QED
      BY <2>4, <3>1, <3>2
  <2>8. Contratto!Rifiuta(u)
    BY <2>4, <2>5, <2>7 DEF Contratto!Rifiuta
  <2>9. QED
    BY <2>4, <2>8 DEF Consentito, Contratto!Next
<1>3. QED
  BY <1>1, <1>2, InvFine

\* The app writes.
LEMMA RaffScrive ==
  ASSUME IInv, SyncEngine_WriteMutations
  PROVE  Consentito
<1> DEFINE u == c.current_user
           id == c.next_batch_id
           l == Len(Mia)
<1>1. /\ c'.current_user = c.current_user /\ c'.risposte = c.risposte
      /\ \A v \in Utente : \A i \in DOMAIN coda[v] :
           /\ coda[v][i].id # id
           /\ coda[v][i].id \in c'.mutation_callbacks[v] <=> coda[v][i].id \in c.mutation_callbacks[v]
  BY InvScrive
<1>2. PICK b \in Batch : b.id = id /\ coda' = [coda EXCEPT ![u] = Append(Mia, b)]
  BY InvScrive
<1>3. /\ u \in Utente /\ coda \in [Utente -> Seq(Batch)] /\ Mia = coda[u]
      /\ Mia \in Seq(Batch) /\ l \in Nat
  BY InvFatti, CodaFatti DEF Mia
<1> HIDE DEF u, id, l
<1>4. /\ coda'[u] = Append(Mia, b) /\ \A v \in Utente : v # u => coda'[v] = coda[v]
  BY <1>2, <1>3
<1>5. /\ Append(Mia, b) \in Seq(Batch) /\ Len(Append(Mia, b)) = l + 1
      /\ \A i \in 1..l : Append(Mia, b)[i] = Mia[i]
  BY <1>3, CodaAllungata DEF l
<1>6. coda' \in [Utente -> Seq(Batch)]
  BY <1>2, <1>3, <1>5
\* Each queue is seen as before, up to its old length.
<1>7. ASSUME NEW v \in Utente
      PROVE  /\ CodaVista[v] \in Seq(VistaBatch) /\ CodaVista'[v] \in Seq(VistaBatch)
             /\ Len(CodaVista[v]) = Len(coda[v]) /\ Len(CodaVista'[v]) = Len(coda'[v])
             /\ Len(coda[v]) \in Nat /\ Len(coda[v]) <= Len(coda'[v])
             /\ \A i \in 1..Len(coda[v]) : CodaVista'[v][i] = CodaVista[v][i]
  <2> DEFINE p == coda[v]
             q == coda'[v]
             M == c.mutation_callbacks[v]
             N == c'.mutation_callbacks[v]
  <2>1. p \in Seq(Batch) /\ q \in Seq(Batch) /\ CodaVista[v] = Vista(p, M)
        /\ CodaVista'[v] = Vista(q, N)
    BY <1>3, <1>6, VistaFatti
  <2>2. Len(p) \in Nat /\ Len(p) <= Len(q) /\ \A i \in 1..Len(p) : q[i] = p[i]
    <3>1. CASE v = u
      BY <1>3, <1>4, <1>5, <3>1 DEF l
    <3>2. CASE v # u
      BY <1>4, <2>1, <3>2
    <3>3. QED
      BY <3>1, <3>2
  <2>3. \A i \in DOMAIN p : p[i].id \in N <=> p[i].id \in M
    BY <1>1
  <2> HIDE DEF p, q, M, N
  <2>4. DOMAIN p = 1..Len(p) /\ \A i \in 1..Len(p) : p[i] \in Batch
    BY <2>1, CodaFatti
  <2>5. \A i \in 1..Len(p) : i \in 1..Len(q)
    BY <2>1, <2>2
  <2>6. /\ Vista(p, M) \in Seq(VistaBatch) /\ Len(Vista(p, M)) = Len(p)
        /\ \A i \in 1..Len(p) : Vista(p, M)[i] = Voce(p[i], M)
    BY ONLY <2>1, VistaCoda
  <2>7. /\ Vista(q, N) \in Seq(VistaBatch) /\ Len(Vista(q, N)) = Len(q)
        /\ \A i \in 1..Len(q) : Vista(q, N)[i] = Voce(q[i], N)
    BY ONLY <2>1, VistaCoda
  <2>8. ASSUME NEW i \in 1..Len(p) PROVE Vista(q, N)[i] = Vista(p, M)[i]
    <3>1. p[i] \in Batch /\ (p[i].id \in N <=> p[i].id \in M)
      BY <2>3, <2>4
    <3>2. Voce(p[i], N) = Voce(p[i], M)
      BY ONLY <3>1, VoceFatti
    <3>3. QED
      BY <2>2, <2>5, <2>6, <2>7, <3>2
  <2>9. QED
    BY <2>1, <2>2, <2>6, <2>7, <2>8 DEF p, q
<1>8. Contratto!Prolunga(CodaVista[u], CodaVista'[u]) /\ CodaVista'[u] # CodaVista[u]
  <2> DEFINE p == CodaVista[u]
             q == CodaVista'[u]
  <2>1. /\ p \in Seq(VistaBatch) /\ q \in Seq(VistaBatch) /\ Len(p) = l /\ Len(q) = l + 1
        /\ \A i \in 1..l : q[i] = p[i]
    BY <1>3, <1>4, <1>5, <1>7 DEF l
  <2> HIDE DEF p, q
  <2>2. /\ SubSeq(q, 1, l) \in Seq(VistaBatch) /\ Len(SubSeq(q, 1, l)) = l
        /\ \A i \in 1..l : SubSeq(q, 1, l)[i] = q[i]
    BY <1>3, <2>1, SubSeqProperties
  <2>3. p = SubSeq(q, 1, l)
    BY <1>3, <2>1, <2>2, SeqEqual
  <2>4. l <= l + 1 /\ l # l + 1
    BY <1>3
  <2>5. Len(p) <= Len(q) /\ p = SubSeq(q, 1, Len(p)) /\ q # p
    BY <2>1, <2>3, <2>4
  <2>6. QED
    BY <2>5 DEF p, q, Contratto!Prolunga
<1>9. ASSUME NEW v \in Utente, v # u PROVE CodaVista'[v] = CodaVista[v]
  <2>1. coda'[v] = coda[v]
    BY <1>4, <1>9
  <2>2. QED
    BY <1>7, <2>1, SeqEqual
<1>10. InviateViste' = InviateViste
  <2>1. \A v \in Utente : InviateViste'[v] = InviateViste[v]
    BY <1>1, VistaFatti
  <2>2. QED
    BY <2>1, VistaFatti
<1>11. Contratto!Scrivi(u)
  BY <1>8, <1>9, <1>10 DEF Contratto!Scrivi
<1>12. QED
  BY <1>3, <1>11 DEF Consentito, Contratto!Next

\* The start of the client is the start of the contract.
LEMMA RaffIniziale == Init => Contratto!Init
<1> SUFFICES ASSUME Init PROVE Contratto!Init
  OBVIOUS
<1>1. IInv /\ coda = [u \in Utente |-> <<>>]
  BY IInvIniziale DEF Init
<1>2. PICK v \in Utente : c = Avviata(coda, v)
  BY DEF Init
<1>3. c.risposte = <<>>
  <2>1. /\ coda \in [Utente -> Seq(Batch)] /\ Ordinata(coda[v])
        /\ LoadNextBatchIdFromDb(coda, v) \in Nat \ {0}
    BY <1>1, InvFatti, IdLimitati DEF IdSani
  <2>2. QED
    BY <1>2, <2>1, AvviataSana
<1>4. \A u \in Utente : CodaVista[u] = <<>>
  <2> SUFFICES ASSUME NEW u \in Utente PROVE CodaVista[u] = <<>>
    OBVIOUS
  <2>1. coda[u] \in Seq(Batch) /\ Len(coda[u]) = 0
    BY <1>1, EmptySeq
  <2>2. CodaVista[u] = Vista(coda[u], c.mutation_callbacks[u])
    BY VistaFatti
  <2>3. CodaVista[u] \in Seq(VistaBatch) /\ Len(CodaVista[u]) = 0
    BY <2>1, <2>2, VistaCoda
  <2>4. QED
    BY <2>3, EmptySeq
<1>5. \A u \in Utente : InviateViste[u] = 0
  BY <1>3, VistaFatti, NessunRisultato
<1>6. PICK f : CodaVista = [u \in Utente |-> f[u]]
  BY VistaFatti
<1>7. PICK g : InviateViste = [u \in Utente |-> g[u]]
  BY VistaFatti
<1>8. CodaVista = [u \in Utente |-> <<>>] /\ InviateViste = [u \in Utente |-> 0]
  BY <1>4, <1>5, <1>6, <1>7
<1>9. QED
  BY <1>8 DEF Contratto!Init

LEMMA RaffPasso == IInv /\ [Next]_vars => [Contratto!Next]_(Contratto!vars)
<1> SUFFICES ASSUME IInv, [Next]_vars PROVE Consentito
  BY DEF Consentito, Contratto!vars
<1>1. CASE SyncEngine_WriteMutations
  BY <1>1, RaffScrive
<1>2. CASE \/ ResumeStartWithCredentials \/ CredenzialiNegate \/ BackoffScaduto \/ Inattivo
           \/ OnWriteStreamHandshakeComplete \/ ConnettivitaCambiata
  BY <1>2, RaffSilenzio, InvResume, InvNegate, InvBackoff, InvInattivo, InvHandshake,
     InvConnettivita
<1>3. CASE CredenzialiSuperate
  <2>1. coda' = coda /\ Resta(c, c') /\ c'.risposte = c.risposte
    BY <1>3, InvSuperate
  <2>2. QED
    BY <2>1, RestaFatti, RaffFerma
<1>4. CASE OnWriteStreamMutationResult
  BY <1>4, RaffRisultato
<1>5. CASE OnStreamFinish
  BY <1>5, RaffFine
<1>6. ASSUME NEW u \in Utente, HandleCredentialChange(u) PROVE Consentito
  BY <1>6, RaffCambio
<1>7. ASSUME NEW u \in Utente, Crash(u) \/ CrashInRisposta(u) PROVE Consentito
  BY <1>7, RaffRiavvia DEF Crash, CrashInRisposta
<1>8. CASE ServerHandshake
  <2> DEFINE m == <<"handshake", 0>>
  <2>1. coda' = coda /\ Resta(c, c') /\ c'.risposte = <<m>> /\ m[1] # "risultato"
    BY <1>8, InvServerHandshake
  <2> HIDE DEF m
  <2>2. QED
    BY <2>1, RaffMuta
<1>9. CASE FlussoCaduto
  <2> DEFINE m == <<"caduta", 0>>
  <2>1. coda' = coda /\ Resta(c, c') /\ c'.risposte = <<m>> /\ m[1] # "risultato"
    BY <1>9, InvCaduto
  <2> HIDE DEF m
  <2>2. QED
    BY <2>1, RaffMuta
<1>10. CASE ServerEsegue
  BY <1>10, RaffEsegue
<1>11. CASE ServerRifiuta
  BY <1>11, RaffRifiutaServer
<1>12. CASE UNCHANGED vars
  BY <1>12 DEF vars, Consentito, CodaVista, InviateViste
<1>13. QED
  BY <1>1, <1>2, <1>3, <1>4, <1>5, <1>6, <1>7, <1>8, <1>9, <1>10, <1>11, <1>12 DEF Next

\* The client keeps the contract that the app is built on: whatever happens to its
\* pipeline, its stream, its credentials and its process, seen from outside it is
\* one queue per user that keeps the order of the calls and loses nothing.
THEOREM ContrattoMantenuto == Spec => ImplementaCoda
  BY RaffIniziale, RaffPasso, Invariante, PTL DEF Spec, ImplementaCoda, Contratto!Spec
=============================================================================
