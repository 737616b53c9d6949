--------------------------- MODULE LettureProofs ---------------------------
(***************************************************************************)
(* What holds of the read path for every number of documents and of gets,  *)
(* every bound and every choice of faults: a get is answered once, none is *)
(* forgotten, no assertion of the code fails, and, while the server        *)
(* refuses nothing, confirmations are counted right, the right documents   *)
(* are watched, and a document is reported as there only if it was.        *)
(*                                                                         *)
(* A get goes through the worker queue, the listeners and the events       *)
(* raised for it, and GetSani says where it may be in each of its phases.  *)
(* The assertions need that a running timer belongs to a started stream    *)
(* (TrackerSano), and that the targets are what is listened to (Registri). *)
(* CanaleSano relates counts and targets to the messages under way; with   *)
(* it, Fondati follows a document from the server through the messages     *)
(* that will still be taken in, the view and the events to the get.        *)
(***************************************************************************)
EXTENDS Letture, FiniteSetTheorems, SequenceTheorems, TLAPS

\* Get g in the worker queue q: to be added at most once, while it waits, before
\* anything is raised for it; to be removed only once it is served.
InLavori(q, x, g) ==
  \A i \in DOMAIN q :
    /\ q[i] = <<"ascolta", g>> =>
         /\ x.fase = "attesa" /\ ~x.registrato /\ x.eventi = <<>>
         /\ \A j \in DOMAIN q : q[j] = q[i] => j = i
    /\ q[i] = <<"togli", g>> => x.fase = "servito"

\* Get x, answered n times: once it is served it is muted or done with; an error
\* is the last that is raised for it.
GetSano(x, n) ==
  /\ x.fase = "fermo" => n = 0 /\ ~x.muto /\ ~x.registrato /\ x.eventi = <<>>
  /\ x.fase = "attesa" => n = 0 /\ ~x.muto
  /\ x.fase = "servito" => n = 1 /\ (x.muto \/ (~x.registrato /\ x.eventi = <<>>))
  /\ \A i \in DOMAIN x.eventi :
       x.eventi[i][1] = "errore" => i = Len(x.eventi) /\ ~x.registrato

GetSani ==
  \A g \in Lettore : GetSano(get[g], storia.risposte[g]) /\ InLavori(lavori, get[g], g)

\* The targets are the documents somebody listens to.
Registri == remoto.listen_targets = {c \in Codice : Ascoltatori(c) # {}}

\* The timer runs in the Unknown state of a started stream, before any failure; a
\* stream is idle when it is open and has nothing to watch.
Sano(t, r) ==
  /\ t.timer => t.stato = "Unknown" /\ t.fallimenti = 0 /\ Started(r.flusso)
  /\ t.stato = "Online" => t.fallimenti = 0
  /\ r.inattivo => r.listen_targets = {} /\ r.flusso = "Open"

TrackerSano == Sano(tracker, remoto)

Messaggio == {"added", "removed", "errore", "presente", "assente"} \X Codice

\* Confirmations to come for document c, with requests q and answers p.
Attese(q, p, c) ==
  Cardinality(Su(q, c, Domande)) + Cardinality(Su(p, c, Conferme))

\* On an open stream, and as long as nothing is refused, the count and the last
\* request are right.
CanaleGiusto(r, x) ==
  \A c \in Codice :
    /\ r.outstanding[c] = Attese(x.richieste, x.risposte, c)
    /\ Decide(x.richieste, x.guardati[c], c \in r.listen_targets, c)

\* Without a stream nothing is under way.
CanaleVuoto(r, x) ==
  /\ x.richieste = <<>> /\ x.risposte = <<>>
  /\ \A c \in Codice : x.guardati[c] = "no" /\ r.outstanding[c] = 0

SenzaErrori(x) == \A i \in DOMAIN x.risposte : x.risposte[i][1] # "errore"

CanaleSano ==
  /\ remoto.flusso # "Open" => CanaleVuoto(remoto, rete)
  /\ ~storia.rifiutato => SenzaErrori(rete)
  /\ remoto.flusso = "Open" /\ ~storia.rifiutato => CanaleGiusto(remoto, rete)

\* With several documents a delete may be made up for one of them
\* (CreateRemoteEvent); else what is raised is in V.
Molti == \E a, b \in Codice : a # b

Fondato(d, V) == d \in V \/ (d = "assente" /\ Molti)

EventiFondati(s, V) == \A i \in DOMAIN s : s[i][1] = "server" => Fondato(s[i][2], V)

\* The documents under way that will still be taken in: no confirmation is to
\* come after them (IsActiveTarget).
Vivi(x, c) ==
  {d \in Documento :
     /\ Su(x.richieste, c, Domande) = {}
     /\ \E i \in Su(x.risposte, c, {d}) : \A h \in Su(x.risposte, c, Conferme) : h < i}

\* What the server holds, a synced view and what is still to be taken in are in
\* V, for network x, views v and cache k.
VistaFondata(x, v, k, c, V) ==
  /\ x.server[c] \in V
  /\ v[c] = "sincrona" => Fondato(k[c], V)
  /\ Vivi(x, c) \subseteq V

GetFondato(g) ==
  /\ EventiFondati(get[g].eventi, storia.visti[g])
  /\ get[g].registrato => VistaFondata(rete, viste, cache, get[g].cod, storia.visti[g])

Fondati == ~storia.rifiutato => \A g \in Lettore : GetFondato(g)

IInv ==
  /\ Tipi /\ GetSani /\ NessunoDimenticato /\ Registri /\ TrackerSano
  /\ AsserzioniRispettate /\ CanaleSano /\ Fondati

Tracker == [stato : {"Unknown", "Online", "Offline"}, timer : BOOLEAN, fallimenti : 0..1]

(***************************************************************************)
(* Types                                                                   *)
(***************************************************************************)
\* The tracker's operations.
LEMMA TrackerForma ==
  ASSUME NEW t \in Tracker
  PROVE  HandleWatchStreamStart(t) \in Tracker /\ HandleWatchStreamFailure(t) \in Tracker
<1>1. HandleWatchStreamStart(t) \in Tracker
  BY DEF Tracker, HandleWatchStreamStart
<1>2. HandleWatchStreamFailure(t) \in Tracker
  BY DEF Tracker, HandleWatchStreamFailure
<1>3. QED
  BY <1>1, <1>2

LEMMA UpdateStateForma ==
  ASSUME NEW s \in {"Unknown", "Online", "Offline"}
  PROVE  UpdateState(s) \in Tracker
  BY DEF Tracker, UpdateState

\* Starting the stream leaves the targets as they are.
LEMMA AvviatoForma ==
  ASSUME NEW r \in Remoto
  PROVE  /\ Avviato(r) \in Remoto
         /\ Avviato(r).listen_targets = r.listen_targets
         /\ Avviato(r).inattivo = r.inattivo
         /\ Started(Avviato(r).flusso) /\ Avviato(r).flusso # "Open"
<1> DEFINE f == IF r.flusso = "Error" THEN "Backoff" ELSE "Starting"
           o == [c \in Codice |-> 0]
<1>1. f \in {"Backoff", "Starting"} /\ o \in [Codice -> Int]
  OBVIOUS
<1>2. Avviato(r) = [r EXCEPT !.flusso = f, !.outstanding = o, !.current = {}]
  BY DEF Avviato, Remoto
<1> HIDE DEF f, o
<1>3. QED
  BY <1>1, <1>2 DEF Remoto, Started

\* An event leaves a listener registered, for the same document, in the same phase.
LEMMA OnViewSnapshotForma ==
  ASSUME NEW x \in Get, NEW e \in Evento
  PROVE  /\ OnViewSnapshot(x, e) \in Get
         /\ OnViewSnapshot(x, e).fase = x.fase
         /\ OnViewSnapshot(x, e).cod = x.cod
         /\ OnViewSnapshot(x, e).muto = x.muto
         /\ OnViewSnapshot(x, e).registrato = x.registrato
         /\ OnViewSnapshot(x, e).eventi =
              IF Len(x.eventi) < 2 THEN Append(x.eventi, e) ELSE x.eventi
<1>1. IF Len(x.eventi) < 2 THEN Append(x.eventi, e) \in Seq(Evento) ELSE x.eventi \in Seq(Evento)
  BY DEF Get
<1>2. QED
  BY <1>1 DEF Get, OnViewSnapshot

\* An error takes the listener off.
LEMMA OnErrorForma ==
  ASSUME Tipi, NEW g \in Lettore
  PROVE  /\ OnError(g) \in Get
         /\ OnError(g).fase = get[g].fase
         /\ OnError(g).cod = get[g].cod
         /\ OnError(g).muto = get[g].muto
         /\ ~OnError(g).registrato
         /\ OnError(g).eventi =
              IF Len(get[g].eventi) < 2 THEN Append(get[g].eventi, <<"errore", "assente">>)
              ELSE get[g].eventi
<1>1. get[g] \in Get /\ <<"errore", "assente">> \in Evento
  BY DEF Tipi, Evento, Documento
<1> DEFINE x == OnViewSnapshot(get[g], <<"errore", "assente">>)
<1>2. /\ x \in Get /\ x.fase = get[g].fase /\ x.cod = get[g].cod /\ x.muto = get[g].muto
      /\ x.eventi = IF Len(get[g].eventi) < 2 THEN Append(get[g].eventi, <<"errore", "assente">>)
                    ELSE get[g].eventi
  BY <1>1, OnViewSnapshotForma
<1>3. OnError(g) = [x EXCEPT !.registrato = FALSE]
  BY DEF OnError
<1> HIDE DEF x
<1>4. QED
  BY <1>2, <1>3 DEF Get

LEMMA ReteNuovaForma ==
  ASSUME Tipi
  PROVE  ReteNuova \in Rete
<1>1. /\ <<>> \in Seq({"watch", "unwatch"} \X Codice)
      /\ <<>> \in Seq({"added", "removed", "errore", "presente", "assente"} \X Codice)
      /\ [c \in Codice |-> "no"] \in [Codice -> {"no", "nuovo", "corrente"}]
  OBVIOUS
<1>2. rete \in Rete
  BY DEF Tipi
<1>3. QED
  BY <1>1, <1>2 DEF Rete, ReteNuova

LEMMA SendRequestForma ==
  ASSUME Tipi, NEW o \in {"watch", "unwatch"}, NEW c \in Codice, SendRequest(o, c)
  PROVE  /\ remoto' \in Remoto /\ rete' \in Rete
         /\ remoto'.flusso = remoto.flusso
         /\ remoto'.listen_targets = IF o = "watch" THEN remoto.listen_targets \cup {c}
                                     ELSE remoto.listen_targets \ {c}
         /\ remoto'.inattivo = (remoto'.listen_targets = {})
<1>1. Append(rete.richieste, <<o, c>>) \in Seq({"watch", "unwatch"} \X Codice)
  BY DEF Tipi, Rete
<1>2. rete' \in Rete
  BY <1>1 DEF Tipi, Rete, SendRequest
<1> DEFINE T == IF o = "watch" THEN remoto.listen_targets \cup {c}
                ELSE remoto.listen_targets \ {c}
<1>3. remoto \in Remoto
  BY DEF Tipi
<1>4. T \in SUBSET Codice /\ (T = {}) \in BOOLEAN
  BY <1>3 DEF Remoto
<1>5. [remoto.outstanding EXCEPT ![c] = remoto.outstanding[c] + 1] \in [Codice -> Int]
  BY <1>3 DEF Remoto
<1>6. remoto' = [remoto EXCEPT !.listen_targets = T, !.inattivo = (T = {}),
                   !.outstanding = [remoto.outstanding EXCEPT ![c] = remoto.outstanding[c] + 1]]
  BY <1>3 DEF SendRequest, Remoto
<1> HIDE DEF T
<1>7. /\ remoto' \in Remoto /\ remoto'.flusso = remoto.flusso
      /\ remoto'.listen_targets = T /\ remoto'.inattivo = (T = {})
  BY <1>3, <1>4, <1>5, <1>6 DEF Remoto
<1>8. QED
  BY <1>2, <1>7 DEF T

\* What an event may do to the listeners: nothing, or raise a document for one
\* that is registered, or end it with an error.
Sollevati ==
  /\ \A g \in Lettore :
       \/ get'[g] = get[g]
       \/ /\ get[g].registrato
          /\ \/ \E e \in Evento : e[1] # "errore" /\ get'[g] = OnViewSnapshot(get[g], e)
             \/ get'[g] = OnError(g)
  /\ \E f : get' = [g \in Lettore |-> f[g]]

Registrati == \A g \in Lettore : get'[g].registrato = get[g].registrato /\ get'[g].cod = get[g].cod

LEMMA TrasmetteForma ==
  ASSUME Tipi, NEW t \in Tracker, Trasmette(t)
  PROVE  /\ tracker' = t
         /\ viste' \in [Codice -> {"nessuna", "locale", "sincrona"}]
         /\ Sollevati /\ Registrati
<1>1. tracker' = t /\ viste' \in [Codice -> {"nessuna", "locale", "sincrona"}]
  BY DEF Tipi, Trasmette
<1>2. \A g \in Lettore : get[g] \in Get /\ <<"cache", cache[get[g].cod]>> \in Evento
  BY DEF Tipi, Get, Evento
<1>3. CASE UNCHANGED get
  <2>1. get' = [g \in Lettore |-> get[g]]
    BY <1>3 DEF Tipi
  <2>2. QED
    BY <1>1, <1>3, <2>1 DEF Sollevati, Registrati
<1>4. CASE get' = [g \in Lettore |->
               IF get[g].registrato /\ (~get[g].sollevato \/ viste[get[g].cod] = "sincrona")
               THEN OnViewSnapshot(get[g], <<"cache", cache[get[g].cod]>>) ELSE get[g]]
  <2>1. \E f : get' = [g \in Lettore |-> f[g]]
    BY <1>4
  <2>2. \A g \in Lettore :
          \/ get'[g] = get[g]
          \/ /\ get[g].registrato
             /\ get'[g] = OnViewSnapshot(get[g], <<"cache", cache[get[g].cod]>>)
    BY <1>4
  <2>3. \A g \in Lettore : <<"cache", cache[get[g].cod]>>[1] # "errore"
    OBVIOUS
  <2>4. Sollevati
    BY <1>2, <2>1, <2>2, <2>3 DEF Sollevati
  <2>5. Registrati
    <3>1. SUFFICES ASSUME NEW g \in Lettore
                   PROVE  get'[g].registrato = get[g].registrato /\ get'[g].cod = get[g].cod
      BY DEF Registrati
    <3>2. get[g] \in Get /\ <<"cache", cache[get[g].cod]>> \in Evento
      BY <1>2
    <3>3. LET x == OnViewSnapshot(get[g], <<"cache", cache[get[g].cod]>>)
          IN x.registrato = get[g].registrato /\ x.cod = get[g].cod
      BY <3>2, OnViewSnapshotForma
    <3>4. QED
      BY <2>2, <3>3
  <2>6. QED
    BY <1>1, <2>4, <2>5
<1>5. QED
  BY <1>3, <1>4 DEF Trasmette

LEMMA SollevatiTipi ==
  ASSUME Tipi, Sollevati
  PROVE  get' \in [Lettore -> Get]
<1>1. \A g \in Lettore : get'[g] \in Get
  <2>1. SUFFICES ASSUME NEW g \in Lettore PROVE get'[g] \in Get
    OBVIOUS
  <2>2. get[g] \in Get
    BY DEF Tipi
  <2>3. QED
    BY <2>2, OnViewSnapshotForma, OnErrorForma DEF Sollevati
<1>2. PICK f : get' = [g \in Lettore |-> f[g]]
  BY DEF Sollevati
<1>3. QED
  BY <1>1, <1>2

LEMMA ListenForma ==
  ASSUME Tipi, NEW c \in Codice, Listen(c)
  PROVE  /\ remoto' \in Remoto /\ rete' \in Rete /\ tracker' \in Tracker
         /\ remoto'.listen_targets = remoto.listen_targets \cup {c}
<1> DEFINE r == [remoto EXCEPT !.listen_targets = @ \cup {c}]
<1>1. remoto \in Remoto /\ tracker \in Tracker /\ rete \in Rete
  BY DEF Tipi, Tracker
<1>2. r \in Remoto /\ r.listen_targets = remoto.listen_targets \cup {c}
  BY <1>1 DEF Remoto
<1>3. CASE /\ remoto' = Avviato(r)
           /\ tracker' = HandleWatchStreamStart(tracker)
           /\ UNCHANGED rete
  BY <1>1, <1>2, <1>3, AvviatoForma, TrackerForma
<1>4. CASE SendRequest("watch", c) /\ UNCHANGED tracker
  BY <1>1, <1>4, SendRequestForma
<1>5. CASE remoto' = r /\ UNCHANGED <<rete, tracker>>
  BY <1>1, <1>2, <1>5
<1>6. QED
  BY <1>3, <1>4, <1>5 DEF Listen

LEMMA StopListeningForma ==
  ASSUME Tipi, NEW c \in Codice, StopListening(c)
  PROVE  /\ remoto' \in Remoto /\ rete' \in Rete /\ tracker' \in Tracker
         /\ remoto'.listen_targets = remoto.listen_targets \ {c}
<1>1. remoto \in Remoto /\ tracker \in Tracker /\ rete \in Rete
  BY DEF Tipi, Tracker
<1>2. CASE SendRequest("unwatch", c) /\ UNCHANGED tracker
  BY <1>1, <1>2, SendRequestForma
<1>3. CASE /\ remoto' = [remoto EXCEPT !.listen_targets = @ \ {c}]
           /\ tracker' \in {UpdateState("Unknown"), tracker}
           /\ UNCHANGED rete
  <2>1. tracker' \in Tracker
    BY <1>1, <1>3, UpdateStateForma
  <2>2. remoto' \in Remoto /\ remoto'.listen_targets = remoto.listen_targets \ {c}
    BY <1>1, <1>3 DEF Remoto
  <2>3. QED
    BY <1>1, <1>3, <2>1, <2>2
<1>4. QED
  BY <1>2, <1>3 DEF StopListening

\* The stream stops, for whatever reason.
Fermato(stato) == [remoto EXCEPT !.flusso = stato, !.inattivo = FALSE,
                                 !.outstanding = [c \in Codice |-> 0], !.current = {}]

LEMMA FermatoForma ==
  ASSUME Tipi, NEW stato \in {"Initial", "Error"}
  PROVE  /\ Fermato(stato) \in Remoto /\ Fermato(stato).flusso = stato
         /\ Fermato(stato).inattivo = FALSE
         /\ Fermato(stato).listen_targets = remoto.listen_targets
<1> DEFINE o == [c \in Codice |-> 0]
<1>1. remoto \in Remoto /\ o \in [Codice -> Int]
  BY DEF Tipi
<1>2. Fermato(stato) = [remoto EXCEPT !.flusso = stato, !.inattivo = FALSE,
                                      !.outstanding = o, !.current = {}]
  BY DEF Fermato
<1> HIDE DEF o
<1>3. QED
  BY <1>1, <1>2 DEF Remoto

\* A failure of the stream: it starts again, or has nothing to listen to.
LEMMA ChiusuraForma ==
  ASSUME Tipi, OnWatchStreamClose
  PROVE  /\ \/ /\ remoto' = Avviato(Fermato("Error"))
               /\ Trasmette(HandleWatchStreamStart(HandleWatchStreamFailure(tracker)))
               /\ storia' = Asserisce(storia,
                    FailureAmmesso(tracker) /\ StartAmmesso(HandleWatchStreamFailure(tracker)))
            \/ /\ remoto' = Fermato("Error") /\ Trasmette(UpdateState("Unknown"))
               /\ UNCHANGED storia
         /\ remoto' \in Remoto
         /\ remoto'.listen_targets = remoto.listen_targets
         /\ \E t \in Tracker : Trasmette(t)
<1>1. \/ /\ remoto' = Avviato(Fermato("Error"))
         /\ Trasmette(HandleWatchStreamStart(HandleWatchStreamFailure(tracker)))
         /\ storia' = Asserisce(storia,
              FailureAmmesso(tracker) /\ StartAmmesso(HandleWatchStreamFailure(tracker)))
      \/ /\ remoto' = Fermato("Error") /\ Trasmette(UpdateState("Unknown"))
         /\ UNCHANGED storia
  BY DEF OnWatchStreamClose, Fermato
<1>2. tracker \in Tracker
  BY DEF Tipi, Tracker
<1>3. \E t \in Tracker : Trasmette(t)
  BY <1>1, <1>2, TrackerForma, UpdateStateForma
<1>4. /\ Fermato("Error") \in Remoto
      /\ Fermato("Error").listen_targets = remoto.listen_targets
  BY FermatoForma
<1>5. remoto' \in Remoto /\ remoto'.listen_targets = remoto.listen_targets
  BY <1>1, <1>4, AvviatoForma
<1>6. QED
  BY <1>1, <1>3, <1>5

LEMMA RipartenzaForma ==
  ASSUME Tipi, RestartNetwork
  PROVE  /\ \/ /\ remoto' = Avviato(Fermato("Initial"))
               /\ tracker' = HandleWatchStreamStart(UpdateState("Unknown"))
            \/ /\ remoto' = Fermato("Initial") /\ tracker' = UpdateState("Unknown")
         /\ remoto' \in Remoto /\ tracker' \in Tracker
         /\ remoto'.listen_targets = remoto.listen_targets
<1>1. \/ /\ remoto' = Avviato(Fermato("Initial"))
         /\ tracker' = HandleWatchStreamStart(UpdateState("Unknown"))
      \/ /\ remoto' = Fermato("Initial") /\ tracker' = UpdateState("Unknown")
  BY DEF RestartNetwork, Fermato
<1>2. UpdateState("Unknown") \in Tracker
  BY UpdateStateForma
<1>3. tracker' \in Tracker
  BY <1>1, <1>2, TrackerForma
<1>4. /\ Fermato("Initial") \in Remoto
      /\ Fermato("Initial").listen_targets = remoto.listen_targets
  BY FermatoForma
<1>5. remoto' \in Remoto /\ remoto'.listen_targets = remoto.listen_targets
  BY <1>1, <1>4, AvviatoForma
<1>6. QED
  BY <1>1, <1>3, <1>5

LEMMA AsserisceForma ==
  ASSUME Tipi, NEW b \in BOOLEAN
  PROVE  /\ Asserisce(storia, b) \in Storia
         /\ Asserisce(storia, b).asserzioni = (storia.asserzioni /\ b)
         /\ Asserisce(storia, b).risposte = storia.risposte
  BY DEF Tipi, Storia, Asserisce

\* What arrives is taken off, and shows that the client is online.
LEMMA ArrivaForma ==
  ASSUME Tipi, NEW A \in SUBSET {"added", "removed", "errore", "presente", "assente"}, Arriva(A)
  PROVE  /\ rete' \in Rete /\ tracker' \in Tracker /\ tracker' = UpdateState("Online")
         /\ Head(rete.risposte)[1] \in A /\ Head(rete.risposte)[2] \in Codice
<1>1. rete \in Rete
  BY DEF Tipi
<1>2. Head(rete.risposte) \in {"added", "removed", "errore", "presente", "assente"} \X Codice
  BY <1>1 DEF Arriva, Rete
<1>3. Tail(rete.risposte) \in Seq({"added", "removed", "errore", "presente", "assente"} \X Codice)
  BY <1>1 DEF Arriva, Rete
<1>4. rete' \in Rete
  BY <1>1, <1>3 DEF Arriva, Rete
<1>5. QED
  BY <1>2, <1>4, UpdateStateForma DEF Arriva

LEMMA IstantaneaSolleva ==
  ASSUME Tipi, RaiseWatchSnapshot
  PROVE  Sollevati /\ Registrati /\ cache' \in [Codice -> Documento]
<1> DEFINE d == Head(rete.risposte)[1]
           c == Head(rete.risposte)[2]
           T == InRemoteEvent(c)
           nuova == [x \in Codice |-> IF x = c /\ x \in T THEN d ELSE cache[x]]
<1>1. d \in Documento /\ c \in Codice
  BY ArrivaForma DEF RaiseWatchSnapshot, Documento
<1>2. nuova \in [Codice -> Documento]
  BY <1>1 DEF Tipi
<1>3. cache' = nuova
  BY DEF RaiseWatchSnapshot
<1>4. get' = [g \in Lettore |->
             LET x == get[g].cod
             IN IF /\ get[g].registrato /\ x \in T
                   /\ viste[x] # "sincrona" \/ nuova[x] # cache[x]
                THEN OnViewSnapshot(get[g], <<"server", nuova[x]>>) ELSE get[g]]
  BY DEF RaiseWatchSnapshot
<1> HIDE DEF nuova, T, c, d
<1>5. \E f : get' = [g \in Lettore |-> f[g]]
  BY <1>4
<1>6. ASSUME NEW g \in Lettore
      PROVE  /\ \/ get'[g] = get[g]
                \/ /\ get[g].registrato
                   /\ \E e \in Evento : e[1] # "errore" /\ get'[g] = OnViewSnapshot(get[g], e)
             /\ get'[g].registrato = get[g].registrato /\ get'[g].cod = get[g].cod
  <2>1. get[g] \in Get /\ <<"server", nuova[get[g].cod]>> \in Evento
    BY <1>2 DEF Tipi, Get, Evento
  <2>2. \/ get'[g] = get[g]
        \/ get[g].registrato /\ get'[g] = OnViewSnapshot(get[g], <<"server", nuova[get[g].cod]>>)
    BY <1>4
  <2>3. LET x == OnViewSnapshot(get[g], <<"server", nuova[get[g].cod]>>)
        IN x.registrato = get[g].registrato /\ x.cod = get[g].cod
    BY <2>1, OnViewSnapshotForma
  <2>4. <<"server", nuova[get[g].cod]>>[1] # "errore"
    OBVIOUS
  <2>5. QED
    BY <2>1, <2>2, <2>3, <2>4
<1>7. Sollevati
  BY <1>5, <1>6 DEF Sollevati
<1>8. QED
  BY <1>2, <1>3, <1>6, <1>7 DEF Registrati

LEMMA RifiutoSolleva ==
  ASSUME Tipi, ProcessTargetError
  PROVE  Sollevati
<1>1. CASE UNCHANGED get
  <2>1. get' = [g \in Lettore |-> get[g]]
    BY <1>1 DEF Tipi
  <2>2. QED
    BY <1>1, <2>1 DEF Sollevati
<1>2. CASE get' = [g \in Lettore |-> IF g \in Ascoltatori(Head(rete.risposte)[2])
                                     THEN OnError(g) ELSE get[g]]
  BY <1>2 DEF Sollevati, Ascoltatori
<1>3. QED
  BY <1>1, <1>2 DEF ProcessTargetError

LEMMA FermoForma ==
  ASSUME NEW c \in Codice
  PROVE  Fermo(c) \in Get /\ [Fermo(c) EXCEPT !.fase = "attesa"] \in Get
<1>1. <<>> \in Seq(Evento)
  OBVIOUS
<1>2. QED
  BY <1>1 DEF Fermo, Get

LEMMA TipiIniziali == Init => Tipi
<1> SUFFICES ASSUME Init PROVE Tipi
  OBVIOUS
<1>1. get \in [Lettore -> Get]
  BY FermoForma DEF Init
<1>2. lavori \in Seq({"ascolta", "togli"} \X Lettore)
  BY DEF Init
<1>3. viste \in [Codice -> {"nessuna", "locale", "sincrona"}] /\ cache \in [Codice -> Documento]
  BY DEF Init
<1>4. remoto \in Remoto
  <2>1. [c \in Codice |-> 0] \in [Codice -> Int]
    OBVIOUS
  <2>2. QED
    BY <2>1 DEF Init, Remoto
<1>5. tracker \in Tracker
  BY DEF Init, Tracker
<1>6. rete \in Rete
  <2>1. /\ <<>> \in Seq({"watch", "unwatch"} \X Codice)
        /\ <<>> \in Seq({"added", "removed", "errore", "presente", "assente"} \X Codice)
        /\ [c \in Codice |-> "no"] \in [Codice -> {"no", "nuovo", "corrente"}]
    OBVIOUS
  <2>2. QED
    BY <2>1 DEF Init, Rete
<1>7. storia \in Storia
  <2>1. /\ [g \in Lettore |-> {}] \in [Lettore -> SUBSET Documento]
        /\ [g \in Lettore |-> 0] \in [Lettore -> 0..2]
        /\ 0 \in 0..MaxRiavvii
    BY LettureAssumption
  <2>2. QED
    BY <2>1 DEF Init, Storia
<1>8. QED
  BY <1>1, <1>2, <1>3, <1>4, <1>5, <1>6, <1>7 DEF Tipi, Tracker

LEMMA GetDocumentTipi ==
  ASSUME Tipi, NEW g \in Lettore, NEW c \in Codice, GetDocument(g, c)
  PROVE  Tipi'
<1>1. get' \in [Lettore -> Get]
  BY FermoForma DEF Tipi, GetDocument
<1>2. lavori' \in Seq({"ascolta", "togli"} \X Lettore)
  BY DEF Tipi, GetDocument
<1>3. storia' \in Storia
  <2> DEFINE r == [storia.risposte EXCEPT ![g] = 0]
             v == [storia.visti EXCEPT ![g] = {}]
  <2>1. storia \in Storia
    BY DEF Tipi
  <2>2. r \in [Lettore -> 0..2] /\ v \in [Lettore -> SUBSET Documento]
    BY <2>1 DEF Storia
  <2>3. storia' = [storia EXCEPT !.risposte = r, !.visti = v]
    BY <2>1 DEF GetDocument, Storia
  <2> HIDE DEF r, v
  <2>4. QED
    BY <2>1, <2>2, <2>3 DEF Storia
<1>4. QED
  BY <1>1, <1>2, <1>3 DEF Tipi, GetDocument

LEMMA RispostoForma ==
  ASSUME Tipi, NEW g \in Lettore
  PROVE  /\ Risposto(storia, g) \in Storia
         /\ \A h \in Lettore : h # g => Risposto(storia, g).risposte[h] = storia.risposte[h]
         /\ storia.risposte[g] = 0 => Risposto(storia, g).risposte[g] = 1
         /\ Risposto(storia, g).asserzioni = storia.asserzioni
<1> DEFINE n == IF storia.risposte[g] < 2 THEN storia.risposte[g] + 1 ELSE storia.risposte[g]
           r == [storia.risposte EXCEPT ![g] = n]
<1>1. storia \in Storia /\ storia.risposte \in [Lettore -> 0..2]
  BY DEF Tipi, Storia
<1>2. r \in [Lettore -> 0..2]
  BY <1>1
<1>3. Risposto(storia, g) = [storia EXCEPT !.risposte = r]
  BY <1>1 DEF Risposto, Storia
<1>4. /\ \A h \in Lettore : h # g => r[h] = storia.risposte[h]
      /\ storia.risposte[g] = 0 => r[g] = 1
  BY <1>1
<1> HIDE DEF n, r
<1>5. QED
  BY <1>1, <1>2, <1>3, <1>4 DEF Storia

\* What the app's thread does with an event.
LEMMA OnEventForma ==
  ASSUME Tipi, NEW g \in Lettore, OnEvent(g)
  PROVE  /\ \A h \in Lettore \ {g} : get'[h] = get[h]
         /\ get'[g] \in Get /\ get' \in [Lettore -> Get]
         /\ get'[g].eventi = Tail(get[g].eventi)
         /\ get'[g].cod = get[g].cod /\ get'[g].registrato = get[g].registrato
         /\ IF get[g].muto
            THEN /\ get'[g].fase = get[g].fase /\ get'[g].muto
                 /\ UNCHANGED <<lavori, storia>>
            ELSE /\ get'[g].fase = "servito"
                 /\ get'[g].muto = (Head(get[g].eventi)[1] # "errore")
                 /\ lavori' \in {lavori, Append(lavori, <<"togli", g>>)}
                 /\ storia' = Risposto(storia, g)
<1>1. get[g] \in Get /\ get[g].eventi \in Seq(Evento) /\ get[g].eventi # <<>>
  BY DEF Tipi, Get, OnEvent
<1>2. Tail(get[g].eventi) \in Seq(Evento)
  BY <1>1
<1>3. CASE get[g].muto
  <2>1. get' = [get EXCEPT ![g].eventi = Tail(@)] /\ UNCHANGED <<lavori, storia>>
    BY <1>3 DEF OnEvent
  <2>2. get'[g] = [get[g] EXCEPT !.eventi = Tail(@)] /\ \A h \in Lettore \ {g} : get'[h] = get[h]
    BY <2>1 DEF Tipi
  <2>3. get'[g] \in Get
    BY <1>1, <1>2, <2>2 DEF Get
  <2>4. get' \in [Lettore -> Get]
    BY <2>1, <2>2, <2>3 DEF Tipi
  <2>5. QED
    BY <1>1, <1>3, <2>1, <2>2, <2>3, <2>4 DEF Get
<1>4. CASE ~get[g].muto
  <2> DEFINE errore == Head(get[g].eventi)[1] = "errore"
  <2>1. /\ get' = [get EXCEPT ![g].eventi = Tail(@), ![g].fase = "servito", ![g].muto = ~errore]
        /\ lavori' \in {lavori, Append(lavori, <<"togli", g>>)}
        /\ storia' = Risposto(storia, g)
    BY <1>4 DEF OnEvent
  <2>2. /\ get'[g] = [get[g] EXCEPT !.eventi = Tail(@), !.fase = "servito", !.muto = ~errore]
        /\ \A h \in Lettore \ {g} : get'[h] = get[h]
    BY <2>1 DEF Tipi
  <2>3. (~errore) \in BOOLEAN
    OBVIOUS
  <2> HIDE DEF errore
  <2>4. /\ get'[g] \in Get /\ get'[g].muto = ~errore /\ get'[g].fase = "servito"
        /\ get'[g].eventi = Tail(get[g].eventi)
        /\ get'[g].cod = get[g].cod /\ get'[g].registrato = get[g].registrato
    BY <1>1, <1>2, <2>2, <2>3 DEF Get
  <2>5. get' \in [Lettore -> Get]
    BY <2>1, <2>2, <2>4 DEF Tipi
  <2>6. QED
    BY <1>4, <2>1, <2>2, <2>4, <2>5 DEF errore
<1>5. QED
  BY <1>3, <1>4

LEMMA AggiuntaInFondo ==
  ASSUME NEW S, NEW q \in Seq(S), NEW e \in S
  PROVE  /\ Append(q, e) \in Seq(S) /\ Len(q) \in Nat /\ Len(Append(q, e)) = Len(q) + 1
         /\ DOMAIN q = 1..Len(q) /\ DOMAIN Append(q, e) = 1..(Len(q) + 1)
         /\ \A i \in 1..Len(q) : Append(q, e)[i] = q[i]
         /\ Append(q, e)[Len(q) + 1] = e
  OBVIOUS

LEMMA OnEventTipi ==
  ASSUME Tipi, NEW g \in Lettore, OnEvent(g)
  PROVE  Tipi'
<1>1. get' \in [Lettore -> Get]
  BY OnEventForma
<1>2. lavori' \in Seq({"ascolta", "togli"} \X Lettore)
  <2>1. lavori' = lavori \/ lavori' = Append(lavori, <<"togli", g>>)
    BY OnEventForma
  <2>2. <<"togli", g>> \in {"ascolta", "togli"} \X Lettore
    OBVIOUS
  <2>3. lavori \in Seq({"ascolta", "togli"} \X Lettore)
    BY DEF Tipi
  <2>4. QED
    BY <2>1, <2>2, <2>3, AggiuntaInFondo
<1>3. storia' \in Storia
  BY OnEventForma, RispostoForma DEF Tipi
<1>4. QED
  BY <1>1, <1>2, <1>3 DEF Tipi, OnEvent

\* A listener is added: it may be given what there is already.
LEMMA AddQueryListenerForma ==
  ASSUME Tipi, AddQueryListener
  PROVE  \E g \in Lettore :
           /\ Head(lavori) = <<"ascolta", g>> /\ lavori # <<>> /\ lavori' = Tail(lavori)
           /\ \A h \in Lettore \ {g} : get'[h] = get[h]
           /\ get' \in [Lettore -> Get]
           /\ get'[g].registrato
           /\ get'[g].fase = get[g].fase /\ get'[g].cod = get[g].cod /\ get'[g].muto = get[g].muto
           /\ \/ get'[g].eventi = get[g].eventi
              \/ /\ Len(get[g].eventi) < 2
                 /\ \E e \in Evento : e[1] # "errore" /\ get'[g].eventi = Append(get[g].eventi, e)
           /\ storia' \in Storia /\ storia'.risposte = storia.risposte
           /\ viste' \in [Codice -> {"nessuna", "locale", "sincrona"}]
           /\ cache' = cache
           /\ \/ /\ Ascoltatori(get[g].cod) = {} /\ Listen(get[g].cod)
                 /\ storia'.asserzioni =
                      (storia.asserzioni /\ (Avvierebbe(get[g].cod) => StartAmmesso(tracker)))
              \/ /\ Ascoltatori(get[g].cod) # {} /\ UNCHANGED <<remoto, tracker, rete>>
                 /\ storia'.asserzioni = storia.asserzioni
<1> DEFINE g == Head(lavori)[2]
           c == get[g].cod
           altri == Ascoltatori(c)
           iscritto == [get[g] EXCEPT !.registrato = TRUE]
<1>1. /\ lavori # <<>> /\ lavori' = Tail(lavori) /\ g \in Lettore
      /\ Head(lavori) = <<"ascolta", g>>
  <2>1. lavori # <<>> /\ lavori' = Tail(lavori) /\ Head(lavori)[1] = "ascolta"
    BY DEF AddQueryListener
  <2>2. Head(lavori) \in {"ascolta", "togli"} \X Lettore
    BY <2>1 DEF Tipi
  <2>3. QED
    BY <2>1, <2>2
<1>2. /\ get[g] \in Get /\ c \in Codice /\ cache[c] \in Documento /\ storia \in Storia
      /\ rete.server[c] \in Documento
  BY <1>1 DEF Tipi, Get, Rete
<1>3. /\ iscritto \in Get /\ iscritto.registrato /\ iscritto.fase = get[g].fase
      /\ iscritto.cod = c /\ iscritto.muto = get[g].muto /\ iscritto.eventi = get[g].eventi
  BY <1>2 DEF Get
<1>4. <<"cache", cache[c]>> \in Evento /\ <<"server", cache[c]>> \in Evento
  BY <1>2 DEF Evento
<1> HIDE DEF g, iscritto
<1>5. \E y \in {iscritto, OnViewSnapshot(iscritto, <<"cache", cache[c]>>),
                OnViewSnapshot(iscritto, <<"server", cache[c]>>)} : get' = [get EXCEPT ![g] = y]
  BY DEF AddQueryListener, g, iscritto
<1>6. PICK y \in {iscritto, OnViewSnapshot(iscritto, <<"cache", cache[c]>>),
                  OnViewSnapshot(iscritto, <<"server", cache[c]>>)} : get' = [get EXCEPT ![g] = y]
  BY <1>5
<1>7. /\ y \in Get /\ y.registrato /\ y.fase = get[g].fase /\ y.cod = c /\ y.muto = get[g].muto
      /\ \/ y.eventi = get[g].eventi
         \/ /\ Len(get[g].eventi) < 2
            /\ \E e \in Evento : e[1] # "errore" /\ y.eventi = Append(get[g].eventi, e)
  <2>1. CASE y = iscritto
    BY <1>3, <2>1
  <2>2. CASE y = OnViewSnapshot(iscritto, <<"cache", cache[c]>>)
    <3>1. <<"cache", cache[c]>>[1] # "errore"
      OBVIOUS
    <3>2. y.eventi = IF Len(get[g].eventi) < 2 THEN Append(get[g].eventi, <<"cache", cache[c]>>)
                     ELSE get[g].eventi
      BY <1>3, <1>4, <2>2, OnViewSnapshotForma
    <3>3. QED
      BY <1>3, <1>4, <2>2, <3>1, <3>2, OnViewSnapshotForma
  <2>3. CASE y = OnViewSnapshot(iscritto, <<"server", cache[c]>>)
    <3>1. <<"server", cache[c]>>[1] # "errore"
      OBVIOUS
    <3>2. y.eventi = IF Len(get[g].eventi) < 2 THEN Append(get[g].eventi, <<"server", cache[c]>>)
                     ELSE get[g].eventi
      BY <1>3, <1>4, <2>3, OnViewSnapshotForma
    <3>3. QED
      BY <1>3, <1>4, <2>3, <3>1, <3>2, OnViewSnapshotForma
  <2>4. QED
    BY <1>6, <2>1, <2>2, <2>3
<1>8. /\ get'[g] = y /\ \A h \in Lettore \ {g} : get'[h] = get[h]
      /\ get' \in [Lettore -> Get]
  BY <1>1, <1>6, <1>7 DEF Tipi
<1>9. viste' \in [Codice -> {"nessuna", "locale", "sincrona"}] /\ cache' = cache
  BY DEF AddQueryListener, Tipi
<1>10. CASE altri = {}
  <2> DEFINE b == Avvierebbe(c) => StartAmmesso(tracker)
  <2>1. /\ Listen(c)
        /\ storia' = [Asserisce(storia, b) EXCEPT !.visti[g] = {rete.server[c]}]
    BY <1>10 DEF AddQueryListener, g
  <2>2. b \in BOOLEAN
    BY DEF Avvierebbe, ShouldStartWatchStream, StartAmmesso
  <2> HIDE DEF b
  <2>3. /\ Asserisce(storia, b) \in Storia /\ Asserisce(storia, b).risposte = storia.risposte
        /\ Asserisce(storia, b).asserzioni = (storia.asserzioni /\ b)
    BY <2>2, AsserisceForma
  <2> DEFINE a == Asserisce(storia, b)
             v == [a.visti EXCEPT ![g] = {rete.server[c]}]
  <2>4. v \in [Lettore -> SUBSET Documento]
    BY <1>2, <2>3 DEF Storia
  <2>5. storia' = [a EXCEPT !.visti = v]
    BY <2>1, <2>3 DEF Storia
  <2> HIDE DEF a, v
  <2>6. storia' \in Storia /\ storia'.risposte = storia.risposte
        /\ storia'.asserzioni = (storia.asserzioni /\ b)
    BY <2>3, <2>4, <2>5 DEF Storia, a
  <2>7. QED
    BY <1>1, <1>7, <1>8, <1>9, <1>10, <2>1, <2>6 DEF b
<1>11. CASE altri # {}
  <2> DEFINE v == [storia.visti EXCEPT ![g] = UNION {storia.visti[h] : h \in altri}]
  <2>1. /\ storia' = [storia EXCEPT !.visti[g] = UNION {storia.visti[h] : h \in altri}]
        /\ UNCHANGED <<remoto, tracker, rete>>
    BY <1>11 DEF AddQueryListener, g
  <2>2. altri \subseteq Lettore
    BY DEF Ascoltatori
  <2>3. v \in [Lettore -> SUBSET Documento]
    BY <1>2, <2>2 DEF Storia
  <2>4. storia' = [storia EXCEPT !.visti = v]
    BY <1>2, <2>1 DEF Storia
  <2> HIDE DEF v
  <2>5. /\ storia' \in Storia /\ storia'.risposte = storia.risposte
        /\ storia'.asserzioni = storia.asserzioni
    BY <1>2, <2>3, <2>4 DEF Storia
  <2>6. QED
    BY <1>1, <1>7, <1>8, <1>9, <1>11, <2>1, <2>5
<1>12. QED
  BY <1>10, <1>11

LEMMA AddQueryListenerTipi ==
  ASSUME Tipi, AddQueryListener
  PROVE  Tipi'
<1>1. PICK g \in Lettore :
        /\ Head(lavori) = <<"ascolta", g>> /\ lavori # <<>> /\ lavori' = Tail(lavori)
        /\ get' \in [Lettore -> Get] /\ storia' \in Storia
        /\ viste' \in [Codice -> {"nessuna", "locale", "sincrona"}] /\ cache' = cache
        /\ Listen(get[g].cod) \/ UNCHANGED <<remoto, tracker, rete>>
  BY AddQueryListenerForma
<1>2. get[g].cod \in Codice
  BY DEF Tipi, Get
<1>3. remoto' \in Remoto /\ rete' \in Rete /\ tracker' \in Tracker
  BY <1>1, <1>2, ListenForma DEF Tipi, Tracker
<1>4. lavori' \in Seq({"ascolta", "togli"} \X Lettore)
  BY <1>1 DEF Tipi
<1>5. QED
  BY <1>1, <1>3, <1>4 DEF Tipi, Tracker

\* A listener is removed, and the target with the last one.
LEMMA RemoveQueryListenerForma ==
  ASSUME Tipi, RemoveQueryListener
  PROVE  \E g \in Lettore :
           /\ Head(lavori) = <<"togli", g>> /\ lavori # <<>> /\ lavori' = Tail(lavori)
           /\ \A h \in Lettore \ {g} : get'[h] = get[h]
           /\ get' \in [Lettore -> Get]
           /\ ~get'[g].registrato
           /\ get'[g].fase = get[g].fase /\ get'[g].cod = get[g].cod
           /\ get'[g].muto = get[g].muto /\ get'[g].eventi = get[g].eventi
           /\ storia' \in Storia /\ storia'.risposte = storia.risposte
           /\ viste' \in [Codice -> {"nessuna", "locale", "sincrona"}]
           /\ cache' = cache
           /\ \/ /\ Ascoltatori(get[g].cod) = {g} /\ StopListening(get[g].cod)
                 /\ storia'.asserzioni =
                      (storia.asserzioni /\ get[g].cod \in remoto.listen_targets)
              \/ /\ Ascoltatori(get[g].cod) # {g} /\ UNCHANGED <<remoto, tracker, rete, storia>>
<1> DEFINE g == Head(lavori)[2]
           c == get[g].cod
           y == [get[g] EXCEPT !.registrato = FALSE]
<1>1. /\ lavori # <<>> /\ lavori' = Tail(lavori) /\ g \in Lettore
      /\ Head(lavori) = <<"togli", g>>
  <2>1. lavori # <<>> /\ lavori' = Tail(lavori) /\ Head(lavori)[1] = "togli"
    BY DEF RemoveQueryListener
  <2>2. Head(lavori) \in {"ascolta", "togli"} \X Lettore
    BY <2>1 DEF Tipi
  <2>3. QED
    BY <2>1, <2>2
<1>2. get[g] \in Get /\ c \in Codice /\ storia \in Storia
  BY <1>1 DEF Tipi, Get
<1>3. /\ y \in Get /\ ~y.registrato /\ y.fase = get[g].fase
      /\ y.cod = c /\ y.muto = get[g].muto /\ y.eventi = get[g].eventi
  BY <1>2 DEF Get
<1>4. get' = [get EXCEPT ![g].registrato = FALSE]
  BY DEF RemoveQueryListener
<1> HIDE DEF g
<1>5. get'[g] = y /\ \A h \in Lettore \ {g} : get'[h] = get[h]
  BY <1>1, <1>4 DEF Tipi
<1>6. get' \in [Lettore -> Get]
  BY <1>1, <1>3, <1>4, <1>5 DEF Tipi
<1>7. viste' \in [Codice -> {"nessuna", "locale", "sincrona"}] /\ cache' = cache
  BY DEF RemoveQueryListener, Tipi
<1> HIDE DEF y
<1>8. CASE Ascoltatori(c) = {g}
  <2> DEFINE b == c \in remoto.listen_targets
  <2>1. StopListening(c) /\ storia' = Asserisce(storia, b)
    BY <1>8 DEF RemoveQueryListener, g
  <2>2. b \in BOOLEAN
    OBVIOUS
  <2> HIDE DEF b
  <2>3. /\ storia' \in Storia /\ storia'.risposte = storia.risposte
        /\ storia'.asserzioni = (storia.asserzioni /\ b)
    BY <2>1, <2>2, AsserisceForma
  <2>4. QED
    BY <1>1, <1>3, <1>5, <1>6, <1>7, <1>8, <2>1, <2>3 DEF b
<1>9. CASE Ascoltatori(c) # {g}
  <2>1. UNCHANGED <<remoto, tracker, rete, storia>>
    BY <1>9 DEF RemoveQueryListener, g
  <2>2. QED
    BY <1>1, <1>2, <1>3, <1>5, <1>6, <1>7, <1>9, <2>1
<1>10. QED
  BY <1>8, <1>9

LEMMA RemoveQueryListenerTipi ==
  ASSUME Tipi, RemoveQueryListener
  PROVE  Tipi'
<1>1. PICK g \in Lettore :
        /\ lavori # <<>> /\ lavori' = Tail(lavori)
        /\ get' \in [Lettore -> Get] /\ storia' \in Storia
        /\ viste' \in [Codice -> {"nessuna", "locale", "sincrona"}] /\ cache' = cache
        /\ StopListening(get[g].cod) \/ UNCHANGED <<remoto, tracker, rete>>
  BY RemoveQueryListenerForma
<1>2. get[g].cod \in Codice
  BY DEF Tipi, Get
<1>3. remoto' \in Remoto /\ rete' \in Rete /\ tracker' \in Tracker
  BY <1>1, <1>2, StopListeningForma DEF Tipi, Tracker
<1>4. lavori' \in Seq({"ascolta", "togli"} \X Lettore)
  BY <1>1 DEF Tipi
<1>5. QED
  BY <1>1, <1>3, <1>4 DEF Tipi, Tracker

LEMMA OnWatchStreamOpenForma ==
  ASSUME Tipi, OnWatchStreamOpen
  PROVE  /\ rete' \in Rete /\ remoto' \in Remoto /\ remoto'.flusso = "Open"
         /\ remoto'.listen_targets = remoto.listen_targets
         /\ remoto'.inattivo = remoto.inattivo
<1> DEFINE S == {<<"watch", c>> : c \in remoto.listen_targets}
           o == [c \in Codice |-> IF c \in remoto.listen_targets THEN 1 ELSE 0]
<1>1. remoto \in Remoto /\ rete \in Rete /\ remoto.listen_targets \subseteq Codice
  BY DEF Tipi, Remoto
<1>2. Cardinality(S) \in Nat
  <2>1. IsFiniteSet({"watch"}) /\ IsFiniteSet(Codice)
    BY FS_Singleton, LettureAssumption
  <2>2. IsFiniteSet({"watch"} \X Codice)
    BY <2>1, FS_Product
  <2>3. S \in SUBSET ({"watch"} \X Codice)
    BY <1>1
  <2>4. IsFiniteSet(S)
    BY <2>2, <2>3, FS_Subset
  <2>5. QED
    BY <2>4, FS_CardinalityType
<1>3. S \subseteq {"watch", "unwatch"} \X Codice
  BY <1>1
<1>4. PICK q \in SetToSeqs(S) : rete' = [rete EXCEPT !.richieste = q]
  BY DEF OnWatchStreamOpen
<1>5. q \in Seq({"watch", "unwatch"} \X Codice)
  <2> HIDE DEF S
  <2>1. q \in [1..Cardinality(S) -> S]
    BY <1>4 DEF SetToSeqs
  <2>2. q \in [1..Cardinality(S) -> {"watch", "unwatch"} \X Codice]
    BY <1>3, <2>1
  <2>3. QED
    BY <1>2, <2>2
<1>6. rete' \in Rete
  BY <1>1, <1>4, <1>5 DEF Rete
<1>7. o \in [Codice -> Int] /\ remoto' = [remoto EXCEPT !.flusso = "Open", !.outstanding = o]
  BY DEF OnWatchStreamOpen
<1> HIDE DEF o
<1>8. QED
  BY <1>1, <1>6, <1>7 DEF Remoto

LEMMA BackoffElapsedForma ==
  ASSUME Tipi, BackoffElapsed
  PROVE  /\ remoto' \in Remoto /\ remoto'.flusso = "Starting"
         /\ remoto'.listen_targets = remoto.listen_targets
         /\ remoto'.inattivo = remoto.inattivo
  BY DEF Tipi, Remoto, BackoffElapsed

LEMMA IdleTimeoutForma ==
  ASSUME Tipi, IdleTimeout
  PROVE  /\ remoto' = Fermato("Initial") /\ tracker' = UpdateState("Unknown")
         /\ remoto' \in Remoto /\ tracker' \in Tracker
         /\ storia' = Asserisce(storia, remoto.listen_targets = {}) /\ storia' \in Storia
<1>1. /\ remoto' = Fermato("Initial") /\ tracker' = UpdateState("Unknown")
      /\ storia' = Asserisce(storia, remoto.listen_targets = {})
  BY DEF IdleTimeout, Fermato
<1>2. (remoto.listen_targets = {}) \in BOOLEAN
  OBVIOUS
<1>3. Asserisce(storia, remoto.listen_targets = {}) \in Storia
  BY <1>2, AsserisceForma
<1>4. QED
  BY <1>1, <1>3, FermatoForma, UpdateStateForma

LEMMA OnlineStateTimeoutForma ==
  ASSUME Tipi, OnlineStateTimeout
  PROVE  \E t \in Tracker :
           /\ t = [tracker EXCEPT !.stato = "Offline", !.timer = FALSE] /\ Trasmette(t)
<1>1. [tracker EXCEPT !.stato = "Offline", !.timer = FALSE] \in Tracker
  BY DEF Tipi, Tracker
<1>2. QED
  BY <1>1 DEF OnlineStateTimeout

LEMMA TargetChangeForma ==
  ASSUME Tipi, TargetChange
  PROVE  /\ remoto' \in Remoto /\ remoto'.flusso = remoto.flusso
         /\ remoto'.listen_targets = remoto.listen_targets
         /\ remoto'.inattivo = remoto.inattivo
<1> DEFINE k == Head(rete.risposte)[1]
           c == Head(rete.risposte)[2]
           n == HandleTargetChange(k, remoto.outstanding[c])
           C == IF k = "removed" /\ n = 0 THEN remoto.current \ {c} ELSE remoto.current
           o == [remoto.outstanding EXCEPT ![c] = n]
<1>1. remoto \in Remoto /\ c \in Codice
  BY ArrivaForma DEF Tipi, TargetChange
<1>2. n \in Int
  BY <1>1 DEF HandleTargetChange, Remoto
<1>3. o \in [Codice -> Int] /\ C \in SUBSET Codice
  BY <1>1, <1>2 DEF Remoto
<1>4. remoto' = [remoto EXCEPT !.outstanding = o, !.current = C]
  BY <1>1 DEF TargetChange, Remoto
<1> HIDE DEF n, C, o
<1>5. QED
  BY <1>1, <1>3, <1>4 DEF Remoto

LEMMA RaiseWatchSnapshotForma ==
  ASSUME Tipi, RaiseWatchSnapshot
  PROVE  /\ remoto' \in Remoto /\ remoto'.flusso = remoto.flusso
         /\ remoto'.listen_targets = remoto.listen_targets
         /\ remoto'.inattivo = remoto.inattivo
         /\ viste' \in [Codice -> {"nessuna", "locale", "sincrona"}]
<1> DEFINE c == Head(rete.risposte)[2]
           C == remoto.current \cup (InRemoteEvent(c) \cap {c})
<1>1. remoto \in Remoto
  BY DEF Tipi
<1>2. C \in SUBSET Codice
  BY <1>1 DEF Remoto, InRemoteEvent
<1>3. remoto' = [remoto EXCEPT !.current = C]
  BY DEF RaiseWatchSnapshot
<1>4. viste' = [x \in Codice |-> IF x \in InRemoteEvent(c) THEN "sincrona" ELSE viste[x]]
  BY DEF RaiseWatchSnapshot
<1> HIDE DEF C
<1>5. QED
  BY <1>1, <1>2, <1>3, <1>4 DEF Remoto, Tipi

\* The server refuses a target: it goes with its listeners.
LEMMA ProcessTargetErrorForma ==
  ASSUME Tipi, ProcessTargetError
  PROVE  \E c \in Codice :
           /\ \/ c \notin remoto.listen_targets /\ UNCHANGED <<remoto, viste, get>>
              \/ /\ remoto'.listen_targets = remoto.listen_targets \ {c}
                 /\ get' = [g \in Lettore |-> IF g \in Ascoltatori(c) THEN OnError(g) ELSE get[g]]
           /\ remoto' \in Remoto /\ remoto'.flusso = remoto.flusso
           /\ remoto'.inattivo = remoto.inattivo
           /\ viste' \in [Codice -> {"nessuna", "locale", "sincrona"}]
<1> DEFINE c == Head(rete.risposte)[2]
<1>1. remoto \in Remoto /\ c \in Codice
  BY ArrivaForma DEF Tipi, ProcessTargetError
<1>2. CASE c \notin remoto.listen_targets
  <2>1. UNCHANGED <<remoto, viste, get>>
    BY <1>2 DEF ProcessTargetError
  <2>2. QED
    BY <1>1, <1>2, <2>1 DEF Tipi
<1>3. CASE c \in remoto.listen_targets
  <2> DEFINE o == [remoto.outstanding EXCEPT ![c] = 0]
  <2>1. /\ remoto' = [remoto EXCEPT !.listen_targets = @ \ {c}, !.outstanding[c] = 0,
                                    !.current = @ \ {c}]
        /\ viste' = [viste EXCEPT ![c] = "nessuna"]
        /\ get' = [g \in Lettore |-> IF g \in Ascoltatori(c) THEN OnError(g) ELSE get[g]]
    BY <1>3 DEF ProcessTargetError
  <2>2. o \in [Codice -> Int] /\ remoto.listen_targets \ {c} \in SUBSET Codice
        /\ remoto.current \ {c} \in SUBSET Codice
    BY <1>1 DEF Remoto
  <2>3. remoto' = [remoto EXCEPT !.listen_targets = remoto.listen_targets \ {c},
                     !.outstanding = o, !.current = remoto.current \ {c}]
    BY <1>1, <2>1 DEF Remoto
  <2> HIDE DEF o
  <2>4. /\ remoto' \in Remoto /\ remoto'.flusso = remoto.flusso
        /\ remoto'.inattivo = remoto.inattivo
        /\ remoto'.listen_targets = remoto.listen_targets \ {c}
    BY <1>1, <2>2, <2>3 DEF Remoto
  <2>5. viste' \in [Codice -> {"nessuna", "locale", "sincrona"}]
    BY <2>1 DEF Tipi
  <2>6. QED
    BY <1>1, <2>1, <2>4, <2>5
<1>4. QED
  BY <1>2, <1>3

LEMMA ServerTipi ==
  ASSUME Tipi, ServerRisponde \/ \E c \in Codice : ServerInvia(c) \/ Cambia(c)
  PROVE  rete' \in Rete /\ storia' \in Storia
<1>0. rete \in Rete /\ storia \in Storia
  BY DEF Tipi
<1> DEFINE Mandata == {"added", "removed", "errore", "presente", "assente"} \X Codice
<1>1. CASE ServerRisponde
  <2> DEFINE c == Head(rete.richieste)[2]
  <2>0. rete.richieste \in Seq({"watch", "unwatch"} \X Codice) /\ rete.richieste # <<>>
    BY <1>0, <1>1 DEF ServerRisponde, Rete
  <2>1. c \in Codice /\ Tail(rete.richieste) \in Seq({"watch", "unwatch"} \X Codice)
    <3>1. Head(rete.richieste) \in {"watch", "unwatch"} \X Codice
      BY <2>0
    <3>2. QED
      BY <2>0, <3>1
  <2>2. PICK esito \in {"added", "removed", "errore"} :
          /\ rete' = [rete EXCEPT !.richieste = Tail(@), !.risposte = Append(@, <<esito, c>>),
                                  !.guardati[c] = IF esito = "added" THEN "nuovo" ELSE "no"]
          /\ storia' = [storia EXCEPT !.rifiutato = @ \/ esito = "errore"]
    <3>1. PICK esito \in IF Head(rete.richieste)[1] = "unwatch" THEN {"removed"}
                     ELSE {"added"} \cup (IF "rifiuto" \in Guasti THEN {"errore"} ELSE {}) :
            /\ rete' = [rete EXCEPT !.richieste = Tail(@), !.risposte = Append(@, <<esito, c>>),
                                    !.guardati[c] = IF esito = "added" THEN "nuovo" ELSE "no"]
            /\ storia' = [storia EXCEPT !.rifiutato = @ \/ esito = "errore"]
      BY <1>1 DEF ServerRisponde
    <3>2. esito \in {"added", "removed", "errore"}
      BY <3>1
    <3>3. QED
      BY <3>1, <3>2
  <2>3. Append(rete.risposte, <<esito, c>>) \in Seq(Mandata)
    BY <1>0, <2>1 DEF Rete
  <2> DEFINE w == [rete.guardati EXCEPT ![c] = IF esito = "added" THEN "nuovo" ELSE "no"]
  <2>4. w \in [Codice -> {"no", "nuovo", "corrente"}]
    BY <1>0 DEF Rete
  <2>5. rete' = [rete EXCEPT !.richieste = Tail(rete.richieste),
                   !.risposte = Append(rete.risposte, <<esito, c>>), !.guardati = w]
    BY <1>0, <2>2 DEF Rete
  <2> HIDE DEF w
  <2>6. rete' \in Rete
    BY <1>0, <2>1, <2>3, <2>4, <2>5 DEF Rete
  <2>7. (storia.rifiutato \/ esito = "errore") \in BOOLEAN
    OBVIOUS
  <2>8. storia' \in Storia
    BY <1>0, <2>2, <2>7 DEF Storia
  <2>9. QED
    BY <2>6, <2>8
<1>2. ASSUME NEW c \in Codice, ServerInvia(c)
      PROVE  rete' \in Rete /\ storia' \in Storia
  <2> DEFINE w == [rete.guardati EXCEPT ![c] = "corrente"]
  <2>1. Append(rete.risposte, <<rete.server[c], c>>) \in Seq(Mandata)
    BY <1>0 DEF Rete, Documento
  <2>2. w \in [Codice -> {"no", "nuovo", "corrente"}]
    BY <1>0 DEF Rete
  <2>3. rete' = [rete EXCEPT !.risposte = Append(rete.risposte, <<rete.server[c], c>>),
                             !.guardati = w]
    BY <1>0, <1>2 DEF Rete, ServerInvia
  <2> HIDE DEF w
  <2>4. rete' \in Rete
    BY <1>0, <2>1, <2>2, <2>3 DEF Rete
  <2>5. QED
    BY <1>0, <1>2, <2>4 DEF ServerInvia
<1>3. ASSUME NEW c \in Codice, Cambia(c)
      PROVE  rete' \in Rete /\ storia' \in Storia
  <2> DEFINE d == CHOOSE x \in Documento : x # rete.server[c]
             q == IF rete.guardati[c] = "corrente" THEN Append(rete.risposte, <<d, c>>)
                  ELSE rete.risposte
             z == [rete.server EXCEPT ![c] = d]
             v == [g \in Lettore |-> IF g \in Ascoltatori(c) THEN storia.visti[g] \cup {d}
                                     ELSE storia.visti[g]]
  <2>1. d \in Documento
    <3>1. \E x \in Documento : x # rete.server[c]
      BY DEF Documento
    <3>2. QED
      BY <3>1
  <2>2. /\ rete' = [rete EXCEPT !.server[c] = d,
                      !.risposte = IF rete.guardati[c] = "corrente" THEN Append(@, <<d, c>>) ELSE @]
        /\ storia' = [storia EXCEPT !.visti = [g \in Lettore |->
                        IF g \in Ascoltatori(c) THEN @[g] \cup {d} ELSE @[g]]]
    BY <1>3 DEF Cambia
  <2> HIDE DEF d
  <2>3. q \in Seq(Mandata)
    BY <1>0, <2>1 DEF Rete, Documento
  <2>4. z \in [Codice -> Documento] /\ v \in [Lettore -> SUBSET Documento]
    BY <1>0, <2>1 DEF Rete, Storia
  <2>5. rete' = [rete EXCEPT !.server = z, !.risposte = q]
    BY <1>0, <2>2 DEF Rete
  <2>6. storia' = [storia EXCEPT !.visti = v]
    BY <1>0, <2>2 DEF Storia
  <2> HIDE DEF q, z, v
  <2>7. rete' \in Rete
    BY <1>0, <2>3, <2>4, <2>5 DEF Rete
  <2>8. storia' \in Storia
    BY <1>0, <2>4, <2>6 DEF Storia
  <2>9. QED
    BY <2>7, <2>8
<1>4. QED
  BY <1>1, <1>2, <1>3

LEMMA TipiPasso ==
  ASSUME Tipi, [Next]_vars
  PROVE  Tipi'
<1>0. Tipi /\ tracker \in Tracker
  BY DEF Tipi, Tracker
<1>1. CASE \E g \in Lettore, c \in Codice : GetDocument(g, c)
  BY <1>1, GetDocumentTipi
<1>2. CASE \E g \in Lettore : OnEvent(g)
  BY <1>2, OnEventTipi
<1>3. CASE AddQueryListener
  BY <1>3, AddQueryListenerTipi
<1>4. CASE RemoveQueryListener
  BY <1>4, RemoveQueryListenerTipi
<1>5. CASE OnWatchStreamOpen
  BY <1>0, <1>5, OnWatchStreamOpenForma DEF OnWatchStreamOpen, Tipi
<1>6. CASE OnStreamFinish
  <2>1. OnWatchStreamClose /\ rete' = ReteNuova /\ UNCHANGED <<lavori, cache>>
    BY <1>6 DEF OnStreamFinish
  <2>2. remoto' \in Remoto /\ \E t \in Tracker : Trasmette(t)
    BY <2>1, ChiusuraForma
  <2>3. /\ tracker' \in Tracker /\ viste' \in [Codice -> {"nessuna", "locale", "sincrona"}]
        /\ Sollevati
    BY <2>2, TrasmetteForma
  <2>4. storia' \in Storia
    <3>1. /\ (FailureAmmesso(tracker) /\ StartAmmesso(HandleWatchStreamFailure(tracker))) \in BOOLEAN
      BY DEF FailureAmmesso, StartAmmesso
    <3>2. storia \in Storia
      BY DEF Tipi
    <3>3. \/ storia' = Asserisce(storia, FailureAmmesso(tracker)
                                           /\ StartAmmesso(HandleWatchStreamFailure(tracker)))
          \/ UNCHANGED storia
      BY <2>1, ChiusuraForma
    <3>4. QED
      BY <3>1, <3>2, <3>3, AsserisceForma
  <2>5. get' \in [Lettore -> Get] /\ rete' \in Rete
    BY <2>1, <2>3, SollevatiTipi, ReteNuovaForma
  <2>6. QED
    BY <1>0, <2>1, <2>2, <2>3, <2>4, <2>5 DEF Tipi, Tracker
<1>7. CASE BackoffElapsed
  BY <1>0, <1>7, BackoffElapsedForma DEF BackoffElapsed, Tipi
<1>8. CASE IdleTimeout
  <2>1. /\ remoto' \in Remoto /\ tracker' \in Tracker /\ storia' \in Storia
    BY <1>8, IdleTimeoutForma
  <2>2. rete' \in Rete /\ UNCHANGED <<get, lavori, viste, cache>>
    BY <1>8, ReteNuovaForma DEF IdleTimeout
  <2>3. QED
    BY <1>0, <2>1, <2>2 DEF Tipi, Tracker
<1>9. CASE RestartNetwork
  <2>1. remoto' \in Remoto /\ tracker' \in Tracker
    BY <1>9, RipartenzaForma
  <2>2. rete' \in Rete /\ UNCHANGED <<get, lavori, viste, cache>>
    BY <1>9, ReteNuovaForma DEF RestartNetwork
  <2>3. storia' \in Storia
    BY <1>0, <1>9, LettureAssumption DEF RestartNetwork, Tipi, Storia
  <2>4. QED
    BY <1>0, <2>1, <2>2, <2>3 DEF Tipi, Tracker
<1>10. CASE OnlineStateTimeout
  <2>1. \E t \in Tracker : Trasmette(t)
    BY <1>10, OnlineStateTimeoutForma
  <2>2. /\ tracker' \in Tracker /\ viste' \in [Codice -> {"nessuna", "locale", "sincrona"}]
        /\ Sollevati
    BY <2>1, TrasmetteForma
  <2>3. get' \in [Lettore -> Get]
    BY <2>2, SollevatiTipi
  <2>4. storia' \in Storia /\ UNCHANGED <<lavori, cache, remoto, rete>>
    <3>1. (tracker.stato = "Unknown") \in BOOLEAN
      OBVIOUS
    <3>2. QED
      BY <1>10, <3>1, AsserisceForma DEF OnlineStateTimeout
  <2>5. QED
    BY <1>0, <2>2, <2>3, <2>4 DEF Tipi, Tracker
<1>11. CASE TargetChange
  <2>1. rete' \in Rete /\ tracker' \in Tracker
    BY <1>11, ArrivaForma DEF TargetChange
  <2>2. remoto' \in Remoto /\ UNCHANGED <<get, lavori, viste, cache, storia>>
    BY <1>11, TargetChangeForma DEF TargetChange
  <2>3. QED
    BY <1>0, <2>1, <2>2 DEF Tipi, Tracker
<1>12. CASE RaiseWatchSnapshot
  <2>1. rete' \in Rete /\ tracker' \in Tracker
    BY <1>12, ArrivaForma DEF RaiseWatchSnapshot, Documento
  <2>2. /\ remoto' \in Remoto /\ viste' \in [Codice -> {"nessuna", "locale", "sincrona"}]
        /\ cache' \in [Codice -> Documento] /\ get' \in [Lettore -> Get]
        /\ UNCHANGED <<lavori, storia>>
    BY <1>12, RaiseWatchSnapshotForma, IstantaneaSolleva, SollevatiTipi DEF RaiseWatchSnapshot
  <2>3. QED
    BY <1>0, <2>1, <2>2 DEF Tipi, Tracker
<1>13. CASE ProcessTargetError
  <2>1. rete' \in Rete /\ tracker' \in Tracker
    BY <1>13, ArrivaForma DEF ProcessTargetError
  <2>2. /\ remoto' \in Remoto /\ viste' \in [Codice -> {"nessuna", "locale", "sincrona"}]
        /\ get' \in [Lettore -> Get] /\ UNCHANGED <<lavori, cache, storia>>
    BY <1>13, ProcessTargetErrorForma, RifiutoSolleva, SollevatiTipi DEF ProcessTargetError
  <2>3. QED
    BY <1>0, <2>1, <2>2 DEF Tipi, Tracker
<1>14. CASE ServerRisponde \/ \E c \in Codice : ServerInvia(c) \/ Cambia(c)
  <2>1. rete' \in Rete /\ storia' \in Storia
    BY <1>14, ServerTipi
  <2>2. UNCHANGED <<get, lavori, viste, cache, remoto, tracker>>
    BY <1>14 DEF ServerRisponde, ServerInvia, Cambia
  <2>3. QED
    BY <1>0, <2>1, <2>2 DEF Tipi
<1>15. CASE UNCHANGED vars
  BY <1>0, <1>15 DEF vars, Tipi
<1>16. QED
  BY <1>1, <1>2, <1>3, <1>4, <1>5, <1>6, <1>7, <1>8, <1>9, <1>10, <1>11, <1>12, <1>13, <1>14,
     <1>15 DEF Next

(***************************************************************************)
(* The gets                                                                *)
(***************************************************************************)
\* Nothing but events happened to a get, if that.
LEMMA SollevatoSano ==
  ASSUME Tipi, GetSani, Sollevati, NEW g \in Lettore
  PROVE  /\ GetSano(get'[g], storia.risposte[g]) /\ InLavori(lavori, get'[g], g)
         /\ get'[g].fase = get[g].fase
         /\ get[g].eventi # <<>> => get'[g].eventi # <<>>
         /\ get[g].registrato => get'[g].registrato \/ get'[g].eventi # <<>>
<1>1. get[g] \in Get /\ get[g].eventi \in Seq(Evento)
  BY DEF Tipi, Get
<1>2. GetSano(get[g], storia.risposte[g]) /\ InLavori(lavori, get[g], g)
  BY DEF GetSani
<1>3. CASE get'[g] = get[g]
  BY <1>2, <1>3
<1>4. CASE get[g].registrato /\ get'[g] # get[g]
  <2>0. PICK e \in Evento :
          \/ e[1] # "errore" /\ get'[g] = OnViewSnapshot(get[g], e)
          \/ e = <<"errore", "assente">> /\ get'[g] = OnError(g)
    BY <1>4 DEF Sollevati, Evento, Documento
  <2>1. /\ get'[g].fase = get[g].fase /\ get'[g].muto = get[g].muto
        /\ get'[g].eventi = IF Len(get[g].eventi) < 2 THEN Append(get[g].eventi, e)
                            ELSE get[g].eventi
        /\ e[1] # "errore" => get'[g].registrato
        /\ e[1] = "errore" => ~get'[g].registrato
    <3>1. CASE e[1] # "errore" /\ get'[g] = OnViewSnapshot(get[g], e)
      <4>1. /\ OnViewSnapshot(get[g], e).fase = get[g].fase
            /\ OnViewSnapshot(get[g], e).muto = get[g].muto
            /\ OnViewSnapshot(get[g], e).registrato = get[g].registrato
            /\ OnViewSnapshot(get[g], e).eventi =
                 IF Len(get[g].eventi) < 2 THEN Append(get[g].eventi, e) ELSE get[g].eventi
        BY <1>1, OnViewSnapshotForma
      <4>2. QED
        BY <1>4, <3>1, <4>1
    <3>2. CASE e = <<"errore", "assente">> /\ get'[g] = OnError(g)
      <4>1. e[1] = "errore"
        BY <3>2
      <4>2. QED
        BY <3>2, <4>1, OnErrorForma
    <3>3. QED
      BY <2>0, <3>1, <3>2
  <2>2. get'[g].eventi # <<>>
    <3>1. CASE Len(get[g].eventi) < 2
      <4>1. get'[g].eventi = Append(get[g].eventi, e)
        BY <2>1, <3>1
      <4>2. Len(get'[g].eventi) = Len(get[g].eventi) + 1 /\ Len(get[g].eventi) \in Nat
        BY <1>1, <4>1
      <4>3. QED
        BY <4>2
    <3>2. CASE ~(Len(get[g].eventi) < 2)
      BY <1>1, <2>1, <3>2
    <3>3. QED
      BY <3>1, <3>2
  <2>3. \A i \in DOMAIN get[g].eventi : get[g].eventi[i][1] # "errore"
    BY <1>2, <1>4 DEF GetSano
  <2>4. \A i \in DOMAIN get'[g].eventi :
          get'[g].eventi[i][1] = "errore" => i = Len(get'[g].eventi) /\ ~get'[g].registrato
    <3>1. CASE Len(get[g].eventi) >= 2
      BY <1>1, <2>1, <2>3, <3>1
    <3>2. CASE Len(get[g].eventi) < 2
      <4>1. /\ Len(get'[g].eventi) = Len(get[g].eventi) + 1
            /\ DOMAIN get[g].eventi = 1..Len(get[g].eventi)
            /\ DOMAIN get'[g].eventi = 1..(Len(get[g].eventi) + 1)
            /\ \A i \in 1..Len(get[g].eventi) : get'[g].eventi[i] = get[g].eventi[i]
            /\ get'[g].eventi[Len(get[g].eventi) + 1] = e
        <5>1. get'[g].eventi = Append(get[g].eventi, e)
          BY <2>1, <3>2
        <5>2. QED
          BY <1>1, <5>1, AggiuntaInFondo
      <4>2. Len(get[g].eventi) \in Nat
        BY <1>1
      <4>3. SUFFICES ASSUME NEW i \in DOMAIN get'[g].eventi, get'[g].eventi[i][1] = "errore"
                     PROVE  i = Len(get'[g].eventi) /\ ~get'[g].registrato
        OBVIOUS
      <4>4. i = Len(get[g].eventi) + 1
        <5>1. i \in 1..(Len(get[g].eventi) + 1)
          BY <4>1, <4>3
        <5>2. i \notin 1..Len(get[g].eventi)
          <6>1. ASSUME i \in 1..Len(get[g].eventi) PROVE FALSE
            <7>1. get'[g].eventi[i] = get[g].eventi[i] /\ i \in DOMAIN get[g].eventi
              BY <4>1, <6>1
            <7>2. get[g].eventi[i][1] # "errore"
              BY <2>3, <7>1
            <7>3. QED
              BY <4>3, <7>1, <7>2
          <6>2. QED
            BY <6>1
        <5>3. QED
          BY <4>2, <5>1, <5>2
      <4>5. QED
        BY <2>1, <4>1, <4>3, <4>4
    <3>3. QED
      BY <1>1, <3>1, <3>2
  <2>5. InLavori(lavori, get'[g], g)
    <3>1. SUFFICES ASSUME NEW i \in DOMAIN lavori
                   PROVE  /\ lavori[i] # <<"ascolta", g>>
                          /\ lavori[i] = <<"togli", g>> => get'[g].fase = "servito"
      BY DEF InLavori
    <3>2. lavori[i] # <<"ascolta", g>>
      BY <1>2, <1>4 DEF InLavori
    <3>3. lavori[i] = <<"togli", g>> => get[g].fase = "servito"
      BY <1>2 DEF InLavori
    <3>4. QED
      BY <2>1, <3>2, <3>3
  <2>6. get[g].fase # "fermo" /\ (get[g].fase = "servito" => get[g].muto)
    BY <1>2, <1>4 DEF GetSano
  <2>7. GetSano(get'[g], storia.risposte[g])
    BY <1>2, <2>1, <2>4, <2>6 DEF GetSano
  <2>8. QED
    BY <2>1, <2>2, <2>5, <2>7
<1>5. QED
  BY <1>3, <1>4 DEF Sollevati

LEMMA SollevatiSani ==
  ASSUME Tipi, GetSani, NessunoDimenticato, Sollevati,
         lavori' = lavori, storia'.risposte = storia.risposte
  PROVE  GetSani' /\ NessunoDimenticato'
<1>1. GetSani'
  BY SollevatoSano DEF GetSani
<1>2. NessunoDimenticato'
  <2>1. SUFFICES ASSUME NEW g \in Lettore, get'[g].fase = "attesa"
                 PROVE  \/ get'[g].registrato \/ get'[g].eventi # <<>>
                        \/ Contains(lavori', <<"ascolta", g>>)
    BY DEF NessunoDimenticato
  <2>2. get[g].fase = "attesa"
    BY <2>1, SollevatoSano
  <2>3. get[g].registrato \/ get[g].eventi # <<>> \/ Contains(lavori, <<"ascolta", g>>)
    BY <2>2 DEF NessunoDimenticato
  <2>4. QED
    BY <2>3, SollevatoSano
<1>3. QED
  BY <1>1, <1>2

\* The worker queue: what leaves it, and what joins it.
Lavori == {"ascolta", "togli"} \X Lettore

LEMMA CodaFatti ==
  ASSUME NEW q \in Seq(Lavori), q # <<>>
  PROVE  /\ Len(q) \in Nat /\ 1 \in DOMAIN q /\ q[1] = Head(q)
         /\ DOMAIN Tail(q) = 1..(Len(q) - 1)
         /\ \A i \in DOMAIN Tail(q) : i + 1 \in DOMAIN q /\ Tail(q)[i] = q[i + 1]
  OBVIOUS

LEMMA CodaTolta ==
  ASSUME NEW q \in Seq(Lavori), q # <<>>, NEW x, NEW g, InLavori(q, x, g)
  PROVE  /\ InLavori(Tail(q), x, g)
         /\ Head(q) = <<"ascolta", g>> => \A i \in DOMAIN Tail(q) : Tail(q)[i] # <<"ascolta", g>>
<1>1. SUFFICES ASSUME NEW i \in DOMAIN Tail(q)
               PROVE  /\ Tail(q)[i] = <<"ascolta", g>> =>
                           /\ x.fase = "attesa" /\ ~x.registrato /\ x.eventi = <<>>
                           /\ \A j \in DOMAIN Tail(q) : Tail(q)[j] = Tail(q)[i] => j = i
                           /\ Head(q) # <<"ascolta", g>>
                      /\ Tail(q)[i] = <<"togli", g>> => x.fase = "servito"
  BY DEF InLavori
<1>2. i + 1 \in DOMAIN q /\ Tail(q)[i] = q[i + 1] /\ i \in Int /\ i >= 1
  BY <1>1, CodaFatti
<1>3. CASE Tail(q)[i] = <<"ascolta", g>>
  <2>1. \A j \in DOMAIN q : q[j] = q[i + 1] => j = i + 1
    BY <1>2, <1>3 DEF InLavori
  <2>2. \A j \in DOMAIN Tail(q) : Tail(q)[j] = Tail(q)[i] => j = i
    BY <1>2, <2>1, CodaFatti
  <2>3. Head(q) # <<"ascolta", g>>
    BY <1>2, <1>3, <2>1, CodaFatti
  <2>4. x.fase = "attesa" /\ ~x.registrato /\ x.eventi = <<>>
    BY <1>2, <1>3 DEF InLavori
  <2>5. QED
    BY <1>3, <2>2, <2>3, <2>4
<1>4. CASE Tail(q)[i] # <<"ascolta", g>>
  BY <1>2, <1>4 DEF InLavori
<1>5. QED
  BY <1>3, <1>4

LEMMA CodaAggiunta ==
  ASSUME NEW q \in Seq(Lavori), NEW m \in Lavori, NEW x, NEW g, InLavori(q, x, g),
         m # <<"ascolta", g>>, m = <<"togli", g>> => x.fase = "servito"
  PROVE  InLavori(Append(q, m), x, g)
<1>1. /\ DOMAIN Append(q, m) = 1..(Len(q) + 1) /\ DOMAIN q = 1..Len(q) /\ Len(q) \in Nat
      /\ \A i \in DOMAIN q : Append(q, m)[i] = q[i]
      /\ Append(q, m)[Len(q) + 1] = m
  OBVIOUS
<1>2. \A i \in DOMAIN Append(q, m) : i \in DOMAIN q \/ i = Len(q) + 1
  BY <1>1
<1>3. QED
  BY <1>1, <1>2 DEF InLavori

LEMMA CodaContiene ==
  ASSUME NEW q \in Seq(Lavori), NEW m \in Lavori, NEW n \in Lavori
  PROVE  /\ Contains(Append(q, m), m)
         /\ Contains(q, n) => Contains(Append(q, m), n)
         /\ q # <<>> /\ Head(q) # n /\ Contains(q, n) => Contains(Tail(q), n)
<1>1. /\ Len(Append(q, m)) = Len(q) + 1 /\ Len(q) \in Nat
      /\ \A i \in 1..Len(q) : Append(q, m)[i] = q[i]
      /\ Append(q, m)[Len(q) + 1] = m
  OBVIOUS
<1>2. Contains(Append(q, m), m) /\ (Contains(q, n) => Contains(Append(q, m), n))
  BY <1>1 DEF Contains
<1>3. ASSUME q # <<>>, Head(q) # n, Contains(q, n) PROVE Contains(Tail(q), n)
  <2>1. PICK i \in 1..Len(q) : q[i] = n
    BY <1>3 DEF Contains
  <2>2. i # 1 /\ Len(Tail(q)) = Len(q) - 1
    BY <1>3, <2>1
  <2>3. i - 1 \in 1..Len(Tail(q)) /\ Tail(q)[i - 1] = n
    BY <1>3, <2>1, <2>2
  <2>4. QED
    BY <2>3 DEF Contains
<1>4. QED
  BY <1>2, <1>3

\* A get is called.
LEMMA GetDocumentSano ==
  ASSUME Tipi, GetSani, NessunoDimenticato, NEW g \in Lettore, NEW c \in Codice, GetDocument(g, c)
  PROVE  GetSani' /\ NessunoDimenticato'
<1>1. /\ get' = [get EXCEPT ![g] = [Fermo(c) EXCEPT !.fase = "attesa"]]
      /\ lavori' = Append(lavori, <<"ascolta", g>>)
      /\ storia' = [storia EXCEPT !.risposte[g] = 0, !.visti[g] = {}]
      /\ \A i \in DOMAIN lavori : lavori[i][2] # g
  BY DEF GetDocument, Libero
<1>2. /\ get \in [Lettore -> Get] /\ storia \in Storia /\ storia.risposte \in [Lettore -> 0..2]
      /\ lavori \in Seq(Lavori)
  BY DEF Tipi, Storia, Lavori
<1>3. /\ get'[g].fase = "attesa" /\ ~get'[g].muto /\ ~get'[g].registrato /\ get'[g].eventi = <<>>
      /\ storia'.risposte[g] = 0
      /\ \A h \in Lettore \ {g} : get'[h] = get[h] /\ storia'.risposte[h] = storia.risposte[h]
  BY <1>1, <1>2 DEF Fermo, Storia
<1>4. /\ <<"ascolta", g>> \in Lavori
      /\ DOMAIN lavori' = 1..(Len(lavori) + 1) /\ DOMAIN lavori = 1..Len(lavori)
      /\ Len(lavori) \in Nat
      /\ \A i \in DOMAIN lavori : lavori'[i] = lavori[i] /\ lavori[i] \in Lavori
      /\ lavori'[Len(lavori) + 1] = <<"ascolta", g>>
  BY <1>1, <1>2 DEF Lavori
<1>5. InLavori(lavori', get'[g], g)
  <2>1. \A i \in DOMAIN lavori : lavori'[i] # <<"ascolta", g>> /\ lavori'[i] # <<"togli", g>>
    BY <1>1, <1>4
  <2>2. \A i \in DOMAIN lavori' : i \in DOMAIN lavori \/ i = Len(lavori) + 1
    BY <1>4
  <2>3. QED
    BY <1>3, <1>4, <2>1, <2>2 DEF InLavori
<1>6. ASSUME NEW h \in Lettore \ {g} PROVE InLavori(lavori', get'[h], h)
  <2>1. InLavori(lavori, get[h], h)
    BY DEF GetSani
  <2>2. <<"ascolta", g>> # <<"ascolta", h>> /\ <<"ascolta", g>> # <<"togli", h>>
    BY <1>6
  <2>3. InLavori(Append(lavori, <<"ascolta", g>>), get[h], h)
    BY <1>2, <1>4, <2>1, <2>2, CodaAggiunta
  <2>4. QED
    BY <1>1, <1>3, <2>3
<1>7. GetSano(get'[g], storia'.risposte[g])
  BY <1>3 DEF GetSano
<1>8. GetSani'
  <2>1. SUFFICES ASSUME NEW h \in Lettore
                 PROVE  GetSano(get'[h], storia'.risposte[h]) /\ InLavori(lavori', get'[h], h)
    BY DEF GetSani
  <2>2. CASE h = g
    BY <1>5, <1>7, <2>2
  <2>3. CASE h # g
    BY <1>3, <1>6, <2>3 DEF GetSani
  <2>4. QED
    BY <2>2, <2>3
<1>9. NessunoDimenticato'
  <2>1. SUFFICES ASSUME NEW h \in Lettore, get'[h].fase = "attesa"
                 PROVE  \/ get'[h].registrato \/ get'[h].eventi # <<>>
                        \/ Contains(lavori', <<"ascolta", h>>)
    BY DEF NessunoDimenticato
  <2>2. <<"ascolta", h>> \in Lavori
    BY DEF Lavori
  <2>3. CASE h = g
    BY <1>1, <1>2, <2>2, <2>3, CodaContiene
  <2>4. CASE h # g
    <3>1. get[h].registrato \/ get[h].eventi # <<>> \/ Contains(lavori, <<"ascolta", h>>)
      BY <1>3, <2>1, <2>4 DEF NessunoDimenticato
    <3>2. Contains(lavori, <<"ascolta", h>>) => Contains(lavori', <<"ascolta", h>>)
      BY <1>1, <1>2, <1>4, <2>2, CodaContiene
    <3>3. QED
      BY <1>3, <2>4, <3>1, <3>2
  <2>5. QED
    BY <2>3, <2>4
<1>10. QED
  BY <1>8, <1>9

\* The others, when one get's state and at most one job of its own change.
LEMMA AltriSani ==
  ASSUME Tipi, GetSani, NessunoDimenticato, NEW g \in Lettore, NEW o \in {"ascolta", "togli"},
         \A h \in Lettore \ {g} : get'[h] = get[h] /\ storia'.risposte[h] = storia.risposte[h],
         \/ lavori' = lavori \/ lavori' = Append(lavori, <<o, g>>)
         \/ lavori # <<>> /\ Head(lavori) = <<o, g>> /\ lavori' = Tail(lavori),
         GetSano(get'[g], storia'.risposte[g]), InLavori(lavori', get'[g], g),
         get'[g].fase = "attesa" => get'[g].registrato \/ get'[g].eventi # <<>>
  PROVE  GetSani' /\ NessunoDimenticato'
<1>1. lavori \in Seq(Lavori) /\ <<o, g>> \in Lavori
  BY DEF Tipi, Lavori
<1>2. ASSUME NEW h \in Lettore \ {g}
      PROVE  /\ GetSano(get'[h], storia'.risposte[h]) /\ InLavori(lavori', get'[h], h)
             /\ get'[h].fase = "attesa" =>
                  \/ get'[h].registrato \/ get'[h].eventi # <<>>
                  \/ Contains(lavori', <<"ascolta", h>>)
  <2>1. /\ <<o, g>> # <<"ascolta", h>> /\ <<o, g>> # <<"togli", h>> /\ <<"ascolta", h>> \in Lavori
        /\ get'[h] = get[h] /\ storia'.risposte[h] = storia.risposte[h]
    BY <1>2 DEF Lavori
  <2>2. GetSano(get[h], storia.risposte[h]) /\ InLavori(lavori, get[h], h)
    BY <1>2 DEF GetSani
  <2>3. InLavori(lavori', get[h], h)
    BY <1>1, <2>1, <2>2, CodaAggiunta, CodaTolta
  <2>4. get[h].fase = "attesa" =>
          get[h].registrato \/ get[h].eventi # <<>> \/ Contains(lavori, <<"ascolta", h>>)
    BY <1>2 DEF NessunoDimenticato
  <2>5. Contains(lavori, <<"ascolta", h>>) => Contains(lavori', <<"ascolta", h>>)
    BY <1>1, <2>1, CodaContiene
  <2>6. QED
    BY <2>1, <2>2, <2>3, <2>4, <2>5
<1>3. \A h \in Lettore : h = g \/ h \in Lettore \ {g}
  OBVIOUS
<1>4. GetSani'
  BY <1>2, <1>3 DEF GetSani
<1>5. NessunoDimenticato'
  BY <1>2, <1>3 DEF NessunoDimenticato
<1>6. QED
  BY <1>4, <1>5

LEMMA Vuota ==
  ASSUME NEW q \in Seq(Evento), Len(q) = 0
  PROVE  q = <<>>
  OBVIOUS

\* A get's callback is called, or its muted listener drops an event.
LEMMA OnEventSano ==
  ASSUME Tipi, GetSani, NessunoDimenticato, NEW g \in Lettore, OnEvent(g)
  PROVE  GetSani' /\ NessunoDimenticato'
<1>1. /\ get[g] \in Get /\ get[g].eventi \in Seq(Evento) /\ get[g].eventi # <<>>
      /\ GetSano(get[g], storia.risposte[g]) /\ InLavori(lavori, get[g], g)
  BY DEF Tipi, Get, OnEvent, GetSani
<1>2. /\ Len(Tail(get[g].eventi)) = Len(get[g].eventi) - 1 /\ Len(get[g].eventi) \in Nat
      /\ DOMAIN Tail(get[g].eventi) = 1..(Len(get[g].eventi) - 1)
      /\ DOMAIN get[g].eventi = 1..Len(get[g].eventi)
      /\ \A i \in DOMAIN Tail(get[g].eventi) :
           i + 1 \in DOMAIN get[g].eventi /\ Tail(get[g].eventi)[i] = get[g].eventi[i + 1]
      /\ 1 \in DOMAIN get[g].eventi /\ Head(get[g].eventi) = get[g].eventi[1]
  BY <1>1
<1>3. /\ get'[g].eventi = Tail(get[g].eventi) /\ get'[g].registrato = get[g].registrato
      /\ \A h \in Lettore \ {g} : get'[h] = get[h]
  BY OnEventForma
<1>4. \A i \in DOMAIN get'[g].eventi :
        get'[g].eventi[i][1] = "errore" => i = Len(get'[g].eventi) /\ ~get'[g].registrato
  <2>1. SUFFICES ASSUME NEW i \in DOMAIN Tail(get[g].eventi),
                        Tail(get[g].eventi)[i][1] = "errore"
                 PROVE  i = Len(Tail(get[g].eventi)) /\ ~get[g].registrato
    BY <1>3
  <2>2. i \in Int /\ i + 1 \in DOMAIN get[g].eventi /\ get[g].eventi[i + 1][1] = "errore"
    BY <1>2, <2>1
  <2>3. i + 1 = Len(get[g].eventi) /\ ~get[g].registrato
    BY <1>1, <2>2 DEF GetSano
  <2>4. QED
    BY <1>2, <2>2, <2>3
<1>5. CASE get[g].muto
  <2>1. get'[g].fase = get[g].fase /\ get'[g].muto /\ lavori' = lavori /\ storia' = storia
    BY <1>5, OnEventForma
  <2>2. get[g].fase = "servito" /\ storia.risposte[g] = 1
    BY <1>1, <1>5 DEF GetSano, Get
  <2>3. GetSano(get'[g], storia'.risposte[g])
    BY <1>4, <2>1, <2>2 DEF GetSano
  <2>4. InLavori(lavori', get'[g], g)
    <3>1. \A i \in DOMAIN lavori : lavori[i] # <<"ascolta", g>>
      BY <1>1, <2>2 DEF InLavori
    <3>2. QED
      BY <2>1, <2>2, <3>1 DEF InLavori
  <2>5. get'[g].fase # "attesa"
    BY <2>1, <2>2
  <2>6. QED
    BY <1>3, <2>1, <2>3, <2>4, <2>5, AltriSani
<1>6. CASE ~get[g].muto
  <2>1. /\ get'[g].fase = "servito" /\ get'[g].muto = (Head(get[g].eventi)[1] # "errore")
        /\ lavori' \in {lavori, Append(lavori, <<"togli", g>>)}
        /\ storia' = Risposto(storia, g)
    BY <1>6, OnEventForma
  <2>2. get[g].fase = "attesa" /\ storia.risposte[g] = 0
    BY <1>1, <1>6 DEF GetSano, Get
  <2>3. storia'.risposte[g] = 1 /\ \A h \in Lettore \ {g} : storia'.risposte[h] = storia.risposte[h]
    BY <2>1, <2>2, RispostoForma
  <2>4. get'[g].muto \/ (~get'[g].registrato /\ get'[g].eventi = <<>>)
    <3>1. CASE Head(get[g].eventi)[1] # "errore"
      BY <2>1, <3>1
    <3>2. CASE Head(get[g].eventi)[1] = "errore"
      <4>1. 1 = Len(get[g].eventi) /\ ~get[g].registrato
        BY <1>1, <1>2, <3>2 DEF GetSano
      <4>2. Tail(get[g].eventi) = <<>>
        <5>1. Len(Tail(get[g].eventi)) = 0
          BY <1>2, <4>1
        <5>2. Tail(get[g].eventi) \in Seq(Evento)
          BY <1>1
        <5>3. QED
          BY <5>1, <5>2, Vuota
      <4>3. QED
        BY <1>3, <4>1, <4>2
    <3>3. QED
      BY <3>1, <3>2
  <2>5. GetSano(get'[g], storia'.risposte[g])
    BY <1>4, <2>1, <2>3, <2>4 DEF GetSano
  <2>6. InLavori(lavori, get'[g], g)
    <3>1. \A i \in DOMAIN lavori : lavori[i] # <<"ascolta", g>>
      BY <1>1 DEF InLavori
    <3>2. QED
      BY <2>1, <3>1 DEF InLavori
  <2>7. InLavori(lavori', get'[g], g)
    <3>1. lavori \in Seq(Lavori) /\ <<"togli", g>> \in Lavori
      BY DEF Tipi, Lavori
    <3>2. <<"togli", g>> # <<"ascolta", g>>
      OBVIOUS
    <3>3. QED
      BY <2>1, <2>6, <3>1, <3>2, CodaAggiunta
  <2>8. QED
    BY <1>3, <2>1, <2>3, <2>5, <2>7, AltriSani
<1>7. QED
  BY <1>5, <1>6

\* A listener is added.
LEMMA AddQueryListenerSano ==
  ASSUME Tipi, GetSani, NessunoDimenticato, AddQueryListener
  PROVE  GetSani' /\ NessunoDimenticato'
<1>1. PICK g \in Lettore :
        /\ Head(lavori) = <<"ascolta", g>> /\ lavori # <<>> /\ lavori' = Tail(lavori)
        /\ \A h \in Lettore \ {g} : get'[h] = get[h]
        /\ get'[g].registrato /\ get'[g].fase = get[g].fase /\ get'[g].muto = get[g].muto
        /\ \/ get'[g].eventi = get[g].eventi
           \/ \E e \in Evento : e[1] # "errore" /\ get'[g].eventi = Append(get[g].eventi, e)
        /\ storia'.risposte = storia.risposte
  BY AddQueryListenerForma
<1>2. GetSano(get[g], storia.risposte[g]) /\ InLavori(lavori, get[g], g) /\ lavori \in Seq(Lavori)
  BY DEF GetSani, Tipi, Lavori
<1>3. get[g].fase = "attesa" /\ get[g].eventi = <<>>
  BY <1>1, <1>2, CodaFatti DEF InLavori
<1>4. \A i \in DOMAIN get'[g].eventi : get'[g].eventi[i][1] # "errore"
  <2>1. CASE get'[g].eventi = get[g].eventi
    BY <1>3, <2>1
  <2>2. CASE \E e \in Evento : e[1] # "errore" /\ get'[g].eventi = Append(get[g].eventi, e)
    BY <1>3, <2>2
  <2>3. QED
    BY <1>1, <2>1, <2>2
<1>5. GetSano(get'[g], storia'.risposte[g])
  BY <1>1, <1>2, <1>3, <1>4 DEF GetSano
<1>6. InLavori(lavori', get'[g], g)
  <2>1. \A i \in DOMAIN Tail(lavori) : Tail(lavori)[i] # <<"ascolta", g>>
    BY <1>1, <1>2, CodaTolta
  <2>2. InLavori(Tail(lavori), get[g], g)
    BY <1>1, <1>2, CodaTolta
  <2>3. QED
    BY <1>1, <2>1, <2>2 DEF InLavori
<1>7. QED
  BY <1>1, <1>5, <1>6, AltriSani

\* A listener is removed.
LEMMA RemoveQueryListenerSano ==
  ASSUME Tipi, GetSani, NessunoDimenticato, RemoveQueryListener
  PROVE  GetSani' /\ NessunoDimenticato'
<1>1. PICK g \in Lettore :
        /\ Head(lavori) = <<"togli", g>> /\ lavori # <<>> /\ lavori' = Tail(lavori)
        /\ \A h \in Lettore \ {g} : get'[h] = get[h]
        /\ ~get'[g].registrato /\ get'[g].fase = get[g].fase /\ get'[g].muto = get[g].muto
        /\ get'[g].eventi = get[g].eventi
        /\ storia'.risposte = storia.risposte
  <2>1. storia' = storia => storia'.risposte = storia.risposte
    OBVIOUS
  <2>2. QED
    BY <2>1, RemoveQueryListenerForma
<1>2. GetSano(get[g], storia.risposte[g]) /\ InLavori(lavori, get[g], g) /\ lavori \in Seq(Lavori)
  BY DEF GetSani, Tipi, Lavori
<1>3. get[g].fase = "servito"
  BY <1>1, <1>2, CodaFatti DEF InLavori
<1>4. GetSano(get'[g], storia'.risposte[g])
  BY <1>1, <1>2, <1>3 DEF GetSano
<1>5. InLavori(lavori', get'[g], g)
  <2>1. InLavori(Tail(lavori), get[g], g)
    BY <1>1, <1>2, CodaTolta
  <2>2. QED
    BY <1>1, <1>3, <2>1 DEF InLavori
<1>6. QED
  BY <1>1, <1>3, <1>4, <1>5, AltriSani

\* Every step keeps the gets sane and forgets none.
LEMMA GetSaniPasso ==
  ASSUME Tipi, GetSani, NessunoDimenticato, [Next]_vars
  PROVE  GetSani' /\ NessunoDimenticato'
<1>1. CASE UNCHANGED <<get, lavori>> /\ storia'.risposte = storia.risposte
  BY <1>1 DEF GetSani, NessunoDimenticato
<1>2. CASE Sollevati /\ lavori' = lavori /\ storia'.risposte = storia.risposte
  BY <1>2, SollevatiSani
<1>3. CASE \E g \in Lettore, c \in Codice : GetDocument(g, c)
  BY <1>3, GetDocumentSano
<1>4. CASE \E g \in Lettore : OnEvent(g)
  BY <1>4, OnEventSano
<1>5. CASE AddQueryListener \/ RemoveQueryListener
  BY <1>5, AddQueryListenerSano, RemoveQueryListenerSano
<1>6. CASE OnStreamFinish
  <2>1. OnWatchStreamClose /\ lavori' = lavori
    BY <1>6 DEF OnStreamFinish
  <2>2. Sollevati
    BY <2>1, ChiusuraForma, TrasmetteForma
  <2>3. storia'.risposte = storia.risposte
    BY <2>1 DEF OnWatchStreamClose, Asserisce, Tipi, Storia
  <2>4. QED
    BY <1>2, <2>1, <2>2, <2>3
<1>7. CASE OnlineStateTimeout
  <2>1. Sollevati
    BY <1>7, OnlineStateTimeoutForma, TrasmetteForma
  <2>2. lavori' = lavori /\ storia'.risposte = storia.risposte
    BY <1>7 DEF OnlineStateTimeout, Asserisce, Tipi, Storia
  <2>3. QED
    BY <1>2, <2>1, <2>2
<1>8. CASE RaiseWatchSnapshot
  <2>1. Sollevati
    BY <1>8, IstantaneaSolleva
  <2>2. lavori' = lavori /\ storia' = storia
    BY <1>8 DEF RaiseWatchSnapshot
  <2>3. QED
    BY <1>2, <2>1, <2>2
<1>9. CASE ProcessTargetError
  <2>1. Sollevati
    BY <1>9, RifiutoSolleva
  <2>2. lavori' = lavori /\ storia' = storia
    BY <1>9 DEF ProcessTargetError
  <2>3. QED
    BY <1>2, <2>1, <2>2
<1>10. CASE OnWatchStreamOpen \/ BackoffElapsed \/ TargetChange \/ UNCHANGED vars
  BY <1>1, <1>10 DEF OnWatchStreamOpen, BackoffElapsed, TargetChange, vars
<1>11. CASE IdleTimeout \/ RestartNetwork
  BY <1>1, <1>11 DEF IdleTimeout, RestartNetwork, Asserisce, Tipi, Storia
<1>12. CASE ServerRisponde \/ \E c \in Codice : ServerInvia(c) \/ Cambia(c)
  <2>1. storia'.risposte = storia.risposte
    BY <1>12 DEF ServerRisponde, ServerInvia, Cambia, Tipi, Storia
  <2>2. UNCHANGED <<get, lavori>>
    BY <1>12 DEF ServerRisponde, ServerInvia, Cambia
  <2>3. QED
    BY <1>1, <2>1, <2>2
<1>13. QED
  BY <1>3, <1>4, <1>5, <1>6, <1>7, <1>8, <1>9, <1>10, <1>11, <1>12 DEF Next

(***************************************************************************)
(* The targets                                                             *)
(***************************************************************************)
\* Get x listens to document c.
Ascolta(x, c) == x.registrato /\ x.cod = c

LEMMA RegistriPunto ==
  ASSUME Tipi, Tipi'
  PROVE  /\ Registri <=> \A c \in Codice :
              c \in remoto.listen_targets <=> \E g \in Lettore : Ascolta(get[g], c)
         /\ Registri' <=> \A c \in Codice :
              c \in remoto'.listen_targets <=> \E g \in Lettore : Ascolta(get'[g], c)
         /\ \A c \in Codice : Ascoltatori(c) = {g \in Lettore : Ascolta(get[g], c)}
<1>1. remoto.listen_targets \subseteq Codice /\ remoto'.listen_targets \subseteq Codice
  BY DEF Tipi, Remoto
<1>2. Registri <=> \A c \in Codice :
        c \in remoto.listen_targets <=> \E g \in Lettore : Ascolta(get[g], c)
  BY <1>1 DEF Registri, Ascoltatori, Ascolta
<1>3. Registri' <=> \A c \in Codice :
        c \in remoto'.listen_targets <=> \E g \in Lettore : Ascolta(get'[g], c)
  BY <1>1 DEF Registri, Ascoltatori, Ascolta
<1>4. QED
  BY <1>2, <1>3 DEF Ascoltatori, Ascolta

\* Nobody comes or goes.
LEMMA RegistriFermi ==
  ASSUME Tipi, Tipi', Registri, remoto'.listen_targets = remoto.listen_targets,
         \A g \in Lettore, c \in Codice : Ascolta(get'[g], c) <=> Ascolta(get[g], c)
  PROVE  Registri'
  BY RegistriPunto

LEMMA RegistriAggiunta ==
  ASSUME Tipi, Tipi', Registri, AddQueryListener
  PROVE  Registri'
<1>1. PICK g \in Lettore :
        /\ \A h \in Lettore \ {g} : get'[h] = get[h]
        /\ get'[g].registrato /\ get'[g].cod = get[g].cod
        /\ \/ Ascoltatori(get[g].cod) = {} /\ Listen(get[g].cod)
           \/ Ascoltatori(get[g].cod) # {} /\ UNCHANGED <<remoto, tracker, rete>>
  BY AddQueryListenerForma
<1> DEFINE c == get[g].cod
<1>2. c \in Codice
  BY DEF Tipi, Get
<1>3. remoto'.listen_targets = remoto.listen_targets \cup {c}
  <2>1. CASE Ascoltatori(c) = {} /\ Listen(c)
    BY <1>2, <2>1, ListenForma
  <2>2. CASE Ascoltatori(c) # {} /\ UNCHANGED <<remoto, tracker, rete>>
    BY <1>2, <2>2 DEF Registri
  <2>3. QED
    BY <1>1, <2>1, <2>2
<1>4. \A d \in Codice : (\E h \in Lettore : Ascolta(get'[h], d)) <=>
                        (d = c \/ \E h \in Lettore : Ascolta(get[h], d))
  <2>1. Ascolta(get'[g], c) /\ \A d \in Codice : d # c => ~Ascolta(get'[g], d)
    BY <1>1 DEF Ascolta
  <2>2. \A d \in Codice : d # c => ~Ascolta(get[g], d)
    BY DEF Ascolta
  <2>3. \A h \in Lettore : h = g \/ get'[h] = get[h]
    BY <1>1
  <2> HIDE DEF c
  <2>4. QED
    BY <2>1, <2>2, <2>3
<1> HIDE DEF c
<1>5. QED
  BY <1>2, <1>3, <1>4, RegistriPunto

LEMMA RegistriTolta ==
  ASSUME Tipi, Tipi', Registri, RemoveQueryListener
  PROVE  Registri'
<1>1. PICK g \in Lettore :
        /\ \A h \in Lettore \ {g} : get'[h] = get[h]
        /\ ~get'[g].registrato
        /\ \/ Ascoltatori(get[g].cod) = {g} /\ StopListening(get[g].cod)
           \/ Ascoltatori(get[g].cod) # {g} /\ UNCHANGED <<remoto, tracker, rete, storia>>
  BY RemoveQueryListenerForma
<1> DEFINE c == get[g].cod
<1>2. c \in Codice
  BY DEF Tipi, Get
<1>3. /\ \A d \in Codice : ~Ascolta(get'[g], d)
      /\ \A d \in Codice : d # c => ~Ascolta(get[g], d)
      /\ \A h \in Lettore : h # g => get'[h] = get[h]
  BY <1>1 DEF Ascolta
<1>4. CASE Ascoltatori(c) = {g} /\ StopListening(c)
  <2>1. remoto'.listen_targets = remoto.listen_targets \ {c}
    BY <1>2, <1>4, StopListeningForma
  <2>2. \A h \in Lettore : Ascolta(get[h], c) <=> h = g
    BY <1>4 DEF Ascoltatori, Ascolta
  <2> HIDE DEF c
  <2>3. QED
    BY <1>2, <1>3, <2>1, <2>2, RegistriPunto
<1>5. CASE Ascoltatori(c) # {g} /\ UNCHANGED <<remoto, tracker, rete, storia>>
  <2>1. Ascolta(get[g], c) => \E h \in Lettore : h # g /\ Ascolta(get[h], c)
    BY <1>5 DEF Ascoltatori, Ascolta
  <2> HIDE DEF c
  <2>2. \A d \in Codice : (\E h \in Lettore : Ascolta(get'[h], d)) <=>
                          (\E h \in Lettore : Ascolta(get[h], d))
    BY <1>3, <2>1
  <2>3. QED
    BY <1>5, <2>2, RegistriPunto
<1>6. QED
  BY <1>1, <1>4, <1>5

LEMMA RegistriRifiuto ==
  ASSUME Tipi, Tipi', Registri, ProcessTargetError
  PROVE  Registri'
<1>1. PICK c \in Codice :
        \/ c \notin remoto.listen_targets /\ UNCHANGED <<remoto, viste, get>>
        \/ /\ remoto'.listen_targets = remoto.listen_targets \ {c}
           /\ get' = [g \in Lettore |-> IF g \in Ascoltatori(c) THEN OnError(g) ELSE get[g]]
  BY ProcessTargetErrorForma
<1>2. CASE UNCHANGED <<remoto, viste, get>>
  BY <1>2, RegistriFermi
<1>3. CASE /\ remoto'.listen_targets = remoto.listen_targets \ {c}
           /\ get' = [g \in Lettore |-> IF g \in Ascoltatori(c) THEN OnError(g) ELSE get[g]]
  <2>1. \A g \in Lettore : g \in Ascoltatori(c) <=> Ascolta(get[g], c)
    BY DEF Ascoltatori, Ascolta
  <2>2. \A g \in Lettore, d \in Codice : Ascolta(get'[g], d) <=> d # c /\ Ascolta(get[g], d)
    <3>1. SUFFICES ASSUME NEW g \in Lettore, NEW d \in Codice
                   PROVE  Ascolta(get'[g], d) <=> d # c /\ Ascolta(get[g], d)
      OBVIOUS
    <3>2. CASE Ascolta(get[g], c)
      <4>1. get'[g] = OnError(g)
        BY <1>3, <2>1, <3>2
      <4>2. ~get'[g].registrato
        BY <4>1, OnErrorForma
      <4>3. QED
        BY <3>2, <4>2 DEF Ascolta
    <3>3. CASE ~Ascolta(get[g], c)
      <4>1. get'[g] = get[g]
        BY <1>3, <2>1, <3>3
      <4>2. QED
        BY <3>3, <4>1
    <3>4. QED
      BY <3>2, <3>3
  <2>3. QED
    BY <1>3, <2>2, RegistriPunto
<1>4. QED
  BY <1>1, <1>2, <1>3

LEMMA RegistriPasso ==
  ASSUME Tipi, Tipi', Registri, [Next]_vars
  PROVE  Registri'
<1>1. CASE get' = get /\ remoto'.listen_targets = remoto.listen_targets
  BY <1>1, RegistriFermi
<1>2. CASE Registrati /\ remoto'.listen_targets = remoto.listen_targets
  BY <1>2, RegistriFermi DEF Registrati, Ascolta
<1>3. ASSUME NEW g \in Lettore, NEW c \in Codice, GetDocument(g, c) PROVE Registri'
  <2>1. /\ ~get[g].registrato /\ get' = [get EXCEPT ![g] = [Fermo(c) EXCEPT !.fase = "attesa"]]
        /\ remoto' = remoto
    BY <1>3 DEF GetDocument, Libero
  <2>2. get \in [Lettore -> Get]
    BY DEF Tipi
  <2>3. ~get'[g].registrato /\ \A h \in Lettore : h # g => get'[h] = get[h]
    BY <2>1, <2>2 DEF Fermo
  <2>4. QED
    BY <2>1, <2>3, RegistriFermi DEF Ascolta
<1>4. ASSUME NEW g \in Lettore, OnEvent(g) PROVE Registri'
  <2>1. /\ get'[g].cod = get[g].cod /\ get'[g].registrato = get[g].registrato
        /\ \A h \in Lettore \ {g} : get'[h] = get[h]
    BY <1>4, OnEventForma
  <2>2. remoto' = remoto
    BY <1>4 DEF OnEvent
  <2>3. QED
    BY <2>1, <2>2, RegistriFermi DEF Ascolta
<1>5. CASE AddQueryListener
  BY <1>5, RegistriAggiunta
<1>6. CASE RemoveQueryListener
  BY <1>6, RegistriTolta
<1>7. CASE OnStreamFinish
  BY <1>2, <1>7, ChiusuraForma, TrasmetteForma DEF OnStreamFinish
<1>8. CASE OnlineStateTimeout
  <2>1. remoto' = remoto
    BY <1>8 DEF OnlineStateTimeout
  <2>2. QED
    BY <1>2, <1>8, <2>1, OnlineStateTimeoutForma, TrasmetteForma
<1>9. CASE RaiseWatchSnapshot
  BY <1>2, <1>9, IstantaneaSolleva, RaiseWatchSnapshotForma
<1>10. CASE ProcessTargetError
  BY <1>10, RegistriRifiuto
<1>11. CASE OnWatchStreamOpen \/ BackoffElapsed \/ TargetChange
  <2>1. get' = get
    BY <1>11 DEF OnWatchStreamOpen, BackoffElapsed, TargetChange
  <2>2. QED
    BY <1>1, <1>11, <2>1, OnWatchStreamOpenForma, BackoffElapsedForma, TargetChangeForma
<1>12. CASE IdleTimeout
  <2>1. get' = get
    BY <1>12 DEF IdleTimeout
  <2>2. QED
    BY <1>1, <1>12, <2>1, IdleTimeoutForma, FermatoForma
<1>13. CASE RestartNetwork
  <2>1. get' = get
    BY <1>13 DEF RestartNetwork
  <2>2. QED
    BY <1>1, <1>13, <2>1, RipartenzaForma
<1>14. CASE \/ ServerRisponde \/ UNCHANGED vars
            \/ \E c \in Codice : ServerInvia(c) \/ Cambia(c)
  <2>1. get' = get /\ remoto' = remoto
    BY <1>14 DEF ServerRisponde, ServerInvia, Cambia, vars
  <2>2. QED
    BY <1>1, <2>1
<1>15. QED
  BY <1>3, <1>4, <1>5, <1>6, <1>7, <1>8, <1>9, <1>10, <1>11, <1>12, <1>13, <1>14 DEF Next

(***************************************************************************)
(* The stream, the tracker and the assertions                              *)
(***************************************************************************)
\* A stream that starts, or stops, leaves the tracker sane, and a failure meets
\* what is asserted of it.
LEMMA PartenzaSana ==
  ASSUME NEW t \in Tracker, NEW r \in Remoto, ~t.timer, t.stato = "Online" => t.fallimenti = 0,
         ~r.inattivo
  PROVE  Sano(HandleWatchStreamStart(t), Avviato(r))
<1>1. Started(Avviato(r).flusso) /\ ~Avviato(r).inattivo
  BY AvviatoForma
<1>2. CASE t.fallimenti # 0
  BY <1>1, <1>2 DEF Sano, HandleWatchStreamStart
<1>3. CASE t.fallimenti = 0
  <2>1. /\ HandleWatchStreamStart(t).stato = "Unknown"
        /\ HandleWatchStreamStart(t).fallimenti = 0
    BY <1>3 DEF HandleWatchStreamStart, Tracker
  <2>2. QED
    BY <1>1, <2>1 DEF Sano
<1>4. QED
  BY <1>2, <1>3

LEMMA UpdateStateSano ==
  ASSUME NEW s \in {"Unknown", "Online", "Offline"}, NEW r,
         r.inattivo => r.listen_targets = {} /\ r.flusso = "Open"
  PROVE  Sano(UpdateState(s), r)
  BY DEF Sano, UpdateState

LEMMA GuastoSano ==
  ASSUME TrackerSano, tracker \in Tracker
  PROVE  /\ FailureAmmesso(tracker) /\ StartAmmesso(HandleWatchStreamFailure(tracker))
         /\ ~HandleWatchStreamFailure(tracker).timer
         /\ HandleWatchStreamFailure(tracker).stato # "Online"
<1>1. tracker.stato = "Online" => tracker.fallimenti = 0 /\ ~tracker.timer
  BY DEF TrackerSano, Sano
<1>2. CASE tracker.stato = "Online"
  <2>1. /\ HandleWatchStreamFailure(tracker).stato = "Unknown"
        /\ HandleWatchStreamFailure(tracker).timer = tracker.timer
    BY <1>2 DEF HandleWatchStreamFailure, Tracker
  <2>2. QED
    BY <1>1, <1>2, <2>1 DEF FailureAmmesso, StartAmmesso
<1>3. CASE tracker.stato # "Online"
  BY <1>3 DEF FailureAmmesso, StartAmmesso, HandleWatchStreamFailure
<1>4. QED
  BY <1>2, <1>3

\* A listener is added: the timer is not running when the stream starts.
LEMMA ListenSano ==
  ASSUME Tipi, TrackerSano, NEW c \in Codice, Listen(c)
  PROVE  TrackerSano' /\ (Avvierebbe(c) => StartAmmesso(tracker))
<1> DEFINE r == [remoto EXCEPT !.listen_targets = @ \cup {c}]
<1>1. remoto \in Remoto /\ tracker \in Tracker
  BY DEF Tipi, Tracker
<1>2. /\ r \in Remoto /\ r.listen_targets = remoto.listen_targets \cup {c}
      /\ r.flusso = remoto.flusso /\ r.inattivo = remoto.inattivo
  BY <1>1 DEF Remoto
<1>3. Avvierebbe(c) => ~tracker.timer /\ ~remoto.inattivo
  BY <1>2 DEF Avvierebbe, ShouldStartWatchStream, TrackerSano, Sano, Started
<1>4. Listen(c) <=>
        IF Avvierebbe(c)
        THEN /\ remoto' = Avviato(r)
             /\ tracker' = HandleWatchStreamStart(tracker)
             /\ UNCHANGED rete
        ELSE /\ IF remoto.flusso = "Open" THEN SendRequest("watch", c)
                ELSE remoto' = r /\ UNCHANGED rete
             /\ UNCHANGED tracker
  BY DEF Listen, Avvierebbe
<1> HIDE DEF r
<1>5. CASE Avvierebbe(c)
  <2>1. remoto' = Avviato(r) /\ tracker' = HandleWatchStreamStart(tracker)
    BY <1>4, <1>5
  <2>2. tracker.stato = "Online" => tracker.fallimenti = 0
    BY DEF TrackerSano, Sano
  <2>3. Sano(HandleWatchStreamStart(tracker), Avviato(r))
    BY <1>1, <1>2, <1>3, <1>5, <2>2, PartenzaSana
  <2>4. QED
    BY <1>3, <1>5, <2>1, <2>3 DEF TrackerSano, StartAmmesso
<1>6. CASE ~Avvierebbe(c) /\ remoto.flusso = "Open"
  <2>1. SendRequest("watch", c) /\ tracker' = tracker
    BY <1>4, <1>6
  <2>2. remoto'.flusso = remoto.flusso /\ remoto'.inattivo = (remoto'.listen_targets = {})
    BY <2>1, SendRequestForma
  <2>3. QED
    BY <1>6, <2>1, <2>2 DEF TrackerSano, Sano
<1>7. CASE ~Avvierebbe(c) /\ remoto.flusso # "Open"
  BY <1>2, <1>4, <1>7 DEF TrackerSano, Sano
<1>8. QED
  BY <1>5, <1>6, <1>7

LEMMA StopListeningSano ==
  ASSUME Tipi, TrackerSano, NEW c \in Codice, StopListening(c)
  PROVE  TrackerSano'
<1>1. remoto \in Remoto
  BY DEF Tipi
<1>2. CASE remoto.flusso = "Open"
  <2>1. SendRequest("unwatch", c) /\ tracker' = tracker
    BY <1>2 DEF StopListening
  <2>2. remoto'.flusso = remoto.flusso /\ remoto'.inattivo = (remoto'.listen_targets = {})
    BY <2>1, SendRequestForma
  <2>3. QED
    BY <1>2, <2>1, <2>2 DEF TrackerSano, Sano
<1>3. CASE remoto.flusso # "Open"
  <2>1. /\ remoto' = [remoto EXCEPT !.listen_targets = @ \ {c}]
        /\ tracker' \in {UpdateState("Unknown"), tracker}
    BY <1>3 DEF StopListening
  <2>2. remoto'.flusso = remoto.flusso /\ remoto'.inattivo = remoto.inattivo /\ ~remoto.inattivo
    BY <1>1, <1>3, <2>1 DEF Remoto, TrackerSano, Sano
  <2>3. Sano(UpdateState("Unknown"), remoto')
    BY <2>2, UpdateStateSano
  <2>4. QED
    BY <2>1, <2>2, <2>3 DEF TrackerSano, Sano
<1>4. QED
  BY <1>2, <1>3

\* What arrives shows that the client is online, and leaves the stream as it is.
LEMMA ArrivaSano ==
  ASSUME TrackerSano, tracker' = UpdateState("Online"), remoto'.flusso = remoto.flusso,
         remoto'.inattivo = remoto.inattivo,
         remoto'.listen_targets \subseteq remoto.listen_targets
  PROVE  TrackerSano'
<1>1. remoto'.inattivo => remoto'.listen_targets = {} /\ remoto'.flusso = "Open"
  BY DEF TrackerSano, Sano
<1>2. QED
  BY <1>1, UpdateStateSano DEF TrackerSano

\* A failure of the stream.
LEMMA OnStreamFinishSano ==
  ASSUME Tipi, TrackerSano, AsserzioniRispettate, OnStreamFinish
  PROVE  TrackerSano' /\ AsserzioniRispettate'
<1>1. OnWatchStreamClose /\ tracker \in Tracker
  BY DEF OnStreamFinish, Tipi, Tracker
<1>2. Fermato("Error") \in Remoto /\ ~Fermato("Error").inattivo
  BY FermatoForma
<1>3. /\ HandleWatchStreamFailure(tracker) \in Tracker
      /\ HandleWatchStreamStart(HandleWatchStreamFailure(tracker)) \in Tracker
      /\ UpdateState("Unknown") \in Tracker
  BY <1>1, TrackerForma, UpdateStateForma
<1>4. CASE /\ remoto' = Avviato(Fermato("Error"))
           /\ Trasmette(HandleWatchStreamStart(HandleWatchStreamFailure(tracker)))
           /\ storia' = Asserisce(storia,
                FailureAmmesso(tracker) /\ StartAmmesso(HandleWatchStreamFailure(tracker)))
  <2>1. Sano(HandleWatchStreamStart(HandleWatchStreamFailure(tracker)), Avviato(Fermato("Error")))
    BY <1>1, <1>2, <1>3, GuastoSano, PartenzaSana
  <2>2. tracker' = HandleWatchStreamStart(HandleWatchStreamFailure(tracker))
    BY <1>3, <1>4, TrasmetteForma
  <2>3. storia' = Asserisce(storia, TRUE)
    BY <1>1, <1>4, GuastoSano
  <2>4. storia'.asserzioni = (storia.asserzioni /\ TRUE)
    BY <2>3, AsserisceForma
  <2>5. QED
    BY <1>4, <2>1, <2>2, <2>4 DEF TrackerSano, AsserzioniRispettate
<1>5. CASE remoto' = Fermato("Error") /\ Trasmette(UpdateState("Unknown")) /\ UNCHANGED storia
  <2>1. tracker' = UpdateState("Unknown")
    BY <1>3, <1>5, TrasmetteForma
  <2>2. Sano(UpdateState("Unknown"), Fermato("Error"))
    BY <1>2, UpdateStateSano
  <2>3. QED
    BY <1>5, <2>1, <2>2 DEF TrackerSano, AsserzioniRispettate
<1>6. QED
  BY <1>1, <1>4, <1>5, ChiusuraForma

\* Listeners come and go.
LEMMA LavoroSano ==
  ASSUME Tipi, Registri, TrackerSano, AsserzioniRispettate, Lavoro
  PROVE  TrackerSano' /\ AsserzioniRispettate'
<1>1. CASE AddQueryListener
  <2>1. PICK g \in Lettore :
          \/ /\ Listen(get[g].cod)
             /\ storia'.asserzioni =
                  (storia.asserzioni /\ (Avvierebbe(get[g].cod) => StartAmmesso(tracker)))
          \/ UNCHANGED <<remoto, tracker, rete>> /\ storia'.asserzioni = storia.asserzioni
    BY <1>1, AddQueryListenerForma
  <2>2. get[g].cod \in Codice
    BY DEF Tipi, Get
  <2>3. CASE UNCHANGED <<remoto, tracker, rete>> /\ storia'.asserzioni = storia.asserzioni
    BY <2>3 DEF TrackerSano, AsserzioniRispettate
  <2>4. CASE /\ Listen(get[g].cod)
             /\ storia'.asserzioni =
                  (storia.asserzioni /\ (Avvierebbe(get[g].cod) => StartAmmesso(tracker)))
    <3>1. TrackerSano' /\ (Avvierebbe(get[g].cod) => StartAmmesso(tracker))
      BY <2>2, <2>4, ListenSano
    <3>2. QED
      BY <2>4, <3>1 DEF AsserzioniRispettate
  <2>5. QED
    BY <2>1, <2>3, <2>4
<1>2. CASE RemoveQueryListener
  <2>1. PICK g \in Lettore :
          \/ /\ Ascoltatori(get[g].cod) = {g} /\ StopListening(get[g].cod)
             /\ storia'.asserzioni = (storia.asserzioni /\ get[g].cod \in remoto.listen_targets)
          \/ UNCHANGED <<remoto, tracker, rete, storia>>
    BY <1>2, RemoveQueryListenerForma
  <2>2. get[g].cod \in Codice
    BY DEF Tipi, Get
  <2>3. CASE UNCHANGED <<remoto, tracker, rete, storia>>
    BY <2>3 DEF TrackerSano, AsserzioniRispettate
  <2>4. CASE /\ Ascoltatori(get[g].cod) = {g} /\ StopListening(get[g].cod)
             /\ storia'.asserzioni = (storia.asserzioni /\ get[g].cod \in remoto.listen_targets)
    <3>1. TrackerSano'
      BY <2>2, <2>4, StopListeningSano
    <3>2. get[g].cod \in remoto.listen_targets
      BY <2>2, <2>4 DEF Registri
    <3>3. QED
      BY <2>4, <3>1, <3>2 DEF AsserzioniRispettate
  <2>5. QED
    BY <2>1, <2>3, <2>4
<1>3. QED
  BY <1>1, <1>2 DEF Lavoro

\* The timers, and a restart of the network.
LEMMA TimerSano ==
  ASSUME Tipi, TrackerSano, AsserzioniRispettate, Timer \/ RestartNetwork
  PROVE  TrackerSano' /\ AsserzioniRispettate'
<1>1. CASE BackoffElapsed
  <2>1. /\ remoto'.flusso = "Starting" /\ remoto'.inattivo = remoto.inattivo
        /\ remoto.flusso = "Backoff" /\ tracker' = tracker /\ storia' = storia
    BY <1>1, BackoffElapsedForma DEF BackoffElapsed
  <2>2. QED
    BY <2>1 DEF TrackerSano, Sano, Started, AsserzioniRispettate
<1>2. CASE IdleTimeout
  <2>1. /\ remoto' = Fermato("Initial") /\ tracker' = UpdateState("Unknown")
        /\ storia' = Asserisce(storia, remoto.listen_targets = {}) /\ remoto.inattivo
    BY <1>2, IdleTimeoutForma DEF IdleTimeout
  <2>2. remoto.listen_targets = {} /\ ~Fermato("Initial").inattivo
    BY <2>1, FermatoForma DEF TrackerSano, Sano
  <2>3. storia'.asserzioni = (storia.asserzioni /\ TRUE)
    BY <2>1, <2>2, AsserisceForma
  <2>4. Sano(UpdateState("Unknown"), Fermato("Initial"))
    BY <2>2, UpdateStateSano
  <2>5. QED
    BY <2>1, <2>3, <2>4 DEF TrackerSano, AsserzioniRispettate
<1>3. CASE OnlineStateTimeout
  <2>1. PICK t \in Tracker :
          t = [tracker EXCEPT !.stato = "Offline", !.timer = FALSE] /\ Trasmette(t)
    BY <1>3, OnlineStateTimeoutForma
  <2>2. tracker' = t /\ ~t.timer /\ t.stato # "Online"
    BY <2>1, TrasmetteForma DEF Tracker, Tipi
  <2>3. /\ remoto' = remoto /\ tracker.timer
        /\ storia' = Asserisce(storia, tracker.stato = "Unknown")
    BY <1>3 DEF OnlineStateTimeout
  <2>4. tracker.stato = "Unknown"
    BY <2>3 DEF TrackerSano, Sano
  <2>5. storia'.asserzioni = (storia.asserzioni /\ TRUE)
    BY <2>3, <2>4, AsserisceForma
  <2>6. QED
    BY <2>2, <2>3, <2>5 DEF TrackerSano, Sano, AsserzioniRispettate
<1>4. CASE RestartNetwork
  <2>1. storia'.asserzioni = storia.asserzioni
    BY <1>4 DEF RestartNetwork, Tipi, Storia
  <2>2. /\ Fermato("Initial") \in Remoto /\ ~Fermato("Initial").inattivo
        /\ UpdateState("Unknown") \in Tracker
    BY FermatoForma, UpdateStateForma
  <2>3. Sano(UpdateState("Unknown"), Fermato("Initial"))
    BY <2>2, UpdateStateSano
  <2>4. Sano(HandleWatchStreamStart(UpdateState("Unknown")), Avviato(Fermato("Initial")))
    BY <2>2, PartenzaSana DEF UpdateState
  <2>5. TrackerSano'
    BY <1>4, <2>3, <2>4, RipartenzaForma DEF TrackerSano
  <2>6. QED
    BY <2>1, <2>5 DEF AsserzioniRispettate
<1>5. QED
  BY <1>1, <1>2, <1>3, <1>4 DEF Timer

LEMMA TrackerPasso ==
  ASSUME Tipi, Registri, TrackerSano, AsserzioniRispettate, [Next]_vars
  PROVE  TrackerSano' /\ AsserzioniRispettate'
<1>1. CASE UNCHANGED <<remoto, tracker>> /\ storia'.asserzioni = storia.asserzioni
  BY <1>1 DEF TrackerSano, AsserzioniRispettate
<1>2. ASSUME NEW g \in Lettore, NEW c \in Codice, GetDocument(g, c)
      PROVE  TrackerSano' /\ AsserzioniRispettate'
  <2>1. storia'.asserzioni = storia.asserzioni
    BY <1>2 DEF GetDocument, Tipi, Storia
  <2>2. QED
    BY <1>1, <1>2, <2>1 DEF GetDocument
<1>3. ASSUME NEW g \in Lettore, OnEvent(g) PROVE TrackerSano' /\ AsserzioniRispettate'
  <2>1. storia' = storia \/ storia' = Risposto(storia, g)
    BY <1>3, OnEventForma
  <2>2. storia'.asserzioni = storia.asserzioni
    BY <2>1, RispostoForma
  <2>3. QED
    BY <1>1, <1>3, <2>2 DEF OnEvent
<1>4. CASE AddQueryListener \/ RemoveQueryListener
  BY <1>4, LavoroSano DEF Lavoro
<1>5. CASE OnWatchStreamOpen
  <2>1. /\ remoto'.flusso = "Open" /\ remoto'.inattivo = remoto.inattivo
        /\ remoto.flusso = "Starting" /\ tracker' = tracker /\ storia' = storia
    BY <1>5, OnWatchStreamOpenForma DEF OnWatchStreamOpen
  <2>2. QED
    BY <2>1 DEF TrackerSano, Sano, Started, AsserzioniRispettate
<1>6. CASE OnStreamFinish
  BY <1>6, OnStreamFinishSano
<1>7. CASE BackoffElapsed \/ IdleTimeout \/ OnlineStateTimeout \/ RestartNetwork
  BY <1>7, TimerSano DEF Timer
<1>8. CASE TargetChange
  <2>1. tracker' = UpdateState("Online") /\ storia' = storia
    BY <1>8 DEF TargetChange, Arriva
  <2>2. QED
    BY <1>8, <2>1, TargetChangeForma, ArrivaSano DEF AsserzioniRispettate
<1>9. CASE RaiseWatchSnapshot
  <2>1. tracker' = UpdateState("Online") /\ storia' = storia
    BY <1>9 DEF RaiseWatchSnapshot, Arriva
  <2>2. QED
    BY <1>9, <2>1, RaiseWatchSnapshotForma, ArrivaSano DEF AsserzioniRispettate
<1>10. CASE ProcessTargetError
  <2>1. tracker' = UpdateState("Online") /\ storia' = storia
    BY <1>10 DEF ProcessTargetError, Arriva
  <2>2. /\ remoto'.flusso = remoto.flusso /\ remoto'.inattivo = remoto.inattivo
        /\ remoto'.listen_targets \subseteq remoto.listen_targets
    BY <1>10, ProcessTargetErrorForma
  <2>3. QED
    BY <2>1, <2>2, ArrivaSano DEF AsserzioniRispettate
<1>11. CASE ServerRisponde \/ \E c \in Codice : ServerInvia(c) \/ Cambia(c)
  <2>1. storia'.asserzioni = storia.asserzioni
    BY <1>11 DEF ServerRisponde, ServerInvia, Cambia, Tipi, Storia
  <2>2. UNCHANGED <<remoto, tracker>>
    BY <1>11 DEF ServerRisponde, ServerInvia, Cambia
  <2>3. QED
    BY <1>1, <2>1, <2>2
<1>12. CASE UNCHANGED vars
  BY <1>1, <1>12 DEF vars
<1>13. QED
  BY <1>2, <1>3, <1>4, <1>5, <1>6, <1>7, <1>8, <1>9, <1>10, <1>11, <1>12 DEF Next

(***************************************************************************)
(* The channel: what is asked, and what is confirmed                       *)
(***************************************************************************)
LEMMA SuFinito ==
  ASSUME NEW X, NEW m \in Seq(X), NEW c, NEW T
  PROVE  /\ Su(m, c, T) \subseteq 1..Len(m) /\ IsFiniteSet(Su(m, c, T))
         /\ Cardinality(Su(m, c, T)) \in Nat
<1>1. Su(m, c, T) \subseteq 1..Len(m) /\ Len(m) \in Nat
  BY DEF Su
<1>2. IsFiniteSet(1..Len(m))
  BY <1>1, FS_Interval
<1>3. IsFiniteSet(Su(m, c, T))
  BY <1>1, <1>2, FS_Subset
<1>4. QED
  BY <1>1, <1>3, FS_CardinalityType

LEMMA SuVuoto ==
  ASSUME NEW c, NEW T
  PROVE  Su(<<>>, c, T) = {} /\ Cardinality(Su(<<>>, c, T)) = 0
<1>1. Su(<<>>, c, T) = {}
  BY DEF Su
<1>2. QED
  BY <1>1, FS_EmptySet

\* One more message counts if it is about c and of a kind in T.
LEMMA SuAggiunto ==
  ASSUME NEW X, NEW m \in Seq(X), NEW e \in X, NEW c, NEW T
  PROVE  /\ Su(Append(m, e), c, T) =
              Su(m, c, T) \cup (IF e[1] \in T /\ e[2] = c THEN {Len(m) + 1} ELSE {})
         /\ Cardinality(Su(Append(m, e), c, T)) =
              Cardinality(Su(m, c, T)) + (IF e[1] \in T /\ e[2] = c THEN 1 ELSE 0)
<1> DEFINE n == Append(m, e)
           S == Su(m, c, T)
<1>1. /\ Len(m) \in Nat /\ DOMAIN n = 1..(Len(m) + 1) /\ DOMAIN m = 1..Len(m)
      /\ \A i \in 1..Len(m) : n[i] = m[i]
      /\ n[Len(m) + 1] = e
  BY AppendProperties
<1>2. Su(n, c, T) = S \cup (IF e[1] \in T /\ e[2] = c THEN {Len(m) + 1} ELSE {})
  <2> HIDE DEF n
  <2>1. \A i : i \in DOMAIN n <=> i \in DOMAIN m \/ i = Len(m) + 1
    BY <1>1
  <2>2. \A i : i \in Su(n, c, T) <=> i \in DOMAIN n /\ n[i][1] \in T /\ n[i][2] = c
    BY DEF Su
  <2>3. \A i : i \in S <=> i \in DOMAIN m /\ m[i][1] \in T /\ m[i][2] = c
    BY DEF Su
  <2>4. \A i \in DOMAIN m : n[i] = m[i]
    BY <1>1
  <2> HIDE DEF S
  <2>5. QED
    BY <1>1, <2>1, <2>2, <2>3, <2>4
<1>3. IsFiniteSet(S) /\ S \subseteq 1..Len(m) /\ Cardinality(S) \in Nat
  BY SuFinito
<1>4. Len(m) + 1 \notin S
  BY <1>1, <1>3
<1> HIDE DEF n, S
<1>5. Cardinality(S \cup {Len(m) + 1}) = Cardinality(S) + 1
  BY <1>3, <1>4, FS_AddElement
<1>6. Cardinality(Su(n, c, T)) = Cardinality(S) + (IF e[1] \in T /\ e[2] = c THEN 1 ELSE 0)
  <2>1. CASE e[1] \in T /\ e[2] = c
    <3>1. Su(n, c, T) = S \cup {Len(m) + 1}
      BY <1>2, <2>1
    <3>2. QED
      BY <1>5, <2>1, <3>1
  <2>2. CASE ~(e[1] \in T /\ e[2] = c)
    <3>1. Su(n, c, T) = S
      BY <1>2, <2>2
    <3>2. Cardinality(Su(n, c, T)) = Cardinality(S)
      BY <3>1
    <3>3. QED
      BY <1>3, <2>2, <3>2
  <2>3. QED
    BY <2>1, <2>2
<1>7. QED
  BY <1>2, <1>6 DEF n, S

\* The first message goes, the others move up.
LEMMA SuTolto ==
  ASSUME NEW X, NEW m \in Seq(X), m # <<>>, NEW c, NEW T
  PROVE  /\ \A i : i \in Su(Tail(m), c, T) <=> i \in Nat \ {0} /\ i + 1 \in Su(m, c, T)
         /\ 1 \in Su(m, c, T) <=> Head(m)[1] \in T /\ Head(m)[2] = c
         /\ Cardinality(Su(m, c, T)) = Cardinality(Su(Tail(m), c, T)) +
              (IF Head(m)[1] \in T /\ Head(m)[2] = c THEN 1 ELSE 0)
<1> DEFINE t == Tail(m)
           S == Su(m, c, T)
           U == Su(t, c, T)
<1>1. /\ Len(m) \in Nat \ {0} /\ t \in Seq(X) /\ DOMAIN t = 1..(Len(m) - 1)
      /\ DOMAIN m = 1..Len(m)
      /\ \A i \in 1..(Len(m) - 1) : t[i] = m[i + 1]
      /\ Head(m) = m[1]
  BY HeadTailProperties, EmptySeq
<1>2. \A i : i \in U <=> i \in DOMAIN t /\ t[i][1] \in T /\ t[i][2] = c
  BY DEF Su
<1>3. \A i : i \in S <=> i \in DOMAIN m /\ m[i][1] \in T /\ m[i][2] = c
  BY DEF Su
<1> HIDE DEF t, S, U
<1>4. \A i : i \in U <=> i \in Nat \ {0} /\ i + 1 \in S
  <2>1. SUFFICES ASSUME NEW i PROVE i \in U <=> i \in Nat \ {0} /\ i + 1 \in S
    OBVIOUS
  <2>2. ASSUME i \in 1..(Len(m) - 1) PROVE i \in U <=> i \in Nat \ {0} /\ i + 1 \in S
    <3>1. i + 1 \in 1..Len(m) /\ i \in Nat \ {0} /\ t[i] = m[i + 1]
      BY <1>1, <2>2
    <3>2. QED
      BY <1>1, <1>2, <1>3, <2>2, <3>1
  <2>3. ASSUME i \notin 1..(Len(m) - 1) PROVE i \in U <=> i \in Nat \ {0} /\ i + 1 \in S
    <3>1. i \notin U
      BY <1>1, <1>2, <2>3
    <3>2. ~(i \in Nat \ {0} /\ i + 1 \in 1..Len(m))
      BY <1>1, <2>3
    <3>3. QED
      BY <1>1, <1>3, <3>1, <3>2
  <2>4. QED
    BY <2>2, <2>3
<1>5. 1 \in S <=> Head(m)[1] \in T /\ Head(m)[2] = c
  BY <1>1, <1>3
<1>6. /\ S \subseteq 1..Len(m) /\ IsFiniteSet(S) /\ Cardinality(S) \in Nat
      /\ IsFiniteSet(U) /\ Cardinality(U) \in Nat
  BY <1>1, SuFinito DEF S, U
<1>7. Cardinality(S \ {1}) = Cardinality(U)
  <2> DEFINE f == [i \in S \ {1} |-> i - 1]
  <2>1. \A i \in S \ {1} : i \in Nat /\ i > 1 /\ i - 1 \in Nat \ {0} /\ (i - 1) + 1 = i
    BY <1>6
  <2>2. \A i \in S \ {1} : i - 1 \in U
    BY <1>4, <2>1
  <2>3. f \in [S \ {1} -> U]
    BY <2>2
  <2>4. \A i, j \in S \ {1} : f[i] = f[j] => i = j
    BY <2>1
  <2>5. \A j \in U : \E i \in S \ {1} : f[i] = j
    <3>1. SUFFICES ASSUME NEW j \in U PROVE \E i \in S \ {1} : f[i] = j
      OBVIOUS
    <3>2. j \in Nat \ {0} /\ j + 1 \in S
      BY <1>4
    <3>3. j + 1 # 1 /\ (j + 1) - 1 = j
      BY <3>2
    <3>4. f[j + 1] = j
      BY <3>2, <3>3
    <3>5. QED
      BY <3>2, <3>3, <3>4
  <2> HIDE DEF f
  <2>6. f \in Bijection(S \ {1}, U)
    BY <2>3, <2>4, <2>5 DEF Bijection, Injection, Surjection, IsInjective
  <2>7. ExistsBijection(S \ {1}, U)
    BY <2>6 DEF ExistsBijection
  <2>8. IsFiniteSet(S \ {1})
    BY <1>6, FS_Subset
  <2>9. QED
    BY <2>7, <2>8, FS_Bijection
<1>8. Cardinality(S) = Cardinality(U) + (IF 1 \in S THEN 1 ELSE 0)
  <2>1. CASE 1 \in S
    <3>1. Cardinality(S \ {1}) = Cardinality(S) - 1
      BY <1>6, <2>1, FS_RemoveElement
    <3>2. QED
      BY <1>6, <1>7, <2>1, <3>1
  <2>2. CASE 1 \notin S
    <3>1. S \ {1} = S
      BY <2>2
    <3>2. Cardinality(S \ {1}) = Cardinality(S)
      BY <3>1
    <3>3. QED
      BY <1>6, <1>7, <2>2, <3>2
  <2>3. QED
    BY <2>1, <2>2
<1>9. QED
  BY <1>4, <1>5, <1>8 DEF t, S, U

\* A request goes out.
LEMMA ChiestaConta ==
  ASSUME NEW q \in Seq(Domande \X Codice), NEW p \in Seq(Messaggio),
         NEW o \in Domande, NEW c \in Codice, NEW d \in Codice
  PROVE  Attese(Append(q, <<o, c>>), p, d) = Attese(q, p, d) + (IF d = c THEN 1 ELSE 0)
<1> DEFINE e == <<o, c>>
<1>1. e \in Domande \X Codice /\ e[1] = o /\ e[2] = c
  OBVIOUS
<1> HIDE DEF e
<1>2. /\ Cardinality(Su(q, d, Domande)) \in Nat /\ Cardinality(Su(p, d, Conferme)) \in Nat
  BY SuFinito
<1>3. Cardinality(Su(Append(q, e), d, Domande)) =
        Cardinality(Su(q, d, Domande)) + (IF e[1] \in Domande /\ e[2] = d THEN 1 ELSE 0)
  BY <1>1, SuAggiunto
<1>4. Attese(Append(q, e), p, d) = Attese(q, p, d) + (IF d = c THEN 1 ELSE 0)
  BY <1>1, <1>2, <1>3 DEF Attese
<1>5. QED
  BY <1>4 DEF e

LEMMA ChiestaDecide ==
  ASSUME NEW q \in Seq(Domande \X Codice), NEW w, NEW b \in BOOLEAN, NEW y \in BOOLEAN,
         NEW o \in Domande, NEW c \in Codice, NEW d \in Codice,
         d = c => y = (o = "watch"), d # c => y = b /\ Decide(q, w, b, d)
  PROVE  Decide(Append(q, <<o, c>>), w, y, d)
<1> DEFINE e == <<o, c>>
           n == Append(q, e)
           S == Su(q, d, Domande)
           U == Su(n, d, Domande)
<1>1. e \in Domande \X Codice /\ e[1] = o /\ e[2] = c
  OBVIOUS
<1> HIDE DEF e
<1>2. U = S \cup (IF e[1] \in Domande /\ e[2] = d THEN {Len(q) + 1} ELSE {})
  BY <1>1, SuAggiunto
<1>3. S \subseteq 1..Len(q) /\ Len(q) \in Nat
  BY SuFinito
<1>4. (\A i \in 1..Len(q) : n[i] = q[i]) /\ n[Len(q) + 1] = e
  BY <1>1, AppendProperties
<1> HIDE DEF n, S, U
<1>5. CASE d = c
  <2>1. Len(q) + 1 \in U
    BY <1>1, <1>2, <1>5
  <2>2. ASSUME NEW i \in U, \A j \in U : j <= i PROVE y = (n[i][1] = "watch")
    <3>1. Len(q) + 1 <= i
      BY <2>1, <2>2
    <3>2. i \in 1..Len(q) \/ i = Len(q) + 1
      BY <1>2, <1>3
    <3>3. i = Len(q) + 1
      BY <1>3, <3>1, <3>2
    <3>4. n[i][1] = o
      BY <1>1, <1>4, <3>3
    <3>5. QED
      BY <1>5, <3>4
  <2>3. QED
    BY <2>1, <2>2 DEF Decide, U, n, e
<1>6. CASE d # c
  <2>1. U = S
    BY <1>1, <1>2, <1>6
  <2>2. \A i \in S : n[i] = q[i]
    BY <1>3, <1>4
  <2>3. Decide(q, w, y, d)
    BY <1>6
  <2>4. S = {} => y = (w # "no")
    BY <2>3 DEF Decide, S
  <2>5. \A i \in S : (\A j \in S : j <= i) => y = (q[i][1] = "watch")
    BY <2>3 DEF Decide, S
  <2>6. \A i \in U : (\A j \in U : j <= i) => y = (n[i][1] = "watch")
    BY <2>1, <2>2, <2>5
  <2>7. QED
    BY <2>1, <2>4, <2>6 DEF Decide, U, n, e
<1>7. QED
  BY <1>5, <1>6

\* A message arrives.
LEMMA ArrivataConta ==
  ASSUME NEW q \in Seq(Domande \X Codice), NEW p \in Seq(Messaggio), p # <<>>, NEW d \in Codice
  PROVE  Attese(q, Tail(p), d) =
           Attese(q, p, d) - (IF Head(p)[1] \in Conferme /\ Head(p)[2] = d THEN 1 ELSE 0)
<1>1. Tail(p) \in Seq(Messaggio)
  BY HeadTailProperties
<1>2. /\ Cardinality(Su(q, d, Domande)) \in Nat /\ Cardinality(Su(Tail(p), d, Conferme)) \in Nat
  BY <1>1, SuFinito
<1>3. Cardinality(Su(p, d, Conferme)) = Cardinality(Su(Tail(p), d, Conferme)) +
        (IF Head(p)[1] \in Conferme /\ Head(p)[2] = d THEN 1 ELSE 0)
  BY SuTolto
<1>4. QED
  BY <1>2, <1>3 DEF Attese

\* The server sends something else than a confirmation.
LEMMA MandataConta ==
  ASSUME NEW q \in Seq(Domande \X Codice), NEW p \in Seq(Messaggio), NEW e \in Messaggio,
         e[1] \notin Conferme, NEW d \in Codice
  PROVE  Attese(q, Append(p, e), d) = Attese(q, p, d)
<1>1. /\ Cardinality(Su(q, d, Domande)) \in Nat /\ Cardinality(Su(p, d, Conferme)) \in Nat
  BY SuFinito
<1>2. Cardinality(Su(Append(p, e), d, Conferme)) = Cardinality(Su(p, d, Conferme)) + 0
  BY SuAggiunto
<1>3. QED
  BY <1>1, <1>2 DEF Attese

\* The server takes a request and confirms it.
LEMMA PresaConta ==
  ASSUME NEW q \in Seq(Domande \X Codice), q # <<>>, NEW p \in Seq(Messaggio),
         NEW k \in Conferme, NEW c \in Codice, Head(q)[2] = c, NEW d \in Codice
  PROVE  Attese(Tail(q), Append(p, <<k, c>>), d) = Attese(q, p, d)
<1> DEFINE e == <<k, c>>
<1>1. e \in Messaggio /\ e[1] \in Conferme /\ e[2] = c
  BY DEF Messaggio, Conferme
<1> HIDE DEF e
<1>2. Tail(q) \in Seq(Domande \X Codice) /\ Head(q) \in Domande \X Codice
  BY HeadTailProperties
<1>3. /\ Cardinality(Su(Tail(q), d, Domande)) \in Nat /\ Cardinality(Su(p, d, Conferme)) \in Nat
  BY <1>2, SuFinito
<1>4. Cardinality(Su(Append(p, e), d, Conferme)) =
        Cardinality(Su(p, d, Conferme)) + (IF e[1] \in Conferme /\ e[2] = d THEN 1 ELSE 0)
  BY <1>1, SuAggiunto
<1>5. Cardinality(Su(q, d, Domande)) = Cardinality(Su(Tail(q), d, Domande)) +
        (IF Head(q)[1] \in Domande /\ Head(q)[2] = d THEN 1 ELSE 0)
  BY SuTolto
<1>6. Head(q)[1] \in Domande
  BY <1>2
<1>7. Attese(Tail(q), Append(p, e), d) = Attese(q, p, d)
  BY <1>1, <1>3, <1>4, <1>5, <1>6 DEF Attese
<1>8. QED
  BY <1>7 DEF e

LEMMA PresaDecide ==
  ASSUME NEW q \in Seq(Domande \X Codice), q # <<>>, NEW w, NEW z, NEW b \in BOOLEAN,
         NEW d \in Codice, Decide(q, w, b, d),
         Head(q)[2] = d => (z # "no") = (Head(q)[1] = "watch"), Head(q)[2] # d => z = w
  PROVE  Decide(Tail(q), z, b, d)
<1> DEFINE t == Tail(q)
           S == Su(q, d, Domande)
           U == Su(t, d, Domande)
<1>1. Head(q) \in Domande \X Codice /\ Head(q) = q[1]
  BY HeadTailProperties
<1>2. /\ \A i : i \in U <=> i \in Nat \ {0} /\ i + 1 \in S
      /\ \A i \in U : t[i] = q[i + 1]
      /\ 1 \in S <=> Head(q)[2] = d
  <2>1. \A i : i \in U <=> i \in Nat \ {0} /\ i + 1 \in S
    BY SuTolto
  <2>2. 1 \in S <=> Head(q)[1] \in Domande /\ Head(q)[2] = d
    BY SuTolto
  <2>3. U \subseteq DOMAIN t
    BY DEF Su
  <2>4. DOMAIN t = 1..(Len(q) - 1) /\ \A i \in 1..(Len(q) - 1) : t[i] = q[i + 1]
    BY HeadTailProperties
  <2>5. Head(q)[1] \in Domande
    BY <1>1
  <2> HIDE DEF t, S, U
  <2>6. QED
    BY <2>1, <2>2, <2>3, <2>4, <2>5
<1>3. S \subseteq 1..Len(q) /\ Len(q) \in Nat
  BY SuFinito
<1>4. /\ S = {} => b = (w # "no")
      /\ \A i \in S : (\A j \in S : j <= i) => b = (q[i][1] = "watch")
  BY DEF Decide
<1> HIDE DEF t, S, U
<1>5. \A j \in S : j = 1 \/ (j - 1 \in U /\ (j - 1) + 1 = j)
  <2>1. \A j \in S : j = 1 \/ (j - 1 \in Nat \ {0} /\ (j - 1) + 1 = j)
    BY <1>3
  <2>2. QED
    BY <1>2, <2>1
<1>6. U = {} => b = (z # "no")
  <2>1. SUFFICES ASSUME U = {} PROVE b = (z # "no")
    OBVIOUS
  <2>2. S \subseteq {1}
    BY <1>5, <2>1
  <2>3. CASE 1 \in S
    <3>1. \A j \in S : j <= 1
      BY <2>2
    <3>2. b = (q[1][1] = "watch")
      BY <1>4, <2>3, <3>1
    <3>3. (z # "no") = (q[1][1] = "watch")
      BY <1>1, <1>2, <2>3
    <3>4. QED
      BY <3>2, <3>3
  <2>4. CASE 1 \notin S
    <3>1. S = {} /\ z = w
      BY <1>2, <2>2, <2>4
    <3>2. QED
      BY <1>4, <3>1
  <2>5. QED
    BY <2>3, <2>4
<1>7. ASSUME NEW i \in U, \A j \in U : j <= i PROVE b = (t[i][1] = "watch")
  <2>1. i \in Nat \ {0} /\ i + 1 \in S /\ t[i] = q[i + 1]
    BY <1>2
  <2>2. \A j \in S : j <= i + 1
    BY <1>5, <1>7, <2>1, <1>3
  <2>3. QED
    BY <1>4, <2>1, <2>2
<1>8. QED
  BY <1>6, <1>7 DEF Decide, U, t

\* The watches restored on a new stream: one each.
LEMMA Riprese ==
  ASSUME NEW L \in SUBSET Codice, NEW q \in SetToSeqs({<<"watch", c>> : c \in L}),
         NEW d \in Codice
  PROVE  /\ Attese(q, <<>>, d) = IF d \in L THEN 1 ELSE 0
         /\ Decide(q, "no", d \in L, d)
<1> DEFINE S == {<<"watch", c>> : c \in L}
           D == 1..Cardinality(S)
           U == Su(q, d, Domande)
<1>1. IsFiniteSet(S) /\ Cardinality(S) \in Nat
  <2>1. IsFiniteSet({"watch"} \X Codice)
    BY FS_Singleton, FS_Product, LettureAssumption
  <2>2. S \in SUBSET ({"watch"} \X Codice)
    OBVIOUS
  <2>3. IsFiniteSet(S)
    BY <2>1, <2>2, FS_Subset
  <2>4. QED
    BY <2>3, FS_CardinalityType
<1>2. q \in [D -> S] /\ \A i, j \in D : i # j => q[i] # q[j]
  BY DEF SetToSeqs
<1>3. \A c \in L : \E i \in D : q[i] = <<"watch", c>>
  <2> HIDE DEF S
  <2>1. q \in Injection(D, S)
    BY <1>2 DEF Injection, IsInjective
  <2>2. IsFiniteSet(D) /\ Cardinality(D) = Cardinality(S)
    BY <1>1, FS_Interval
  <2>3. q \in Surjection(D, S)
    BY <1>1, <2>1, <2>2, FS_Injection
  <2>4. \A x \in S : \E i \in D : q[i] = x
    BY <2>3 DEF Surjection
  <2>5. QED
    BY <2>4 DEF S
<1>4. \A i : i \in U <=> i \in D /\ q[i] = <<"watch", d>>
  <2>1. DOMAIN q = D /\ \A i \in D : \E c \in L : q[i] = <<"watch", c>>
    BY <1>2
  <2>2. \A i \in D : q[i][1] \in Domande /\ (q[i][2] = d <=> q[i] = <<"watch", d>>)
    BY <2>1 DEF Domande
  <2> HIDE DEF D, S
  <2>3. QED
    BY <2>1, <2>2 DEF Su
<1>5. \A i \in D : q[i] = <<"watch", d>> => d \in L
  BY <1>2
<1>6. Cardinality(Su(<<>>, d, Conferme)) = 0
  BY SuVuoto
<1>7. CASE d \in L
  <2>1. PICK i \in D : q[i] = <<"watch", d>>
    BY <1>3, <1>7
  <2> HIDE DEF S, D, U
  <2>2. U = {i}
    BY <1>2, <1>4, <2>1
  <2>3. Cardinality(U) = 1
    BY <2>2, FS_Singleton
  <2>4. Attese(q, <<>>, d) = 1
    BY <1>6, <2>3 DEF Attese, U
  <2>5. U # {} /\ \A j \in U : q[j][1] = "watch"
    BY <2>1, <2>2
  <2>6. Decide(q, "no", d \in L, d)
    BY <1>7, <2>5 DEF Decide, U
  <2>7. QED
    BY <1>7, <2>4, <2>6
<1>8. CASE d \notin L
  <2> HIDE DEF S, D, U
  <2>1. U = {}
    BY <1>4, <1>5, <1>8
  <2>2. Cardinality(U) = 0
    BY <2>1, FS_EmptySet
  <2>3. Attese(q, <<>>, d) = 0
    BY <1>6, <2>2 DEF Attese, U
  <2>4. Decide(q, "no", d \in L, d)
    BY <1>8, <2>1 DEF Decide, U
  <2>5. QED
    BY <1>8, <2>3, <2>4
<1>9. QED
  BY <1>7, <1>8

\* Only the server's refusals are written down as such.
LEMMA RifiutatoPasso ==
  ASSUME Tipi, [Next]_vars, ~ServerRisponde
  PROVE  storia'.rifiutato = storia.rifiutato
<1>0. storia \in Storia
  BY DEF Tipi
<1>1. \A b : Asserisce(storia, b).rifiutato = storia.rifiutato
  BY <1>0 DEF Asserisce, Storia
<1>2. CASE UNCHANGED storia
  BY <1>2
<1>3. CASE \E b : storia' = Asserisce(storia, b)
  BY <1>1, <1>3
<1>4. ASSUME NEW g \in Lettore, NEW c \in Codice, GetDocument(g, c)
      PROVE  storia'.rifiutato = storia.rifiutato
  BY <1>0, <1>4 DEF GetDocument, Storia
<1>5. ASSUME NEW g \in Lettore, OnEvent(g)
      PROVE  storia'.rifiutato = storia.rifiutato
  BY <1>0, <1>5 DEF OnEvent, Risposto, Storia
<1>6. CASE AddQueryListener
  <2>1. \E v, b : \/ storia' = [Asserisce(storia, b) EXCEPT !.visti[Head(lavori)[2]] = v]
                  \/ storia' = [storia EXCEPT !.visti[Head(lavori)[2]] = v]
    BY <1>6 DEF AddQueryListener
  <2>2. \A b : Asserisce(storia, b) = [storia EXCEPT !.asserzioni = storia.asserzioni /\ b]
    BY <1>0 DEF Asserisce, Storia
  <2>3. QED
    BY <1>0, <2>1, <2>2 DEF Storia
<1>7. CASE RemoveQueryListener
  BY <1>2, <1>3, <1>7 DEF RemoveQueryListener
<1>8. CASE OnStreamFinish
  BY <1>2, <1>3, <1>8 DEF OnStreamFinish, OnWatchStreamClose
<1>9. CASE IdleTimeout \/ OnlineStateTimeout
  BY <1>3, <1>9 DEF IdleTimeout, OnlineStateTimeout
<1>10. CASE RestartNetwork
  BY <1>0, <1>10 DEF RestartNetwork, Storia
<1>11. CASE \/ OnWatchStreamOpen \/ BackoffElapsed \/ TargetChange \/ RaiseWatchSnapshot
            \/ ProcessTargetError \/ UNCHANGED vars
  BY <1>2, <1>11 DEF OnWatchStreamOpen, BackoffElapsed, TargetChange, RaiseWatchSnapshot,
                     ProcessTargetError, vars
<1>12. ASSUME NEW c \in Codice, ServerInvia(c) PROVE storia'.rifiutato = storia.rifiutato
  BY <1>2, <1>12 DEF ServerInvia
<1>13. ASSUME NEW c \in Codice, Cambia(c) PROVE storia'.rifiutato = storia.rifiutato
  BY <1>0, <1>13 DEF Cambia, Storia
<1>14. QED
  BY <1>4, <1>5, <1>6, <1>7, <1>8, <1>9, <1>10, <1>11, <1>12, <1>13 DEF Next

\* The stream stops, or starts: it is a new one.
LEMMA CanaleSpento ==
  ASSUME remoto'.flusso # "Open", rete' = ReteNuova, Tipi,
         \A c \in Codice : remoto'.outstanding[c] = 0
  PROVE  CanaleSano'
<1>1. /\ rete'.richieste = <<>> /\ rete'.risposte = <<>>
      /\ \A c \in Codice : rete'.guardati[c] = "no"
  BY DEF Tipi, Rete, ReteNuova
<1>2. QED
  BY <1>1 DEF CanaleSano, CanaleVuoto, SenzaErrori

\* Nothing happens on the stream.
LEMMA CanaleFermo ==
  ASSUME CanaleSano, storia'.rifiutato = storia.rifiutato, rete' = rete,
         \/ remoto.flusso # "Open" /\ remoto'.flusso # "Open"
         \/ remoto'.flusso = remoto.flusso /\ remoto'.listen_targets = remoto.listen_targets,
         \/ remoto'.outstanding = remoto.outstanding
         \/ remoto'.flusso # "Open" /\ \A c \in Codice : remoto'.outstanding[c] = 0
  PROVE  CanaleSano'
<1>1. SenzaErrori(rete') \/ storia'.rifiutato
  BY DEF CanaleSano
<1>2. CASE remoto.flusso # "Open" /\ remoto'.flusso # "Open"
  <2>1. CanaleVuoto(remoto, rete)
    BY <1>2 DEF CanaleSano
  <2>2. CanaleVuoto(remoto', rete')
    BY <2>1 DEF CanaleVuoto
  <2>3. QED
    BY <1>1, <1>2, <2>2 DEF CanaleSano
<1>3. CASE /\ remoto'.flusso = remoto.flusso /\ remoto'.listen_targets = remoto.listen_targets
           /\ remoto.flusso = "Open"
  <2>1. remoto'.outstanding = remoto.outstanding
    BY <1>3
  <2>2. CanaleGiusto(remoto, rete) => CanaleGiusto(remoto', rete')
    BY <1>3, <2>1 DEF CanaleGiusto
  <2>3. QED
    BY <1>1, <1>3, <2>2 DEF CanaleSano
<1>4. QED
  BY <1>2, <1>3

LEMMA CanaleRichiesta ==
  ASSUME Tipi, CanaleSano, storia'.rifiutato = storia.rifiutato, remoto.flusso = "Open",
         NEW o \in Domande, NEW c \in Codice, SendRequest(o, c)
  PROVE  CanaleSano'
<1>1. remoto \in Remoto /\ rete \in Rete
  BY DEF Tipi
<1>2. /\ rete'.richieste = Append(rete.richieste, <<o, c>>)
      /\ rete'.risposte = rete.risposte /\ rete'.guardati = rete.guardati
  BY <1>1 DEF SendRequest, Rete
<1>3. /\ remoto'.flusso = "Open"
      /\ remoto'.listen_targets = IF o = "watch" THEN remoto.listen_targets \cup {c}
                                  ELSE remoto.listen_targets \ {c}
  BY SendRequestForma DEF Domande
<1>4. \A d \in Codice :
        remoto'.outstanding[d] = remoto.outstanding[d] + (IF d = c THEN 1 ELSE 0)
  <2>1. remoto'.outstanding = [remoto.outstanding EXCEPT ![c] = remoto.outstanding[c] + 1]
    BY <1>1 DEF SendRequest, Remoto
  <2>2. remoto.outstanding \in [Codice -> Int]
    BY <1>1 DEF Remoto
  <2>3. QED
    BY <2>1, <2>2
<1>5. /\ rete.richieste \in Seq(Domande \X Codice) /\ rete.risposte \in Seq(Messaggio)
  BY <1>1 DEF Rete, Domande, Messaggio
<1>6. ASSUME CanaleGiusto(remoto, rete) PROVE CanaleGiusto(remoto', rete')
  <2>1. SUFFICES ASSUME NEW d \in Codice
                 PROVE  /\ remoto'.outstanding[d] = Attese(rete'.richieste, rete'.risposte, d)
                        /\ Decide(rete'.richieste, rete'.guardati[d], d \in remoto'.listen_targets, d)
    BY DEF CanaleGiusto
  <2>2. /\ remoto.outstanding[d] = Attese(rete.richieste, rete.risposte, d)
        /\ Decide(rete.richieste, rete.guardati[d], d \in remoto.listen_targets, d)
    BY <1>6 DEF CanaleGiusto
  <2>3. Attese(Append(rete.richieste, <<o, c>>), rete.risposte, d) =
          Attese(rete.richieste, rete.risposte, d) + (IF d = c THEN 1 ELSE 0)
    <3>1. \A q \in Seq(Domande \X Codice), p \in Seq(Messaggio) :
            Attese(Append(q, <<o, c>>), p, d) = Attese(q, p, d) + (IF d = c THEN 1 ELSE 0)
      BY ChiestaConta
    <3>2. QED
      BY <1>5, <3>1
  <2>4. remoto'.outstanding[d] = Attese(rete'.richieste, rete'.risposte, d)
    BY <1>2, <1>4, <2>2, <2>3
  <2>5. /\ d = c => (d \in remoto'.listen_targets) = (o = "watch")
        /\ d # c => (d \in remoto'.listen_targets) = (d \in remoto.listen_targets)
    BY <1>3 DEF Domande
  <2> DEFINE b == d \in remoto.listen_targets
             y == d \in remoto'.listen_targets
  <2>6. b \in BOOLEAN /\ y \in BOOLEAN /\ Decide(rete.richieste, rete.guardati[d], b, d)
        /\ (d = c => y = (o = "watch")) /\ (d # c => y = b)
    BY <2>2, <2>5
  <2> HIDE DEF b, y
  <2>7. Decide(Append(rete.richieste, <<o, c>>), rete.guardati[d], y, d)
    BY <1>5, <2>6, ChiestaDecide
  <2>8. QED
    BY <1>2, <2>4, <2>7 DEF y
<1>7. ~storia.rifiutato => SenzaErrori(rete')
  BY <1>2 DEF CanaleSano, SenzaErrori
<1>8. QED
  BY <1>3, <1>6, <1>7 DEF CanaleSano

LEMMA CanaleRipreso ==
  ASSUME Tipi, CanaleSano, OnWatchStreamOpen
  PROVE  CanaleSano'
<1>1. remoto \in Remoto /\ rete \in Rete
  BY DEF Tipi
<1>2. CanaleVuoto(remoto, rete)
  BY DEF OnWatchStreamOpen, CanaleSano
<1> DEFINE L == remoto.listen_targets
<1>3. PICK q \in SetToSeqs({<<"watch", c>> : c \in L}) : rete' = [rete EXCEPT !.richieste = q]
  BY DEF OnWatchStreamOpen
<1>4. /\ rete'.richieste = q /\ rete'.risposte = <<>>
      /\ \A c \in Codice : rete'.guardati[c] = "no"
  BY <1>1, <1>2, <1>3 DEF Rete, CanaleVuoto
<1>5. /\ remoto'.flusso = "Open" /\ remoto'.listen_targets = L
      /\ \A c \in Codice : remoto'.outstanding[c] = IF c \in L THEN 1 ELSE 0
  <2> DEFINE u == [c \in Codice |-> IF c \in L THEN 1 ELSE 0]
  <2>1. remoto' = [remoto EXCEPT !.flusso = "Open", !.outstanding = u]
    BY DEF OnWatchStreamOpen
  <2>2. \A c \in Codice : u[c] = IF c \in L THEN 1 ELSE 0
    OBVIOUS
  <2> HIDE DEF u
  <2>3. QED
    BY <1>1, <2>1, <2>2 DEF Remoto
<1>6. L \in SUBSET Codice
  BY <1>1 DEF Remoto
<1> HIDE DEF L
<1>7. \A d \in Codice : /\ Attese(q, <<>>, d) = IF d \in L THEN 1 ELSE 0
                        /\ Decide(q, "no", d \in L, d)
  BY <1>6, Riprese
<1>8. CanaleGiusto(remoto', rete')
  BY <1>4, <1>5, <1>7 DEF CanaleGiusto
<1>9. SenzaErrori(rete')
  BY <1>4 DEF SenzaErrori
<1>10. QED
  BY <1>5, <1>8, <1>9 DEF CanaleSano

\* A message is taken off an open stream.
LEMMA CanaleArriva ==
  ASSUME Tipi, CanaleSano, storia'.rifiutato = storia.rifiutato, NEW A, Arriva(A),
         remoto'.flusso = remoto.flusso,
         storia.rifiutato \/
           /\ remoto'.listen_targets = remoto.listen_targets
           /\ \A d \in Codice :
                remoto'.outstanding[d] = remoto.outstanding[d] -
                  (IF Head(rete.risposte)[1] \in Conferme /\ Head(rete.risposte)[2] = d
                   THEN 1 ELSE 0)
  PROVE  CanaleSano'
<1>1. rete \in Rete
  BY DEF Tipi
<1>2. /\ rete'.richieste = rete.richieste /\ rete'.guardati = rete.guardati
      /\ rete'.risposte = Tail(rete.risposte) /\ rete.risposte # <<>>
  BY <1>1 DEF Arriva, Rete
<1>3. remoto.flusso = "Open"
  BY <1>2 DEF CanaleSano, CanaleVuoto
<1>4. /\ rete.richieste \in Seq(Domande \X Codice) /\ rete.risposte \in Seq(Messaggio)
  BY <1>1 DEF Rete, Domande, Messaggio
<1>5. ASSUME ~storia.rifiutato PROVE SenzaErrori(rete')
  <2>1. /\ DOMAIN Tail(rete.risposte) = 1..(Len(rete.risposte) - 1)
        /\ DOMAIN rete.risposte = 1..Len(rete.risposte) /\ Len(rete.risposte) \in Nat
        /\ \A i \in 1..(Len(rete.risposte) - 1) : Tail(rete.risposte)[i] = rete.risposte[i + 1]
    BY <1>2, <1>4, HeadTailProperties
  <2>2. \A i \in 1..(Len(rete.risposte) - 1) : i + 1 \in 1..Len(rete.risposte)
    BY <2>1
  <2>3. \A i \in DOMAIN rete.risposte : rete.risposte[i][1] # "errore"
    BY <1>5 DEF CanaleSano, SenzaErrori
  <2>4. QED
    BY <1>2, <2>1, <2>2, <2>3 DEF SenzaErrori
<1>6. ASSUME ~storia.rifiutato PROVE CanaleGiusto(remoto', rete')
  <2>1. CanaleGiusto(remoto, rete)
    BY <1>3, <1>6 DEF CanaleSano
  <2>2. \A d \in Codice :
          Attese(rete.richieste, Tail(rete.risposte), d) =
            Attese(rete.richieste, rete.risposte, d) -
              (IF Head(rete.risposte)[1] \in Conferme /\ Head(rete.risposte)[2] = d
               THEN 1 ELSE 0)
    BY <1>2, <1>4, ArrivataConta
  <2>3. QED
    BY <1>2, <1>6, <2>1, <2>2 DEF CanaleGiusto
<1>7. QED
  BY <1>3, <1>5, <1>6 DEF CanaleSano

LEMMA CanaleRisposte ==
  ASSUME Tipi, CanaleSano, [Next]_vars, TargetChange \/ RaiseWatchSnapshot \/ ProcessTargetError
  PROVE  CanaleSano'
<1>0. remoto \in Remoto /\ rete \in Rete /\ storia'.rifiutato = storia.rifiutato
  BY DEF Tipi, TargetChange, RaiseWatchSnapshot, ProcessTargetError
<1> DEFINE k == Head(rete.risposte)[1]
           c == Head(rete.risposte)[2]
<1>1. CASE TargetChange
  <2>1. k \in Conferme /\ Arriva({"added", "removed"}) /\ c \in Codice
    BY <1>1, ArrivaForma DEF TargetChange, Conferme
  <2>2. /\ remoto'.flusso = remoto.flusso /\ remoto'.listen_targets = remoto.listen_targets
    BY <1>1, TargetChangeForma
  <2>3. remoto'.outstanding = [remoto.outstanding EXCEPT ![c] = remoto.outstanding[c] - 1]
    BY <1>0, <1>1 DEF TargetChange, HandleTargetChange, Remoto
  <2>4. remoto.outstanding \in [Codice -> Int]
    BY <1>0 DEF Remoto
  <2> HIDE DEF k, c
  <2>5. \A d \in Codice : remoto'.outstanding[d] = remoto.outstanding[d] -
          (IF k \in Conferme /\ c = d THEN 1 ELSE 0)
    BY <2>1, <2>3, <2>4
  <2>6. QED
    BY <1>0, <2>1, <2>2, <2>5, CanaleArriva DEF k, c
<1>2. CASE RaiseWatchSnapshot
  <2>1. k \notin Conferme /\ Arriva(Documento)
    BY <1>2 DEF RaiseWatchSnapshot, Arriva, Conferme, Documento
  <2>2. /\ remoto'.flusso = remoto.flusso /\ remoto'.listen_targets = remoto.listen_targets
    BY <1>2, RaiseWatchSnapshotForma
  <2>3. remoto'.outstanding = remoto.outstanding /\ remoto.outstanding \in [Codice -> Int]
    BY <1>0, <1>2 DEF RaiseWatchSnapshot, Remoto
  <2>4. \A d \in Codice : remoto'.outstanding[d] = remoto.outstanding[d] -
          (IF k \in Conferme /\ c = d THEN 1 ELSE 0)
    BY <2>1, <2>3
  <2>5. QED
    BY <1>0, <2>1, <2>2, <2>4, CanaleArriva
<1>3. CASE ProcessTargetError
  <2>1. k = "errore" /\ Arriva({"errore"}) /\ rete.risposte # <<>>
    BY <1>3 DEF ProcessTargetError, Arriva
  <2>2. remoto'.flusso = remoto.flusso
    BY <1>3, ProcessTargetErrorForma
  <2>3. 1 \in DOMAIN rete.risposte /\ rete.risposte[1][1] = "errore"
    BY <1>0, <2>1 DEF Rete
  <2>4. storia.rifiutato
    BY <2>3 DEF CanaleSano, SenzaErrori
  <2>5. QED
    BY <1>0, <2>1, <2>2, <2>4, CanaleArriva
<1>4. QED
  BY <1>1, <1>2, <1>3

\* The server takes a request.
LEMMA CanalePreso ==
  ASSUME Tipi, CanaleSano, ServerRisponde
  PROVE  CanaleSano'
<1>0. rete \in Rete /\ remoto' = remoto /\ storia \in Storia
  BY DEF Tipi, ServerRisponde
<1> DEFINE q == rete.richieste
           p == rete.risposte
           o == Head(q)[1]
           c == Head(q)[2]
<1>1. q \in Seq(Domande \X Codice) /\ p \in Seq(Messaggio) /\ q # <<>>
  BY <1>0 DEF Rete, Domande, Messaggio, ServerRisponde
<1>2. o \in Domande /\ c \in Codice
  <2>1. Head(q) \in Domande \X Codice
    BY <1>1, HeadTailProperties
  <2>2. QED
    BY <2>1
<1>3. PICK esito \in {"added", "removed", "errore"} :
        /\ o = "unwatch" => esito = "removed"
        /\ o = "watch" => esito \in {"added", "errore"}
        /\ rete' = [rete EXCEPT !.richieste = Tail(@), !.risposte = Append(@, <<esito, c>>),
                                !.guardati[c] = IF esito = "added" THEN "nuovo" ELSE "no"]
        /\ storia' = [storia EXCEPT !.rifiutato = @ \/ esito = "errore"]
  <2>1. PICK esito \in IF Head(rete.richieste)[1] = "unwatch" THEN {"removed"}
                   ELSE {"added"} \cup (IF "rifiuto" \in Guasti THEN {"errore"} ELSE {}) :
          /\ rete' = [rete EXCEPT !.richieste = Tail(@), !.risposte = Append(@, <<esito, c>>),
                                  !.guardati[c] = IF esito = "added" THEN "nuovo" ELSE "no"]
          /\ storia' = [storia EXCEPT !.rifiutato = @ \/ esito = "errore"]
    BY DEF ServerRisponde
  <2>2. /\ esito \in {"added", "removed", "errore"}
        /\ o = "unwatch" => esito = "removed"
        /\ o = "watch" => esito \in {"added", "errore"}
    BY <2>1
  <2>3. QED
    BY <2>1, <2>2
<1>4. /\ rete'.richieste = Tail(q) /\ rete'.risposte = Append(p, <<esito, c>>)
      /\ \A d \in Codice : rete'.guardati[d] =
           IF d = c THEN (IF esito = "added" THEN "nuovo" ELSE "no") ELSE rete.guardati[d]
  BY <1>0, <1>2, <1>3 DEF Rete
<1>5. storia'.rifiutato = (storia.rifiutato \/ esito = "errore")
  BY <1>0, <1>3 DEF Storia
<1>6. remoto.flusso = "Open"
  BY <1>1 DEF CanaleSano, CanaleVuoto
<1> HIDE DEF q, p, o, c
<1>7. CASE storia.rifiutato \/ esito = "errore"
  BY <1>0, <1>5, <1>6, <1>7 DEF CanaleSano
<1>8. CASE ~storia.rifiutato /\ esito # "errore"
  <2>1. CanaleGiusto(remoto, rete) /\ SenzaErrori(rete)
    BY <1>6, <1>8 DEF CanaleSano
  <2>2. esito \in Conferme /\ (esito = "added") = (o = "watch")
    BY <1>2, <1>3, <1>8 DEF Conferme, Domande
  <2>3. SenzaErrori(rete')
    <3> DEFINE e == <<esito, c>>
    <3>1. e \in Messaggio /\ e[1] # "errore"
      BY <1>2, <1>8 DEF Messaggio
    <3> HIDE DEF e
    <3>2. /\ DOMAIN Append(p, e) = 1..(Len(p) + 1) /\ DOMAIN p = 1..Len(p) /\ Len(p) \in Nat
          /\ \A i \in 1..Len(p) : Append(p, e)[i] = p[i]
          /\ Append(p, e)[Len(p) + 1] = e
      BY <1>1, <3>1, AppendProperties
    <3>3. \A i \in DOMAIN p : p[i][1] # "errore"
      BY <2>1 DEF SenzaErrori, p
    <3>4. \A i \in DOMAIN Append(p, e) : Append(p, e)[i][1] # "errore"
      BY <3>1, <3>2, <3>3
    <3>5. QED
      BY <1>4, <3>4 DEF SenzaErrori, e
  <2>4. CanaleGiusto(remoto, rete')
    <3>1. SUFFICES ASSUME NEW d \in Codice
                   PROVE  /\ remoto.outstanding[d] = Attese(rete'.richieste, rete'.risposte, d)
                          /\ Decide(rete'.richieste, rete'.guardati[d], d \in remoto.listen_targets, d)
      BY DEF CanaleGiusto
    <3>2. /\ remoto.outstanding[d] = Attese(q, p, d)
          /\ Decide(q, rete.guardati[d], d \in remoto.listen_targets, d)
      BY <2>1 DEF CanaleGiusto, q, p
    <3>3. Attese(Tail(q), Append(p, <<esito, c>>), d) = Attese(q, p, d)
      BY <1>1, <1>2, <2>2, PresaConta DEF c
    <3>4. /\ c = d => (rete'.guardati[d] # "no") = (o = "watch")
          /\ c # d => rete'.guardati[d] = rete.guardati[d]
      BY <1>4, <2>2
    <3>5. Decide(Tail(q), rete'.guardati[d], d \in remoto.listen_targets, d)
      <4> DEFINE b == d \in remoto.listen_targets
                 w == rete.guardati[d]
                 z == rete'.guardati[d]
      <4>1. /\ b \in BOOLEAN /\ Decide(q, w, b, d)
            /\ Head(q)[2] = d => (z # "no") = (Head(q)[1] = "watch")
            /\ Head(q)[2] # d => z = w
        BY <3>2, <3>4 DEF c, o
      <4> HIDE DEF b, w, z
      <4>2. Decide(Tail(q), z, b, d)
        BY <1>1, <4>1, PresaDecide
      <4>3. QED
        BY <4>2 DEF b, z
    <3>6. QED
      BY <1>4, <3>2, <3>3, <3>5
  <2>5. QED
    BY <1>0, <1>6, <2>3, <2>4 DEF CanaleSano
<1>9. QED
  BY <1>7, <1>8

\* The server sends a document to who watches it.
LEMMA CanaleMandato ==
  ASSUME Tipi, CanaleSano, storia'.rifiutato = storia.rifiutato, remoto' = remoto,
         NEW c \in Codice, NEW e \in Documento \X Codice, rete.guardati[c] # "no",
         rete'.richieste = rete.richieste, rete'.risposte = Append(rete.risposte, e),
         \A d \in Codice : (rete'.guardati[d] # "no") = (rete.guardati[d] # "no")
  PROVE  CanaleSano'
<1>1. remoto.flusso = "Open"
  BY DEF CanaleSano, CanaleVuoto
<1> DEFINE p == rete.risposte
<1>2. /\ rete.richieste \in Seq(Domande \X Codice) /\ p \in Seq(Messaggio)
  BY DEF Tipi, Rete, Domande, Messaggio
<1>3. e \in Messaggio /\ e[1] \notin Conferme /\ e[1] # "errore"
  BY DEF Messaggio, Documento, Conferme
<1>4. ASSUME SenzaErrori(rete) PROVE SenzaErrori(rete')
  <2>1. \A i \in DOMAIN p : p[i][1] # "errore"
    BY <1>4 DEF SenzaErrori
  <2> HIDE DEF p
  <2>2. /\ DOMAIN Append(p, e) = 1..(Len(p) + 1) /\ DOMAIN p = 1..Len(p) /\ Len(p) \in Nat
        /\ \A i \in 1..Len(p) : Append(p, e)[i] = p[i]
        /\ Append(p, e)[Len(p) + 1] = e
    BY <1>2, <1>3, AppendProperties
  <2>3. \A i \in DOMAIN Append(p, e) : Append(p, e)[i][1] # "errore"
    BY <1>3, <2>1, <2>2
  <2>4. QED
    BY <2>3 DEF SenzaErrori, p
<1>5. ASSUME CanaleGiusto(remoto, rete) PROVE CanaleGiusto(remoto, rete')
  <2>1. \A d \in Codice : Attese(rete.richieste, Append(p, e), d) = Attese(rete.richieste, p, d)
    BY <1>2, <1>3, MandataConta
  <2>2. \A d \in Codice :
          Decide(rete.richieste, rete.guardati[d], d \in remoto.listen_targets, d) =>
          Decide(rete.richieste, rete'.guardati[d], d \in remoto.listen_targets, d)
    BY DEF Decide
  <2>3. \A d \in Codice :
          remoto.outstanding[d] = Attese(rete'.richieste, rete'.risposte, d)
    BY <1>5, <2>1 DEF CanaleGiusto
  <2>4. \A d \in Codice :
          Decide(rete'.richieste, rete'.guardati[d], d \in remoto.listen_targets, d)
    BY <1>5, <2>2 DEF CanaleGiusto
  <2>5. QED
    BY <2>3, <2>4 DEF CanaleGiusto
<1>6. QED
  BY <1>1, <1>4, <1>5 DEF CanaleSano

LEMMA CanaleServer ==
  ASSUME Tipi, CanaleSano, [Next]_vars, ~ServerRisponde,
         \E c \in Codice : ServerInvia(c) \/ Cambia(c)
  PROVE  CanaleSano'
<1>0. rete \in Rete /\ storia'.rifiutato = storia.rifiutato
  BY RifiutatoPasso DEF Tipi
<1>1. ASSUME NEW c \in Codice, ServerInvia(c) PROVE CanaleSano'
  <2> DEFINE e == <<rete.server[c], c>>
  <2>1. e \in Documento \X Codice /\ remoto' = remoto /\ rete.guardati[c] # "no"
    BY <1>0, <1>1 DEF ServerInvia, Rete
  <2>2. /\ rete'.richieste = rete.richieste /\ rete'.risposte = Append(rete.risposte, e)
        /\ \A d \in Codice : rete'.guardati[d] = IF d = c THEN "corrente" ELSE rete.guardati[d]
    BY <1>0, <1>1 DEF ServerInvia, Rete
  <2> HIDE DEF e
  <2>3. \A d \in Codice : (rete'.guardati[d] # "no") = (rete.guardati[d] # "no")
    BY <2>1, <2>2
  <2>4. QED
    BY <1>0, <2>1, <2>2, <2>3, CanaleMandato
<1>2. ASSUME NEW c \in Codice, Cambia(c) PROVE CanaleSano'
  <2> DEFINE d == CHOOSE x \in Documento : x # rete.server[c]
             e == <<d, c>>
  <2>1. d \in Documento
    <3>1. \E x \in Documento : x # rete.server[c]
      BY DEF Documento
    <3>2. QED
      BY <3>1
  <2>2. /\ remoto' = remoto /\ rete'.richieste = rete.richieste
        /\ rete'.guardati = rete.guardati
        /\ rete'.risposte = IF rete.guardati[c] = "corrente" THEN Append(rete.risposte, e)
                            ELSE rete.risposte
    BY <1>0, <1>2 DEF Cambia, Rete
  <2> HIDE DEF d
  <2>3. e \in Documento \X Codice
    BY <2>1
  <2> HIDE DEF e
  <2>4. CASE rete.guardati[c] = "corrente"
    BY <1>0, <2>2, <2>3, <2>4, CanaleMandato
  <2>5. CASE rete.guardati[c] # "corrente"
    <3>1. UNCHANGED <<remoto>> /\ rete'.richieste = rete.richieste
          /\ rete'.risposte = rete.risposte /\ rete'.guardati = rete.guardati
      BY <2>2, <2>5
    <3>2. QED
      BY <1>0, <3>1 DEF CanaleSano, CanaleVuoto, CanaleGiusto, SenzaErrori
  <2>6. QED
    BY <2>4, <2>5
<1>3. QED
  BY <1>1, <1>2

\* A listener comes or goes: a request on an open stream, and else nothing.
LEMMA CanaleLavoro ==
  ASSUME Tipi, CanaleSano, storia'.rifiutato = storia.rifiutato,
         NEW c \in Codice, Listen(c) \/ StopListening(c)
  PROVE  CanaleSano'
<1>0. remoto \in Remoto
  BY DEF Tipi
<1>1. CASE remoto.flusso = "Open"
  <2>1. SendRequest("watch", c) \/ SendRequest("unwatch", c)
    <3> DEFINE r == [remoto EXCEPT !.listen_targets = @ \cup {c}]
    <3>1. r.flusso = "Open"
      BY <1>0, <1>1 DEF Remoto
    <3>2. ~ShouldStartWatchStream(r)
      BY <3>1 DEF ShouldStartWatchStream, Started
    <3> HIDE DEF r
    <3>3. QED
      BY <1>1, <3>2 DEF Listen, StopListening, r
  <2>2. QED
    BY <1>1, <2>1, CanaleRichiesta DEF Domande
<1>2. CASE remoto.flusso # "Open"
  <2> DEFINE r == [remoto EXCEPT !.listen_targets = @ \cup {c}]
  <2>1. /\ r \in Remoto /\ r.flusso = remoto.flusso /\ r.outstanding = remoto.outstanding
    BY <1>0 DEF Remoto
  <2>2. /\ rete' = rete
        /\ \/ remoto' = Avviato(r) \/ remoto' = r
           \/ remoto' = [remoto EXCEPT !.listen_targets = @ \ {c}]
    BY <1>2 DEF Listen, StopListening
  <2> HIDE DEF r
  <2>3. CASE remoto' = Avviato(r)
    <3>1. remoto'.flusso # "Open"
      BY <2>1, <2>3, AvviatoForma
    <3>2. \A d \in Codice : remoto'.outstanding[d] = 0
      BY <2>1, <2>3 DEF Avviato, Remoto
    <3>3. QED
      BY <1>2, <2>2, <3>1, <3>2, CanaleFermo
  <2>4. CASE remoto' = r
    BY <1>2, <2>1, <2>2, <2>4, CanaleFermo
  <2>5. CASE remoto' = [remoto EXCEPT !.listen_targets = @ \ {c}]
    <3>1. remoto'.flusso = remoto.flusso /\ remoto'.outstanding = remoto.outstanding
      BY <1>0, <2>5 DEF Remoto
    <3>2. QED
      BY <1>2, <2>2, <3>1, CanaleFermo
  <2>6. QED
    BY <2>2, <2>3, <2>4, <2>5
<1>3. QED
  BY <1>1, <1>2

\* The stream stops, and perhaps starts again.
LEMMA CanaleRiparte ==
  ASSUME Tipi, OnStreamFinish \/ IdleTimeout \/ RestartNetwork
  PROVE  CanaleSano'
<1>1. rete' = ReteNuova
  BY DEF OnStreamFinish, IdleTimeout, RestartNetwork
<1>2. \E s \in {"Initial", "Error"} : remoto' = Fermato(s) \/ remoto' = Avviato(Fermato(s))
  BY ChiusuraForma, IdleTimeoutForma, RipartenzaForma DEF OnStreamFinish
<1>3. PICK s \in {"Initial", "Error"} : remoto' = Fermato(s) \/ remoto' = Avviato(Fermato(s))
  BY <1>2
<1>4. Fermato(s) \in Remoto /\ Fermato(s).flusso # "Open"
  BY FermatoForma
<1>5. \A c \in Codice : Fermato(s).outstanding[c] = 0
  BY DEF Tipi, Remoto, Fermato
<1>6. \A c \in Codice : Avviato(Fermato(s)).outstanding[c] = 0
  BY <1>4 DEF Remoto, Avviato
<1>7. Avviato(Fermato(s)).flusso # "Open"
  BY <1>4, AvviatoForma
<1>8. QED
  BY <1>1, <1>3, <1>4, <1>5, <1>6, <1>7, CanaleSpento

LEMMA CanalePasso ==
  ASSUME Tipi, CanaleSano, [Next]_vars
  PROVE  CanaleSano'
<1>1. CASE ServerRisponde
  BY <1>1, CanalePreso
<1>2. CASE ~ServerRisponde
  <2>1. storia'.rifiutato = storia.rifiutato
    BY <1>2, RifiutatoPasso
  <2>2. CASE rete' = rete /\ remoto' = remoto
    BY <2>1, <2>2, CanaleFermo
  <2>3. CASE AddQueryListener
    <3>1. PICK g \in Lettore :
            Listen(get[g].cod) \/ UNCHANGED <<remoto, tracker, rete>>
      BY <2>3, AddQueryListenerForma
    <3>2. get[g].cod \in Codice
      BY DEF Tipi, Get
    <3>3. QED
      BY <2>1, <2>2, <3>1, <3>2, CanaleLavoro
  <2>4. CASE RemoveQueryListener
    <3>1. PICK g \in Lettore :
            StopListening(get[g].cod) \/ UNCHANGED <<remoto, tracker, rete, storia>>
      BY <2>4, RemoveQueryListenerForma
    <3>2. get[g].cod \in Codice
      BY DEF Tipi, Get
    <3>3. QED
      BY <2>1, <2>2, <3>1, <3>2, CanaleLavoro
  <2>5. CASE OnWatchStreamOpen
    BY <2>5, CanaleRipreso
  <2>6. CASE BackoffElapsed
    <3>1. /\ rete' = rete /\ remoto.flusso # "Open" /\ remoto'.flusso # "Open"
          /\ remoto'.outstanding = remoto.outstanding
      BY <2>6 DEF BackoffElapsed, Tipi, Remoto
    <3>2. QED
      BY <2>1, <3>1, CanaleFermo
  <2>7. CASE OnStreamFinish \/ IdleTimeout \/ RestartNetwork
    BY <2>7, CanaleRiparte
  <2>8. CASE TargetChange \/ RaiseWatchSnapshot \/ ProcessTargetError
    BY <2>8, CanaleRisposte
  <2>9. CASE \E c \in Codice : ServerInvia(c) \/ Cambia(c)
    BY <1>2, <2>9, CanaleServer
  <2>10. CASE OnlineStateTimeout \/ UNCHANGED vars
    BY <2>2, <2>10 DEF OnlineStateTimeout, vars
  <2>11. CASE \E g \in Lettore, c \in Codice : GetDocument(g, c)
    BY <2>2, <2>11 DEF GetDocument
  <2>12. CASE \E g \in Lettore : OnEvent(g)
    BY <2>2, <2>12 DEF OnEvent
  <2>13. QED
    BY <1>2, <2>3, <2>4, <2>5, <2>6, <2>7, <2>8, <2>9, <2>10, <2>11, <2>12 DEF Next
<1>3. QED
  BY <1>1, <1>2

(***************************************************************************)
(* The server's answers                                                    *)
(***************************************************************************)
\* A waiting set that only grows keeps what was founded on it.
LEMMA FondatoCresce ==
  ASSUME NEW V, NEW W, V \subseteq W
  PROVE  /\ \A d : Fondato(d, V) => Fondato(d, W)
         /\ \A s : EventiFondati(s, V) => EventiFondati(s, W)
         /\ \A x, v, k, c : VistaFondata(x, v, k, c, V) => VistaFondata(x, v, k, c, W)
<1>1. \A d : Fondato(d, V) => Fondato(d, W)
  BY DEF Fondato
<1>2. \A s : EventiFondati(s, V) => EventiFondati(s, W)
  BY <1>1 DEF EventiFondati
<1>3. \A x, v, k, c : VistaFondata(x, v, k, c, V) => VistaFondata(x, v, k, c, W)
  BY <1>1 DEF VistaFondata
<1>4. QED
  BY <1>1, <1>2, <1>3

\* An event more, an event less.
LEMMA EventoFondato ==
  ASSUME NEW x \in Get, NEW V, EventiFondati(x.eventi, V),
         NEW e \in Evento, e[1] = "server" => Fondato(e[2], V)
  PROVE  EventiFondati(OnViewSnapshot(x, e).eventi, V)
<1>1. x.eventi \in Seq(Evento)
  BY DEF Get
<1>2. EventiFondati(Append(x.eventi, e), V)
  <2> DEFINE s == x.eventi
  <2>1. /\ DOMAIN Append(s, e) = 1..(Len(s) + 1) /\ DOMAIN s = 1..Len(s) /\ Len(s) \in Nat
        /\ \A i \in 1..Len(s) : Append(s, e)[i] = s[i]
        /\ Append(s, e)[Len(s) + 1] = e
    BY <1>1, AppendProperties
  <2>2. \A i \in DOMAIN s : s[i][1] = "server" => Fondato(s[i][2], V)
    BY DEF EventiFondati
  <2> HIDE DEF s
  <2>3. \A i \in DOMAIN Append(s, e) :
          Append(s, e)[i][1] = "server" => Fondato(Append(s, e)[i][2], V)
    BY <2>1, <2>2
  <2>4. QED
    BY <2>3 DEF EventiFondati, s
<1>3. QED
  BY <1>2, OnViewSnapshotForma

LEMMA EventoVisto ==
  ASSUME NEW s \in Seq(Evento), s # <<>>, NEW V, EventiFondati(s, V)
  PROVE  EventiFondati(Tail(s), V)
<1>1. /\ DOMAIN Tail(s) = 1..(Len(s) - 1) /\ DOMAIN s = 1..Len(s) /\ Len(s) \in Nat
      /\ \A i \in 1..(Len(s) - 1) : Tail(s)[i] = s[i + 1]
  BY HeadTailProperties
<1>2. \A i \in 1..(Len(s) - 1) : i + 1 \in 1..Len(s)
  BY <1>1
<1>3. QED
  BY <1>1, <1>2 DEF EventiFondati

\* What may still be taken in, as messages come and go.
LEMMA ViviNessuno ==
  ASSUME NEW x, NEW c, x.risposte = <<>>
  PROVE  Vivi(x, c) = {}
<1>1. \A T : Su(x.risposte, c, T) = {}
  BY SuVuoto
<1>2. QED
  BY <1>1 DEF Vivi

LEMMA ViviRichiesta ==
  ASSUME NEW x \in Rete, NEW y \in Rete, NEW o \in Domande, NEW c \in Codice, NEW d \in Codice,
         y.risposte = x.risposte, y.richieste = Append(x.richieste, <<o, c>>)
  PROVE  /\ Vivi(y, d) \subseteq Vivi(x, d)
         /\ Vivi(y, c) = {}
<1> DEFINE e == <<o, c>>
           q == x.richieste
<1>1. q \in Seq(Domande \X Codice) /\ e \in Domande \X Codice /\ e[1] \in Domande /\ e[2] = c
  BY DEF Rete, Domande
<1> HIDE DEF e, q
<1>2. \A a : Su(Append(q, e), a, Domande) =
               Su(q, a, Domande) \cup (IF e[1] \in Domande /\ e[2] = a THEN {Len(q) + 1} ELSE {})
  BY <1>1, SuAggiunto
<1>3. Su(Append(q, e), d, Domande) = {} => Su(q, d, Domande) = {}
  BY <1>2
<1>4. Su(Append(q, e), c, Domande) # {}
  BY <1>1, <1>2
<1>5. y.richieste = Append(q, e) /\ x.richieste = q
  BY DEF q, e
<1>6. Vivi(y, d) \subseteq Vivi(x, d)
  BY <1>3, <1>5 DEF Vivi
<1>7. Vivi(y, c) = {}
  BY <1>4, <1>5 DEF Vivi
<1>8. QED
  BY <1>6, <1>7

LEMMA ViviArriva ==
  ASSUME NEW x \in Rete, NEW y \in Rete, NEW d \in Codice, x.risposte # <<>>,
         y.risposte = Tail(x.risposte), y.richieste = x.richieste
  PROVE  Vivi(y, d) \subseteq Vivi(x, d)
<1> DEFINE p == x.risposte
<1>1. p \in Seq(Messaggio) /\ p # <<>>
  BY DEF Rete, Messaggio
<1>2. \A T : \A i : i \in Su(Tail(p), d, T) <=> i \in Nat \ {0} /\ i + 1 \in Su(p, d, T)
  BY <1>1, SuTolto
<1>3. Su(p, d, Conferme) \subseteq 1..Len(p) /\ Len(p) \in Nat
  BY <1>1, SuFinito
<1> HIDE DEF p
<1>4. ASSUME NEW z, NEW i \in Su(Tail(p), d, {z}), \A h \in Su(Tail(p), d, Conferme) : h < i
      PROVE  \E j \in Su(p, d, {z}) : \A h \in Su(p, d, Conferme) : h < j
  <2>1. i \in Nat \ {0} /\ i + 1 \in Su(p, d, {z})
    BY <1>2
  <2>2. ASSUME NEW h \in Su(p, d, Conferme) PROVE h < i + 1
    <3>1. h \in Nat /\ h >= 1
      BY <1>3
    <3>2. CASE h = 1
      BY <2>1, <3>2
    <3>3. CASE h # 1
      <4>1. h - 1 \in Nat \ {0} /\ (h - 1) + 1 = h
        BY <3>1, <3>3
      <4>2. h - 1 \in Su(Tail(p), d, Conferme)
        BY <1>2, <4>1
      <4>3. QED
        BY <1>4, <2>1, <3>1, <4>2
    <3>4. QED
      BY <3>2, <3>3
  <2>3. QED
    BY <2>1, <2>2
<1>5. y.risposte = Tail(p) /\ x.risposte = p
  BY DEF p
<1>6. QED
  BY <1>4, <1>5 DEF Vivi

\* A message is sent about document c.
LEMMA ViviMandata ==
  ASSUME NEW x \in Rete, NEW y \in Rete, NEW e \in Messaggio, NEW d \in Codice,
         y.risposte = Append(x.risposte, e), y.richieste = x.richieste
  PROVE  Vivi(y, d) \subseteq Vivi(x, d) \cup (IF e[2] = d THEN {e[1]} ELSE {})
<1> DEFINE p == x.risposte
<1>1. p \in Seq(Messaggio)
  BY DEF Rete, Messaggio
<1>2. \A T : Su(Append(p, e), d, T) =
               Su(p, d, T) \cup (IF e[1] \in T /\ e[2] = d THEN {Len(p) + 1} ELSE {})
  BY <1>1, SuAggiunto
<1>3. y.risposte = Append(p, e) /\ x.risposte = p
  BY DEF p
<1> HIDE DEF p
<1>4. ASSUME NEW z, z # e[1] \/ e[2] # d,
             NEW i \in Su(Append(p, e), d, {z}), \A h \in Su(Append(p, e), d, Conferme) : h < i
      PROVE  i \in Su(p, d, {z}) /\ \A h \in Su(p, d, Conferme) : h < i
  BY <1>2, <1>4
<1>5. QED
  BY <1>3, <1>4 DEF Vivi

\* The server takes a request about c: what it sent before will not be taken in.
LEMMA ViviPresa ==
  ASSUME NEW x \in Rete, NEW y \in Rete, NEW k \in Conferme, NEW c \in Codice, NEW d \in Codice,
         x.richieste # <<>>, Head(x.richieste)[2] = c,
         y.richieste = Tail(x.richieste), y.risposte = Append(x.risposte, <<k, c>>)
  PROVE  /\ Vivi(y, c) = {}
         /\ d # c => Vivi(y, d) \subseteq Vivi(x, d)
<1> DEFINE p == x.risposte
           q == x.richieste
           e == <<k, c>>
<1>1. /\ p \in Seq(Messaggio) /\ q \in Seq(Domande \X Codice) /\ q # <<>>
      /\ e \in Messaggio /\ e[1] = k /\ e[2] = c
  BY DEF Rete, Messaggio, Domande, Conferme
<1> HIDE DEF e
<1>2. \A a, T : Su(Append(p, e), a, T) =
               Su(p, a, T) \cup (IF e[1] \in T /\ e[2] = a THEN {Len(p) + 1} ELSE {})
  BY <1>1, SuAggiunto
<1>3. \A a, T : Su(p, a, T) \subseteq 1..Len(p) /\ Len(p) \in Nat
  BY <1>1, SuFinito
<1>4. \A i : i \in Su(Tail(q), d, Domande) <=> i \in Nat \ {0} /\ i + 1 \in Su(q, d, Domande)
  BY <1>1, SuTolto
<1>5. Su(q, d, Domande) \subseteq 1..Len(q) /\ Len(q) \in Nat
  BY <1>1, SuFinito
<1>6. d # c => 1 \notin Su(q, d, Domande)
  <2>1. Head(q) = q[1] /\ Head(q)[2] = c
    BY <1>1, HeadTailProperties
  <2>2. QED
    BY <2>1 DEF Su
<1>7. y.risposte = Append(p, e) /\ y.richieste = Tail(q) /\ x.risposte = p /\ x.richieste = q
  BY DEF p, q, e
<1> HIDE DEF p, q
<1>8. Vivi(y, c) = {}
  <2>1. Len(p) + 1 \in Su(Append(p, e), c, Conferme)
    BY <1>1, <1>2
  <2>2. \A z \in Documento : Su(Append(p, e), c, {z}) \subseteq 1..Len(p)
    BY <1>1, <1>2, <1>3 DEF Documento, Conferme
  <2>3. \A z \in Documento : \A i \in Su(Append(p, e), c, {z}) : ~(Len(p) + 1 < i)
    BY <1>3, <2>2
  <2>4. QED
    BY <1>7, <2>1, <2>3 DEF Vivi
<1>9. ASSUME d # c PROVE Vivi(y, d) \subseteq Vivi(x, d)
  <2>1. \A T : Su(Append(p, e), d, T) = Su(p, d, T)
    <3>1. SUFFICES ASSUME NEW T PROVE Su(Append(p, e), d, T) = Su(p, d, T)
      OBVIOUS
    <3>2. Su(Append(p, e), d, T) =
            Su(p, d, T) \cup (IF e[1] \in T /\ e[2] = d THEN {Len(p) + 1} ELSE {})
      BY <1>2
    <3>3. ~(e[1] \in T /\ e[2] = d)
      BY <1>1, <1>9
    <3>4. QED
      BY <3>2, <3>3
  <2>2. Su(Tail(q), d, Domande) = {} => Su(q, d, Domande) = {}
    <3>1. \A i \in Su(q, d, Domande) : i # 1 /\ i - 1 \in Nat \ {0} /\ (i - 1) + 1 = i
      BY <1>5, <1>6, <1>9
    <3>2. QED
      BY <1>4, <3>1
  <2>3. QED
    BY <1>7, <2>1, <2>2 DEF Vivi
<1>10. QED
  BY <1>8, <1>9

\* A step that takes nothing in: each get keeps what it had, or loses some.
LEMMA FondatiResta ==
  ASSUME Fondati, storia'.rifiutato \/ ~storia.rifiutato,
         \A g \in Lettore :
           /\ storia.visti[g] \subseteq storia'.visti[g]
           /\ ~storia.rifiutato /\ EventiFondati(get[g].eventi, storia.visti[g])
                => EventiFondati(get'[g].eventi, storia'.visti[g])
           /\ get'[g].registrato =>
                /\ get[g].registrato /\ get'[g].cod = get[g].cod
                /\ rete'.server[get[g].cod] \in storia'.visti[g] \/ rete'.server = rete.server
                /\ viste'[get[g].cod] = "sincrona" => viste[get[g].cod] = "sincrona"
                /\ Vivi(rete', get[g].cod) \subseteq Vivi(rete, get[g].cod) \cup storia'.visti[g],
         cache' = cache
  PROVE  Fondati'
<1> SUFFICES ASSUME ~storia'.rifiutato, NEW g \in Lettore PROVE GetFondato(g)'
  BY DEF Fondati
<1>1. GetFondato(g) /\ ~storia.rifiutato
  BY DEF Fondati
<1> DEFINE V == storia.visti[g]
           W == storia'.visti[g]
           c == get[g].cod
<1>2. V \subseteq W /\ EventiFondati(get'[g].eventi, W)
  BY <1>1 DEF GetFondato
<1>3. ASSUME get'[g].registrato
      PROVE  get'[g].cod = c /\ VistaFondata(rete', viste', cache', c, W)
  <2>1. /\ get'[g].cod = c
        /\ rete'.server[c] \in W \/ rete'.server = rete.server
        /\ viste'[c] = "sincrona" => viste[c] = "sincrona"
        /\ Vivi(rete', c) \subseteq Vivi(rete, c) \cup W
        /\ get[g].registrato
    BY <1>3
  <2>a. VistaFondata(rete, viste, cache, c, V)
    BY <1>1, <2>1 DEF GetFondato
  <2> HIDE DEF V, W, c
  <2>2. VistaFondata(rete, viste, cache, c, W)
    BY <1>2, <2>a, FondatoCresce
  <2>3. VistaFondata(rete', viste', cache', c, W)
    BY <2>1, <2>2 DEF VistaFondata
  <2>4. QED
    BY <2>1, <2>3
<1>4. QED
  BY <1>2, <1>3 DEF GetFondato

LEMMA LavoroRete ==
  ASSUME Tipi, CanaleSano, NEW c \in Codice, Listen(c) \/ StopListening(c)
  PROVE  /\ rete'.server = rete.server
         /\ \A d \in Codice : Vivi(rete', d) \subseteq Vivi(rete, d)
         /\ Vivi(rete', c) = {}
<1>0. remoto \in Remoto /\ rete \in Rete
  BY DEF Tipi
<1>1. CASE remoto.flusso = "Open"
  <2>1. PICK o \in Domande : SendRequest(o, c)
    <3> DEFINE r == [remoto EXCEPT !.listen_targets = @ \cup {c}]
    <3>1. r.flusso = "Open"
      BY <1>0, <1>1 DEF Remoto
    <3>2. ~ShouldStartWatchStream(r)
      BY <3>1 DEF ShouldStartWatchStream, Started
    <3> HIDE DEF r
    <3>3. SendRequest("watch", c) \/ SendRequest("unwatch", c)
      BY <1>1, <3>2 DEF Listen, StopListening, r
    <3>4. QED
      BY <3>3 DEF Domande
  <2>2. rete' \in Rete
    BY <2>1, SendRequestForma DEF Domande
  <2>3. /\ rete'.richieste = Append(rete.richieste, <<o, c>>)
        /\ rete'.risposte = rete.risposte /\ rete'.server = rete.server
    BY <1>0, <2>1 DEF SendRequest, Rete
  <2>4. QED
    BY <1>0, <2>2, <2>3, ViviRichiesta
<1>2. CASE remoto.flusso # "Open"
  <2>1. rete' = rete
    BY <1>2 DEF Listen, StopListening
  <2>2. rete.risposte = <<>>
    BY <1>2 DEF CanaleSano, CanaleVuoto
  <2>3. QED
    BY <2>1, <2>2, ViviNessuno
<1>3. QED
  BY <1>1, <1>2

\* What the app's thread does.
LEMMA AppFondata ==
  ASSUME Tipi, Fondati, \E g \in Lettore : OnEvent(g) \/ \E c \in Codice : GetDocument(g, c)
  PROVE  Fondati'
<1>0. storia \in Storia /\ get \in [Lettore -> Get]
  BY DEF Tipi
<1>1. ASSUME NEW g \in Lettore, OnEvent(g) PROVE Fondati'
  <2>1. /\ \A h \in Lettore \ {g} : get'[h] = get[h]
        /\ get'[g].eventi = Tail(get[g].eventi)
        /\ get'[g].cod = get[g].cod /\ get'[g].registrato = get[g].registrato
    BY <1>1, OnEventForma
  <2>2. /\ storia'.visti = storia.visti /\ storia'.rifiutato = storia.rifiutato
        /\ rete' = rete /\ viste' = viste /\ cache' = cache
    BY <1>0, <1>1 DEF OnEvent, Risposto, Storia
  <2>3. get[g].eventi \in Seq(Evento) /\ get[g].eventi # <<>>
    BY <1>0, <1>1 DEF OnEvent, Get
  <2>4. EventiFondati(get[g].eventi, storia.visti[g]) =>
          EventiFondati(get'[g].eventi, storia.visti[g])
    BY <2>1, <2>3, EventoVisto
  <2>5. \A h \in Lettore :
          /\ EventiFondati(get[h].eventi, storia.visti[h]) =>
               EventiFondati(get'[h].eventi, storia.visti[h])
          /\ get'[h].cod = get[h].cod /\ get'[h].registrato = get[h].registrato
    BY <2>1, <2>4
  <2>6. QED
    BY <2>2, <2>5, FondatiResta
<1>2. ASSUME NEW g \in Lettore, NEW c \in Codice, GetDocument(g, c) PROVE Fondati'
  <2>1. /\ get'[g].eventi = <<>> /\ ~get'[g].registrato
        /\ \A h \in Lettore : h # g => get'[h] = get[h]
    <3>1. get' = [get EXCEPT ![g] = [Fermo(c) EXCEPT !.fase = "attesa"]]
      BY <1>2 DEF GetDocument
    <3>2. QED
      BY <1>0, <3>1 DEF Fermo
  <2>2. /\ \A h \in Lettore : h # g => storia'.visti[h] = storia.visti[h]
        /\ storia'.rifiutato = storia.rifiutato
        /\ rete' = rete /\ viste' = viste /\ cache' = cache
    BY <1>0, <1>2 DEF GetDocument, Storia
  <2>3. \A h \in Lettore : h # g => (GetFondato(h) => GetFondato(h)')
    BY <2>1, <2>2 DEF GetFondato
  <2>4. GetFondato(g)'
    BY <2>1 DEF GetFondato, EventiFondati
  <2>5. QED
    BY <2>2, <2>3, <2>4 DEF Fondati
<1>3. QED
  BY <1>1, <1>2

\* A listener is removed.
LEMMA RimossoFondato ==
  ASSUME Tipi, CanaleSano, Fondati, RemoveQueryListener
  PROVE  Fondati'
<1>0. storia \in Storia
  BY DEF Tipi
<1>1. PICK g \in Lettore :
        /\ \A h \in Lettore \ {g} : get'[h] = get[h]
        /\ ~get'[g].registrato /\ get'[g].eventi = get[g].eventi /\ cache' = cache
        /\ g = Head(lavori)[2]
        /\ \/ Ascoltatori(get[g].cod) = {g} /\ StopListening(get[g].cod)
           \/ Ascoltatori(get[g].cod) # {g} /\ UNCHANGED <<remoto, tracker, rete, storia>>
  <2>1. \E g \in Lettore :
          /\ Head(lavori) = <<"togli", g>>
          /\ \A h \in Lettore \ {g} : get'[h] = get[h]
          /\ ~get'[g].registrato /\ get'[g].eventi = get[g].eventi /\ cache' = cache
          /\ \/ Ascoltatori(get[g].cod) = {g} /\ StopListening(get[g].cod)
             \/ Ascoltatori(get[g].cod) # {g} /\ UNCHANGED <<remoto, tracker, rete, storia>>
    BY RemoveQueryListenerForma
  <2>2. QED
    BY <2>1
<1> DEFINE c == get[g].cod
<1>2. c \in Codice
  BY DEF Tipi, Get
<1>3. storia'.visti = storia.visti /\ storia'.rifiutato = storia.rifiutato
  BY <1>0 DEF RemoveQueryListener, Asserisce, Storia
<1>4. /\ rete'.server = rete.server
      /\ \A d \in Codice : Vivi(rete', d) \subseteq Vivi(rete, d)
  BY <1>1, <1>2, LavoroRete
<1>5. \A d \in Codice : viste'[d] = "sincrona" => viste[d] = "sincrona"
  <2>1. viste' = viste \/ viste' = [viste EXCEPT ![c] = "nessuna"]
    BY <1>1 DEF RemoveQueryListener
  <2> HIDE DEF c
  <2>2. QED
    BY <2>1 DEF Tipi
<1>6. \A h \in Lettore : get[h].cod \in Codice
  BY DEF Tipi, Get
<1> HIDE DEF c
<1>7. \A h \in Lettore :
        /\ get'[h].eventi = get[h].eventi
        /\ get'[h].registrato => get'[h].cod = get[h].cod /\ get[h].registrato
  BY <1>1
<1>8. QED
  BY <1>1, <1>3, <1>4, <1>5, <1>6, <1>7, FondatiResta

\* A new listener of a document nobody listened to waits for what will be sent.
LEMMA AggiuntoFondato ==
  ASSUME Tipi, GetSani, CanaleSano, Fondati, AddQueryListener
  PROVE  Fondati'
<1>0. storia \in Storia /\ get \in [Lettore -> Get] /\ rete \in Rete
  BY DEF Tipi
<1>1. PICK g \in Lettore : lavori # <<>> /\ Head(lavori) = <<"ascolta", g>>
  BY AddQueryListenerForma
<1>2. get[g].eventi = <<>> /\ ~get[g].registrato /\ get[g] \in Get /\ g = Head(lavori)[2]
  <2>1. lavori[1] = Head(lavori) /\ 1 \in DOMAIN lavori
    BY <1>1 DEF Tipi
  <2>2. get[g].eventi = <<>> /\ ~get[g].registrato
    BY <1>1, <2>1 DEF GetSani, InLavori
  <2>3. QED
    BY <1>0, <1>1, <2>2
<1> DEFINE c == get[g].cod
           altri == Ascoltatori(c)
           iscritto == [get[g] EXCEPT !.registrato = TRUE]
<1>3. /\ iscritto \in Get /\ iscritto.eventi = <<>> /\ iscritto.cod = c /\ c \in Codice
      /\ get[g] \in Get
  BY <1>2 DEF Get
<1>4. <<"cache", cache[c]>> \in Evento /\ <<"server", cache[c]>> \in Evento
      /\ <<"cache", cache[c]>>[1] # "server"
  BY <1>3 DEF Tipi, Evento
<1>5. cache' = cache /\ (~storia'.rifiutato <=> ~storia.rifiutato)
  BY <1>0 DEF AddQueryListener, Asserisce, Storia
<1> HIDE DEF c, iscritto, altri
<1>6. CASE altri = {}
  <2>1. /\ Listen(c) /\ viste' = [viste EXCEPT ![c] = "locale"]
        /\ \/ get' = [get EXCEPT ![g] = iscritto]
           \/ get' = [get EXCEPT ![g] = OnViewSnapshot(iscritto, <<"cache", cache[c]>>)]
        /\ \E b : storia' = [Asserisce(storia, b) EXCEPT !.visti[g] = {rete.server[c]}]
    BY <1>2, <1>6 DEF AddQueryListener, c, altri, iscritto
  <2>2. storia'.visti = [storia.visti EXCEPT ![g] = {rete.server[c]}]
    BY <1>0, <2>1 DEF Asserisce, Storia
  <2>3. /\ rete'.server = rete.server /\ Vivi(rete', c) = {}
        /\ \A d \in Codice : Vivi(rete', d) \subseteq Vivi(rete, d)
    BY <1>3, <2>1, LavoroRete
  <2>4. /\ storia'.visti[g] = {rete.server[c]} /\ viste'[c] = "locale"
        /\ \A h \in Lettore : h # g => storia'.visti[h] = storia.visti[h]
        /\ \A d \in Codice : d # c => viste'[d] = viste[d]
        /\ \A h \in Lettore : h # g => get'[h] = get[h]
    BY <1>0, <1>1, <1>3, <2>1, <2>2 DEF Tipi, Storia
  <2>5. GetFondato(g)'
    <3>1. \A V : EventiFondati(<<>>, V)
      BY DEF EventiFondati
    <3>2. \A V : EventiFondati(OnViewSnapshot(iscritto, <<"cache", cache[c]>>).eventi, V)
      BY <1>3, <1>4, <3>1, EventoFondato
    <3>3. /\ get'[g] \in {iscritto, OnViewSnapshot(iscritto, <<"cache", cache[c]>>)}
          /\ get'[g].cod = c
      BY <1>0, <1>1, <1>3, <1>4, <2>1, OnViewSnapshotForma
    <3>4. EventiFondati(get'[g].eventi, storia'.visti[g])
      BY <1>3, <3>1, <3>2, <3>3
    <3>5. VistaFondata(rete', viste', cache', c, storia'.visti[g])
      BY <2>3, <2>4 DEF VistaFondata
    <3>6. QED
      BY <3>3, <3>4, <3>5 DEF GetFondato
  <2>6. ASSUME NEW h \in Lettore, h # g, GetFondato(h) PROVE GetFondato(h)'
    <3>1. get'[h] = get[h] /\ storia'.visti[h] = storia.visti[h] /\ get[h].cod \in Codice
      BY <1>0, <2>4, <2>6 DEF Get
    <3>2. get[h].registrato => get[h].cod # c
      BY <1>6 DEF altri, Ascoltatori
    <3>3. get[h].registrato =>
            VistaFondata(rete', viste', cache', get[h].cod, storia.visti[h])
      BY <1>5, <2>3, <2>4, <2>6, <3>1, <3>2 DEF GetFondato, VistaFondata
    <3>4. QED
      BY <2>6, <3>1, <3>3 DEF GetFondato
  <2>7. QED
    BY <1>5, <2>5, <2>6 DEF Fondati
<1>7. CASE altri # {}
  <2> DEFINE V == UNION {storia.visti[h] : h \in altri}
  <2>1. /\ \/ get' = [get EXCEPT ![g] = iscritto]
           \/ get' = [get EXCEPT ![g] = OnViewSnapshot(iscritto, <<"cache", cache[c]>>)]
           \/ /\ viste[c] = "sincrona"
              /\ get' = [get EXCEPT ![g] = OnViewSnapshot(iscritto, <<"server", cache[c]>>)]
        /\ storia' = [storia EXCEPT !.visti[g] = V]
        /\ rete' = rete /\ viste' = viste
    BY <1>2, <1>7 DEF AddQueryListener, c, altri, iscritto
  <2>2. storia'.visti = [storia.visti EXCEPT ![g] = V]
    BY <1>0, <2>1 DEF Storia
  <2>3. PICK k \in altri : TRUE
    BY <1>7
  <2>4. k \in Lettore /\ get[k].registrato /\ get[k].cod = c /\ storia.visti[k] \subseteq V
    BY <2>3 DEF altri, Ascoltatori
  <2> HIDE DEF V
  <2>5. /\ storia'.visti[g] = V
        /\ \A h \in Lettore : h # g => get'[h] = get[h] /\ storia'.visti[h] = storia.visti[h]
    BY <1>0, <1>1, <2>1, <2>2 DEF Storia
  <2>6. ASSUME ~storia.rifiutato PROVE GetFondato(g)'
    <3>1. VistaFondata(rete, viste, cache, c, storia.visti[k])
      BY <2>4, <2>6 DEF Fondati, GetFondato
    <3>2. VistaFondata(rete, viste, cache, c, V)
      BY <2>4, <3>1, FondatoCresce
    <3>3. EventiFondati(<<>>, V)
      BY DEF EventiFondati
    <3>4. EventiFondati(OnViewSnapshot(iscritto, <<"cache", cache[c]>>).eventi, V)
      BY <1>3, <1>4, <3>3, EventoFondato
    <3>5. viste[c] = "sincrona" =>
            EventiFondati(OnViewSnapshot(iscritto, <<"server", cache[c]>>).eventi, V)
      <4>1. viste[c] = "sincrona" => Fondato(cache[c], V)
        BY <3>2 DEF VistaFondata
      <4>2. <<"server", cache[c]>>[2] = cache[c]
        OBVIOUS
      <4>3. QED
        BY <1>3, <1>4, <3>3, <4>1, <4>2, EventoFondato
    <3>6. /\ \/ get'[g] = iscritto
             \/ get'[g] = OnViewSnapshot(iscritto, <<"cache", cache[c]>>)
             \/ /\ viste[c] = "sincrona"
                /\ get'[g] = OnViewSnapshot(iscritto, <<"server", cache[c]>>)
          /\ get'[g].cod = c
      BY <1>0, <1>1, <1>3, <1>4, <2>1, OnViewSnapshotForma
    <3>7. EventiFondati(get'[g].eventi, V)
      BY <1>3, <3>3, <3>4, <3>5, <3>6
    <3>8. VistaFondata(rete', viste', cache', c, V)
      BY <1>5, <2>1, <3>2
    <3>9. QED
      BY <2>5, <3>6, <3>7, <3>8 DEF GetFondato
  <2>7. \A h \in Lettore : h # g => (GetFondato(h) => GetFondato(h)')
    BY <1>5, <2>1, <2>5 DEF GetFondato
  <2>8. QED
    BY <1>5, <2>6, <2>7 DEF Fondati
<1>8. QED
  BY <1>6, <1>7

\* The state of the client goes to the listeners: what they get is the cache's.
LEMMA TrasmessoFondato ==
  ASSUME Tipi, NEW t, Trasmette(t), NEW g \in Lettore, NEW V, EventiFondati(get[g].eventi, V)
  PROVE  EventiFondati(get'[g].eventi, V)
<1>1. get[g] \in Get /\ <<"cache", cache[get[g].cod]>> \in Evento
      /\ <<"cache", cache[get[g].cod]>>[1] # "server"
  BY DEF Tipi, Get, Evento
<1>2. get'[g] \in {get[g], OnViewSnapshot(get[g], <<"cache", cache[get[g].cod]>>)}
  BY DEF Trasmette
<1>3. EventiFondati(OnViewSnapshot(get[g], <<"cache", cache[get[g].cod]>>).eventi, V)
  BY <1>1, EventoFondato
<1>4. QED
  BY <1>2, <1>3

LEMMA FlussoFondato ==
  ASSUME Tipi, Fondati,
         \/ OnStreamFinish \/ IdleTimeout \/ RestartNetwork \/ OnlineStateTimeout
         \/ OnWatchStreamOpen \/ BackoffElapsed \/ TargetChange,
         CanaleSano
  PROVE  Fondati'
<1>0. rete \in Rete /\ storia \in Storia /\ \A h \in Lettore : get[h].cod \in Codice
  BY DEF Tipi, Get
<1>1. storia'.visti = storia.visti /\ storia'.rifiutato = storia.rifiutato
  <2>1. \A b : /\ Asserisce(storia, b).visti = storia.visti
               /\ Asserisce(storia, b).rifiutato = storia.rifiutato
    BY <1>0 DEF Asserisce, Storia
  <2>2. CASE \E b : storia' = Asserisce(storia, b) \/ storia' = storia
    BY <2>1, <2>2
  <2>3. CASE RestartNetwork
    BY <1>0, <2>3 DEF RestartNetwork, Storia
  <2>4. CASE OnStreamFinish
    BY <2>2, <2>4 DEF OnStreamFinish, OnWatchStreamClose
  <2>5. CASE IdleTimeout \/ OnlineStateTimeout
    BY <2>2, <2>5 DEF IdleTimeout, OnlineStateTimeout
  <2>6. CASE OnWatchStreamOpen \/ BackoffElapsed \/ TargetChange
    BY <2>2, <2>6 DEF OnWatchStreamOpen, BackoffElapsed, TargetChange
  <2>7. QED
    BY <2>3, <2>4, <2>5, <2>6
<1>2. rete'.server = rete.server
      /\ \A d \in Codice : Vivi(rete', d) \subseteq Vivi(rete, d)
  <2>1. CASE OnStreamFinish \/ IdleTimeout \/ RestartNetwork
    <3>1. rete' = ReteNuova
      BY <2>1 DEF OnStreamFinish, IdleTimeout, RestartNetwork
    <3>2. rete'.server = rete.server /\ rete'.risposte = <<>>
      BY <1>0, <3>1 DEF ReteNuova, Rete
    <3>3. QED
      BY <3>2, ViviNessuno
  <2>2. CASE OnWatchStreamOpen
    <3>1. rete.risposte = <<>>
      BY <2>2 DEF OnWatchStreamOpen, CanaleSano, CanaleVuoto
    <3>2. rete'.server = rete.server /\ rete'.risposte = <<>>
      BY <1>0, <2>2, <3>1 DEF OnWatchStreamOpen, Rete
    <3>3. QED
      BY <3>2, ViviNessuno
  <2>3. CASE OnlineStateTimeout \/ BackoffElapsed
    BY <2>3 DEF OnlineStateTimeout, BackoffElapsed
  <2>4. CASE TargetChange
    <3>1. rete' \in Rete
      BY <2>4, ArrivaForma DEF TargetChange
    <3>2. /\ rete.risposte # <<>> /\ rete'.risposte = Tail(rete.risposte)
          /\ rete'.richieste = rete.richieste /\ rete'.server = rete.server
      BY <1>0, <2>4 DEF TargetChange, Arriva, Rete
    <3>3. QED
      BY <1>0, <3>1, <3>2, ViviArriva
  <2>5. QED
    BY <2>1, <2>2, <2>3, <2>4
<1>3. /\ cache' = cache
      /\ \A d \in Codice : viste'[d] = "sincrona" => viste[d] = "sincrona"
      /\ \A g \in Lettore : get'[g].registrato = get[g].registrato /\ get'[g].cod = get[g].cod
      /\ \A g \in Lettore : EventiFondati(get[g].eventi, storia.visti[g])
                              => EventiFondati(get'[g].eventi, storia.visti[g])
  <2>1. CASE OnStreamFinish \/ OnlineStateTimeout
    <3>1. PICK t \in Tracker : Trasmette(t)
      BY <2>1, ChiusuraForma, OnlineStateTimeoutForma DEF OnStreamFinish
    <3>2. \A g \in Lettore : get'[g].registrato = get[g].registrato /\ get'[g].cod = get[g].cod
      BY <3>1, TrasmetteForma DEF Registrati
    <3>3. \A d \in Codice : viste'[d] = "sincrona" => viste[d] = "sincrona"
      BY <3>1 DEF Trasmette
    <3>4. cache' = cache
      BY <2>1 DEF OnStreamFinish, OnlineStateTimeout
    <3>5. \A g \in Lettore : EventiFondati(get[g].eventi, storia.visti[g])
                              => EventiFondati(get'[g].eventi, storia.visti[g])
      BY <3>1, TrasmessoFondato
    <3>6. QED
      BY <3>2, <3>3, <3>4, <3>5
  <2>2. CASE \/ IdleTimeout \/ RestartNetwork \/ OnWatchStreamOpen \/ BackoffElapsed \/ TargetChange
    BY <2>2 DEF IdleTimeout, RestartNetwork, OnWatchStreamOpen, BackoffElapsed, TargetChange
  <2>3. QED
    BY <2>1, <2>2
<1>4. \A g \in Lettore :
        /\ viste'[get[g].cod] = "sincrona" => viste[get[g].cod] = "sincrona"
        /\ Vivi(rete', get[g].cod) \subseteq Vivi(rete, get[g].cod)
  BY <1>0, <1>2, <1>3
<1>5. QED
  BY <1>1, <1>2, <1>3, <1>4, FondatiResta

\* A document that is taken in has been there: no confirmation was to come.
LEMMA PresoVivo ==
  ASSUME Tipi, CanaleSano, ~storia.rifiutato, rete.risposte # <<>>,
         NEW d \in Documento, NEW c \in Codice, Head(rete.risposte) = <<d, c>>,
         remoto.outstanding[c] = 0
  PROVE  d \in Vivi(rete, c)
<1>1. rete.richieste \in Seq(Domande \X Codice) /\ rete.risposte \in Seq(Messaggio)
  BY DEF Tipi, Rete, Domande, Messaggio
<1>2. Attese(rete.richieste, rete.risposte, c) = 0
  BY DEF CanaleSano, CanaleVuoto, CanaleGiusto
<1>3. /\ IsFiniteSet(Su(rete.richieste, c, Domande)) /\ IsFiniteSet(Su(rete.risposte, c, Conferme))
      /\ Cardinality(Su(rete.richieste, c, Domande)) \in Nat
      /\ Cardinality(Su(rete.risposte, c, Conferme)) \in Nat
  BY <1>1, SuFinito
<1>4. /\ Cardinality(Su(rete.richieste, c, Domande)) = 0
      /\ Cardinality(Su(rete.risposte, c, Conferme)) = 0
  BY <1>2, <1>3 DEF Attese
<1>5. Su(rete.richieste, c, Domande) = {} /\ Su(rete.risposte, c, Conferme) = {}
  BY <1>3, <1>4, FS_EmptySet
<1>6. 1 \in Su(rete.risposte, c, {d})
  <2>1. 1 \in DOMAIN rete.risposte /\ rete.risposte[1] = <<d, c>>
    BY <1>1, HeadTailProperties, EmptySeq
  <2>2. QED
    BY <2>1 DEF Su
<1>7. QED
  BY <1>5, <1>6 DEF Vivi

LEMMA IstantaneaFondata ==
  ASSUME Tipi, CanaleSano, Fondati, RaiseWatchSnapshot
  PROVE  Fondati'
<1>0. rete \in Rete /\ storia' = storia /\ get \in [Lettore -> Get]
  BY DEF Tipi, RaiseWatchSnapshot
<1> SUFFICES ASSUME ~storia.rifiutato, NEW g \in Lettore PROVE GetFondato(g)'
  BY <1>0 DEF Fondati
<1>1. PICK d \in Documento, c \in Codice : Head(rete.risposte) = <<d, c>>
  <2>1. Arriva(Documento) /\ Documento \in SUBSET {"added", "removed", "errore", "presente", "assente"}
    BY DEF RaiseWatchSnapshot, Documento
  <2>2. Head(rete.risposte)[1] \in Documento /\ Head(rete.risposte)[2] \in Codice
    BY <2>1, ArrivaForma
  <2>3. Head(rete.risposte) \in Messaggio
    BY <1>0, <2>1 DEF Arriva, Rete, Messaggio
  <2>4. QED
    BY <2>2, <2>3 DEF Messaggio
<1> DEFINE T == InRemoteEvent(c)
           nuova == [x \in Codice |-> IF x = c /\ x \in T THEN d ELSE cache[x]]
           V == storia.visti[g]
           e == get[g].cod
<1>2. /\ rete.risposte # <<>> /\ rete'.risposte = Tail(rete.risposte)
      /\ rete'.richieste = rete.richieste /\ rete'.server = rete.server
  BY <1>0 DEF RaiseWatchSnapshot, Arriva, Rete
<1>3. rete' \in Rete
  BY ArrivaForma DEF RaiseWatchSnapshot, Documento
<1>4. /\ cache' = nuova
      /\ viste' = [x \in Codice |-> IF x \in T THEN "sincrona" ELSE viste[x]]
      /\ get' = [h \in Lettore |->
             LET x == get[h].cod
             IN IF /\ get[h].registrato /\ x \in T
                   /\ viste[x] # "sincrona" \/ nuova[x] # cache[x]
                THEN OnViewSnapshot(get[h], <<"server", nuova[x]>>) ELSE get[h]]
  BY <1>1 DEF RaiseWatchSnapshot
<1>5. get[g] \in Get /\ e \in Codice /\ Vivi(rete', e) \subseteq Vivi(rete, e)
  <2>1. get[g] \in Get /\ e \in Codice
    BY <1>0 DEF Get
  <2>2. QED
    BY <1>0, <1>2, <1>3, <2>1, ViviArriva
<1>6. GetFondato(g)
  BY DEF Fondati
<1>7. T \subseteq Codice /\ \A x \in T : /\ remoto.outstanding[x] = 0
                                         /\ x # c => cache[x] = "assente"
  BY DEF InRemoteEvent, IsActiveTarget
<1>8. cache \in [Codice -> Documento]
  BY DEF Tipi
<1> HIDE DEF T
<1>9. nuova[e] = (IF e = c /\ e \in T THEN d ELSE cache[e]) /\ nuova[e] \in Documento
  BY <1>5, <1>8
<1> HIDE DEF nuova
<1>10. ASSUME get[g].registrato, e \in T PROVE Fondato(nuova[e], V)
  <2>1. CASE e = c
    <3>1. d \in Vivi(rete, c)
      BY <1>1, <1>2, <1>7, <1>10, <2>1, PresoVivo
    <3>2. Vivi(rete, c) \subseteq V
      BY <1>6, <1>10, <2>1 DEF GetFondato, VistaFondata
    <3>3. QED
      BY <1>9, <1>10, <2>1, <3>1, <3>2 DEF Fondato
  <2>2. CASE e # c
    <3>1. nuova[e] = "assente" /\ Molti
      BY <1>5, <1>7, <1>9, <1>10, <2>2 DEF Molti
    <3>2. QED
      BY <3>1 DEF Fondato
  <2>3. QED
    BY <2>1, <2>2
<1>11. \/ get'[g] = get[g]
       \/ get[g].registrato /\ e \in T /\ get'[g] = OnViewSnapshot(get[g], <<"server", nuova[e]>>)
  BY <1>4
<1> HIDE DEF e, V
<1>12. <<"server", nuova[e]>> \in Evento /\ <<"server", nuova[e]>>[2] = nuova[e]
  BY <1>9 DEF Evento
<1>13. /\ get'[g].registrato = get[g].registrato /\ get'[g].cod = get[g].cod
       /\ EventiFondati(get'[g].eventi, V)
  <2>1. EventiFondati(get[g].eventi, V)
    BY <1>6 DEF GetFondato, V
  <2>2. CASE get'[g] = get[g]
    BY <2>1, <2>2
  <2>3. CASE get[g].registrato /\ e \in T /\ get'[g] = OnViewSnapshot(get[g], <<"server", nuova[e]>>)
    <3>1. Fondato(nuova[e], V)
      BY <1>10, <2>3
    <3>2. EventiFondati(OnViewSnapshot(get[g], <<"server", nuova[e]>>).eventi, V)
      BY <1>5, <1>12, <2>1, <3>1, EventoFondato
    <3>3. LET y == OnViewSnapshot(get[g], <<"server", nuova[e]>>)
          IN y.registrato = get[g].registrato /\ y.cod = get[g].cod
      BY <1>5, <1>12, OnViewSnapshotForma
    <3>4. QED
      BY <2>3, <3>2, <3>3
  <2>4. QED
    BY <1>11, <2>2, <2>3
<1>14. ASSUME get[g].registrato PROVE VistaFondata(rete', viste', cache', e, V)
  <2>1. VistaFondata(rete, viste, cache, e, V)
    BY <1>6, <1>14 DEF GetFondato, e, V
  <2>2. viste'[e] = "sincrona" => Fondato(cache'[e], V)
    <3>1. CASE e \in T
      BY <1>4, <1>10, <1>14, <3>1
    <3>2. CASE e \notin T
      <4>1. viste'[e] = viste[e] /\ cache'[e] = cache[e]
        BY <1>4, <1>5, <1>9, <3>2
      <4>2. QED
        BY <2>1, <4>1 DEF VistaFondata
    <3>3. QED
      BY <3>1, <3>2
  <2>3. QED
    BY <1>2, <1>5, <2>1, <2>2 DEF VistaFondata
<1>15. QED
  BY <1>0, <1>13, <1>14 DEF GetFondato, e, V

\* The server takes requests, and sends what it holds.
LEMMA ServerFondato ==
  ASSUME Tipi, Fondati, ServerRisponde \/ \E c \in Codice : ServerInvia(c) \/ Cambia(c)
  PROVE  Fondati'
<1>0. /\ rete \in Rete /\ rete' \in Rete /\ storia \in Storia
      /\ \A h \in Lettore : get[h].cod \in Codice
  BY ServerTipi DEF Tipi, Get
<1>1. UNCHANGED <<get, viste, cache>>
  BY DEF ServerRisponde, ServerInvia, Cambia
<1>2. ASSUME ServerRisponde, ~storia'.rifiutato PROVE Fondati'
  <2> DEFINE c == Head(rete.richieste)[2]
  <2>1. rete.richieste # <<>> /\ c \in Codice
    <3>1. rete.richieste \in Seq({"watch", "unwatch"} \X Codice) /\ rete.richieste # <<>>
      BY <1>0, <1>2 DEF ServerRisponde, Rete
    <3>2. Head(rete.richieste) \in {"watch", "unwatch"} \X Codice
      BY <3>1, HeadTailProperties
    <3>3. QED
      BY <3>1, <3>2
  <2>2. PICK k \in {"added", "removed", "errore"} :
          /\ rete' = [rete EXCEPT !.richieste = Tail(@), !.risposte = Append(@, <<k, c>>),
                                  !.guardati[c] = IF k = "added" THEN "nuovo" ELSE "no"]
          /\ storia' = [storia EXCEPT !.rifiutato = @ \/ k = "errore"]
    <3>1. \E k \in IF Head(rete.richieste)[1] = "unwatch" THEN {"removed"}
                   ELSE {"added"} \cup (IF "rifiuto" \in Guasti THEN {"errore"} ELSE {}) :
            /\ rete' = [rete EXCEPT !.richieste = Tail(@), !.risposte = Append(@, <<k, c>>),
                                    !.guardati[c] = IF k = "added" THEN "nuovo" ELSE "no"]
            /\ storia' = [storia EXCEPT !.rifiutato = @ \/ k = "errore"]
      BY <1>2 DEF ServerRisponde
    <3>2. QED
      BY <3>1
  <2>3. /\ rete'.richieste = Tail(rete.richieste) /\ rete'.server = rete.server
        /\ rete'.risposte = Append(rete.risposte, <<k, c>>)
        /\ storia'.visti = storia.visti /\ storia'.rifiutato = (storia.rifiutato \/ k = "errore")
    BY <1>0, <2>2 DEF Rete, Storia
  <2>4. k \in Conferme
    BY <1>2, <2>3 DEF Conferme
  <2>5. \A d \in Codice : Vivi(rete', d) \subseteq Vivi(rete, d)
    <3>1. SUFFICES ASSUME NEW d \in Codice PROVE Vivi(rete', d) \subseteq Vivi(rete, d)
      OBVIOUS
    <3>2. Vivi(rete', c) = {} /\ (d # c => Vivi(rete', d) \subseteq Vivi(rete, d))
      BY <1>0, <2>1, <2>3, <2>4, ViviPresa
    <3>3. QED
      BY <3>2
  <2> HIDE DEF c
  <2>6. QED
    BY <1>0, <1>1, <1>2, <2>3, <2>5, FondatiResta
<1>3. ASSUME NEW c \in Codice, ServerInvia(c) PROVE Fondati'
  <2> DEFINE e == <<rete.server[c], c>>
  <2>1. /\ rete'.richieste = rete.richieste /\ rete'.server = rete.server
        /\ rete'.risposte = Append(rete.risposte, e) /\ storia' = storia
    BY <1>0, <1>3 DEF ServerInvia, Rete
  <2>2. e \in Messaggio /\ e[1] = rete.server[c] /\ e[2] = c
    BY <1>0 DEF Messaggio, Rete, Documento
  <2> HIDE DEF e
  <2>3. \A d \in Codice : Vivi(rete', d) \subseteq
                            Vivi(rete, d) \cup (IF d = c THEN {rete.server[c]} ELSE {})
    BY <1>0, <2>1, <2>2, ViviMandata
  <2>4. ~storia.rifiutato => \A g \in Lettore :
          get[g].registrato => rete.server[get[g].cod] \in storia.visti[g]
    BY DEF Fondati, GetFondato, VistaFondata
  <2>5. CASE storia.rifiutato
    BY <2>1, <2>5 DEF Fondati
  <2>6. CASE ~storia.rifiutato
    <3>1. \A g \in Lettore : get[g].registrato =>
            Vivi(rete', get[g].cod) \subseteq Vivi(rete, get[g].cod) \cup storia.visti[g]
      BY <1>0, <2>3, <2>4, <2>6
    <3>2. QED
      BY <1>0, <1>1, <2>1, <2>6, <3>1, FondatiResta
  <2>7. QED
    BY <2>5, <2>6
<1>4. ASSUME NEW c \in Codice, Cambia(c) PROVE Fondati'
  <2> DEFINE d == CHOOSE x \in Documento : x # rete.server[c]
             e == <<d, c>>
  <2>1. d \in Documento
    <3>1. \E x \in Documento : x # rete.server[c]
      BY DEF Documento
    <3>2. QED
      BY <3>1
  <2>2. /\ rete'.richieste = rete.richieste /\ rete'.server = [rete.server EXCEPT ![c] = d]
        /\ rete'.risposte = IF rete.guardati[c] = "corrente" THEN Append(rete.risposte, e)
                            ELSE rete.risposte
        /\ storia'.rifiutato = storia.rifiutato
        /\ storia'.visti = [g \in Lettore |-> IF g \in Ascoltatori(c) THEN storia.visti[g] \cup {d}
                                              ELSE storia.visti[g]]
    BY <1>0, <1>4 DEF Cambia, Rete, Storia
  <2> HIDE DEF d
  <2>3. e \in Messaggio /\ e[1] = d /\ e[2] = c
    BY <2>1 DEF Messaggio, Documento
  <2> HIDE DEF e
  <2>4. \A x \in Codice : Vivi(rete', x) \subseteq Vivi(rete, x) \cup (IF x = c THEN {d} ELSE {})
    <3>1. CASE rete'.risposte = Append(rete.risposte, e)
      BY <1>0, <2>2, <2>3, <3>1, ViviMandata
    <3>2. CASE rete'.risposte = rete.risposte
      BY <2>2, <3>2 DEF Vivi
    <3>3. QED
      BY <2>2, <3>1, <3>2
  <2>5. ASSUME NEW g \in Lettore
        PROVE  /\ storia.visti[g] \subseteq storia'.visti[g]
               /\ get[g].registrato /\ get[g].cod = c => d \in storia'.visti[g]
    BY <2>2 DEF Ascoltatori
  <2>6. SUFFICES ASSUME ~storia.rifiutato, NEW g \in Lettore PROVE GetFondato(g)'
    BY <2>2 DEF Fondati
  <2>7. GetFondato(g)
    BY <2>6 DEF Fondati
  <2> DEFINE V == storia.visti[g]
             W == storia'.visti[g]
             x == get[g].cod
  <2>8. V \subseteq W /\ x \in Codice /\ EventiFondati(get[g].eventi, W)
    BY <1>0, <2>5, <2>7, FondatoCresce DEF GetFondato
  <2>9. ASSUME get[g].registrato PROVE VistaFondata(rete', viste, cache, x, W)
    <3>1. VistaFondata(rete, viste, cache, x, V) /\ (x = c => d \in W)
      BY <2>5, <2>7, <2>9 DEF GetFondato
    <3> HIDE DEF V, W, x
    <3>2. VistaFondata(rete, viste, cache, x, W)
      BY <2>8, <3>1, FondatoCresce
    <3>3. rete'.server[x] \in W
      <4>1. rete'.server[x] = IF x = c THEN d ELSE rete.server[x]
        BY <1>0, <2>2, <2>8 DEF Rete
      <4>2. QED
        BY <3>1, <3>2, <4>1 DEF VistaFondata
    <3>4. Vivi(rete', x) \subseteq W
      BY <2>4, <2>8, <3>1, <3>2 DEF VistaFondata
    <3>5. QED
      BY <3>2, <3>3, <3>4 DEF VistaFondata
  <2>10. QED
    BY <1>1, <2>8, <2>9 DEF GetFondato
<1>5. QED
  <2>1. ServerRisponde /\ storia'.rifiutato => Fondati'
    BY DEF Fondati
  <2>2. QED
    BY <1>2, <1>3, <1>4, <2>1

LEMMA FondatiPasso ==
  ASSUME Tipi, GetSani, CanaleSano, Fondati, [Next]_vars
  PROVE  Fondati'
<1>1. CASE \E g \in Lettore : OnEvent(g) \/ \E c \in Codice : GetDocument(g, c)
  BY <1>1, AppFondata
<1>2. CASE AddQueryListener
  BY <1>2, AggiuntoFondato
<1>3. CASE RemoveQueryListener
  BY <1>3, RimossoFondato
<1>4. CASE \/ OnStreamFinish \/ IdleTimeout \/ RestartNetwork \/ OnlineStateTimeout
           \/ OnWatchStreamOpen \/ BackoffElapsed \/ TargetChange
  BY <1>4, FlussoFondato
<1>5. CASE RaiseWatchSnapshot
  BY <1>5, IstantaneaFondata
<1>6. CASE ProcessTargetError
  <2>1. storia' = storia /\ rete.risposte # <<>> /\ Head(rete.risposte)[1] = "errore"
    BY <1>6 DEF ProcessTargetError, Arriva
  <2>2. 1 \in DOMAIN rete.risposte /\ rete.risposte[1][1] = "errore"
    BY <2>1 DEF Tipi, Rete
  <2>3. storia.rifiutato
    BY <2>2 DEF CanaleSano, SenzaErrori
  <2>4. QED
    BY <2>1, <2>3 DEF Fondati
<1>7. CASE ServerRisponde \/ \E c \in Codice : ServerInvia(c) \/ Cambia(c)
  BY <1>7, ServerFondato
<1>8. CASE UNCHANGED vars
  <2>1. \A g \in Lettore : GetFondato(g) => GetFondato(g)'
    BY <1>8 DEF vars, GetFondato
  <2>2. QED
    BY <1>8, <2>1 DEF vars, Fondati
<1>9. QED
  BY <1>1, <1>2, <1>3, <1>4, <1>5, <1>6, <1>7, <1>8 DEF Next

(***************************************************************************)
(* The theorems                                                            *)
(***************************************************************************)
LEMMA IInvIniziale == Init => IInv
<1> SUFFICES ASSUME Init PROVE IInv
  OBVIOUS
<1>1. Tipi
  BY TipiIniziali
<1>2. /\ \A g \in Lettore : /\ get[g].fase = "fermo" /\ ~get[g].registrato /\ ~get[g].muto
                            /\ get[g].eventi = <<>> /\ storia.risposte[g] = 0
      /\ lavori = <<>>
  BY DEF Init, Fermo
<1>3. GetSani
  BY <1>2 DEF GetSani, GetSano, InLavori
<1>4. NessunoDimenticato
  BY <1>2 DEF NessunoDimenticato
<1>5. Registri
  BY <1>2 DEF Registri, Ascoltatori, Init
<1>6. TrackerSano /\ AsserzioniRispettate
  BY DEF Init, TrackerSano, Sano, AsserzioniRispettate
<1>7. CanaleSano
  BY DEF Init, CanaleSano, CanaleVuoto, SenzaErrori
<1>8. Fondati
  BY <1>2 DEF Fondati, GetFondato, EventiFondati
<1>9. QED
  BY <1>1, <1>3, <1>4, <1>5, <1>6, <1>7, <1>8 DEF IInv

LEMMA IInvPasso == IInv /\ [Next]_vars => IInv'
<1> SUFFICES ASSUME IInv, [Next]_vars PROVE IInv'
  OBVIOUS
<1>1. Tipi'
  BY TipiPasso DEF IInv
<1>2. GetSani' /\ NessunoDimenticato'
  BY GetSaniPasso DEF IInv
<1>3. Registri'
  BY <1>1, RegistriPasso DEF IInv
<1>4. TrackerSano' /\ AsserzioniRispettate'
  BY TrackerPasso DEF IInv
<1>5. CanaleSano'
  BY CanalePasso DEF IInv
<1>6. Fondati'
  BY FondatiPasso DEF IInv
<1>7. QED
  BY <1>1, <1>2, <1>3, <1>4, <1>5, <1>6 DEF IInv

LEMMA Invariante == Spec => []IInv
  BY IInvIniziale, IInvPasso, PTL DEF Spec

\* However many events are raised for a get before its listener is removed, its
\* callback is called once (ListenOnce).
THEOREM UnaRisposta == Spec => []RispostaUnica
<1>1. IInv => RispostaUnica
  BY DEF IInv, GetSani, GetSano, RispostaUnica, Tipi, Get
<1>2. QED
  BY <1>1, Invariante, PTL

\* No error, removal or change of the stream drops the listener of a get that
\* waits (EventManager::OnError, RemoveQueryListener).
THEOREM NessunoPerso == Spec => []NessunoDimenticato
<1>1. IInv => NessunoDimenticato
  BY DEF IInv
<1>2. QED
  BY <1>1, Invariante, PTL

\* No HARD_ASSERT on the read path fails (OnlineStateTracker, RemoteStore).
THEOREM AsserzioniValide == Spec => []AsserzioniRispettate
<1>1. IInv => AsserzioniRispettate
  BY DEF IInv
<1>2. QED
  BY <1>1, Invariante, PTL

\* Confirmations are counted right on an open stream that refuses nothing
\* (RecordPendingTargetRequest, RecordTargetResponse).
THEOREM Contati == Spec => []PendentiContati
<1>1. IInv => PendentiContati
  BY DEF IInv, CanaleSano, CanaleGiusto, Attese, PendentiContati
<1>2. QED
  BY <1>1, Invariante, PTL

\* Every listened document, and no other, is watched or will be when the server
\* has read what was sent (Listen, StopListening, OnWatchStreamOpen).
THEOREM BersagliGiusti == Spec => []BersagliAscoltati
<1>1. IInv => BersagliAscoltati
  BY DEF IInv, Registri, CanaleSano, CanaleGiusto, BersagliAscoltati
<1>2. QED
  BY <1>1, Invariante, PTL

\* Every variable keeps its type, and no more confirmations come than requests
\* went out (RecordTargetResponse).
THEOREM TipiSani == Spec => []TypeOK
<1>1. IInv => TypeOK
  <2>1. SUFFICES ASSUME IInv, ~storia.rifiutato, NEW c \in Codice
                 PROVE  remoto.outstanding[c] >= 0
    BY DEF IInv, TypeOK
  <2>2. CASE remoto.flusso # "Open"
    <3>1. remoto.outstanding[c] = 0
      BY <2>1, <2>2 DEF IInv, CanaleSano, CanaleVuoto
    <3>2. QED
      BY <3>1
  <2>3. CASE remoto.flusso = "Open"
    <3>1. remoto.outstanding[c] = Attese(rete.richieste, rete.risposte, c)
      BY <2>1, <2>3 DEF IInv, CanaleSano, CanaleGiusto
    <3>2. /\ Cardinality(Su(rete.richieste, c, Domande)) \in Nat
          /\ Cardinality(Su(rete.risposte, c, Conferme)) \in Nat
      BY <2>1, SuFinito DEF IInv, Tipi, Rete
    <3>3. QED
      BY <3>1, <3>2 DEF Attese
  <2>4. QED
    BY <2>2, <2>3
<1>2. QED
  BY <1>1, Invariante, PTL

LEMMA PrimoFondato ==
  ASSUME IInv, ~storia.rifiutato, NEW g \in Lettore, get[g].eventi # <<>>,
         Head(get[g].eventi)[1] = "server"
  PROVE  Fondato(Head(get[g].eventi)[2], storia.visti[g])
<1>1. get[g].eventi \in Seq(Evento)
  BY DEF IInv, Tipi, Get
<1>2. 1 \in DOMAIN get[g].eventi /\ Head(get[g].eventi) = get[g].eventi[1]
  BY <1>1, HeadTailProperties, EmptySeq
<1>3. EventiFondati(get[g].eventi, storia.visti[g])
  BY DEF IInv, Fondati, GetFondato
<1>4. QED
  BY <1>2, <1>3 DEF EventiFondati

\* What a get is given as the server's answer the server has held since the get
\* began to listen, for any number of documents and gets; only a delete may be made
\* up, and only when another document is read too (IsActiveTarget, CreateRemoteEvent).
THEOREM RisposteFondate == Spec => []RispostaFondata
<1>1. ASSUME IInv, NEW g \in Lettore, Molti PROVE Codice # {get[g].cod}
  BY <1>1 DEF Molti
<1>2. IInv => RispostaFondata
  BY <1>1, PrimoFondato DEF RispostaFondata, Fondato
<1>3. QED
  BY <1>2, Invariante, PTL

=============================================================================
