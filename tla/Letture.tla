------------------------------- MODULE Letture -------------------------------
(***************************************************************************)
(* The read path of the Firestore client that the app links.  A get of a   *)
(* document (isControlloPresente, getControllo) is a listener that is      *)
(* removed at its first event (DocumentReference::GetDocument).  Listeners *)
(* of one document share a target on the watch stream (EventManager,       *)
(* SyncEngine, RemoteStore, WatchChangeAggregator); a listener waits for   *)
(* the server as long as the client may be online (QueryListener), which   *)
(* OnlineStateTracker decides.                                             *)
(*                                                                         *)
(* The worker queue runs one operation at a time, an action each, and the  *)
(* events it raises wait for the app's thread.  The server is external: it *)
(* answers the requests of a stream in order, sends a document's state     *)
(* when it takes up a target and whenever the document changes, and never  *)
(* ends a stream with OK.  Credentials that arrive late and queued writes  *)
(* laid over a document are in ClientFirestore and Archivio.               *)
(***************************************************************************)
EXTENDS Integers, Sequences, FiniteSets, SequencesExt

CONSTANTS
  Codice,        \* the documents that are read
  Lettore,       \* slots for gets that run at once (bound)
  MaxCanale,     \* bound on the messages under way, each way, when the server sends
                 \* one more or a get is called
  MaxRiavvii,    \* bound on the changes of connectivity or of user
  Guasti         \* the kinds of fault that may happen, of the two below

ASSUME LettureAssumption ==
  /\ IsFiniteSet(Codice) /\ MaxCanale \in Nat /\ MaxRiavvii \in Nat
  /\ Guasti \subseteq {"caduta",   \* the stream fails, or cannot be opened
                       "rifiuto"}  \* the server refuses to watch a document

VARIABLES
  get,        \* the gets: their listeners, and the events raised for them
  lavori,     \* the worker queue: listeners to add and to remove
  viste,      \* the view of each document (SyncEngine)
  cache,      \* the local cache of documents
  remoto,     \* RemoteStore: targets, watch stream, aggregator
  tracker,    \* OnlineStateTracker
  rete,       \* the stream's messages under way, and the server
  storia      \* history; no action reads it

vars == <<get, lavori, viste, cache, remoto, tracker, rete, storia>>

Documento == {"presente", "assente"}

\* A document from the server or from the cache, or an error.
Evento == {"server", "cache", "errore"} \X Documento

Get == [fase : {"fermo", "attesa", "servito"}, cod : Codice,
        registrato : BOOLEAN,     \* in EventManager's queries_
        sollevato : BOOLEAN,      \* raised_initial_event_
        muto : BOOLEAN,           \* AsyncEventListener's muted_
        eventi : Seq(Evento)]     \* raised, the app's thread has not seen them

Remoto == [flusso : {"Initial", "Starting", "Backoff", "Open", "Error"},
           inattivo : BOOLEAN,               \* idleness_timer_
           listen_targets : SUBSET Codice,
           outstanding : [Codice -> Int],    \* outstanding_responses_
           current : SUBSET Codice]          \* current_

Rete == [richieste : Seq({"watch", "unwatch"} \X Codice),
         risposte : Seq({"added", "removed", "errore", "presente", "assente"} \X Codice),
         server : [Codice -> Documento],
         \* On this stream: "nuovo" has been added, and has not been sent yet.
         guardati : [Codice -> {"no", "nuovo", "corrente"}]]

Storia == [asserzioni : BOOLEAN,                 \* every HARD_ASSERT held
           visti : [Lettore -> SUBSET Documento],  \* what the server held since
           risposte : [Lettore -> 0..2],           \* calls of the callback
           rifiutato : BOOLEAN,                    \* the server has refused a target
           riavvii : 0..MaxRiavvii]

Fermo(c) == [fase |-> "fermo", cod |-> c, registrato |-> FALSE, sollevato |-> FALSE,
             muto |-> FALSE, eventi |-> <<>>]

Init ==
  /\ \E c \in Codice : get = [g \in Lettore |-> Fermo(c)]
  /\ lavori = <<>>
  /\ viste = [c \in Codice |-> "nessuna"]
  /\ cache \in [Codice -> Documento]
  /\ remoto = [flusso |-> "Initial", inattivo |-> FALSE, listen_targets |-> {},
               outstanding |-> [c \in Codice |-> 0], current |-> {}]
  /\ tracker = [stato |-> "Unknown", timer |-> FALSE, fallimenti |-> 0]
  /\ rete \in [richieste : {<<>>}, risposte : {<<>>}, server : [Codice -> Documento],
               guardati : {[c \in Codice |-> "no"]}]
  /\ storia = [asserzioni |-> TRUE, visti |-> [g \in Lettore |-> {}],
               risposte |-> [g \in Lettore |-> 0], rifiutato |-> FALSE, riavvii |-> 0]

Asserisce(s, b) == [s EXCEPT !.asserzioni = @ /\ b]

\* The listeners of document c.
Ascoltatori(c) == {g \in Lettore : get[g].registrato /\ get[g].cod = c}

(***************************************************************************)
(* OnlineStateTracker, from one state of it to the next.  A second failure *)
(* counts as the first: kMaxWatchStreamFailures is 1.                      *)
(***************************************************************************)
\* (Mutant: a pending timer is left running.)
UpdateState_TimerAcceso(s) == [stato |-> s, timer |-> tracker.timer, fallimenti |-> 0]

UpdateState(s) == [stato |-> s, timer |-> FALSE, fallimenti |-> 0]

HandleWatchStreamStart(t) ==
  IF t.fallimenti # 0 THEN t ELSE [t EXCEPT !.stato = "Unknown", !.timer = TRUE]

HandleWatchStreamFailure(t) ==
  IF t.stato = "Online" THEN [t EXCEPT !.stato = "Unknown"]
  ELSE [stato |-> "Offline", timer |-> FALSE, fallimenti |-> 1]

\* What the two assert.
StartAmmesso(t) == t.fallimenti = 0 => ~t.timer
FailureAmmesso(t) == t.stato = "Online" => t.fallimenti = 0 /\ ~t.timer

(***************************************************************************)
(* Events                                                                  *)
(***************************************************************************)
\* Event e is raised for the listener of x.  Those behind the second one are
\* left out: they meet the same muted listener.
OnViewSnapshot(x, e) ==
  [x EXCEPT !.sollevato = TRUE,
            !.eventi = IF Len(@) < 2 THEN Append(@, e) ELSE @]

\* The tracker's new state goes to the views and then to the listeners.  Only
\* "Offline" matters to them: synced views turn local, and whoever waits for the
\* server gets what the cache has.
Trasmette(t) ==
  /\ tracker' = t
  /\ IF t.stato # "Offline" \/ tracker.stato = "Offline" THEN UNCHANGED <<viste, get>>
     ELSE /\ viste' = [c \in Codice |-> IF viste[c] = "sincrona" THEN "locale" ELSE viste[c]]
          /\ get' = [g \in Lettore |->
               IF get[g].registrato /\ (~get[g].sollevato \/ viste[get[g].cod] = "sincrona")
               THEN OnViewSnapshot(get[g], <<"cache", cache[get[g].cod]>>) ELSE get[g]]

(***************************************************************************)
(* The app's thread                                                        *)
(***************************************************************************)
\* A slot is free again when nothing of its last get is left.
Libero(g) ==
  /\ get[g].fase # "attesa" /\ ~get[g].registrato /\ get[g].eventi = <<>>
  /\ \A i \in DOMAIN lavori : lavori[i][2] # g

GetDocument(g, c) ==
  /\ Libero(g) /\ Len(rete.richieste) < MaxCanale
  /\ get' = [get EXCEPT ![g] = [Fermo(c) EXCEPT !.fase = "attesa"]]
  /\ lavori' = Append(lavori, <<"ascolta", g>>)
  /\ storia' = [storia EXCEPT !.risposte[g] = 0, !.visti[g] = {}]
  /\ UNCHANGED <<viste, cache, remoto, tracker, rete>>

Risposto(s, g) == [s EXCEPT !.risposte[g] = IF @ < 2 THEN @ + 1 ELSE @]

\* (Mutant: the listener is removed, but not muted.)
OnEvent_SenzaMute(g) ==
  /\ get[g].eventi # <<>>
  /\ get' = [get EXCEPT ![g].eventi = Tail(@), ![g].fase = "servito"]
  /\ lavori' = IF get[g].fase = "attesa" THEN Append(lavori, <<"togli", g>>) ELSE lavori
  /\ storia' = Risposto(storia, g)
  /\ UNCHANGED <<viste, cache, remoto, tracker, rete>>

\* ListenOnce: the first event mutes and removes the listener and answers the get;
\* an error answers it and nothing more.
OnEvent(g) ==
  /\ get[g].eventi # <<>>
  /\ IF get[g].muto
     THEN /\ get' = [get EXCEPT ![g].eventi = Tail(@)]
          /\ UNCHANGED <<lavori, storia>>
     ELSE LET errore == Head(get[g].eventi)[1] = "errore"
          IN /\ get' = [get EXCEPT ![g].eventi = Tail(@), ![g].fase = "servito",
                                   ![g].muto = ~errore]
             /\ lavori' = IF errore THEN lavori ELSE Append(lavori, <<"togli", g>>)
             /\ storia' = Risposto(storia, g)
  /\ UNCHANGED <<viste, cache, remoto, tracker, rete>>

(***************************************************************************)
(* The worker queue: listeners come and go                                 *)
(***************************************************************************)
Started(f) == f \in {"Starting", "Backoff", "Open"}

ShouldStartWatchStream(r) == r.listen_targets # {} /\ ~Started(r.flusso)

\* Stream::Start: after an error it backs off first.
Avviato(r) == [r EXCEPT !.flusso = IF @ = "Error" THEN "Backoff" ELSE "Starting",
                        !.outstanding = [c \in Codice |-> 0], !.current = {}]

\* A new stream knows nothing of the old one's messages.
ReteNuova == [rete EXCEPT !.richieste = <<>>, !.risposte = <<>>,
                              !.guardati = [c \in Codice |-> "no"]]

\* SendWatchRequest, SendUnwatchRequest: request o about c goes out on the open
\* stream, which is no longer idle unless there is nothing left to watch.
SendRequest(o, c) ==
  LET T == IF o = "watch" THEN remoto.listen_targets \cup {c}
           ELSE remoto.listen_targets \ {c}
  IN /\ rete' = [rete EXCEPT !.richieste = Append(@, <<o, c>>)]
     /\ remoto' = [remoto EXCEPT !.listen_targets = T, !.inattivo = (T = {}),
                                 !.outstanding[c] = @ + 1]

\* (Mutant: an open stream is not told of a new target.)
Listen_SoloAvvio(c) ==
  LET r == [remoto EXCEPT !.listen_targets = @ \cup {c}]
  IN IF ShouldStartWatchStream(r)
     THEN /\ remoto' = Avviato(r)
          /\ tracker' = HandleWatchStreamStart(tracker)
          /\ UNCHANGED rete
     ELSE remoto' = r /\ UNCHANGED <<tracker, rete>>

\* RemoteStore::Listen
Listen(c) ==
  LET r == [remoto EXCEPT !.listen_targets = @ \cup {c}]
  IN IF ShouldStartWatchStream(r)
     THEN /\ remoto' = Avviato(r)
          /\ tracker' = HandleWatchStreamStart(tracker)
          /\ UNCHANGED rete
     ELSE /\ IF remoto.flusso = "Open" THEN SendRequest("watch", c)
             ELSE remoto' = r /\ UNCHANGED rete
          /\ UNCHANGED tracker

Avvierebbe(c) == ShouldStartWatchStream([remoto EXCEPT !.listen_targets = @ \cup {c}])

\* The first listener of a document makes the target and its view, a later one
\* gets the view as it is.
AddQueryListener ==
  /\ lavori # <<>> /\ Head(lavori)[1] = "ascolta"
  /\ lavori' = Tail(lavori)
  /\ LET g == Head(lavori)[2]
         c == get[g].cod
         altri == Ascoltatori(c)
         iscritto == [get[g] EXCEPT !.registrato = TRUE]
     IN IF altri = {}
        THEN /\ c \notin remoto.listen_targets
             /\ Listen(c)
             /\ viste' = [viste EXCEPT ![c] = "locale"]
             /\ get' = [get EXCEPT ![g] =
                  IF tracker'.stato = "Offline"
                  THEN OnViewSnapshot(iscritto, <<"cache", cache[c]>>) ELSE iscritto]
             /\ storia' = [Asserisce(storia, Avvierebbe(c) => StartAmmesso(tracker))
                             EXCEPT !.visti[g] = {rete.server[c]}]
             /\ UNCHANGED cache
        ELSE /\ get' = [get EXCEPT ![g] =
                  IF viste[c] = "sincrona" THEN OnViewSnapshot(iscritto, <<"server", cache[c]>>)
                  ELSE IF tracker.stato = "Offline"
                       THEN OnViewSnapshot(iscritto, <<"cache", cache[c]>>)
                  ELSE iscritto]
             /\ storia' = [storia EXCEPT !.visti[g] = UNION {storia.visti[h] : h \in altri}]
             /\ UNCHANGED <<viste, cache, remoto, tracker, rete>>

\* RemoteStore::StopListening.  With the stream closed and nothing left to listen
\* to, the tracker is Unknown again.
StopListening(c) ==
  IF remoto.flusso = "Open"
  THEN SendRequest("unwatch", c) /\ UNCHANGED tracker
  ELSE /\ remoto' = [remoto EXCEPT !.listen_targets = @ \ {c}]
       /\ tracker' = IF remoto.listen_targets \ {c} = {} THEN UpdateState("Unknown") ELSE tracker
       /\ UNCHANGED rete

\* The last listener takes the view and the target with it.  An error has taken
\* the listener off already.
RemoveQueryListener ==
  /\ lavori # <<>> /\ Head(lavori)[1] = "togli"
  /\ lavori' = Tail(lavori)
  /\ LET g == Head(lavori)[2]
         c == get[g].cod
     IN /\ get' = [get EXCEPT ![g].registrato = FALSE]
        /\ IF Ascoltatori(c) = {g}
           THEN /\ StopListening(c)
                /\ viste' = [viste EXCEPT ![c] = "nessuna"]
                /\ storia' = Asserisce(storia, c \in remoto.listen_targets)
           ELSE UNCHANGED <<viste, remoto, tracker, rete, storia>>
  /\ UNCHANGED cache

(***************************************************************************)
(* The watch stream                                                        *)
(***************************************************************************)
\* The stream opens: the watches are restored.
OnWatchStreamOpen ==
  /\ remoto.flusso = "Starting"
  /\ \E q \in SetToSeqs({<<"watch", c>> : c \in remoto.listen_targets}) :
       rete' = [rete EXCEPT !.richieste = q]
  /\ remoto' = [remoto EXCEPT !.flusso = "Open",
                  !.outstanding = [c \in Codice |-> IF c \in remoto.listen_targets THEN 1 ELSE 0]]
  /\ UNCHANGED <<get, lavori, viste, cache, tracker, storia>>

\* (Mutant: the stream is not started again.)
OnWatchStreamClose_SenzaRiavvio ==
  /\ remoto' = [remoto EXCEPT !.flusso = "Error", !.inattivo = FALSE,
                              !.outstanding = [c \in Codice |-> 0], !.current = {}]
  /\ Trasmette(HandleWatchStreamFailure(tracker))
  /\ UNCHANGED storia

\* The stream has failed: it is started again if there is something to listen to.
OnWatchStreamClose ==
  LET chiuso == [remoto EXCEPT !.flusso = "Error", !.inattivo = FALSE,
                               !.outstanding = [c \in Codice |-> 0], !.current = {}]
      caduto == HandleWatchStreamFailure(tracker)
  IN IF ShouldStartWatchStream(chiuso)
     THEN /\ remoto' = Avviato(chiuso)
          /\ Trasmette(HandleWatchStreamStart(caduto))
          /\ storia' = Asserisce(storia, FailureAmmesso(tracker) /\ StartAmmesso(caduto))
     ELSE /\ remoto' = chiuso
          /\ Trasmette(UpdateState("Unknown"))
          /\ UNCHANGED storia

OnStreamFinish ==
  /\ "caduta" \in Guasti
  /\ remoto.flusso \in {"Starting", "Open"}
  /\ OnWatchStreamClose
  /\ rete' = ReteNuova
  /\ UNCHANGED <<lavori, cache>>

BackoffElapsed ==
  /\ remoto.flusso = "Backoff"
  /\ remoto' = [remoto EXCEPT !.flusso = "Starting"]
  /\ UNCHANGED <<get, lavori, viste, cache, tracker, rete, storia>>

\* The idle stream stops, which asserts that nothing needs it.
IdleTimeout ==
  /\ remoto.inattivo
  /\ remoto' = [remoto EXCEPT !.flusso = "Initial", !.inattivo = FALSE,
                              !.outstanding = [c \in Codice |-> 0], !.current = {}]
  /\ rete' = ReteNuova
  /\ tracker' = UpdateState("Unknown")
  /\ storia' = Asserisce(storia, remoto.listen_targets = {})
  /\ UNCHANGED <<get, lavori, viste, cache>>

\* The connectivity or the user changes: the stream stops and starts afresh.
RestartNetwork ==
  /\ storia.riavvii < MaxRiavvii
  /\ LET fermo == [remoto EXCEPT !.flusso = "Initial", !.inattivo = FALSE,
                                 !.outstanding = [c \in Codice |-> 0], !.current = {}]
         ignoto == UpdateState("Unknown")
     IN IF ShouldStartWatchStream(fermo)
        THEN remoto' = Avviato(fermo) /\ tracker' = HandleWatchStreamStart(ignoto)
        ELSE remoto' = fermo /\ tracker' = ignoto
  /\ rete' = ReteNuova
  /\ storia' = [storia EXCEPT !.riavvii = @ + 1]
  /\ UNCHANGED <<get, lavori, viste, cache>>

\* Ten seconds without an answer.
OnlineStateTimeout ==
  /\ tracker.timer
  /\ Trasmette([tracker EXCEPT !.stato = "Offline", !.timer = FALSE])
  /\ storia' = Asserisce(storia, tracker.stato = "Unknown")
  /\ UNCHANGED <<lavori, cache, remoto, rete>>

(***************************************************************************)
(* What the server says                                                    *)
(***************************************************************************)
\* (Mutant: the responses still to come are not looked at.)
IsActiveTarget_SenzaAttese(c) == c \in remoto.listen_targets

IsActiveTarget(c) == c \in remoto.listen_targets /\ remoto.outstanding[c] = 0

Arriva(tipi) ==
  /\ rete.risposte # <<>> /\ Head(rete.risposte)[1] \in tipi
  /\ rete' = [rete EXCEPT !.risposte = Tail(@)]
  /\ tracker' = UpdateState("Online")

\* (Mutant: an added target is counted again.)
HandleTargetChange_SoloRimossi(o, n) == IF o = "removed" THEN n - 1 ELSE n

\* (Mutant: a confirmation counts twice.)
HandleTargetChange_DueVolte(o, n) == n - 2

HandleTargetChange(o, n) == n - 1

\* The server has added or removed a target.  An added target keeps the current_
\* of an earlier watch of it, one that is removed and awaits nothing is forgotten.
TargetChange ==
  /\ Arriva({"added", "removed"})
  /\ LET o == Head(rete.risposte)[1]
         c == Head(rete.risposte)[2]
         n == HandleTargetChange(o, remoto.outstanding[c])
     IN remoto' = [remoto EXCEPT !.outstanding[c] = n,
                     !.current = IF o = "removed" /\ n = 0 THEN @ \ {c} ELSE @]
  /\ UNCHANGED <<get, lavori, viste, cache, storia>>

\* The documents a snapshot about document c tells of: c if its target is active,
\* and every other active target that is current and has no document, for which
\* CreateRemoteEvent makes up a delete.
InRemoteEvent(c) ==
  {d \in Codice : IsActiveTarget(d) /\
     (d = c \/ (d \in remoto.current /\ cache[d] = "assente"))}

\* The document, that its target is current, and the snapshot that says so.
RaiseWatchSnapshot ==
  /\ Arriva(Documento)
  /\ LET d == Head(rete.risposte)[1]
         c == Head(rete.risposte)[2]
         T == InRemoteEvent(c)
         nuova == [x \in Codice |-> IF x = c /\ x \in T THEN d ELSE cache[x]]
     IN /\ cache' = nuova
        /\ viste' = [x \in Codice |-> IF x \in T THEN "sincrona" ELSE viste[x]]
        /\ remoto' = [remoto EXCEPT !.current = @ \cup (T \cap {c})]
        /\ get' = [g \in Lettore |->
             LET x == get[g].cod
             IN IF /\ get[g].registrato /\ x \in T
                   /\ viste[x] # "sincrona" \/ nuova[x] # cache[x]
                THEN OnViewSnapshot(get[g], <<"server", nuova[x]>>) ELSE get[g]]
  /\ UNCHANGED <<lavori, storia>>

\* (Mutant: only listeners that have had an event get the error.)
OnError_SoloSollevati(g) ==
  IF get[g].sollevato THEN [OnViewSnapshot(get[g], <<"errore", "assente">>) EXCEPT !.registrato = FALSE]
  ELSE [get[g] EXCEPT !.registrato = FALSE]

\* The error is raised for a listener, which is gone.
OnError(g) ==
  [OnViewSnapshot(get[g], <<"errore", "assente">>) EXCEPT !.registrato = FALSE]

\* The server refuses a target.  Its listeners get the error and are gone; an
\* error about a target that has been removed is ignored.
ProcessTargetError ==
  /\ Arriva({"errore"})
  /\ LET c == Head(rete.risposte)[2]
     IN IF c \notin remoto.listen_targets THEN UNCHANGED <<remoto, viste, get>>
        ELSE /\ remoto' = [remoto EXCEPT !.listen_targets = @ \ {c}, !.outstanding[c] = 0,
                                         !.current = @ \ {c}]
             /\ viste' = [viste EXCEPT ![c] = "nessuna"]
             /\ get' = [g \in Lettore |-> IF g \in Ascoltatori(c) THEN OnError(g) ELSE get[g]]
  /\ UNCHANGED <<lavori, cache, storia>>

(***************************************************************************)
(* The server (external)                                                   *)
(***************************************************************************)
Spazio == Len(rete.risposte) < MaxCanale

\* It takes a request: a watch is added or refused, an unwatch always confirmed.
ServerRisponde ==
  /\ rete.richieste # <<>> /\ Spazio
  /\ LET o == Head(rete.richieste)[1]
         c == Head(rete.richieste)[2]
     IN \E esito \in IF o = "unwatch" THEN {"removed"}
                     ELSE {"added"} \cup (IF "rifiuto" \in Guasti THEN {"errore"} ELSE {}) :
          /\ rete' = [rete EXCEPT !.richieste = Tail(@), !.risposte = Append(@, <<esito, c>>),
                                  !.guardati[c] = IF esito = "added" THEN "nuovo" ELSE "no"]
          /\ storia' = [storia EXCEPT !.rifiutato = @ \/ esito = "errore"]
  /\ UNCHANGED <<get, lavori, viste, cache, remoto, tracker>>

\* A target it has added is sent.
ServerInvia(c) ==
  /\ rete.guardati[c] = "nuovo" /\ Spazio
  /\ rete' = [rete EXCEPT !.risposte = Append(@, <<rete.server[c], c>>),
                          !.guardati[c] = "corrente"]
  /\ UNCHANGED <<get, lavori, viste, cache, remoto, tracker, storia>>

\* Somebody adds or deletes document c; whoever watches it is told.
Cambia(c) ==
  LET d == CHOOSE x \in Documento : x # rete.server[c]
  IN /\ Spazio
     /\ rete' = [rete EXCEPT !.server[c] = d,
                   !.risposte = IF rete.guardati[c] = "corrente" THEN Append(@, <<d, c>>) ELSE @]
     /\ storia' = [storia EXCEPT !.visti = [g \in Lettore |->
                     IF g \in Ascoltatori(c) THEN @[g] \cup {d} ELSE @[g]]]
     /\ UNCHANGED <<get, lavori, viste, cache, remoto, tracker>>

Lavoro == AddQueryListener \/ RemoveQueryListener

Timer == BackoffElapsed \/ IdleTimeout \/ OnlineStateTimeout

Risposta == TargetChange \/ RaiseWatchSnapshot \/ ProcessTargetError

Next ==
  \/ \E g \in Lettore, c \in Codice : GetDocument(g, c)
  \/ \E g \in Lettore : OnEvent(g)
  \/ AddQueryListener \/ RemoveQueryListener
  \/ OnWatchStreamOpen \/ OnStreamFinish \/ BackoffElapsed \/ IdleTimeout
  \/ RestartNetwork \/ OnlineStateTimeout
  \/ TargetChange \/ RaiseWatchSnapshot \/ ProcessTargetError
  \/ ServerRisponde
  \/ \E c \in Codice : ServerInvia(c) \/ Cambia(c)

Spec == Init /\ [][Next]_vars

\* The worker and the app's thread run, also on what arrives, and timers expire.
Tempi ==
  /\ WF_vars(Lavoro) /\ WF_vars(Timer) /\ WF_vars(Risposta)
  /\ \A g \in Lettore : WF_vars(OnEvent(g))

\* Whatever the network does.
SpecTempi == Spec /\ Tempi

\* An attempt at the stream opens it or fails, and the server answers; and a stream
\* that fails over and over does not fail for ever just before a document is sent,
\* or just before it is handled.
SpecEqua ==
  /\ Spec /\ Tempi
  /\ WF_vars(OnWatchStreamOpen) /\ SF_vars(ServerRisponde)
  /\ SF_vars(RaiseWatchSnapshot)
  /\ \A c \in Codice : SF_vars(ServerInvia(c))

(***************************************************************************)
(* Properties                                                              *)
(***************************************************************************)
Domande == {"watch", "unwatch"}
Conferme == {"added", "removed"}

\* Where the messages m tell of document c, with one of the kinds in T.
Su(m, c, T) == {i \in DOMAIN m : m[i][1] \in T /\ m[i][2] = c}

\* When the server has read the requests q it watches document c if b: so says
\* the last request about c, or how far the server is with c when there is none.
Decide(q, w, b, c) ==
  LET di == Su(q, c, Domande)
  IN /\ di = {} => b = (w # "no")
     /\ \A i \in di : (\A j \in di : j <= i) => b = (q[i][1] = "watch")

\* Every variable keeps the shape the code's fields have.
Tipi ==
  /\ get \in [Lettore -> Get]
  /\ lavori \in Seq({"ascolta", "togli"} \X Lettore)
  /\ viste \in [Codice -> {"nessuna", "locale", "sincrona"}]
  /\ cache \in [Codice -> Documento]
  /\ remoto \in Remoto
  /\ tracker \in [stato : {"Unknown", "Online", "Offline"}, timer : BOOLEAN,
                  fallimenti : 0..1]
  /\ rete \in Rete
  /\ storia \in Storia

\* And no more confirmations come than requests went out, as long as the server
\* refuses nothing.
TypeOK ==
  /\ Tipi
  /\ ~storia.rifiutato => \A c \in Codice : remoto.outstanding[c] >= 0

\* A get calls back once, however many events were raised before its listener was
\* removed (ListenOnce and AsyncEventListener::Mute).
RispostaUnica == \A g \in Lettore : storia.risposte[g] <= 1

\* What a get is given as the server's answer is what the server has held since
\* the listener, or the one it shares the view with, was added: nothing of an
\* earlier watch of the document that was still under way (IsActiveTarget), as
\* long as the server refuses none.  The exception is a delete that
\* CreateRemoteEvent makes up with the snapshot of another document.
RispostaFondata ==
  \A g \in Lettore :
    (/\ ~storia.rifiutato /\ get[g].fase = "attesa"
     /\ get[g].eventi # <<>> /\ Head(get[g].eventi)[1] = "server")
      => LET d == Head(get[g].eventi)[2]
         IN d \in storia.visti[g] \/ (d = "assente" /\ Codice # {get[g].cod})

\* The targets are the documents somebody listens to; on an open stream each is
\* watched, or will be when the server has read what was sent, and nothing else
\* will be (Listen, StopListening, OnWatchStreamOpen), unless the server refuses.
BersagliAscoltati ==
  /\ remoto.listen_targets = {c \in Codice : Ascoltatori(c) # {}}
  /\ remoto.flusso = "Open" /\ ~storia.rifiutato =>
       \A c \in Codice :
         Decide(rete.richieste, rete.guardati[c], c \in remoto.listen_targets, c)

\* A get that waits is still to be registered, or is registered, or has an event
\* to see: no error or removal drops a listener in silence (EventManager::OnError,
\* RemoveQueryListener).
NessunoDimenticato ==
  \A g \in Lettore :
    get[g].fase = "attesa" =>
      get[g].registrato \/ get[g].eventi # <<>> \/ Contains(lavori, <<"ascolta", g>>)

\* The HARD_ASSERTs on this path hold: the online state timer is never armed
\* twice or found in another state, a stream is not stopped as idle while it is
\* needed, a target is removed once.
AsserzioniRispettate == storia.asserzioni

\* outstanding_responses_ is the number of confirmations still to come for a
\* target on the open stream, as long as the server refuses none
\* (RecordPendingTargetRequest, RecordTargetResponse).
PendentiContati ==
  remoto.flusso = "Open" /\ ~storia.rifiutato =>
    \A c \in Codice :
      remoto.outstanding[c] = Cardinality(Su(rete.richieste, c, Domande)) +
                              Cardinality(Su(rete.risposte, c, Conferme))

\* outstanding_responses_ counts "outstanding responses (adds or removes) that we
\* are waiting on" (remote_event.h): with nothing under way there is none.
PendentiEstinti ==
  rete.richieste = <<>> /\ rete.risposte = <<>> =>
    \A c \in Codice : remoto.outstanding[c] = 0

\* "We have a freshly added target, so we need to reset any state that we had
\* previously" (remote_event.cc): a target the server has added, and sent nothing
\* of, is not current.
NuovoDaCapo ==
  \A c \in Codice : rete.guardati[c] = "nuovo" /\ IsActiveTarget(c) => c \notin remoto.current

\* Every get is answered, online or offline, with the document or an error.
RispostaPrimaOPoi ==
  \A g \in Lettore : get[g].fase = "attesa" ~> get[g].fase # "attesa"

\* "We have a timeout for OnlineState to reach Online or Offline. If the timeout is
\* reached, we transition to Offline rather than waiting indefinitely"
\* (online_state_tracker.cc): a get does not wait for ever in an Unknown state.
AttesaLimitata ==
  \A g \in Lettore : get[g].fase = "attesa" /\ tracker.stato = "Unknown"
                       ~> get[g].fase # "attesa" \/ tracker.stato # "Unknown"

=============================================================================
