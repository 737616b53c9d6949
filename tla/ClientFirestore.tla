-------------------------- MODULE ClientFirestore --------------------------
(***************************************************************************)
(* The write path of the Firestore client that the app links (FirestoreClient,*)
(* SyncEngine, LocalStore, RemoteStore, WriteStream): one device, one       *)
(* mutation queue on disk per signed-in user, one write stream.  All of it  *)
(* runs on one serial worker queue, so an action is one operation of that   *)
(* queue with every call it makes.  The calls nest deeply (closing a stream *)
(* may reject a batch, refill the pipeline and start the stream again), so  *)
(* the methods are operators from one state of the client's memory to the   *)
(* next, named after them.                                                  *)
(*                                                                          *)
(* The server is external: it reads a stream's requests in order, executes  *)
(* or refuses each write, and forgets a stream's unread requests once the   *)
(* stream is closed.                                                        *)
(***************************************************************************)
EXTENDS Naturals, Sequences, FiniteSets, SequencesExt

CONSTANTS
  Utente,             \* users that sign in on the device; one is "signed out"
  MaxScritture,       \* bound on the writes the app issues
  kMaxPendingWrites,  \* the length of the write pipeline
  Guasti              \* the kinds of fault that may happen, of the six below

ASSUME ClientAssumption ==
  /\ Utente # {}
  /\ MaxScritture \in Nat
  /\ kMaxPendingWrites \in Nat \ {0}
  /\ Guasti \subseteq {"credenziali",   \* no token can be had
                       "caduta",        \* the stream breaks
                       "rifiuto",       \* the server refuses a write
                       "rete",          \* the device's connectivity changes
                       "utente",        \* another user signs in
                       "crash"}         \* the process dies

VARIABLES
  coda,    \* disk: the mutation queue of each user, oldest batch first
  c,       \* memory of the client, and what is under way on its stream
  storia   \* history of the writes; no action reads it

vars == <<coda, c, storia>>

\* A queued batch: its id, and which of the app's writes it carries (the app
\* never puts two writes in one batch).
Batch == [id : Nat \ {0}, n : 1..MaxScritture]

\* What the server sends: an answer to the handshake, the result of a write, or
\* the status that ends the stream.
Messaggio == {"handshake", "risultato", "rifiuto", "caduta"} \X (0..MaxScritture)

Client == [current_user : Utente,
           next_batch_id : Nat \ {0},
           mutation_callbacks : [Utente -> SUBSET (Nat \ {0})],
           write_pipeline : Seq(Batch),
           is_network_enabled : BOOLEAN,
           stato : {"Initial", "Starting", "Open", "Backoff", "Error"},
           handshake_complete : BOOLEAN,
           idleness_timer : BOOLEAN,
           token : BOOLEAN,               \* credentials asked for this start
           superato : BOOLEAN,            \* and for a start closed since
           richieste : Seq(0..MaxScritture),  \* sent, unread (0: handshake)
           risposte : Seq(Messaggio),     \* not yet taken by the client
           rotte : SUBSET STRING]         \* assertions that have failed

Storia == [autore : UNION {[1..k -> Utente] : k \in 0..MaxScritture},
           eseguite : SUBSET (1..MaxScritture),
           rifiutate : SUBSET (1..MaxScritture),
           esito : [1..MaxScritture -> {"nessuno", "ok", "errore"}]]

(***************************************************************************)
(* The mutation queues (LevelDbMutationQueue)                              *)
(***************************************************************************)
InCoda(q) == {q[i] : i \in DOMAIN q}
Identificativi(q) == {b.id : b \in InCoda(q)}

\* (Mutant: the largest id of the user's own queue instead of the whole table.)
LoadNextBatchIdFromDb_Sola(q, u) ==
  Max({0} \cup Identificativi(q[u])) + 1

\* (Mutant: the largest id itself.)
LoadNextBatchIdFromDb_SenzaUno(q, u) ==
  Max({0} \cup UNION {Identificativi(q[v]) : v \in Utente})

\* The id after the largest one on disk, of whatever user.
LoadNextBatchIdFromDb(q, u) ==
  Max({0} \cup UNION {Identificativi(q[v]) : v \in Utente}) + 1

\* Where an iterator on queue q stands once it has sought key id: at the first key
\* that is not smaller, or past the end.
Seek(q, id) == Min({i \in DOMAIN q : q[i].id >= id} \cup {Len(q) + 1})

RemoveMutationBatch(q, id) ==
  IF id \in Identificativi(q) THEN RemoveAt(q, Seek(q, id)) ELSE q

\* What is queued after batch id, the way NextMutationBatchAfterBatchId finds it.
DopoBatch(q, id) == SubSeq(q, Seek(q, id + 1), Len(q))

(***************************************************************************)
(* The stream (Stream, WriteStream)                                        *)
(***************************************************************************)
\* HARD_ASSERT: the process would end here; the model notes it and goes on.
HARD_ASSERT(k, cond, nome) == IF cond THEN k ELSE [k EXCEPT !.rotte = @ \cup {nome}]

IsOpen(k) == k.stato = "Open"
IsStarted(k) == k.stato \in {"Starting", "Backoff", "Open"}

\* Asking for credentials: the answer counts while the stream is not closed.
RequestCredentials(k) == [k EXCEPT !.token = TRUE]

StreamStart(k) ==
  IF k.stato = "Error" THEN [k EXCEPT !.stato = "Backoff"]
  ELSE RequestCredentials([HARD_ASSERT(k, k.stato = "Initial", "Already started")
                             EXCEPT !.stato = "Starting"])

MarkIdle(k) == IF IsOpen(k) THEN [k EXCEPT !.idleness_timer = TRUE] ELSE k

\* (Mutant: a write does not cancel the idle timer.)
StreamWrite_SenzaCancel(k, m) ==
  [HARD_ASSERT(k, IsOpen(k), "Cannot write when the stream is not open")
     EXCEPT !.richieste = @ \o m]

\* Writing messages m cancels the idle timer.
StreamWrite(k, m) ==
  [HARD_ASSERT(k, IsOpen(k), "Cannot write when the stream is not open")
     EXCEPT !.richieste = @ \o m,
            !.idleness_timer = IF m = <<>> THEN @ ELSE FALSE]

WriteHandshake(k) ==
  StreamWrite(HARD_ASSERT(k, ~k.handshake_complete, "Handshake already completed"), <<0>>)

WriteMutations(k, batches) ==
  StreamWrite(HARD_ASSERT(k, k.handshake_complete,
                          "Handshake must be complete before writing mutations"),
              [i \in DOMAIN batches |-> batches[i].n])

InhibitBackoff(k) ==
  [HARD_ASSERT(k, ~IsStarted(k), "Can only cancel backoff in a stopped state")
     EXCEPT !.stato = "Initial"]

(***************************************************************************)
(* The pipeline (RemoteStore)                                              *)
(***************************************************************************)
ShouldStartWriteStream(k) ==
  k.is_network_enabled /\ ~IsStarted(k) /\ k.write_pipeline # <<>>

StartWriteStream(k) ==
  StreamStart(HARD_ASSERT(k, ShouldStartWriteStream(k),
                          "StartWriteStream called when ShouldStartWriteStream is false"))

\* (Mutant: the whole pipeline is sent again.)
AddToWritePipeline_Ripete(k, batches) ==
  LET k1 == [k EXCEPT !.write_pipeline = @ \o batches]
  IN IF IsOpen(k) /\ k.handshake_complete THEN WriteMutations(k1, k1.write_pipeline) ELSE k1

AddToWritePipeline(k, batches) ==
  LET k1 == [k EXCEPT !.write_pipeline = @ \o batches]
  IN IF IsOpen(k) /\ k.handshake_complete THEN WriteMutations(k1, batches) ELSE k1

\* (Mutant: the pipeline may grow without looking at what it holds already.)
FillWritePipeline_DaCapo(k, q) ==
  LET nuovi == IF k.is_network_enabled
               THEN SubSeq(q, 1, IF Len(q) < kMaxPendingWrites THEN Len(q)
                                 ELSE kMaxPendingWrites)
               ELSE <<>>
      k1 == IF nuovi = <<>> THEN MarkIdle(k) ELSE AddToWritePipeline(k, nuovi)
  IN IF ShouldStartWriteStream(k1) THEN StartWriteStream(k1) ELSE k1

\* Takes batches of queue q from where the pipeline ends until it is full, and
\* starts the stream if there is something to send.
FillWritePipeline(k, q) ==
  LET last_batch_id_retrieved ==
        IF k.write_pipeline = <<>> THEN 0 ELSE Last(k.write_pipeline).id
      dopo == DopoBatch(q, last_batch_id_retrieved)
      posti == kMaxPendingWrites - Len(k.write_pipeline)
      nuovi == IF k.is_network_enabled
               THEN SubSeq(dopo, 1, IF Len(dopo) < posti THEN Len(dopo) ELSE posti)
               ELSE <<>>
      k1 == IF k.is_network_enabled /\ k.write_pipeline = <<>> /\ dopo = <<>>
            THEN MarkIdle(k) ELSE AddToWritePipeline(k, nuovi)
  IN IF ShouldStartWriteStream(k1) THEN StartWriteStream(k1) ELSE k1

\* The error refused the batch at the front.
HandleWriteError(k, q) ==
  FillWritePipeline(
    InhibitBackoff([k EXCEPT
      !.write_pipeline = Tail(@),
      !.mutation_callbacks[k.current_user] = @ \ {Head(k.write_pipeline).id}]), q)

\* (Mutant: every error is taken for a refusal.)
Rifiutata_Sempre(k, status) == k.write_pipeline # <<>> /\ k.handshake_complete

\* Does the end of the stream with this status refuse the front of the pipeline?
Rifiutata(k, status) ==
  status = "rifiuto" /\ k.write_pipeline # <<>> /\ k.handshake_complete

\* (Mutant: the stream is not started again.)
OnWriteStreamClose_Fermo(k, status, q) ==
  IF Rifiutata(k, status) THEN HandleWriteError(k, q) ELSE k

\* q is the queue of the current user, without the refused batch if there is one.
OnWriteStreamClose(k, status, q) ==
  LET k0 == HARD_ASSERT(k, status = "ok" => ~ShouldStartWriteStream(k),
                        "Write stream was stopped gracefully while still needed")
      k1 == IF Rifiutata(k0, status) THEN HandleWriteError(k0, q) ELSE k0
  IN IF ShouldStartWriteStream(k1) THEN StartWriteStream(k1) ELSE k1

\* Close: timers are cancelled, requests for credentials are out of date, the
\* stream is gone with all that was under way on it, the listener is told, and
\* only then is the handshake forgotten.
Close(k, status, q) ==
  IF status = "ok" /\ ~IsStarted(k) THEN k
  ELSE LET k0 == HARD_ASSERT(k, IsStarted(k), "Trying to close a non-started stream")
           k1 == [k0 EXCEPT !.idleness_timer = FALSE,
                            !.token = FALSE, !.superato = @ \/ k.token,
                            !.richieste = <<>>, !.risposte = <<>>,
                            !.stato = IF status = "ok" THEN "Initial" ELSE "Error"]
       IN [OnWriteStreamClose(k1, status, q) EXCEPT !.handshake_complete = FALSE]

EnableNetwork(k, q) == FillWritePipeline([k EXCEPT !.is_network_enabled = TRUE], q)

DisableNetworkInternal(k, q) == [Close(k, "ok", q) EXCEPT !.write_pipeline = <<>>]

RestartNetwork(k, q) ==
  EnableNetwork(InhibitBackoff(DisableNetworkInternal(
    [k EXCEPT !.is_network_enabled = FALSE], q)), q)

(***************************************************************************)
(* A process starts (FirestoreClient::Initialize) on the queues on disk    *)
(***************************************************************************)
Avviata(q, u) ==
  EnableNetwork([current_user |-> u, next_batch_id |-> LoadNextBatchIdFromDb(q, u),
                 mutation_callbacks |-> [v \in Utente |-> {}],
                 write_pipeline |-> <<>>, is_network_enabled |-> FALSE,
                 stato |-> "Initial", handshake_complete |-> FALSE,
                 idleness_timer |-> FALSE, token |-> FALSE, superato |-> FALSE,
                 richieste |-> <<>>, risposte |-> <<>>, rotte |-> {}], q[u])

Init ==
  /\ coda = [u \in Utente |-> <<>>]
  /\ \E u \in Utente : c = Avviata(coda, u)
  /\ storia = [autore |-> <<>>, eseguite |-> {}, rifiutate |-> {},
               esito |-> [n \in 1..MaxScritture |-> "nessuno"]]

Mia == coda[c.current_user]

(***************************************************************************)
(* Operations of the worker queue                                          *)
(***************************************************************************)
\* The app writes: LocalStore::WriteLocally puts the batch on disk, its callback
\* is kept in memory, and the pipeline takes it if it has room.
SyncEngine_WriteMutations ==
  LET n == Len(storia.autore) + 1
      q == Append(Mia, [id |-> c.next_batch_id, n |-> n])
  IN /\ n <= MaxScritture
     /\ coda' = [coda EXCEPT ![c.current_user] = q]
     /\ c' = FillWritePipeline([c EXCEPT
               !.next_batch_id = @ + 1,
               !.mutation_callbacks[c.current_user] = @ \cup {c.next_batch_id}], q)
     /\ storia' = [storia EXCEPT !.autore = Append(@, c.current_user)]

\* Credentials arrive for the start that asked for them: the stream opens and
\* its handshake is sent.
ResumeStartWithCredentials ==
  /\ c.token
  /\ c' = WriteHandshake([HARD_ASSERT(c, c.stato = "Starting",
                                      "State should still be 'Starting'")
                            EXCEPT !.token = FALSE, !.stato = "Open"])
  /\ UNCHANGED <<coda, storia>>

\* No credentials: the stream ends with a status that is not about any write.
CredenzialiNegate ==
  /\ "credenziali" \in Guasti /\ c.token
  /\ c' = Close([c EXCEPT !.token = FALSE], "caduta", Mia)
  /\ UNCHANGED <<coda, storia>>

\* (Mutant: close_count is not compared.)
CredenzialiSuperate_Usate ==
  /\ c.superato
  /\ c' = WriteHandshake([HARD_ASSERT(c, c.stato = "Starting",
                                      "State should still be 'Starting'")
                            EXCEPT !.superato = FALSE, !.stato = "Open"])
  /\ UNCHANGED <<coda, storia>>

\* They arrive for a start that was closed since (close_count differs).
CredenzialiSuperate ==
  /\ c.superato
  /\ c' = [c EXCEPT !.superato = FALSE]
  /\ UNCHANGED <<coda, storia>>

\* The backoff timer fires.
BackoffScaduto ==
  /\ c.stato = "Backoff"
  /\ c' = StreamStart([c EXCEPT !.stato = "Initial"])
  /\ UNCHANGED <<coda, storia>>

\* The idle timer fires.
Inattivo ==
  /\ c.idleness_timer
  /\ c' = Close(c, "ok", Mia)
  /\ UNCHANGED <<coda, storia>>

\* The answer to the handshake: the whole pipeline is sent.
OnWriteStreamHandshakeComplete ==
  /\ c.risposte # <<>> /\ Head(c.risposte)[1] \in {"handshake", "risultato"}
  /\ ~c.handshake_complete
  /\ c' = WriteMutations([c EXCEPT !.risposte = Tail(@), !.handshake_complete = TRUE],
                         c.write_pipeline)
  /\ UNCHANGED <<coda, storia>>

\* NotifyUser runs the callback of batch b, if this process has it.
NotifyUser(b, s) ==
  storia' = IF b.id \in c.mutation_callbacks[c.current_user]
            THEN [storia EXCEPT !.esito[b.n] = s] ELSE storia

\* (Mutant: the batch answered is taken off the pipeline but not off the disk.)
HandleSuccessfulWrite_SenzaAck(b) ==
  /\ UNCHANGED coda
  /\ c' = FillWritePipeline([HARD_ASSERT(c, b.id \in Identificativi(Mia),
                                         "Mutation batch did not exist")
            EXCEPT !.risposte = Tail(@), !.write_pipeline = Tail(@),
                   !.mutation_callbacks[c.current_user] = @ \ {b.id}], Mia)

\* Batch b was executed: it leaves the pipeline, the callbacks and the disk, and
\* the pipeline takes the next one.
HandleSuccessfulWrite(b) ==
  LET q == RemoveMutationBatch(Mia, b.id)
  IN /\ coda' = [coda EXCEPT ![c.current_user] = q]
     /\ c' = FillWritePipeline([HARD_ASSERT(c, b.id \in Identificativi(Mia),
                                            "Mutation batch did not exist")
               EXCEPT !.risposte = Tail(@), !.write_pipeline = Tail(@),
                      !.mutation_callbacks[c.current_user] = @ \ {b.id}], q)

\* The result of a write is taken for the batch at the front of the pipeline.
OnWriteStreamMutationResult ==
  /\ c.risposte # <<>> /\ Head(c.risposte)[1] \in {"handshake", "risultato"}
  /\ c.handshake_complete
  /\ IF c.write_pipeline = <<>>
     THEN /\ c' = HARD_ASSERT(c, FALSE, "Got result for empty write pipeline")
          /\ UNCHANGED <<coda, storia>>
     ELSE /\ NotifyUser(Head(c.write_pipeline), "ok")
          /\ HandleSuccessfulWrite(Head(c.write_pipeline))

\* The stream ends with an error: a refused write leaves the disk and its
\* callback runs; any other status changes nothing but the stream.
OnStreamFinish ==
  /\ c.risposte # <<>> /\ Head(c.risposte)[1] \in {"rifiuto", "caduta"}
  /\ LET status == Head(c.risposte)[1]
         b == Head(c.write_pipeline)
         q == IF Rifiutata(c, status) THEN RemoveMutationBatch(Mia, b.id) ELSE Mia
     IN /\ coda' = [coda EXCEPT ![c.current_user] = q]
        /\ c' = Close(HARD_ASSERT(c, Rifiutata(c, status) => b.id \in Identificativi(Mia),
                                  "Attempt to reject nonexistent batch!"), status, q)
        /\ IF Rifiutata(c, status) THEN NotifyUser(b, "errore") ELSE UNCHANGED storia

\* The device's connectivity changes: the open stream is ended first, and all
\* is started again if there is a network now.
ConnettivitaCambiata ==
  /\ "rete" \in Guasti
  /\ LET k == IF IsOpen(c) THEN Close(c, "caduta", Mia) ELSE c
     IN c' = k \/ c' = RestartNetwork(k, Mia)
  /\ UNCHANGED <<coda, storia>>

\* The user, or the user's token, changed.
HandleCredentialChange(u) ==
  /\ "utente" \in Guasti
  /\ LET k == IF u = c.current_user THEN c
              ELSE [c EXCEPT !.current_user = u,
                             !.next_batch_id = LoadNextBatchIdFromDb(coda, u)]
     IN c' = RestartNetwork(k, coda[u])
  /\ UNCHANGED <<coda, storia>>

\* The process dies and a new one starts, with whoever is signed in by then.
Crash(u) ==
  /\ "crash" \in Guasti
  /\ c' = Avviata(coda, u)
  /\ UNCHANGED <<coda, storia>>

\* It dies while it handles a result: the callback has run, but the batch is
\* still on disk.
CrashInRisposta(u) ==
  /\ "crash" \in Guasti
  /\ c.risposte # <<>> /\ Head(c.risposte)[1] = "risultato" /\ c.handshake_complete
  /\ NotifyUser(Head(c.write_pipeline), "ok")
  /\ c' = Avviata(coda, u)
  /\ UNCHANGED coda

(***************************************************************************)
(* The server and the network                                              *)
(***************************************************************************)
Terminato == c.risposte # <<>> /\ Last(c.risposte)[1] \in {"rifiuto", "caduta"}

Risponde(m) == c' = [c EXCEPT !.richieste = Tail(@), !.risposte = Append(@, m)]

\* The server answers the handshake.
ServerHandshake ==
  /\ c.richieste # <<>> /\ Head(c.richieste) = 0 /\ ~Terminato
  /\ Risponde(<<"handshake", 0>>)
  /\ UNCHANGED <<coda, storia>>

\* The server executes a write.
ServerEsegue ==
  /\ c.richieste # <<>> /\ Head(c.richieste) # 0 /\ ~Terminato
  /\ Risponde(<<"risultato", Head(c.richieste)>>)
  /\ storia' = [storia EXCEPT !.eseguite = @ \cup {Head(c.richieste)}]
  /\ UNCHANGED coda

\* The server refuses a write and ends the stream.
ServerRifiuta ==
  /\ "rifiuto" \in Guasti
  /\ c.richieste # <<>> /\ Head(c.richieste) # 0 /\ ~Terminato
  /\ Risponde(<<"rifiuto", Head(c.richieste)>>)
  /\ storia' = [storia EXCEPT !.rifiutate = @ \cup {Head(c.richieste)}]
  /\ UNCHANGED coda

\* The stream breaks: what was under way on it, either way, is lost.
FlussoCaduto ==
  /\ "caduta" \in Guasti /\ IsOpen(c)
  /\ c' = [c EXCEPT !.richieste = <<>>, !.risposte = <<<<"caduta", 0>>>>]
  /\ UNCHANGED <<coda, storia>>

-----------------------------------------------------------------------------
Next ==
  \/ SyncEngine_WriteMutations
  \/ ResumeStartWithCredentials \/ CredenzialiNegate \/ CredenzialiSuperate
  \/ BackoffScaduto \/ Inattivo
  \/ OnWriteStreamHandshakeComplete \/ OnWriteStreamMutationResult \/ OnStreamFinish
  \/ ConnettivitaCambiata
  \/ \E u \in Utente : HandleCredentialChange(u) \/ Crash(u) \/ CrashInRisposta(u)
  \/ ServerHandshake \/ ServerEsegue \/ ServerRifiuta \/ FlussoCaduto

Spec == Init /\ [][Next]_vars

\* A refusal is read, which is how OnStreamFinish rejects a batch.
RifiutoLetto == OnStreamFinish /\ Head(c.risposte)[1] = "rifiuto"

\* Timers fire and the worker queue runs; a network that fails for ever is one
\* that keeps failing at the same point, so what is possible again and again is
\* done at last: credentials arrive, the server answers, the answer is read.
Equita ==
  /\ WF_vars(BackoffScaduto)
  /\ WF_vars(OnStreamFinish)
  /\ SF_vars(RifiutoLetto)
  /\ SF_vars(ResumeStartWithCredentials)
  /\ SF_vars(ServerHandshake)
  /\ SF_vars(OnWriteStreamHandshakeComplete)
  /\ SF_vars(ServerEsegue \/ ServerRifiuta)
  /\ SF_vars(OnWriteStreamMutationResult)

SpecEqua == Spec /\ Equita

(***************************************************************************)
(* Properties                                                              *)
(***************************************************************************)
\* Every variable keeps its type.
TypeOK ==
  /\ coda \in [Utente -> Seq(Batch)]
  /\ c \in Client
  /\ storia \in Storia

\* No HARD_ASSERT of the stream and the pipeline ever fails, whatever the order
\* of timers, credentials, answers, errors, restarts and sign-ins.
AsserzioniRispettate == c.rotte = {}

\* The pipeline is the front of the current user's queue, as much of it as fits,
\* and if it holds anything the stream is on its way: no write is left behind
\* until something else happens to wake the client up.
PipelinePiena ==
  /\ c.write_pipeline = SubSeq(Mia, 1, IF Len(Mia) < kMaxPendingWrites
                                       THEN Len(Mia) ELSE kMaxPendingWrites)
  /\ c.write_pipeline # <<>> => IsStarted(c)

\* The numbers of the writes that are under way on the stream: answers first.
SulFlusso ==
  [i \in 1..Len(c.risposte) |-> c.risposte[i][2]] \o c.richieste

\* Answers carry no name: the client takes each for the front of the pipeline.
\* It is right to: once the handshake is done, what is under way on the stream is
\* the pipeline, in order, until the stream ends.
Allineamento ==
  c.handshake_complete /\ ~(c.risposte # <<>> /\ Last(c.risposte)[1] = "caduta") =>
    LET volo == SulFlusso
        attesi == [i \in DOMAIN c.write_pipeline |-> c.write_pipeline[i].n]
    IN /\ \A i \in DOMAIN c.risposte : c.risposte[i][1] # "handshake"
       /\ volo = attesi

\* The writes that user u has queued.
Scritture(u) == {b.n : b \in InCoda(coda[u])}

\* No write is lost, and no callback lies: what the app issued is queued, for the
\* user who issued it, or was executed, or refused; success is reported only of
\* a write the server executed, an error only of one it refused.
EsitoVero ==
  \A n \in 1..Len(storia.autore) :
    /\ n \in Scritture(storia.autore[n]) \cup storia.eseguite \cup storia.rifiutate
    /\ storia.esito[n] = "ok" => n \in storia.eseguite
    /\ storia.esito[n] = "errore" => n \in storia.rifiutate

\* What is under way to the server is still queued, and is the current user's: an
\* answered write is never executed again, and nobody's write on a stream of
\* another user.
RichiesteVive ==
  \A i \in DOMAIN c.richieste : c.richieste[i] # 0 =>
    c.richieste[i] \in Scritture(c.current_user)

\* Batch ids are used again after a restart or a sign-in, but never while they
\* could be confused: ids grow along each queue, no two users share one, and a
\* callback in memory belongs to a batch of its user that is still queued.
IdentificativiSani ==
  /\ \A u \in Utente :
       /\ \A i, j \in DOMAIN coda[u] : i < j => coda[u][i].id < coda[u][j].id
       /\ c.mutation_callbacks[u] \subseteq Identificativi(coda[u])
  /\ \A u, v \in Utente :
       u # v => Identificativi(coda[u]) \cap Identificativi(coda[v]) = {}
  /\ \A j \in Identificativi(Mia) : j < c.next_batch_id

\* While one user stays signed in, every write of that user's queue is answered,
\* however often the stream breaks, the network changes or the process dies.
CodaSmaltita ==
  \A u \in Utente : <>[](c.current_user = u) =>
    \A n \in 1..MaxScritture : n \in Scritture(u) ~> n \notin Scritture(u)

(***************************************************************************)
(* The refinement of Coda.  A queued write is its number and whether this   *)
(* process has a callback for it; executed and not answered are the results *)
(* under way on the stream, of the user whose stream it is.                 *)
(***************************************************************************)
CodaVista ==
  [u \in Utente |-> [i \in DOMAIN coda[u] |->
     [n |-> coda[u][i].n, attesa |-> coda[u][i].id \in c.mutation_callbacks[u]]]]

InviateViste ==
  [u \in Utente |-> IF u # c.current_user THEN 0
                    ELSE Cardinality({i \in DOMAIN c.risposte : c.risposte[i][1] = "risultato"})]

NonAttesa(w) == [w EXCEPT !.attesa = FALSE]

Contratto == INSTANCE Coda WITH Conto <- Utente, Orfana <- NonAttesa,
                                coda <- CodaVista, inviate <- InviateViste

\* The client keeps the contract that the app is built on: batches, pipelines,
\* streams, credentials, backoff and restarts come to nothing more than Coda.
ImplementaCoda == Contratto!Spec
=============================================================================
