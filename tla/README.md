# A TLA+ development of the Ethos maintenance app

The app (Flutter, `src/App/lib`) keeps an archive of machines that have to be
checked periodically.  Operators search a machine by code or QR code, add it
with its data sheet, edit it, and register checks.  All devices share two
Firestore collections and one folder of Firebase Storage; each device may be
offline for any time.  This directory holds TLA+ models of that system and of
the Firestore client it links, TLC configurations that check them on small
instances, and TLAPS proofs, for instances of every size, of every safety property
that the passing runs check and of the two refinements that join the app to the
client's write path.

## 1. Inventory

The program's own logic is the Dart code under `src/App/lib` (3318 lines).  The
rest of `src` is vendored code (`src/App/ios/Pods`), build output and platform
projects, and two template applications the app does not use.  Of the vendored
code one part is modelled, because the app's correctness rests on it: the C++
core of the Firestore client (`FirebaseFirestore/Firestore/core/src`), its write
path and its read path.

| Part | State | Operations | Interacts with | What makes it correct |
|---|---|---|---|---|
| `controlli` collection (`Controllo.dart`, `database_command.dart`) | one document per machine code | `addControlloDB` (set), `editControlDB` (update), `isControlloPresente`, `getControllo`, list queries | every screen | an update is never sent for a machine nobody added; a document seen by the first read is there for the second |
| `registro_controlli` collection (`RegistroControllo.dart`) | one record per code and day | `registroControllo` (set), `getRevisioniPerData` | ControlCheck, PDF | a check that moved a machine's dates has its record |
| `schede` folder of Storage | one file per code | `putFile`, `getDownloadURL` | Add, EditControl, ControlView | a machine has its file, a file has its machine |
| Firestore client, writes (`FirestoreClient`, `SyncEngine`, `LocalStore`, `LevelDbMutationQueue`, `RemoteStore`, `WriteStream`) | a queue on disk per user, pipeline, stream, callbacks | call, send, answer, refuse, break, restart, change of user | all writes | keeps order, loses nothing, reports what happened |
| Firestore client, reads (`EventManager`, `QueryListener`, `RemoteStore`, `WatchChangeAggregator`, `OnlineStateTracker`) | listeners, targets, watch stream, online state | get, listen, unlisten, snapshot, error, timeout | all reads | every get is answered once, with what the server holds or, offline, the cache |
| Search (`searchControl.dart`, `UnregisteredMachineAlert.dart`) | the searched code between two reads | the two reads, the alert | ControlView, Add | see above |
| ControlView, ControlCard | a snapshot (`widget.controllo`) | open, go to EditControl / ControlCheck | EditControl, ControlCheck | works on what really exists |
| Add, EditControl, ControlCheck | form fields, chosen file, dialog, running handlers | fill in, Salva, Conferma, Annulla, back | all of the above | saves whole, once, and says so only afterwards |
| Date fields, `tipo.dart` | last and next date, period | three pairs of date pickers, `setPeriod` | the forms | next date not before last date; pickers can open |
| Splash, Login, Home, AllControls, QRCode | page stack, signed-in user, camera | sign in/out, push/pop, scan | every screen | no archive page without a user; a scanner on top scans |
| PDF (`mostraPdf.dart`) | none | choose the records of a range, write and open a file | registro | exactly the records of the range |

What is hard here: several devices with no transaction between them; writes
that stay queued for any time and survive a restart; async handlers that
outlive the dialog or page that started them, and can be started twice; errors
that are printed and dropped; a two-write check whose first write is not
awaited; state read again after an `await`; in the client, answers without a
name matched by position, timers that race answers, and messages of one stream
or watch that arrive in the life of the next.  `PROJECT.json` lists these
hazards by line.

## 2. Modules

| Module | Content | Uses |
|---|---|---|
| `Archivio` | the archive: server, storage, each device's queue, the search, the three forms and their handlers, faults | `Coda` |
| `Coda` | abstract: what the app may rely on of the Firestore client when it writes | |
| `ClientFirestore` | the write path of the client | `Coda` |
| `Letture` | the read path of the client | |
| `Scadenze` | date fields, pickers, periods, the range of the report | |
| `Navigazione` | page stack, sign-in, callbacks that move pages, scanner | |
| `MCArchivio`, `MCScadenze`, `MCClient`, `MCLetture` | values for TLC (windows on devices, symmetries; a calendar) | |
| `ArchivioProofs`, `ArchivioSicurezza`, `ArchivioSchede`, `ArchivioRaffinamento` | theorems about `Archivio` | |
| `ClientProofs`, `LettureProofs`, `ScadenzeProofs`, `NavigazioneProofs` | theorems about `ClientFirestore`, `Letture`, `Scadenze` and `Navigazione` | |

Mutated forms of definitions, marked `(Mutant: ...)`, stand next to the
definition they change; `PROJECT.json` says which property each one breaks.

How they fit: `Archivio` is the system the users see, built on a queue per
device.  That the queue may be used as it is, is the contract `Coda`:
`Archivio` is shown to keep to it (`RispettaCoda`), and `ClientFirestore`, the
code behind it, to implement it (`ImplementaCoda`); both are checked and proved.  `Letture` does the same
job for reads by properties.  `Scadenze` and `Navigazione` take up what
`Archivio` leaves opaque: the days, and the pages.

### `Archivio`

State:

* `controlli`, `registro`, `schede`: what the server stores.  `Controllo.toJson`
  writes `scheda` and `fromSnapshot` reads `schedaControllo`, so the path read
  back is always `"schede/" + codice`; neither path nor code needs a field of its
  own.  A record of `registro_controlli` is its document id, code and instant of
  the day.
* `coda[d]`: the writes that device `d` has not had answered, oldest first;
  `inviate[d]`: how many of them the server has executed on the open stream.
* `modulo[s]`: one *window*, that is one search/view/form flow over the page
  stack of device `su[s]`.  `base` is `widget.controllo`, the snapshot a page was
  opened with; `rec` is what the form's fields spell out; `file` is `file != null`.
  Two windows on one device are two flows over the same stack (a save pushes a
  new home page over the old pages, from which the next flow starts).
* `gestore[h]`: one run of a "Conferma" handler.  It keeps its local `c` (here its
  code), whether the context of its dialog is still mounted, the code its upload
  goes to (`verso`: the form's code when the write was answered), and where it is:
  `scrive` (awaits `addControlloDB` / `editControlDB`) or `carica` (awaits `putFile`).
* `storia`: a history variable.  It records refused additions, additions whose
  upload failed or was lost, uploads that went to another code, stored checks and
  lost records.  No action reads it.

One action per step of the code between two awaits.  `SearchControl`,
`isControlloPresente`, `getControllo` are "Cerca" (or a scanned code) cut at its
two reads; the dialog's field can be typed in between them (phase `riscritta`,
`Riletta`), because `codice` is read again; `ControlCard` opens a machine from a
list; `Add`, `EditControl`, `ControlCheck` open the forms; `Compila` is any input;
`Chiudi` and `QRCode` leave a form; `Salva` validates, `Verifica` is the
`FutureBuilder` get in Add's dialog, `ChiudiDialogo` closes a dialog.  `Conferma`
is the handler up to its first await, `Prosegui` (run by the answer) the part up
to the next, `putFile` / `putFileFallito` the rest.  `Esegui` is the server
executing the next write, `Risposta` its answer arriving, `Rifiuta` a refusal,
`RispostaPersa` a stream that breaks with answers under way: those writes are
executed again.  `Crash` kills the process, `ConfermaInterrotta` kills it
between the two writes of a check.

Abstractions: type, period and description are one value (`Dati`); days are
opaque; reads are answered from the server's present document under the device's
queued writes, or fail (pages work on snapshots of any age, so a device that reads
an old cached document behaves as one that read it earlier, except that the
search's first answer may then be older than another page's); a device is an
account that stays signed in (`Navigazione` and `ClientFirestore` have the
sign-outs, which leave a queue where it is); the dialog's `FutureBuilder` runs its
get once, as it does unless the dialog's route itself is rebuilt.

### `Coda` and `ClientFirestore`

`Coda` has six actions: a call appends writes, the server executes the next one,
the answer to the oldest arrives or it is refused, executed writes lose their
answers, the process dies and its writes stay.

`ClientFirestore` is one device with a mutation queue on disk per user (`coda`),
the memory of the client with what is under way on its write stream (`c`), and a
history.  The client runs on one serial worker queue, so an action is one operation
of that queue with every call it makes; as calls nest deeply (closing a stream may
reject a batch, refill the pipeline and start the stream again), the methods are
operators from one `c` to the next and keep their names.  Faults: no credentials,
a broken stream, a refusal, a change of connectivity, a change of user, the death of
the process at any step, also between a callback and the commit behind it
(`CrashInRisposta`).  Every HARD_ASSERT on the way is recorded in `c.rotte`.

Abstractions: `Healthy` is `Open` (it only resets the backoff's delay); the stream
token is left out, as it is sent back and never looked at; `close_count_` is a flag
on credentials asked for by a start that was closed since; a batch carries one
write, as the app's do.  The server, external, reads a stream's requests in order,
reads no more of a closed stream, never ends one with OK, and gives a permanent
error only for a write it refuses.  The app never disables the network by itself.

### `Letture`

A get of a document is a listener that is removed at its first event.  `get[g]` is
the listener with the events raised on the worker queue that the app's thread has
not seen; `lavori` the worker queue; `viste` the `View` of each document (none, from
the cache, synced); `cache` the local documents; `remoto` the fields of
`RemoteStore`, its watch stream and its aggregator; `tracker` the
`OnlineStateTracker`; `rete` the stream's messages both ways and the server.

Listeners of one document share a query, hence a target, and the target keeps its
number when it is listened to again; that is why messages of an earlier watch can
meet a later one and `outstanding_responses_` exists.  `OnViewSnapshot`, `Trasmette`
and `OnError` are the three ways an event is raised.  `RaiseWatchSnapshot` is a
document's state with the CURRENT and the snapshot that follow it, and, as
`CreateRemoteEvent` does, makes up a delete for every other active target that is
current and has no document.

Abstractions: a document is there or not; documents enter the cache only by gets;
events behind the second one of a listener are dropped (a muted listener ignores
them all); credentials and health as in `ClientFirestore`; the server confirms a
request in order, may refuse a watch, sends a document's state some time after the
confirmation and again at each change.

### `Scadenze` and `Navigazione`

`Scadenze`: the two dates of a machine in the three forms.  A day is a number, a
`DateTime` an instant in hours of UTC, so that `add(Duration(days: n))` and the
range test of `getRevisioniPerData` do what they do across the clock changes.
Each picker has its three days as the code computes them (`Limiti*`).  The model is
of the shipped build, where Dart's `assert`s are stripped: a picker opens whatever its
days are, "OK" returns a day between the first and the last or the initial one as it
was, even out of that range.  `InOrdine` is what `showDatePicker` asserts of the days;
a debug build stops where it is false, so it has fewer behaviours.  `ritocco` is a
history of how the next date came to be: the last date was changed after it, or it is
such an initial day before the first.

`Navigazione`: the history of Flutter's Navigator, with the pages that are on their
way out but still mounted.  Each page holds the callbacks that run with its context
and where they wait (`attese`): splash delay, sign-in, sign-out, the two reads of
a lookup, a save.  Sign-ins and sign-outs that outlive their page are `orfani`.
A callback acts on whatever page is on top by then, as
`Navigator.of(context).pushReplacement` does.  Dialogs that only ask before leaving
a page are part of the page; a frame read while the scanner is on its way out is like
one read just before; there is one scanner at a time.

## 3. Runs

| Run | Instance | Distinct states | Shows |
|---|---|---|---|
| `archivio_guasti` | 1 device, 2 windows, 1 code, 2 handlers, queue of 2, all five faults | 763 k | `TypeOK`, `Struttura`, `RisposteFondate`, `SecondaLettura`, `TracciaControllo`, `SchedaSpiegata`, `SuccessoDurevole`, and `RispettaCoda`, the refinement `Archivio` => `Coda` |
| `archivio_codici` | 1 window, 2 codes, 2 handlers, queue of 3, failed uploads and refusals | 1.6 M | `AggiornamentiFondati`, `OrfanaSpiegata` when a code is retyped during a search or a save |
| `archivio_completa` | 2 devices, 2 codes, no faults, patient users, fairness | 112 k | `AggiuntaCompletata` |
| `client_due` | 2 users, 3 writes, pipeline of 2, all six faults | 397 k | assertions, loss and outcome, alignment of answers, batch ids, a full pipeline on a stream on its way, and `ImplementaCoda`, the refinement `ClientFirestore` => `Coda` |
| `client_attesa` | 1 user, 2 writes, pipeline of 1, all faults, fairness | 3.3 k | `CodaSmaltita` |
| `letture` | 2 gets, 1 document, 2 messages each way, failing streams and refusals | 2.6 M | one answer and none forgotten, no answer of an earlier watch, targets in step with listeners, stream and server, assertions, the count of confirmations |
| `letture_equa` | gets one after the other, a failing network, 1 network change, fairness | 16 k | `RispostaPrimaOPoi` |
| `scadenze` | two days by the clock changes and today, two periods, a calendar that ends | 544 k | pickers, order of the dates, the proposal, the report's range, the forward-only check date |
| `navigazione` | stack of 3, 2 callbacks, all six ways from home, fairness | 433 k | `FondoSano`, `LoginInCima`, `SenzaUtente`, `ScannerVivo`, `ScannerRiprende` |

Three runs expect a violation, and `PROJECT.json` quotes the comment each one
contradicts (all in the vendored client):

* `letture_attesa`: after a get that timed out and was answered from the cache, the
  tracker is Unknown again with no timer; the next get waits as long as the stream
  attempt lasts, although the timeout is there so that nobody waits indefinitely.
* `letture_pendenti`: a refusal of a target that has been removed meanwhile is
  ignored and not counted as the response it is; with nothing under way a response is
  still awaited, and a later get of that document on the stream is never active.
* `letture_nuovo`: a target that is added again before its removal is confirmed
  keeps `current_`, although the comment says that any earlier state is reset.  With a
  second document whose snapshot comes first, a get is told as the server's answer that
  a document does not exist which was there all the time.  `RispostaFondata` names this
  one exception, a delete that `CreateRemoteEvent` makes up; it cannot arise with the
  one document of `letture`, where the property is checked without it, and the proof
  shows that with any number of documents there is no other: a presence is never
  invented.

Bounds.  `Archivio`: two handlers are what a double tap needs; a queue of two holds
an addition and an edit, or a check's two writes, a queue of three the two writes
of a check behind an addition; two windows give the races on one device, two codes a
diverted upload (with the one code of `archivio_guasti` that cause of `SchedaSpiegata`
is left to the proof).  `MaxCoda` and the number of handlers bound `Conferma` only (a tap
that finds no slot is not taken).  More devices, days or data are not checked for
safety, because the proofs (section 4) cover every number of them; the two devices of
`archivio_completa` are there for liveness, which is not proved.  In
`archivio_guasti` the handlers and the windows of its device are interchangeable, in
`archivio_codici` handlers and codes, in `client_due` the users, in `letture` the slots
for gets; no action or property tells one from another, and the contracts
`RispettaCoda` and `ImplementaCoda` speak of whole queues.  `ClientFirestore`: three writes on a pipeline
of two leave one in the queue behind a full pipeline, two users give ids in two
queues.  `Letture`: two slots are used again and again, so every number of gets
follows each other, two at once; `MaxCanale` stops the server's changes and new gets,
not the stream, and two messages hold a stale document behind a removal.
`Navigazione`: three pages hold scanner, alert and form over home, or two home pages
under a login page.  `Scadenze`: the days lie on both sides of both clock changes, and
the calendar ends within a year of the later one, so that proposals pass its end; no
bound is needed for them, since a proposal counts from a last date and that one stays in
the calendar (`TypeOK`).  For the safety properties these bounds
only matter to what the runs show by themselves; the proofs of section 4 have none.

A refusal that crosses a removal upsets the client's count of confirmations (the
finding of `letture_pendenti`), in either direction: an ignored one leaves it too
high, one that finds the target in use drops the count of what is still to come, which
then goes below zero.  What rests on the count (`RispostaFondata`, `PendentiContati`,
the server's side of `BersagliAscoltati`, that it is never negative) is therefore
stated for streams on which the server has refused nothing; that every get is
answered once and none is forgotten holds with refusals as well.

The safety properties of the archive say *when* something may be missing, since
the code does lose things: a machine without file, a file without machine, a check
without record each have a short list of causes (an error the code drops, a crash, a
code retyped during the save), and the runs and proofs show that there is no other.
`Navigazione`'s say the same of the page stack: what a logout leaves below, a
scanner closed while it reads.  What the code does not promise, and no property
claims: two devices that add the same code at once overwrite each other, and a form
writes back the snapshot it was opened with.  `Scadenze`'s name the two ways in which a machine
comes to be due before its last check: the last date was changed after the next one, or
a picker was confirmed on an initial day before its first, as EditControl's is when the
last date was moved past the stored next one.  A hazard of `PROJECT.json` that is such
a cause itself, or a loss that nothing promises to avoid, has a note instead of properties.

### Fairness

* `Archivio`: the client sends a queued write until the server answers it, so
  `Esegui \/ Rifiuta` is weakly fair per device, and an upload ends with success or an
  error (`putFile \/ putFileFallito`).  `Risposta` is strongly fair: streams may
  break for ever, but not each time just before the answer.  Nothing is assumed of
  users, and crashes may go on.  `AggiuntaCompletata` also needs a user who leaves the
  form alone while it saves (`UtentePaziente`): retyping the code diverts the upload.
* `ClientFirestore`: the worker queue runs, timers expire, credentials come, the
  server reads; strong fairness where a fault can go on for ever, with the same
  reading: the network that fails for ever does not always fail at the same point.
  `CodaSmaltita` is about a user who in the end stays signed in.
* `Letture`: the worker queue and the app's thread run and timers expire (`Tempi`);
  in `SpecEqua` an attempt at the stream opens it or fails, the server answers
  (strongly fair, because `MaxCanale` can keep its channel full), and documents are
  not cut off for ever just before they are sent or handled.
* `Navigazione`: the reads of a scanner's lookup end, and a camera told to pause does.
  That a read ends is what `RispostaPrimaOPoi` says of the client, and it needs a network
  that gives some sign: with one that never does, a second read may wait for ever (the
  finding of `letture_attesa`), and the scanner behind it with its camera paused.

Each property of each passing run has a mutant of the code it is about, named in
`PROJECT.json`, that violates it.

## 4. Proofs

The theorems about `Archivio` hold for every set of devices, windows, handlers,
codes, data and days, every queue bound and every set of faults, under
`ArchivioAssumption` (typing of the constants, null values distinct from real
ones).

* `TipiCorretti`, `StrutturaCorretta`, `RisposteCorrette` (`ArchivioProofs`):
  `Spec => []TypeOK`, `[]Struttura`, `[]RisposteFondate`.  `TypeOK` alone is not
  inductive: that a queued write is a whole record needs that an open dialog has a
  validated form (`FinestraSana`); that an answer finds a well-formed handler needs
  that the awaited write and the handler belong to each other and that no second
  queued write has the same handler (`ScritturaSana`, `GestoreSano`).  `Struttura` is
  their conjunction and is inductive with `TypeOK`.  `RisposteFondate` says that the
  writes counted by `inviate` are in the queue and that each of them has been
  executed: an update among them found its document, an addition left one.  It is
  what lets an answer, which comes later than the execution, be trusted.  One lemma
  per kind of step: windows (`NavigaMantiene`, through `CambioFinestra`), closing a
  dialog, an execution, an answer (through `ProseguiMantiene` and
  `TerminaMantiene`), an upload, a confirmation, a process that dies.
* `AggiornamentiCorretti`, `LettureCorrette` (`ArchivioSicurezza`):
  `[]AggiornamentiFondati`, `[]SecondaLettura`.  Two facts carry them.
  `EreditaPasso`: a step keeps a queue in order, drops at most an answered head,
  and puts new writes at the end, each from an open dialog.  `NotaStabile`: a
  machine that is stored, or known as refused, stays so.  The strengthening
  `FinestreFondate` says the same of the machine a window shows, from the moment a
  read returned it.
* `ControlliDocumentati`: `[]TracciaControllo`, from `ControlliTracciati`, the same
  statement about checks that are still queued.
* `SchedeSpiegate`, `OrfaneSpiegate`, `SuccessiDurevoli` (`ArchivioSchede`):
  `[]SchedaSpiegata`, `[]OrfanaSpiegata`, `[]SuccessoDurevole`.  The argument
  follows the handler of an addition: a step leaves it running for the same
  machine, or ends it with the file stored or the machine known to be incomplete.
  Two strengthenings start it: `AggiunteOrfane`, an addition left in a queue by a
  dead process is known to be incomplete, and `CaricamentiFondati`, a handler only
  uploads for a machine that is stored or was refused.  The latter itself needs
  `AggiornamentiFondati`, because an edit uploads too.
* `ContrattoRispettato` (`ArchivioRaffinamento`): `Spec => RispettaCoda`, that is
  `Spec => Contratto!Spec`.  The mapping is the identity; each action is a step of
  the contract or leaves the queues alone.  It needs `TypeOK` and `Struttura` for the
  confirmation (its writes are writes) and for the process that dies.

The theorems about `ClientFirestore` hold for every set of users, number of writes,
pipeline of at least one place, and set of faults (`ClientAssumption`):

* `Invariante` (`ClientProofs`): one inductive invariant for all of them.  `StatoSano`
  says how stream, token, timers and pipeline go together (a pipeline that is not
  empty has a started stream, a handshake under way has something to send); the
  pipeline is the front of the current user's queue; `FlussoSano` says that, unless the
  stream has broken and the client has not read it yet, the server's answers followed
  by the requests it has not read are the pipeline, batch by batch; `RisposteVere`
  that an answer says what the server did; `IdSani` that ids grow along a queue, no two
  users' queues share one and the callbacks that wait belong to queued batches;
  `NotizieVere` that a callback was told the truth.  None of the properties is inductive
  without the others: an answer has no name, so that it removes the right batch rests
  on the pipeline being the front of the queue, which rests on every way of closing a
  stream going through a refill.  `LoadNextBatchIdFromDb` and the database's `Seek` are
  handled by a least counterexample (`Minimo`), without induction over the queue.
* `TipiSani`, `NessunaAsserzione`, `SemprePiena`, `EsitiVeri`, `RisposteAllineate`,
  `RichiesteSane`, `NessunaConfusione`: `[]TypeOK`, `[]AsserzioniRispettate`,
  `[]PipelinePiena`, `[]EsitoVero`, `[]Allineamento`, `[]RichiesteVive`,
  `[]IdentificativiSani`, from that invariant.
* `ContrattoMantenuto`: `Spec => ImplementaCoda`.  The mapping shows a batch as its
  write and whether a callback waits for it, and counts as sent the answers that are
  under way.  A call is `Scrivi`, the server reading a request is `Esegui`, a result is
  `Risposta`, a refusal that reaches the client is `Rifiuta`, a stream that ends with
  answers under way, or another user signing in, is `Interrompi`, a crash (also
  between a callback and its commit) is `Riavvia`; every other step stutters.  With
  `ContrattoRispettato` above, both sides of the contract are proved.

The theorems about `Letture` hold for every number of gets at once, every finite set
of documents, every bound and both faults (`LettureAssumption`), from one inductive
invariant:

* `UnaRisposta`, `NessunoPerso`, `AsserzioniValide`: `[]RispostaUnica`,
  `[]NessunoDimenticato`, `[]AsserzioniRispettate`.
  `GetSani` says where a get may be: queued to be added at most once and only while it
  waits, queued to be removed only once served; a served get is muted or has nothing
  left that could call back, and an error is the last event of a listener.
  `TrackerSano` says that a running timer belongs to the Unknown state of a started
  stream, and that an idle stream is open with no targets; with `Registri`, the targets
  are exactly the documents listened to, it gives what the code asserts.  Whatever
  raises events (a snapshot, an error, the tracker's new state) is one case,
  `Sollevati`; `AltriSani` does the actions that concern one get.
* `Contati`, `BersagliGiusti`, and `TipiSani` with the sign of the count:
  `[]PendentiContati`, `[]BersagliAscoltati`, `[]TypeOK`.  `CanaleSano` relates the
  fields of `RemoteStore` to the messages of the stream, of any number: without an open
  stream nothing is under way; on an open one the count of a target is the
  number of its requests not read and its confirmations not delivered, and the last
  request about a target, or what the server watches when there is none, is
  what the client last asked for.  A message sent or taken from the front changes these
  sets of places by one element, which is what the lemmas about `Su` and `Decide` say.
* `RisposteFondate`: `[]RispostaFondata`.  `Fondati` follows a document's state back
  from a get: the events raised for it, a synced view, the messages that will still be
  taken in (`Vivi`: no confirmation is to come behind them and no request is on its way)
  and the server's present state all lie in what the server has held since the
  listener was added.  `CanaleSano` is what makes a message of an earlier watch *not*
  one of those: the target is only active when nothing is outstanding.  A delete made up
  for one of several documents is the exception named in section 3.

The theorems about `Scadenze` hold for every calendar, every set of days that are
picked and every set of days in summer time (`ScadenzeAssumption`):

* `TipiDelleDate`, `ScadenzeInOrdine`, `PickerCorretti`, `PropostaCorretta`,
  `PeriodoCorretto`, `ControlliInAvanti`: every property of the run `scadenze`.
  The first part is about instants: midnights are in order although days have 23 to 25
  hours, so an instant has one day (`GiornoDellIstante`) and a proposal is off by one
  day in one case only (`PropostaCalcolata`).  The strengthening `FormaOrdinata` says of
  an open form, and of the document EditControl was opened with, what `ScadenzaOrdinata`
  says of a stored machine; the latter is what makes EditControl's picker start in
  order.  `LimitiForma` gives the range of every picker's days, in order or not: the
  initial day of a last date is in the calendar, that of a next date is at most a
  period past its end, and so is what "OK" returns.

The theorems about `Navigazione` hold for stacks of every height, every number of
callbacks at once and every choice of pages to open (`NavigazioneAssumption`):

* `Invariante` (`NavigazioneProofs`), and from it `TipiSani`, `FondoSempreSano`,
  `LoginSempreInCima`, `ArchivioProtetto`, `ScannerSempreVivo`: `[]TypeOK`,
  `[]FondoSano`, `[]LoginInCima`, `[]SenzaUtente`, `[]ScannerVivo`.
  The splash is alone on the stack until its callback replaces it
  (`Iniziale`); from then on `Regge` holds: the oldest page is a login or home page,
  and either somebody is signed in and no login page is left, or a login page is all
  there is, with the exceptions the history names.  A dialog that is popped may be
  awaited by the scanner far below it.  What ties the two together is `Sane`: there is
  one scanner at most, and it awaits at least as many alerts as lie over it.  So the
  alert that goes finds the scanner and resumes its camera, and `Attento` (a scanner
  whose camera does not run has a lookup or an alert to wait for) survives.  `ScannerVivo`
  alone is not inductive: it says nothing of a scanner that is covered.
  The operators on the stack come first: a page pushed (`PushFatti`), popped
  (`PopFatti`, `PopScanner`), changed in place (`Simile`), and pages dropped whose
  callbacks are done: `Pulita` and `RemoveAt` leave a stack that is embedded in the old
  one, in order and with all its present pages (`Ridotta`), which is all that the
  invariant needs (`RidottaMantiene`).

Only model-checked: the liveness properties `AggiuntaCompletata`, `CodaSmaltita`,
`RispostaPrimaOPoi` and `ScannerRiprende`, because fairness is out of the prover's
reach.  Every invariant, every action property and both refinements of the passing
runs are proved as well.  Neither the runs nor the proofs say anything of what
section 5 leaves out, nor of how long anything takes.

## 5. Not modelled

* `deleteControllo` (never called; its comment says so), the file picker, the
  download of a file in ControlView, the layout and opening of the PDF, labels and
  styles: input and output without state of this program.
* The list of the chosen day and the range picker of Home: a query per build, whose
  stale results Flutter's FutureBuilder drops; the widget is not in `src`.
* A second scanner opened from a form over a first one: both use one global key, and
  what Flutter does with it cannot be seen in `src`.
* Of the client's read path: collection queries with limbo resolution, existence
  filters, resume tokens, queued writes laid over a watched document.  Of `Archivio`:
  a stale cached read while offline, and changes of user.
* An abstract specification of what users are promised of a machine: the code
  promises no more than the properties above, which name the causes of every loss.
* Generated code, the template applications, platform projects and the other vendored
  libraries.
