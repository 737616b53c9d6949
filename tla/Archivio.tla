------------------------------ MODULE Archivio ------------------------------
(***************************************************************************)
(* The shared archive of the maintenance app and the screens that write    *)
(* it.  Several devices run the app; they share two Firestore collections  *)
(* (controlli, registro_controlli) and the "schede" folder of Firebase     *)
(* Storage.  A window of the app (Sessione) searches a machine, shows it,  *)
(* and adds, edits or checks it.  The "Conferma" button of a form starts   *)
(* an async handler (Gestore) that awaits the Firestore write, then the    *)
(* upload, then pushes the home page.  A tap during the await starts one   *)
(* more handler, and a handler outlives the dialog that started it.        *)
(*                                                                         *)
(* The Firestore client (external) keeps a persistent FIFO queue of writes *)
(* per device: a write is visible to its own device at once, and is sent   *)
(* until it is answered, with an acknowledgement or a refusal.  Writes are *)
(* pipelined: the server may have executed several whose answers are still *)
(* on their way, and all of these are sent again if the stream breaks.     *)
(***************************************************************************)
EXTENDS Naturals, Sequences

CONSTANTS
  Dispositivo,     \* devices that run the app
  Sessione,        \* windows: one search/view/form flow each
  su,              \* su[s] is the device that window s is on
  Gestore,         \* slots for running "Conferma" handlers (bound)
  Codice,          \* machine codes, the document ids of controlli
  Dati,            \* what tipo, periodo and descrizione hold, as one value
  Giorno,          \* calendar days
  Assente,         \* "no document" / "nothing filled in"
  Nessuno,         \* "no handler" / "no window" / "no code"
  MaxCoda,         \* bound on the writes a device has queued
  Guasti,          \* the kinds of fault that may happen, of the five below
  UtentePaziente   \* does the user leave a form alone while it is saving?

\* A document of controlli (Controllo.dart); its codice is the document id and
\* its scheda is always "schede/" + codice, so neither needs a field.
Controllo == [dati : Dati, ultimo : Giorno, prossimo : Giorno]

ASSUME ArchivioAssumption ==
  /\ su \in [Sessione -> Dispositivo]
  /\ Assente \notin Controllo
  /\ Nessuno \notin Gestore \cup Sessione \cup Codice
  /\ MaxCoda \in Nat
  /\ Guasti \subseteq {"lettura",        \* a read fails
                      "caricamento",    \* an upload fails
                      "rifiuto",        \* the server refuses a write
                      "risposta",       \* the answer to a write is lost
                      "crash"}          \* the process dies
  /\ UtentePaziente \in BOOLEAN

VARIABLES
  controlli,   \* server: code -> document
  registro,    \* server: ids <<code, day>> of the check records
  schede,      \* storage: codes that have a file at schede/<code>
  coda,        \* client: queued writes of each device, oldest first
  inviate,     \* how many of them the server executed on the open stream
  modulo,      \* client: what each window shows and holds
  gestore,     \* client: the running "Conferma" handlers
  storia       \* history of what went wrong or through; no action reads it

server == <<controlli, registro, schede>>
cliente == <<coda, inviate>>
vars == <<controlli, registro, schede, coda, inviate, modulo, gestore, storia>>

(***************************************************************************)
(* Types and initial state                                                 *)
(***************************************************************************)
Fase == {"libera",                          \* home page, nothing open
         "cercata", "trovata", "ignota",    \* search: before, between, after its reads
         "riscritta",                       \* between them, for another code
         "vista",                           \* ControlView on a snapshot
         "modulo",                          \* Add / EditControl / ControlCheck
         "verifica", "presente",            \* Add's dialog: get running, refused
         "conferma",                        \* dialog with "Conferma"
         "coperta"}                         \* that dialog, under a new home page

Finestra == [fase : Fase,
             tipo : {"nessuno", "add", "edit", "check"},
             cod  : Codice \cup {Nessuno},
             rec  : Controllo \cup {Assente},   \* the record the form spells out
             base : Controllo \cup {Assente},   \* widget.controllo
             file : BOOLEAN]                    \* file != null

\* A queued write: "set" (addControlloDB), "edit" and "check" (editControlDB
\* from EditControl and from ControlCheck), "registro" (registroControllo).
Scrittura == [op  : {"set", "edit", "check", "registro"},
              cod : Codice, val : Controllo, h : Gestore \cup {Nessuno}]

\* A handler keeps the code it wrote (its local c), its dialog's context and the
\* code that its upload goes to.
Attesa == [stato : {"libero", "scrive", "carica"}, s : Sessione \cup {Nessuno},
           cod : Codice \cup {Nessuno}, montato : BOOLEAN,
           verso : Codice \cup {Nessuno}]

Storia == [rifiutate  : SUBSET Codice,  \* codes one of whose "set" was refused
           incomplete : SUBSET Codice,  \* added, but the upload failed, was cut
                                        \* off or went to another code
           dirottate  : SUBSET Codice,  \* codes that got such an upload
           eseguiti   : SUBSET (Codice \X Giorno),  \* checks stored in controlli
           persi      : SUBSET (Codice \X Giorno)]  \* records refused or cut off

Libera == [fase |-> "libera", tipo |-> "nessuno", cod |-> Nessuno,
           rec |-> Assente, base |-> Assente, file |-> FALSE]

Libero == [stato |-> "libero", s |-> Nessuno, cod |-> Nessuno, montato |-> FALSE,
           verso |-> Nessuno]

Init ==
  /\ controlli = [c \in Codice |-> Assente]
  /\ registro = {}
  /\ schede = {}
  /\ coda = [d \in Dispositivo |-> <<>>]
  /\ inviate = [d \in Dispositivo |-> 0]
  /\ modulo = [s \in Sessione |-> Libera]
  /\ gestore = [h \in Gestore |-> Libero]
  /\ storia = [rifiutate |-> {}, incomplete |-> {}, dirottate |-> {},
               eseguiti |-> {}, persi |-> {}]

\* The handlers that window s has running.
InCorso(s) == {h \in Gestore : gestore[h].s = s}

(***************************************************************************)
(* Reading a document: the client lays its queued writes over the server's *)
(* document, the latest one on top.  An update of a document that does not *)
(* exist shows nothing.                                                    *)
(***************************************************************************)
\* The document id registroControllo gives a record: code and instant.
IdRegistro(w) == <<w.cod, w.val.ultimo>>

InCoda(d, c) == {i \in DOMAIN coda[d] : /\ coda[d][i].cod = c
                                        /\ coda[d][i].op # "registro"}

Creata(d, c) == \E i \in InCoda(d, c) : coda[d][i].op = "set"

Visibile(d, c) == controlli[c] # Assente \/ Creata(d, c)

\* A get of document c by device d answers r.
Legge(d, c, r) ==
  IF ~Visibile(d, c) THEN r = Assente
  ELSE IF InCoda(d, c) = {} THEN r = controlli[c]
  ELSE \E i \in InCoda(d, c) : /\ \A j \in InCoda(d, c) : j <= i
                               /\ r = coda[d][i].val

Apre(s, w) == modulo' = [modulo EXCEPT ![s] = w]

\* Window s falls back to phase f; what a running handler still reads stays.
Torna(s, f) ==
  Apre(s, IF InCorso(s) # {} THEN [modulo[s] EXCEPT !.fase = f]
          ELSE IF f = "libera" THEN Libera
          ELSE [Libera EXCEPT !.fase = f, !.cod = modulo[s].cod,
                              !.base = modulo[s].base])

(***************************************************************************)
(* Finding a machine                                                       *)
(***************************************************************************)
\* "Cerca" in the search dialog, or a scanned QR code: the first read starts.
SearchControl(s, c) ==
  /\ modulo[s].fase = "libera" /\ InCorso(s) = {}
  /\ Apre(s, [Libera EXCEPT !.fase = "cercata", !.cod = c])
  /\ UNCHANGED <<server, cliente, gestore, storia>>

\* The dialog's field is read again after the first read: the user may have
\* retyped the code by then.
Riletta(s, f, c) ==
  Apre(s, [modulo[s] EXCEPT !.cod = c,
       !.fase = IF f = "trovata" /\ c # modulo[s].cod THEN "riscritta" ELSE f])

\* (Mutant: the catch of the first read answers true.)
isControlloPresente_ErroreVero(s) ==
  /\ modulo[s].fase = "cercata"
  /\ \E c \in Codice :
       \/ /\ "lettura" \in Guasti \/ Visibile(su[s], modulo[s].cod)
          /\ Riletta(s, "trovata", c)
       \/ /\ ~Visibile(su[s], modulo[s].cod)
          /\ Riletta(s, "ignota", c)
  /\ UNCHANGED <<server, cliente, gestore, storia>>

\* The first read answers; a failed read counts as "not there".
isControlloPresente(s) ==
  /\ modulo[s].fase = "cercata"
  /\ \E c \in Codice :
       \/ /\ Visibile(su[s], modulo[s].cod)
          /\ Riletta(s, "trovata", c)
       \/ /\ "lettura" \in Guasti \/ ~Visibile(su[s], modulo[s].cod)
          /\ Riletta(s, "ignota", c)
  /\ UNCHANGED <<server, cliente, gestore, storia>>

\* The second read: its snapshot opens ControlView.  A failed read, or a
\* document that is gone (data()! on null), throws and nothing opens.
getControllo(s) ==
  /\ modulo[s].fase \in {"trovata", "riscritta"}
  /\ \E r \in Controllo \cup {Assente} :
       /\ Legge(su[s], modulo[s].cod, r)
       /\ \/ /\ r # Assente
             /\ Apre(s, [modulo[s] EXCEPT !.fase = "vista", !.base = r])
          \/ /\ "lettura" \in Guasti \/ r = Assente
             /\ Torna(s, "libera")
  /\ UNCHANGED <<server, cliente, gestore, storia>>

\* "Mostra riepilogo" on a card of the home page or of the list of machines:
\* ControlView opens on the snapshot that the list's query returned.
ControlCard(s, c) ==
  /\ modulo[s].fase = "libera" /\ InCorso(s) = {}
  /\ \E r \in Controllo :
       /\ Legge(su[s], c, r)
       /\ Apre(s, [Libera EXCEPT !.fase = "vista", !.cod = c, !.base = r])
  /\ UNCHANGED <<server, cliente, gestore, storia>>

\* "Macchina non registrata. Vuoi aggiungerla?"
UnregisteredMachineAlert(s) ==
  /\ modulo[s].fase = "ignota"
  /\ \/ Apre(s, [modulo[s] EXCEPT !.fase = "modulo", !.tipo = "add"])
     \/ Torna(s, "libera")
  /\ UNCHANGED <<server, cliente, gestore, storia>>

(***************************************************************************)
(* The three forms                                                         *)
(***************************************************************************)
Add(s, c) ==
  /\ modulo[s].fase = "libera" /\ InCorso(s) = {}
  /\ Apre(s, [Libera EXCEPT !.fase = "modulo", !.tipo = "add", !.cod = c])
  /\ UNCHANGED <<server, cliente, gestore, storia>>

\* The form starts from the snapshot that ControlView holds, however old.
EditControl(s) ==
  /\ modulo[s].fase = "vista" /\ InCorso(s) = {}
  /\ Apre(s, [Libera EXCEPT !.fase = "modulo", !.tipo = "edit", !.cod = modulo[s].cod,
                            !.rec = modulo[s].base, !.base = modulo[s].base])
  /\ UNCHANGED <<server, cliente, gestore, storia>>

ControlCheck(s) ==
  /\ modulo[s].fase = "vista" /\ InCorso(s) = {}
  /\ Apre(s, [Libera EXCEPT !.fase = "modulo", !.tipo = "check",
                            !.cod = modulo[s].cod, !.base = modulo[s].base])
  /\ UNCHANGED <<server, cliente, gestore, storia>>

\* (Mutant: EditControl's code field without readOnly.)
CodiceAmmesso_Libero(s) == IF modulo[s].tipo # "check" THEN Codice ELSE {modulo[s].cod}

\* The code is a free field of Add only; a check has only the two dates.
CodiceAmmesso(s) == IF modulo[s].tipo = "add" THEN Codice ELSE {modulo[s].cod}

RecAmmesso(s) == IF modulo[s].tipo = "check"
                 THEN {r \in Controllo : r.dati = modulo[s].base.dati}
                 ELSE Controllo

\* The user fills in fields or attaches a file, also of a form whose earlier
\* confirmation is still being saved.
Compila(s) ==
  /\ modulo[s].fase = "modulo"
  /\ UtentePaziente => InCorso(s) = {}
  /\ \E c \in CodiceAmmesso(s), r \in RecAmmesso(s), f \in {modulo[s].file, TRUE} :
       /\ modulo[s].tipo = "check" => ~f
       /\ Apre(s, [modulo[s] EXCEPT !.cod = c, !.rec = r, !.file = f])
  /\ UNCHANGED <<server, cliente, gestore, storia>>

\* Leaving a form: Add goes back to where it was opened, the other two to the
\* ControlView below them, which still holds its old snapshot.
Chiudi(s) ==
  /\ \/ modulo[s].fase = "modulo" /\ modulo[s].tipo = "add" /\ Torna(s, "libera")
     \/ modulo[s].fase = "modulo" /\ modulo[s].tipo # "add" /\ Torna(s, "vista")
     \/ modulo[s].fase = "vista" /\ Torna(s, "libera")
  /\ UNCHANGED <<server, cliente, gestore, storia>>

\* The camera icon of the code field replaces the form by the scanner.
QRCode(s) ==
  /\ modulo[s].fase = "modulo" /\ modulo[s].tipo \in {"add", "edit"}
  /\ Torna(s, "libera")
  /\ UNCHANGED <<server, cliente, gestore, storia>>

(***************************************************************************)
(* Saving                                                                  *)
(***************************************************************************)
\* (Mutant: the form is not validated.)
Salva_SenzaValidate(s) ==
  /\ modulo[s].fase = "modulo"
  /\ Apre(s, [modulo[s] EXCEPT
       !.fase = IF modulo[s].tipo = "add" THEN "verifica" ELSE "conferma"])
  /\ UNCHANGED <<server, cliente, gestore, storia>>

\* "Salva" / "Registra" with valid fields (an invalid form changes nothing).
Salva(s) ==
  /\ modulo[s].fase = "modulo" /\ modulo[s].rec # Assente
  /\ modulo[s].tipo = "add" => modulo[s].file
  /\ Apre(s, [modulo[s] EXCEPT
       !.fase = IF modulo[s].tipo = "add" THEN "verifica" ELSE "conferma"])
  /\ UNCHANGED <<server, cliente, gestore, storia>>

\* Add's dialog gets the document first (a failed get leaves it spinning).
Verifica(s) ==
  /\ modulo[s].fase = "verifica"
  /\ Apre(s, [modulo[s] EXCEPT !.fase = IF Visibile(su[s], modulo[s].cod)
                                        THEN "presente" ELSE "conferma"])
  /\ UNCHANGED <<server, cliente, gestore, storia>>

\* (Mutant: the handlers of a closed dialog still use its context.)
ChiudiDialogo_Montato(s) ==
  /\ modulo[s].fase \in {"verifica", "presente", "conferma"}
  /\ Apre(s, [modulo[s] EXCEPT !.fase = "modulo"])
  /\ UNCHANGED <<server, cliente, gestore, storia>>

\* "Annulla", back or a tap outside closes the dialog: the context of the
\* handlers it started is no longer mounted, but they go on.
ChiudiDialogo(s) ==
  /\ modulo[s].fase \in {"verifica", "presente", "conferma"}
  /\ Apre(s, [modulo[s] EXCEPT !.fase = "modulo"])
  /\ gestore' = [h \in Gestore |-> IF h \in InCorso(s)
                                   THEN [gestore[h] EXCEPT !.montato = FALSE]
                                   ELSE gestore[h]]
  /\ UNCHANGED <<server, cliente, storia>>

W(s, o, h) == [op |-> o, cod |-> modulo[s].cod, val |-> modulo[s].rec, h |-> h]

\* (Mutant: a check that only updates the machine.)
Scritture_SenzaRegistro(s, h) ==
  CASE modulo[s].tipo = "add" -> {<<W(s, "set", h)>>}
    [] modulo[s].tipo = "edit" -> {<<W(s, "edit", h)>>}
    [] OTHER -> {<<W(s, "check", h)>>}

\* What a confirmation hands to the client, in the order it gets there.  The
\* check's two writes are issued back to back, the first without an await, and
\* the client may take them in either order.
Scritture(s, h) ==
  CASE modulo[s].tipo = "add"  -> {<<W(s, "set", h)>>}
    [] modulo[s].tipo = "edit" -> {<<W(s, "edit", h)>>}
    [] OTHER -> {<<W(s, "registro", Nessuno), W(s, "check", h)>>,
                 <<W(s, "check", h), W(s, "registro", Nessuno)>>}

\* (Mutant: addControlloDB and editControlDB are not awaited.)
Conferma_SenzaAwait(s) ==
  /\ modulo[s].fase = "conferma"
  /\ \E h \in Gestore : \E q \in Scritture(s, Nessuno) :
       /\ gestore[h] = Libero
       /\ Len(coda[su[s]]) + Len(q) <= MaxCoda
       /\ gestore' = [gestore EXCEPT
            ![h] = [stato |-> "carica", s |-> s, cod |-> modulo[s].cod, montato |-> TRUE,
                    verso |-> modulo[s].cod]]
       /\ coda' = [coda EXCEPT ![su[s]] = @ \o q]
  /\ UNCHANGED <<server, inviate, modulo, storia>>

\* "Conferma": the button stays active, so it may be tapped again at any time.
Conferma(s) ==
  /\ modulo[s].fase = "conferma"
  /\ \E h \in Gestore : \E q \in Scritture(s, h) :
       /\ gestore[h] = Libero
       /\ Len(coda[su[s]]) + Len(q) <= MaxCoda
       /\ gestore' = [gestore EXCEPT
            ![h] = [stato |-> "scrive", s |-> s, cod |-> modulo[s].cod, montato |-> TRUE,
                    verso |-> Nessuno]]
       /\ coda' = [coda EXCEPT ![su[s]] = @ \o q]
  /\ UNCHANGED <<server, inviate, modulo, storia>>

\* Navigator.pushNamed('home') if the dialog is still mounted; otherwise
\* looking up the navigator throws and the handler just ends.
Termina(h) ==
  /\ gestore' = [gestore EXCEPT ![h] = Libero]
  /\ modulo' = IF gestore[h].montato
               THEN [modulo EXCEPT ![gestore[h].s].fase = "coperta"] ELSE modulo

\* (Mutant: "if (!mounted) return" after the awaited write.)
Prosegui_SeMontato(h) ==
  LET m == modulo[gestore[h].s]
  IN IF gestore[h].montato /\ (m.tipo = "add" \/ (m.tipo = "edit" /\ m.file))
     THEN /\ gestore' = [gestore EXCEPT ![h].stato = "carica", ![h].verso = m.cod]
          /\ UNCHANGED modulo
     ELSE Termina(h)

\* (Mutant: the home page is pushed before the upload.)
Prosegui_PrimaHome(h) ==
  LET m == modulo[gestore[h].s]
  IN IF m.tipo = "add" \/ (m.tipo = "edit" /\ m.file)
     THEN /\ gestore' = [gestore EXCEPT ![h].stato = "carica", ![h].verso = m.cod]
          /\ modulo' = IF gestore[h].montato
                       THEN [modulo EXCEPT ![gestore[h].s].fase = "coperta"] ELSE modulo
     ELSE Termina(h)

\* The handler's code after the awaited write, refused or not: the error is
\* printed and dropped.  Add always uploads, EditControl if there is a file, to the
\* code that the form holds by then.
Prosegui(h) ==
  LET m == modulo[gestore[h].s]
  IN IF m.tipo = "add" \/ (m.tipo = "edit" /\ m.file)
     THEN /\ gestore' = [gestore EXCEPT ![h].stato = "carica", ![h].verso = m.cod]
          /\ UNCHANGED modulo
     ELSE Termina(h)

\* The upload completes.
putFile(h) ==
  /\ gestore[h].stato = "carica"
  /\ LET c == gestore[h].verso
     IN /\ schede' = schede \cup {c}
        /\ storia' = IF c = gestore[h].cod THEN storia
                     ELSE [storia EXCEPT !.dirottate = @ \cup {c},
                                         !.incomplete = @ \cup {gestore[h].cod}]
  /\ Termina(h)
  /\ UNCHANGED <<controlli, registro, cliente>>

\* The codes that the additions among handlers H have no file for yet.
Scoperte(H) == {gestore[h].cod : h \in {x \in H : modulo[gestore[x].s].tipo = "add"}}

\* The upload fails: putFile throws and the handler ends where it is.
putFileFallito(h) ==
  /\ "caricamento" \in Guasti
  /\ gestore[h].stato = "carica"
  /\ gestore' = [gestore EXCEPT ![h] = Libero]
  /\ storia' = [storia EXCEPT !.incomplete = @ \cup Scoperte({h})]
  /\ UNCHANGED <<server, cliente, modulo>>

\* Back from the home page that a save pushed: its dialog is there again.
Indietro(s) ==
  /\ modulo[s].fase = "coperta"
  /\ Apre(s, [modulo[s] EXCEPT !.fase = "conferma"])
  /\ UNCHANGED <<server, cliente, gestore, storia>>

(***************************************************************************)
(* The server and the client's queue                                       *)
(***************************************************************************)
\* The server takes a write unless it updates a missing document.
Ammessa(w) == w.op \in {"edit", "check"} => controlli[w.cod] # Assente

\* The server executes write w.
Effetto(w) ==
  /\ controlli' = IF w.op # "registro" THEN [controlli EXCEPT ![w.cod] = w.val] ELSE controlli
  /\ registro' = IF w.op = "registro" THEN registro \cup {IdRegistro(w)} ELSE registro
  /\ storia' = IF w.op = "check"
               THEN [storia EXCEPT !.eseguiti = @ \cup {<<w.cod, w.val.ultimo>>}]
               ELSE storia
  /\ UNCHANGED schede

\* The server reads the next write of d's pipeline and executes it.
Esegui(d) ==
  /\ inviate[d] < Len(coda[d])
  /\ Ammessa(coda[d][inviate[d] + 1])
  /\ Effetto(coda[d][inviate[d] + 1])
  /\ inviate' = [inviate EXCEPT ![d] = @ + 1]
  /\ UNCHANGED <<coda, gestore, modulo>>

\* The oldest write of d leaves the queue, and whoever awaits it goes on.
Conclusa(d) ==
  /\ coda' = [coda EXCEPT ![d] = Tail(@)]
  /\ IF Head(coda[d]).h = Nessuno THEN UNCHANGED <<gestore, modulo>>
     ELSE Prosegui(Head(coda[d]).h)

\* (Mutant: the stream does not forget what it was answered.)
Risposta_SenzaConteggio(d) ==
  /\ inviate[d] > 0 /\ coda[d] # <<>>
  /\ Conclusa(d)
  /\ UNCHANGED <<server, inviate, storia>>

\* The answer to it reaches the device.
Risposta(d) ==
  /\ inviate[d] > 0
  /\ inviate' = [inviate EXCEPT ![d] = @ - 1]
  /\ Conclusa(d)
  /\ UNCHANGED <<server, storia>>

\* The stream breaks: the answers under way are lost, and the client will send
\* their writes again.
RispostaPersa(d) ==
  /\ "risposta" \in Guasti /\ inviate[d] > 0
  /\ inviate' = [inviate EXCEPT ![d] = 0]
  /\ UNCHANGED <<server, coda, gestore, modulo, storia>>

\* The server refuses the oldest write, by its rules or because it updates a
\* missing document; the answers to earlier ones have arrived before.
Rifiuta(d) ==
  /\ inviate[d] = 0 /\ coda[d] # <<>>
  /\ LET w == Head(coda[d])
     IN /\ "rifiuto" \in Guasti \/ ~Ammessa(w)
        /\ storia' = CASE w.op = "set" -> [storia EXCEPT !.rifiutate = @ \cup {w.cod}]
                       [] w.op = "registro" ->
                            [storia EXCEPT !.persi = @ \cup {<<w.cod, w.val.ultimo>>}]
                       [] OTHER -> storia
  /\ Conclusa(d)
  /\ UNCHANGED <<server, inviate>>

(***************************************************************************)
(* The process dies.  Windows and handlers are gone, the queued writes are *)
(* on disk and will be sent by the next run, with no handler to answer to. *)
(***************************************************************************)
AttiviSu(d) == {h \in Gestore : \E s \in Sessione : gestore[h].s = s /\ su[s] = d}

SenzaGestore(w) == [w EXCEPT !.h = Nessuno]

\* (Mutant: the queue is kept in memory only.)
Spegni_SenzaDisco(d, q) ==
  /\ modulo' = [s \in Sessione |-> IF su[s] = d THEN Libera ELSE modulo[s]]
  /\ gestore' = [h \in Gestore |-> IF h \in AttiviSu(d) THEN Libero ELSE gestore[h]]
  /\ coda' = [coda EXCEPT ![d] = <<>>]
  /\ inviate' = [inviate EXCEPT ![d] = 0]

Spegni(d, q) ==
  /\ modulo' = [s \in Sessione |-> IF su[s] = d THEN Libera ELSE modulo[s]]
  /\ gestore' = [h \in Gestore |-> IF h \in AttiviSu(d) THEN Libero ELSE gestore[h]]
  /\ coda' = [coda EXCEPT ![d] = [i \in DOMAIN q |-> SenzaGestore(q[i])]]
  /\ inviate' = [inviate EXCEPT ![d] = 0]

Crash(d) ==
  /\ "crash" \in Guasti
  /\ Spegni(d, coda[d])
  /\ storia' = [storia EXCEPT !.incomplete = @ \cup Scoperte(AttiviSu(d))]
  /\ UNCHANGED server

\* The process dies inside a check's confirmation, between its two writes.
ConfermaInterrotta(s) ==
  /\ "crash" \in Guasti
  /\ modulo[s].fase = "conferma" /\ modulo[s].tipo = "check"
  /\ Len(coda[su[s]]) < MaxCoda
  /\ \E o \in {"registro", "check"} :
       /\ Spegni(su[s], Append(coda[su[s]], W(s, o, Nessuno)))
       /\ storia' = [storia EXCEPT
            !.incomplete = @ \cup Scoperte(AttiviSu(su[s])),
            !.persi = IF o = "check"
                      THEN @ \cup {<<modulo[s].cod, modulo[s].rec.ultimo>>} ELSE @]
  /\ UNCHANGED server

-----------------------------------------------------------------------------
Utente(s) ==
  \/ \E c \in Codice : SearchControl(s, c) \/ ControlCard(s, c) \/ Add(s, c)
  \/ isControlloPresente(s) \/ getControllo(s) \/ UnregisteredMachineAlert(s)
  \/ EditControl(s) \/ ControlCheck(s) \/ Compila(s) \/ Chiudi(s) \/ QRCode(s)
  \/ Salva(s) \/ Verifica(s) \/ ChiudiDialogo(s) \/ Conferma(s) \/ Indietro(s)
  \/ ConfermaInterrotta(s)

Next ==
  \/ \E s \in Sessione : Utente(s)
  \/ \E h \in Gestore : putFile(h) \/ putFileFallito(h)
  \/ \E d \in Dispositivo :
       Esegui(d) \/ Risposta(d) \/ RispostaPersa(d) \/ Rifiuta(d) \/ Crash(d)

Spec == Init /\ [][Next]_vars

\* The client sends a queued write until the server has executed or refused it,
\* an answer that is under way again and again arrives at last, and an upload
\* ends one way or the other.  Nothing is assumed of the user.
Equita ==
  /\ \A d \in Dispositivo : WF_vars(Esegui(d) \/ Rifiuta(d)) /\ SF_vars(Risposta(d))
  /\ \A h \in Gestore : WF_vars(putFile(h) \/ putFileFallito(h))

SpecEqua == Spec /\ Equita

(***************************************************************************)
(* Properties                                                              *)
(***************************************************************************)
\* Every variable keeps its type: documents are whole records (toJson writes
\* every field), queues hold writes, handlers and windows are well formed.
TypeOK ==
  /\ controlli \in [Codice -> Controllo \cup {Assente}]
  /\ registro \in SUBSET (Codice \X Giorno)
  /\ schede \in SUBSET Codice
  /\ coda \in [Dispositivo -> Seq(Scrittura)]
  /\ inviate \in [Dispositivo -> Nat]
  /\ modulo \in [Sessione -> Finestra]
  /\ gestore \in [Gestore -> Attesa]
  /\ storia \in Storia

\* The parts of a window that its phase relies on: a machine, a kind of form,
\* fields that passed validate().
FinestraSana(s) ==
  LET m == modulo[s]
  IN /\ m.fase # "libera" => m.cod \in Codice
     /\ m.fase \in {"modulo", "verifica", "presente", "conferma", "coperta"} =>
          m.tipo # "nessuno"
     /\ m.fase \in {"verifica", "presente", "conferma", "coperta"} => m.rec \in Controllo
     /\ m.fase \in {"verifica", "presente"} => m.tipo = "add"
     /\ m.fase \in {"cercata", "trovata", "riscritta", "ignota"} => m.tipo = "nessuno"

\* A running handler still finds its form: the closure keeps the state object
\* alive, and only Add's code field may have changed, once the dialog is gone.
GestoreSano(h) ==
  LET g == gestore[h]
      m == modulo[g.s]
  IN IF g.s = Nessuno THEN g = Libero
     ELSE /\ g.stato # "libero" /\ g.cod \in Codice
          /\ m.fase \notin {"cercata", "trovata", "riscritta", "ignota"}
          /\ m.fase = "vista" => m.tipo # "add"
          /\ m.tipo # "nessuno" /\ m.cod \in Codice /\ m.rec \in Controllo
          /\ g.montato => m.fase \in {"conferma", "coperta"}
          /\ g.montato \/ m.tipo # "add" => m.cod = g.cod
          /\ g.stato = "carica" => /\ g.verso \in Codice
                                   /\ g.montato \/ m.tipo # "add" => g.verso = g.cod

\* The awaited write i of device d belongs to one handler, which is awaiting it
\* on that device, and is the write of that handler's form.
ScritturaSana(d, i) ==
  LET w == coda[d][i]
      g == gestore[w.h]
      m == modulo[g.s]
  IN w.h # Nessuno =>
       /\ g.stato = "scrive" /\ g.cod = w.cod
       /\ g.s \in Sessione /\ su[g.s] = d
       /\ <<m.tipo, w.op>> \in {<<"add", "set">>, <<"edit", "edit">>, <<"check", "check">>}
       /\ \A j \in DOMAIN coda[d] : coda[d][j].h = w.h => j = i

\* A write that the server executed has left its mark, and nothing takes it back.
Eseguita(w) == IF w.op = "registro" THEN IdRegistro(w) \in registro
                                    ELSE controlli[w.cod] # Assente

\* What is under way on d's stream is the front of its queue, executed.
FlussoSano(d) ==
  /\ inviate[d] <= Len(coda[d])
  /\ \A i \in DOMAIN coda[d] : i <= inviate[d] => Eseguita(coda[d][i])

\* Whatever breaks the stream, answers are only ever of writes that were executed:
\* a handler that is told of success has what it wrote on the server.
RisposteFondate == \A d \in Dispositivo : FlussoSano(d)

\* Windows, handlers and queued writes fit together: after double taps, closed
\* dialogs, broken streams and restarts, an answer always finds the one handler
\* awaiting it, with its form intact.
Struttura ==
  /\ \A s \in Sessione : FinestraSana(s)
  /\ \A h \in Gestore : GestoreSano(h)
  /\ \A d \in Dispositivo : \A i \in DOMAIN coda[d] : ScritturaSana(d, i)

\* Machine c exists, or one of the additions of it was refused.
Nota(c) == controlli[c] # Assente \/ c \in storia.rifiutate

\* editControlDB is an update(), which fails on a missing document.  EditControl
\* and ControlCheck never send one for a machine that nobody added: the machine
\* is stored, its addition is ahead in the same queue, or it was refused.
AggiornamentiFondati ==
  \A d \in Dispositivo : \A i \in DOMAIN coda[d] :
    coda[d][i].op \in {"edit", "check"} =>
      \/ Nota(coda[d][i].cod)
      \/ \E j \in 1..(i - 1) : coda[d][j].op = "set" /\ coda[d][j].cod = coda[d][i].cod

\* Window s shows or edits a machine that a read returned.
SuMacchina(s) ==
  modulo[s].fase \in {"trovata", "vista"} \/ modulo[s].tipo \in {"edit", "check"}

\* Such a machine was really added, as far as the window's device knows: the
\* strengthening that AggiornamentiFondati and SecondaLettura rest on.
FinestreFondate ==
  \A s \in Sessione : SuMacchina(s) =>
    /\ modulo[s].cod \in Codice
    /\ Nota(modulo[s].cod) \/ Creata(su[s], modulo[s].cod)

\* Between isControlloPresente and getControllo the document can only go away
\* by a refusal of the addition that the first read saw, unless the user retypes
\* the code: in every other case the data()! of the second read is not null.
SecondaLettura ==
  \A s \in Sessione : modulo[s].fase = "trovata" =>
    Visibile(su[s], modulo[s].cod) \/ Nota(modulo[s].cod)

\* The record of check k is stored, was lost for a known reason, or is queued.
Tracciato(k) ==
  \/ k \in registro \cup storia.persi
  \/ \E d \in Dispositivo : \E i \in DOMAIN coda[d] :
       coda[d][i].op = "registro" /\ k = IdRegistro(coda[d][i])

\* A check that moved the dates of a machine has its record, or the record's
\* write is still queued, was refused, or was cut off by the process dying.
TracciaControllo ==
  \A k \in storia.eseguiti : Tracciato(k)

\* The same of the checks still queued: TracciaControllo's strengthening.
ControlliTracciati ==
  \A d \in Dispositivo : \A i \in DOMAIN coda[d] :
    coda[d][i].op = "check" => Tracciato(<<coda[d][i].cod, coda[d][i].val.ultimo>>)

\* A stored machine has its file at schede/<codice>, or the addition is still
\* running, or its upload failed, was cut off or went to another code.
SchedaSpiegata ==
  \A c \in Codice : controlli[c] # Assente =>
    \/ c \in schede \cup storia.incomplete
    \/ c \in Scoperte({h \in Gestore : gestore[h].stato # "libero"})

\* A file without a machine: only after a refused addition (addControlloDB
\* drops the error and the upload goes on) or an upload that went astray.
OrfanaSpiegata ==
  \A c \in schede : Nota(c) \/ c \in storia.dirottate

\* A handler that is uploading has its machine; an addition that a dead process
\* left in the queue is known to be incomplete.  SchedaSpiegata, OrfanaSpiegata
\* and SuccessoDurevole rest on these two.
CaricamentiFondati ==
  \A h \in Gestore : gestore[h].stato = "carica" => Nota(gestore[h].cod)

AggiunteOrfane ==
  \A d \in Dispositivo : \A i \in DOMAIN coda[d] :
    coda[d][i].op = "set" /\ coda[d][i].h = Nessuno => coda[d][i].cod \in storia.incomplete

\* When Add pushes the home page over its dialog, the machine it shows has its
\* file and, unless the server refused it, its document.
SuccessoDurevole ==
  \A s \in Sessione : modulo[s].fase = "coperta" /\ modulo[s].tipo = "add" =>
    modulo[s].cod \in schede /\ Nota(modulo[s].cod)

\* Without faults, and with a user who leaves a saving form alone, a queued
\* addition ends with the machine and its file both stored.
AggiuntaCompletata ==
  \A d \in Dispositivo, c \in Codice :
    Creata(d, c) ~> controlli[c] # Assente /\ c \in schede

(***************************************************************************)
(* The client that the screens write to is one that keeps Coda's contract. *)
(***************************************************************************)
Contratto == INSTANCE Coda WITH Conto <- Dispositivo, Orfana <- SenzaGestore

\* Every step of the app is a step of the queue's contract, or does not touch the
\* queue: writes are added at the end, executed in order, leave from the front,
\* and outlive their handlers.
RispettaCoda == Contratto!Spec
=============================================================================
