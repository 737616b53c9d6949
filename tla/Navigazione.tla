---------------------------- MODULE Navigazione ----------------------------
(***************************************************************************)
(* The pages of the app and who is signed in: splash, login, home, the     *)
(* lists, the scanner, the search dialog, a machine's view, the forms and  *)
(* their dialogs, on Flutter's Navigator (external).                       *)
(*                                                                         *)
(* Pages are pushed, popped and replaced by the user and by callbacks that *)
(* go on after an await with the context they started from.  A page that   *)
(* was popped or replaced stays mounted until its animation ends, and a    *)
(* callback may still use its context; afterwards the callback throws and  *)
(* does nothing.  A callback acts on whatever page is on top by then.      *)
(*                                                                         *)
(* Dialogs that only ask before leaving a page, or pick a file or a date,  *)
(* are part of their page.                                                 *)
(***************************************************************************)
EXTENDS Naturals, Sequences, FiniteSets, SequencesExt

CONSTANTS
  Aperture,      \* the pages that the user opens from the home page
  MaxPagine,     \* bound on the pages on the stack when the user opens one more
  MaxChiamate    \* bound on the callbacks that run at once when one more starts

ASSUME NavigazioneAssumption ==
  /\ Aperture \subseteq {"modulo", "cerca", "elenco", "vista", "esci", "scanner"}
  /\ MaxPagine \in Nat /\ MaxChiamate \in Nat

VARIABLES
  utente,    \* is somebody signed in (FirebaseAuth.currentUser)?
  pagine,    \* the Navigator's history, the pages on their way out included
  orfani,    \* sign-ins and sign-outs that run although their page is gone
  storia     \* history; no action reads it

vars == <<utente, pagine, orfani, storia>>

Tipo == {"splash", "login", "home", "elenco", "scanner", "vista",
         "modulo",                    \* Add, EditControl, ControlCheck
         "esci",                      \* "Sei sicuro di voler uscire?"
         "cerca",                     \* the search dialog
         "avviso", "avvisoScanner",   \* "Macchina non registrata", opened by either
         "conferma"}                  \* the dialog of a form with "Conferma"

\* Where a page's callbacks wait: the splash's delay, signInWithEmailAndPassword,
\* signOut, the two reads of a lookup, the write and upload of a save.
Attesa == {"avvio", "accesso", "uscita", "prima", "seconda", "salva"}

Pagina == [tipo : Tipo, presente : BOOLEAN, attese : [Attesa -> Nat],
           avvisi : Nat,                               \* alerts a scanner awaits
           camera : {"accesa", "fermando", "ferma"}]   \* told to pause, paused

\* scanner: a scanner's callback replaced a page that was not its own, from under
\* that page ("coperto") or after it was closed ("uscente").
Storia == [scanner : SUBSET {"coperto", "uscente"}, residui : BOOLEAN, fallita : BOOLEAN]

Nuova(t) ==
  [tipo |-> t, presente |-> TRUE, avvisi |-> 0, camera |-> "accesa",
   attese |-> [a \in Attesa |-> IF a = "avvio" /\ t = "splash" THEN 1 ELSE 0]]

(***************************************************************************)
(* The Navigator: operators on a history q                                 *)
(***************************************************************************)
Presenti(q) == {i \in DOMAIN q : q[i].presente}

\* The places of the page on top and of the oldest one.
Cima(q) == Max(Presenti(q))
Fondo(q) == Min(Presenti(q))

\* The page on top, "nessuna" when the last one was popped.
InCima(q) == IF Presenti(q) = {} THEN "nessuna" ELSE q[Cima(q)].tipo

\* Pages on their way out count only as long as a callback may use them; the n-th
\* page that is left.
Restano(q) == {i \in DOMAIN q : q[i].presente \/ \E a \in Attesa : q[i].attese[a] > 0}

Pulita(q) ==
  LET R == Restano(q)
  IN [n \in 1..Cardinality(R) |-> q[CHOOSE i \in R : Cardinality({j \in R : j <= i}) = n]]

\* The stack becomes what is left of r.  (With \E TLC evaluates r once.)
Rimane(r) == \E q \in {r} : pagine' = Pulita(q)

push(q, t) == Append(q, Nuova(t))

\* (Mutant: the camera is not resumed when the alert is gone.)
Chiusa_SenzaResume(q, i) == [q EXCEPT ![i].presente = FALSE]

\* Page i goes: the scanner that awaits the alert, if it is one, resumes its camera.
Chiusa(q, i) ==
  LET scanner == {j \in 1..(i - 1) : q[j].presente /\ q[j].avvisi > 0}
      r == [q EXCEPT ![i].presente = FALSE]
  IN IF q[i].tipo = "avvisoScanner" /\ scanner # {}
     THEN [r EXCEPT ![Max(scanner)].avvisi = @ - 1, ![Max(scanner)].camera = "accesa"]
     ELSE r

pop(q) == Chiusa(q, Cima(q))

\* With no page left there is nothing to replace, only to push.
pushReplacement(q, t) ==
  push(IF Presenti(q) = {} THEN q ELSE pop(q), t)

Init ==
  /\ utente \in BOOLEAN
  /\ pagine = <<Nuova("splash")>>
  /\ orfani = [a \in {"accesso", "uscita"} |-> 0]
  /\ storia = [scanner |-> {}, residui |-> FALSE, fallita |-> FALSE]

(***************************************************************************)
(* The user                                                                *)
(***************************************************************************)
InCorso ==
  MapThenSumSet(LAMBDA x : pagine[x[1]].attese[x[2]], (DOMAIN pagine) \X Attesa)
  + orfani["accesso"] + orfani["uscita"]

\* The user opens page t from the page on top, of a type in da.
Apre(da, t) ==
  /\ InCima(pagine) \in da /\ Cardinality(Presenti(pagine)) < MaxPagine
  /\ pagine' = push(pagine, t)
  /\ UNCHANGED <<utente, orfani, storia>>

\* The user goes from the page on top, of a type in da, to t in its place.
Passa(da, t) ==
  /\ InCima(pagine) \in da
  /\ Rimane(pushReplacement(pagine, t))
  /\ UNCHANGED <<utente, orfani, storia>>

\* The user presses a button of the page on top, of type t; a callback starts.
Preme(t, a) ==
  /\ InCima(pagine) = t /\ InCorso < MaxChiamate
  /\ pagine' = [pagine EXCEPT ![Cima(pagine)].attese[a] = @ + 1]
  /\ UNCHANGED <<utente, orfani, storia>>

\* The speed dial, the list and the logout button of the home page.  While a
\* scanner is still on its way out, no other one is opened.
HomePage ==
  \E t \in Aperture :
    /\ t = "scanner" => \A i \in DOMAIN pagine : pagine[i].tipo # "scanner"
    /\ Apre({"home"}, t)

\* A card of the list; the list's back arrow, which opens one more home page.
AllControls == \E t \in {"vista", "home"} : Apre({"elenco"}, t)

\* "Modifica" and "Effettua controllo", whose own dialogs EditControl and
\* ControlCheck replace; "Salva" opens the form's dialog.
ControlView == Apre({"vista"}, "modulo")
Salva == Apre({"modulo"}, "conferma")

\* The camera icon of a form.  A second scanner would share the QRView of the one
\* below (qrKey is global), which is not modelled.
IconaQRCode ==
  /\ \A i \in DOMAIN pagine : pagine[i].tipo # "scanner"
  /\ Passa({"modulo"}, "scanner")

\* "Si" of the alert.
UnregisteredMachineAlert == Passa({"avviso", "avvisoScanner"}, "modulo")

\* "Entra", "Cerca" and "Conferma" stay active while their callbacks run.
Entra == Preme("login", "accesso")
Cerca == Preme("cerca", "prima")
Conferma == Preme("conferma", "salva")

\* "Esci": the dialog is popped with true, and the home page below signs out.
Esci ==
  LET q == pop(pagine)
  IN /\ InCima(pagine) = "esci" /\ InCorso < MaxChiamate
     /\ Rimane([q EXCEPT ![Cima(q)].attese["uscita"] = @ + 1])
     /\ UNCHANGED <<utente, orfani, storia>>

\* Back, a close button, "Annulla", "No", a tap outside a dialog.  The last page
\* is left by leaving the app, except that its own arrow may pop it.
Indietro ==
  /\ InCima(pagine) \notin {"nessuna", "splash"}
  /\ Cardinality(Presenti(pagine)) > 1 \/ InCima(pagine) \in {"vista", "modulo", "scanner"}
  /\ Rimane(pop(pagine))
  /\ UNCHANGED <<utente, orfani, storia>>

(***************************************************************************)
(* Callbacks: page i, present or on its way out, goes on after await a     *)
(***************************************************************************)
InAttesa(i, a) == i \in DOMAIN pagine /\ pagine[i].attese[a] > 0

Ripresa(i, a) == [pagine EXCEPT ![i].attese[a] = @ - 1]

\* Page i's callback replaces the page on top.
Sostituisce(i, q, t, s) ==
  /\ Rimane(pushReplacement(q, t))
  /\ storia' = IF q[i].tipo # "scanner" \/ (q[i].presente /\ Cima(q) = i) THEN s
               ELSE [s EXCEPT !.scanner = @ \cup {IF q[i].presente THEN "coperto" ELSE "uscente"}]

\* (Mutant: the next page is always the home page.)
goToNextPage_Home(i) ==
  /\ InAttesa(i, "avvio")
  /\ Sostituisce(i, Ripresa(i, "avvio"), "home", storia)
  /\ UNCHANGED <<utente, orfani>>

\* (Mutant: the next page is pushed over the splash.)
goToNextPage_Push(i) ==
  /\ InAttesa(i, "avvio")
  /\ pagine' = push(Ripresa(i, "avvio"), IF utente THEN "home" ELSE "login")
  /\ UNCHANGED <<utente, orfani, storia>>

\* The splash has been shown for three seconds.
goToNextPage(i) ==
  /\ InAttesa(i, "avvio")
  /\ Sostituisce(i, Ripresa(i, "avvio"), IF utente THEN "home" ELSE "login", storia)
  /\ UNCHANGED <<utente, orfani>>

\* (Mutant: the home page is pushed over the login page.)
signInWithEmailAndPassword_Push(i) ==
  /\ InAttesa(i, "accesso")
  /\ utente' = TRUE
  /\ pagine' = push(Ripresa(i, "accesso"), "home")
  /\ UNCHANGED <<orfani, storia>>

\* The sign-in succeeds.
signInWithEmailAndPassword(i) ==
  /\ InAttesa(i, "accesso")
  /\ utente' = TRUE
  /\ Sostituisce(i, Ripresa(i, "accesso"), "home", storia)
  /\ UNCHANGED orfani

\* The sign-in fails: a message.
FirebaseAuthException(i) ==
  /\ InAttesa(i, "accesso")
  /\ Rimane(Ripresa(i, "accesso"))
  /\ UNCHANGED <<utente, orfani, storia>>

\* Nobody is signed in any more.  residui: something else than the login page is
\* left on the stack, or a callback of a page on its way out may still come.
SenzaResidui(q) == Len(q) = 1 /\ InCima(q) = "login"

\* signOut is done: the login page replaces the page on top.
signOut(i) ==
  /\ InAttesa(i, "uscita")
  /\ utente' = FALSE
  /\ LET q == Ripresa(i, "uscita")
         r == Pulita(pushReplacement(q, "login"))
     IN Sostituisce(i, q, "login", [storia EXCEPT !.residui = ~SenzaResidui(r)])
  /\ UNCHANGED orfani

\* The page of a sign-in or sign-out that is done, or of a sign-in that failed, is
\* gone: its code throws.
orfano(a) ==
  /\ orfani[a] > 0
  /\ orfani' = [orfani EXCEPT ![a] = @ - 1]
  /\ utente' \in IF a = "accesso" THEN {utente, TRUE} ELSE {FALSE}
  /\ storia' = IF a = "uscita" THEN [storia EXCEPT !.residui = TRUE] ELSE storia
  /\ UNCHANGED pagine

\* The first read of a lookup: the second one starts, or the alert opens.
isControlloPresente(i) ==
  /\ InAttesa(i, "prima")
  /\ \/ pagine' = [Ripresa(i, "prima") EXCEPT ![i].attese["seconda"] = @ + 1]
     \/ /\ pagine[i].tipo = "cerca"
        /\ Rimane(push(Ripresa(i, "prima"), "avviso"))
     \/ /\ pagine[i].tipo = "scanner"
        /\ Rimane(push([Ripresa(i, "prima") EXCEPT ![i].avvisi = @ + 1], "avvisoScanner"))
  /\ UNCHANGED <<utente, orfani, storia>>

\* The second read fails and the callback throws; or the search dialog pushes the
\* machine's view, the scanner puts it in place of the page on top.
getControllo(i) ==
  /\ InAttesa(i, "seconda")
  /\ LET q == Ripresa(i, "seconda")
     IN \/ /\ Rimane(q)
           /\ storia' = IF pagine[i].tipo = "scanner" THEN [storia EXCEPT !.fallita = TRUE]
                        ELSE storia
        \/ /\ pagine[i].tipo = "cerca"
           /\ Rimane(push(q, "vista"))
           /\ UNCHANGED storia
        \/ /\ pagine[i].tipo = "scanner"
           /\ Sostituisce(i, q, "vista", storia)
  /\ UNCHANGED <<utente, orfani>>

\* (Mutant: a dialog goes on with its save more than once.)
Salvata_Ancora(i) ==
  /\ i \in DOMAIN pagine /\ pagine[i].tipo = "conferma"
  /\ \/ Rimane(push(Ripresa(i, "salva"), "home"))
     \/ Rimane(Ripresa(i, "salva"))
  /\ UNCHANGED <<utente, orfani, storia>>

\* A save is done and pushes a home page over the dialog, or its upload fails.
Salvata(i) ==
  /\ InAttesa(i, "salva")
  /\ \/ Rimane(push(Ripresa(i, "salva"), "home"))
     \/ Rimane(Ripresa(i, "salva"))
  /\ UNCHANGED <<utente, orfani, storia>>

\* A frame with a code reaches scanner i, on top or not, as long as its camera
\* runs; pauseCamera is called and not awaited.
scannedDataStream(i) ==
  /\ i \in DOMAIN pagine /\ pagine[i].tipo = "scanner" /\ pagine[i].presente
  /\ pagine[i].camera # "ferma" /\ Cardinality(Presenti(pagine)) < MaxPagine
  /\ InCorso < MaxChiamate
  /\ pagine' = [pagine EXCEPT ![i].attese["prima"] = @ + 1, ![i].camera = "fermando"]
  /\ UNCHANGED <<utente, orfani, storia>>

\* The camera is paused.
pauseCamera(i) ==
  /\ i \in DOMAIN pagine /\ pagine[i].tipo = "scanner" /\ pagine[i].camera = "fermando"
  /\ pagine' = [pagine EXCEPT ![i].camera = "ferma"]
  /\ UNCHANGED <<utente, orfani, storia>>

\* Page i's animation ends and it is unmounted: its callbacks will throw.
dispose(i) ==
  /\ i \in DOMAIN pagine /\ ~pagine[i].presente
  /\ orfani' = [a \in DOMAIN orfani |-> orfani[a] + pagine[i].attese[a]]
  /\ pagine' = RemoveAt(pagine, i)
  /\ UNCHANGED <<utente, storia>>

\* The process ends and starts again.  The user stays signed in or out; a sign-in
\* or sign-out under way may have been in time.
main ==
  /\ \E u \in BOOLEAN :
       /\ utente' = u
       /\ u # utente => \/ orfani[IF u THEN "accesso" ELSE "uscita"] > 0
                        \/ \E i \in DOMAIN pagine :
                             InAttesa(i, IF u THEN "accesso" ELSE "uscita")
  /\ pagine' = <<Nuova("splash")>>
  /\ orfani' = [a \in DOMAIN orfani |-> 0]
  /\ storia' = [scanner |-> {}, residui |-> FALSE, fallita |-> FALSE]

-----------------------------------------------------------------------------
Utente ==
  \/ HomePage \/ AllControls \/ ControlView \/ Salva \/ IconaQRCode
  \/ UnregisteredMachineAlert \/ Entra \/ Cerca \/ Conferma \/ Esci \/ Indietro

Callback(i) ==
  \/ goToNextPage(i) \/ signInWithEmailAndPassword(i) \/ FirebaseAuthException(i)
  \/ signOut(i) \/ isControlloPresente(i) \/ getControllo(i) \/ Salvata(i)
  \/ scannedDataStream(i) \/ pauseCamera(i) \/ dispose(i)

Next ==
  \/ Utente
  \/ \E i \in DOMAIN pagine : Callback(i)
  \/ \E a \in DOMAIN orfani : orfano(a)
  \/ main

Spec == Init /\ [][Next]_vars

DelloScanner(i) == i \in DOMAIN pagine /\ pagine[i].tipo = "scanner"

\* The reads of a scanner's lookup come to an end; a camera told to pause does.
SpecEqua ==
  /\ Spec
  /\ WF_vars(\E i \in DOMAIN pagine : DelloScanner(i) /\ isControlloPresente(i))
  /\ WF_vars(\E i \in DOMAIN pagine : DelloScanner(i) /\ getControllo(i))
  /\ WF_vars(\E i \in DOMAIN pagine : pauseCamera(i))

(***************************************************************************)
(* Properties                                                              *)
(***************************************************************************)
\* Types; no callback goes on more often than it was started.
TypeOK ==
  /\ utente \in BOOLEAN
  /\ pagine \in Seq(Pagina)
  /\ orfani \in [{"accesso", "uscita"} -> Nat]
  /\ storia \in Storia

\* The oldest page is the login page or the home page, or the splash alone: every
\* way through the app replaces the page it leaves for good, so that "back" never
\* shows the splash or a form again as the last page.  The exception is a scanner
\* that was closed while it looked a code up: its callback replaces the page below.
FondoSano ==
  \/ /\ Presenti(pagine) # {}
     /\ \/ pagine[Fondo(pagine)].tipo \in {"login", "home"}
        \/ Len(pagine) = 1 /\ InCima(pagine) = "splash"
  \/ "uscente" \in storia.scanner

\* A login page is only ever on top: signing in and out replace pages, so nothing
\* of the archive lies over a login page, unless at the last sign-out other pages,
\* or callbacks about to open one, were left.
LoginInCima ==
  ~storia.residui =>
    \A i \in DOMAIN pagine : pagine[i].presente /\ pagine[i].tipo = "login" => i = Cima(pagine)

\* Nobody sees the archive signed out: the only way there is what the logout of the
\* home page leaves on the stack (home pages pushed by saves, a callback under way).
SenzaUtente ==
  ~utente /\ InCima(pagine) \notin {"splash", "login", "nessuna"} => storia.residui

\* A scanner on top with its camera paused has a lookup under way: pauses, alerts,
\* lookups and frames that arrive before the camera stops come in any order, and
\* the camera is on again whenever nothing is left to wait for.  The exceptions are
\* a read that failed and a page that a scanner's callback replaced.
ScannerVivo ==
  \A i \in DOMAIN pagine :
    InCima(pagine) = "scanner" /\ i = Cima(pagine) =>
      \/ pagine[i].camera # "ferma"
      \/ pagine[i].attese["prima"] + pagine[i].attese["seconda"] > 0
      \/ storia.fallita \/ storia.scanner # {}

\* A scanner on top never waits with its camera paused for ever: the camera runs
\* again, or the machine found or the alert takes the scanner's place.  Exceptions
\* as in ScannerVivo.
ScannerRiprende ==
  LET Fermo == /\ InCima(pagine) = "scanner" /\ pagine[Cima(pagine)].camera # "accesa"
               /\ ~storia.fallita /\ storia.scanner = {}
  IN Fermo ~> ~Fermo

=============================================================================
