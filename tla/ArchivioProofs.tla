--------------------------- MODULE ArchivioProofs ---------------------------
(***************************************************************************)
(* Proofs about Archivio, for every set of devices, windows, handlers,     *)
(* codes, data and days, every queue bound and every choice of faults.     *)
(***************************************************************************)
EXTENDS Archivio, TLAPS

-----------------------------------------------------------------------------
(* Queues *)

\* Dropping the head of a queue shifts the others down by one.
LEMMA CodaSenzaTesta ==
  ASSUME NEW S, NEW q \in Seq(S), q # <<>>
  PROVE  /\ Tail(q) \in Seq(S)
         /\ 1 \in DOMAIN q /\ Head(q) = q[1]
         /\ \A i \in DOMAIN Tail(q) : i + 1 \in DOMAIN q /\ Tail(q)[i] = q[i + 1]
         /\ \A j \in DOMAIN q : j # 1 => j - 1 \in DOMAIN Tail(q) /\ Tail(q)[j - 1] = q[j]
  OBVIOUS

\* Appending writes leaves the queued ones where they are.
LEMMA CodaConAltre ==
  ASSUME NEW S, NEW q \in Seq(S), NEW r \in Seq(S)
  PROVE  /\ q \o r \in Seq(S)
         /\ \A i \in DOMAIN q : i \in DOMAIN (q \o r) /\ (q \o r)[i] = q[i]
         /\ \A j \in DOMAIN r : Len(q) + j \in DOMAIN (q \o r) /\ (q \o r)[Len(q) + j] = r[j]
         /\ \A i \in DOMAIN (q \o r) :
              i \in DOMAIN q \/ (i - Len(q) \in DOMAIN r /\ (q \o r)[i] = r[i - Len(q)])
  OBVIOUS

\* A write read back from disk is the same write, without its handler.
LEMMA SenzaGestoreTipo ==
  ASSUME NEW w \in Scrittura
  PROVE  /\ SenzaGestore(w) \in Scrittura
         /\ SenzaGestore(w).op = w.op /\ SenzaGestore(w).cod = w.cod
         /\ SenzaGestore(w).val = w.val /\ SenzaGestore(w).h = Nessuno
  BY DEF Scrittura, SenzaGestore

\* So is a whole queue read back from disk.
LEMMA CodaSenzaGestori ==
  ASSUME NEW q \in Seq(Scrittura)
  PROVE  [i \in DOMAIN q |-> SenzaGestore(q[i])] \in Seq(Scrittura)
<1>1. Len(q) \in Nat /\ DOMAIN q = 1..Len(q)
  OBVIOUS
<1>2. \A i \in DOMAIN q : SenzaGestore(q[i]) \in Scrittura
  BY SenzaGestoreTipo
<1>3. QED
  BY <1>1, <1>2

-----------------------------------------------------------------------------
(* Windows *)

\* What FinestraSana asks of a window w.
Sana(w) ==
  /\ w.fase # "libera" => w.cod \in Codice
  /\ w.fase \in {"modulo", "verifica", "presente", "conferma", "coperta"} =>
       w.tipo # "nessuno"
  /\ w.fase \in {"verifica", "presente", "conferma", "coperta"} => w.rec \in Controllo
  /\ w.fase \in {"verifica", "presente"} => w.tipo = "add"
  /\ w.fase \in {"cercata", "trovata", "riscritta", "ignota"} => w.tipo = "nessuno"

\* Window s may turn into w under the feet of the handlers it has running.
Compatibile(s, w) ==
  \A h \in Gestore : gestore[h].s = s =>
    /\ w.fase \notin {"cercata", "trovata", "riscritta", "ignota"}
    /\ w.fase = "vista" => w.tipo # "add"
    /\ w.tipo = modulo[s].tipo /\ w.cod \in Codice /\ w.rec \in Controllo
    /\ gestore[h].montato => w.fase \in {"conferma", "coperta"}
    /\ w.cod = modulo[s].cod \/ (~gestore[h].montato /\ modulo[s].tipo = "add")

\* Replacing one window by a sound and compatible one keeps the structure.
LEMMA CambioFinestra ==
  ASSUME TypeOK, Struttura, NEW s \in Sessione, NEW w \in Finestra,
         Apre(s, w), UNCHANGED <<server, cliente, gestore, storia>>,
         Sana(w), Compatibile(s, w)
  PROVE  TypeOK' /\ Struttura'
<1> USE ArchivioAssumption
<1>1. TypeOK'
  BY DEF TypeOK, Apre, server, cliente
<1>2. \A x \in Sessione : modulo'[x] = IF x = s THEN w ELSE modulo[x]
  BY DEF TypeOK, Apre
<1>3. coda' = coda /\ gestore' = gestore
  BY DEF cliente
<1>4. ASSUME NEW x \in Sessione PROVE FinestraSana(x)'
  BY <1>2 DEF Struttura, FinestraSana, Sana
<1>5. ASSUME NEW h \in Gestore PROVE GestoreSano(h)'
  <2>1. GestoreSano(h) /\ gestore[h] \in Attesa
    BY DEF Struttura, TypeOK
  <2>2. CASE gestore[h].s = s
    BY <1>2, <1>3, <2>1, <2>2 DEF GestoreSano, Compatibile, Attesa
  <2>3. CASE gestore[h].s = Nessuno
    BY <1>2, <1>3, <2>1, <2>3 DEF GestoreSano, Attesa
  <2>4. CASE gestore[h].s \in Sessione \ {s}
    BY <1>2, <1>3, <2>1, <2>4 DEF GestoreSano, Attesa
  <2>5. QED
    BY <2>1, <2>2, <2>3, <2>4 DEF Attesa
<1>6. ASSUME NEW d \in Dispositivo, NEW i \in DOMAIN coda[d]
      PROVE  ScritturaSana(d, i)'
  <2>1. ScritturaSana(d, i) /\ coda[d][i] \in Scrittura
    BY DEF Struttura, TypeOK
  <2>2. CASE coda[d][i].h = Nessuno
    BY <1>3, <2>2 DEF ScritturaSana
  <2>3. CASE coda[d][i].h # Nessuno
    <3> DEFINE g == gestore[coda[d][i].h]
    <3>1. coda[d][i].h \in Gestore
      BY <2>1, <2>3 DEF Scrittura
    <3>2. modulo'[g.s].tipo = modulo[g.s].tipo
      BY <1>2, <2>1, <2>3, <3>1 DEF ScritturaSana, Compatibile
    <3>3. QED
      BY <1>3, <2>1, <2>3, <3>2 DEF ScritturaSana
  <2>4. QED
    BY <2>2, <2>3
<1>7. QED
  BY <1>1, <1>3, <1>4, <1>5, <1>6 DEF Struttura

\* The empty window is sound, and compatible with having no handlers.
LEMMA LiberaSana ==
  Libera \in Finestra /\ Sana(Libera)
  BY DEF Libera, Finestra, Fase, Sana

\* Falling back to the home page or to ControlView.
LEMMA TornaMantiene ==
  ASSUME TypeOK, Struttura, NEW s \in Sessione, NEW f \in {"libera", "vista"},
         Torna(s, f), UNCHANGED <<server, cliente, gestore, storia>>,
         modulo[s].fase \in {"trovata", "riscritta", "ignota", "vista", "modulo"},
         f = "vista" => modulo[s].tipo # "add"
  PROVE  TypeOK' /\ Struttura'
<1> DEFINE m == modulo[s]
<1>1. m \in Finestra /\ FinestraSana(s)
  BY DEF TypeOK, Struttura
<1>2. \A h \in Gestore : GestoreSano(h)
  BY DEF Struttura
<1>3. CASE InCorso(s) # {}
  <2> DEFINE w == [m EXCEPT !.fase = f]
  <2>1. w \in Finestra /\ w.fase = f /\ w.tipo = m.tipo /\ w.cod = m.cod /\ w.rec = m.rec
    BY <1>1 DEF Finestra, Fase
  <2>2. Sana(w)
    BY <1>1, <2>1 DEF Sana, FinestraSana
  <2>3. Compatibile(s, w)
    BY <1>2, <2>1, ArchivioAssumption DEF Compatibile, GestoreSano
  <2>4. Apre(s, w)
    BY <1>3 DEF Torna
  <2>5. QED
    BY <2>1, <2>2, <2>3, <2>4, CambioFinestra
<1>4. CASE InCorso(s) = {}
  <2> DEFINE w == IF f = "libera" THEN Libera
                  ELSE [Libera EXCEPT !.fase = f, !.cod = m.cod, !.base = m.base]
  <2>1. w \in Finestra /\ Sana(w)
    BY <1>1 DEF Finestra, Fase, Sana, FinestraSana, Libera
  <2>2. Compatibile(s, w)
    BY <1>4 DEF Compatibile, InCorso
  <2>3. Apre(s, w)
    BY <1>4 DEF Torna
  <2>4. QED
    BY <2>1, <2>2, <2>3, CambioFinestra
<1>5. QED
  BY <1>3, <1>4

\* Every step of the user that only changes a window.
Naviga(s) ==
  \/ \E c \in Codice : SearchControl(s, c) \/ ControlCard(s, c) \/ Add(s, c)
  \/ isControlloPresente(s) \/ getControllo(s) \/ UnregisteredMachineAlert(s)
  \/ EditControl(s) \/ ControlCheck(s) \/ Compila(s) \/ Chiudi(s) \/ QRCode(s)
  \/ Salva(s) \/ Verifica(s) \/ Indietro(s)

LEMMA NavigaMantiene ==
  ASSUME TypeOK, Struttura, NEW s \in Sessione, Naviga(s)
  PROVE  TypeOK' /\ Struttura'
<1> DEFINE m == modulo[s]
<1> USE ArchivioAssumption
<1>1. m \in Finestra /\ FinestraSana(s)
  BY DEF TypeOK, Struttura
<1>2. \A h \in Gestore : GestoreSano(h)
  BY DEF Struttura
<1>3. UNCHANGED <<server, cliente, gestore, storia>>
  BY DEF Naviga, SearchControl, ControlCard, Add, isControlloPresente, getControllo,
    UnregisteredMachineAlert, EditControl, ControlCheck, Compila, Chiudi, QRCode,
    Salva, Verifica, Indietro
<1>4. ASSUME NEW w \in Finestra, InCorso(s) = {}, Sana(w), Apre(s, w)
      PROVE  TypeOK' /\ Struttura'
  <2>1. Compatibile(s, w)
    BY <1>4 DEF Compatibile, InCorso
  <2>2. QED
    BY <1>3, <1>4, <2>1, CambioFinestra
<1>5. ASSUME m.fase \in {"cercata", "trovata", "riscritta", "ignota"}
      PROVE  InCorso(s) = {}
  BY <1>2, <1>5 DEF InCorso, GestoreSano
<1>6. ASSUME NEW c \in Codice, SearchControl(s, c) PROVE TypeOK' /\ Struttura'
  <2> DEFINE w == [Libera EXCEPT !.fase = "cercata", !.cod = c]
  <2>1. w \in Finestra /\ Sana(w)
    BY DEF Finestra, Fase, Sana, Libera
  <2>2. QED
    BY <1>4, <1>6, <2>1 DEF SearchControl
<1>7. ASSUME NEW c \in Codice, ControlCard(s, c) PROVE TypeOK' /\ Struttura'
  <2>1. PICK r \in Controllo :
          Apre(s, [Libera EXCEPT !.fase = "vista", !.cod = c, !.base = r])
    BY <1>7 DEF ControlCard
  <2> DEFINE w == [Libera EXCEPT !.fase = "vista", !.cod = c, !.base = r]
  <2>2. w \in Finestra /\ Sana(w)
    BY DEF Finestra, Fase, Sana, Libera
  <2>3. QED
    BY <1>4, <1>7, <2>1, <2>2 DEF ControlCard
<1>8. ASSUME NEW c \in Codice, Add(s, c) PROVE TypeOK' /\ Struttura'
  <2> DEFINE w == [Libera EXCEPT !.fase = "modulo", !.tipo = "add", !.cod = c]
  <2>1. w \in Finestra /\ Sana(w)
    BY DEF Finestra, Fase, Sana, Libera
  <2>2. QED
    BY <1>4, <1>8, <2>1 DEF Add
<1>9. CASE isControlloPresente(s)
  <2>1. PICK f \in {"trovata", "riscritta", "ignota"} :
          \E c \in Codice : Apre(s, [m EXCEPT !.cod = c, !.fase = f])
    BY <1>9 DEF isControlloPresente, Riletta
  <2>2. PICK c \in Codice : Apre(s, [m EXCEPT !.cod = c, !.fase = f])
    BY <2>1
  <2> DEFINE w == [m EXCEPT !.cod = c, !.fase = f]
  <2>3. w \in Finestra /\ Sana(w)
    <3>1. m.tipo = "nessuno"
      BY <1>1, <1>9 DEF FinestraSana, isControlloPresente
    <3>2. QED
      BY <1>1, <3>1 DEF Finestra, Fase, Sana
  <2>4. QED
    BY <1>4, <1>5, <1>9, <2>2, <2>3 DEF isControlloPresente
<1>10. CASE getControllo(s)
  <2>1. m.fase \in {"trovata", "riscritta"}
    BY <1>10 DEF getControllo
  <2>2. CASE Torna(s, "libera")
    BY <1>3, <2>1, <2>2, TornaMantiene
  <2>3. ASSUME NEW r \in Controllo, Apre(s, [m EXCEPT !.fase = "vista", !.base = r])
        PROVE  TypeOK' /\ Struttura'
    <3> DEFINE w == [m EXCEPT !.fase = "vista", !.base = r]
    <3>1. m.cod \in Codice
      BY <1>1, <2>1 DEF FinestraSana
    <3>2. w \in Finestra /\ Sana(w)
      BY <1>1, <3>1 DEF Finestra, Fase, Sana
    <3>3. QED
      BY <1>4, <1>5, <2>1, <2>3, <3>2
  <2>4. QED
    BY <1>10, <2>2, <2>3 DEF getControllo
<1>11. CASE UnregisteredMachineAlert(s)
  <2>1. m.fase = "ignota"
    BY <1>11 DEF UnregisteredMachineAlert
  <2>2. CASE Torna(s, "libera")
    BY <1>3, <2>1, <2>2, TornaMantiene
  <2>3. CASE Apre(s, [m EXCEPT !.fase = "modulo", !.tipo = "add"])
    <3> DEFINE w == [m EXCEPT !.fase = "modulo", !.tipo = "add"]
    <3>1. m.cod \in Codice
      BY <1>1, <2>1 DEF FinestraSana
    <3>2. w \in Finestra /\ Sana(w)
      BY <1>1, <3>1 DEF Finestra, Fase, Sana
    <3>3. QED
      BY <1>4, <1>5, <2>1, <2>3, <3>2
  <2>4. QED
    BY <1>11, <2>2, <2>3 DEF UnregisteredMachineAlert
<1>12. CASE EditControl(s) \/ ControlCheck(s)
  <2>1. m.cod \in Codice /\ m.base \in Controllo \cup {Assente}
    BY <1>1, <1>12 DEF FinestraSana, EditControl, ControlCheck, Finestra
  <2> DEFINE e == [Libera EXCEPT !.fase = "modulo", !.tipo = "edit", !.cod = m.cod,
                                 !.rec = m.base, !.base = m.base]
             k == [Libera EXCEPT !.fase = "modulo", !.tipo = "check",
                                 !.cod = m.cod, !.base = m.base]
  <2>2. e \in Finestra /\ Sana(e) /\ k \in Finestra /\ Sana(k)
    BY <2>1 DEF Finestra, Fase, Sana, Libera
  <2>3. QED
    BY <1>4, <1>12, <2>2 DEF EditControl, ControlCheck
<1>13. CASE Compila(s)
  <2>1. PICK c \in CodiceAmmesso(s), r \in RecAmmesso(s), f \in {m.file, TRUE} :
          Apre(s, [m EXCEPT !.cod = c, !.rec = r, !.file = f])
    BY <1>13 DEF Compila
  <2> DEFINE w == [m EXCEPT !.cod = c, !.rec = r, !.file = f]
  <2>2. m.fase = "modulo" /\ m.cod \in Codice /\ m.tipo # "nessuno"
    BY <1>1, <1>13 DEF FinestraSana, Compila
  <2>3. c \in Codice /\ r \in Controllo /\ (m.tipo # "add" => c = m.cod)
    BY <2>2 DEF CodiceAmmesso, RecAmmesso
  <2>4. /\ w \in Finestra /\ w.fase = "modulo" /\ w.tipo = m.tipo
        /\ w.cod = c /\ w.rec = r
    BY <1>1, <2>2, <2>3 DEF Finestra
  <2>5. Sana(w)
    BY <2>2, <2>3, <2>4 DEF Sana
  <2>6. Compatibile(s, w)
    BY <1>2, <2>2, <2>3, <2>4 DEF Compatibile, GestoreSano
  <2>7. QED
    BY <1>3, <2>1, <2>4, <2>5, <2>6, CambioFinestra
<1>14. CASE Chiudi(s) \/ QRCode(s)
  BY <1>3, <1>14, TornaMantiene DEF Chiudi, QRCode
<1>15. CASE Salva(s) \/ Verifica(s) \/ Indietro(s)
  <2>1. PICK f \in {"verifica", "presente", "conferma"} :
          Apre(s, [m EXCEPT !.fase = f]) /\ (f # "conferma" => m.tipo = "add")
    BY <1>1, <1>15 DEF Salva, Verifica, Indietro, FinestraSana
  <2> DEFINE w == [m EXCEPT !.fase = f]
  <2>2. /\ m.cod \in Codice /\ m.rec \in Controllo /\ m.tipo # "nessuno"
        /\ m.fase \in {"modulo", "verifica", "coperta"}
        /\ m.fase = "coperta" => f = "conferma"
    BY <1>1, <1>15, <2>1 DEF Salva, Verifica, Indietro, FinestraSana, Finestra, Apre, TypeOK
  <2>3. /\ w \in Finestra /\ w.fase = f /\ w.tipo = m.tipo
        /\ w.cod = m.cod /\ w.rec = m.rec
    BY <1>1 DEF Finestra, Fase
  <2>4. Sana(w)
    BY <2>1, <2>2, <2>3 DEF Sana
  <2>5. Compatibile(s, w)
    BY <1>2, <2>2, <2>3 DEF Compatibile, GestoreSano
  <2>6. QED
    BY <1>3, <2>1, <2>3, <2>4, <2>5, CambioFinestra
<1>16. QED
  BY <1>6, <1>7, <1>8, <1>9, <1>10, <1>11, <1>12, <1>13, <1>14, <1>15 DEF Naviga

-----------------------------------------------------------------------------
(* Handlers *)

\* Closing the dialog unmounts its handlers and leaves their form.
LEMMA ChiudiDialogoMantiene ==
  ASSUME TypeOK, Struttura, NEW s \in Sessione, ChiudiDialogo(s)
  PROVE  TypeOK' /\ Struttura'
<1> DEFINE m == modulo[s]
           w == [m EXCEPT !.fase = "modulo"]
<1> USE ArchivioAssumption
<1>1. m \in Finestra /\ FinestraSana(s)
  BY DEF TypeOK, Struttura
<1>2. m.cod \in Codice /\ m.tipo # "nessuno"
  BY <1>1 DEF FinestraSana, ChiudiDialogo
<1>3. /\ w \in Finestra /\ w.fase = "modulo" /\ w.tipo = m.tipo
      /\ w.cod = m.cod /\ w.rec = m.rec
  BY <1>1 DEF Finestra, Fase
<1>4. /\ modulo' \in [Sessione -> Finestra]
      /\ \A x \in Sessione : modulo'[x] = IF x = s THEN w ELSE modulo[x]
  BY <1>3 DEF TypeOK, ChiudiDialogo, Apre
<1> HIDE DEF w
<1>5. ASSUME NEW h \in Gestore
      PROVE  /\ gestore'[h] \in Attesa
             /\ gestore'[h].stato = gestore[h].stato /\ gestore'[h].s = gestore[h].s
             /\ gestore'[h].cod = gestore[h].cod /\ gestore'[h].verso = gestore[h].verso
             /\ gestore[h].s = s => gestore'[h].montato = FALSE
             /\ gestore[h].s # s => gestore'[h] = gestore[h]
  <2>1. gestore[h] \in Attesa
    BY DEF TypeOK
  <2>2. gestore'[h] = IF gestore[h].s = s THEN [gestore[h] EXCEPT !.montato = FALSE]
                      ELSE gestore[h]
    BY DEF ChiudiDialogo, InCorso
  <2>3. QED
    BY <2>1, <2>2 DEF Attesa
<1>6. TypeOK'
  <2>1. gestore' \in [Gestore -> Attesa]
    BY <1>5 DEF ChiudiDialogo
  <2>2. QED
    BY <1>4, <2>1 DEF TypeOK, ChiudiDialogo, server, cliente
<1>7. ASSUME NEW x \in Sessione PROVE FinestraSana(x)'
  BY <1>2, <1>3, <1>4 DEF Struttura, FinestraSana
<1>8. ASSUME NEW h \in Gestore PROVE GestoreSano(h)'
  <2>1. GestoreSano(h) /\ gestore[h] \in Attesa
    BY DEF Struttura, TypeOK
  <2>2. CASE gestore[h].s = s
    <3>1. modulo'[s] = w /\ gestore'[h].s = s /\ gestore'[h].montato = FALSE
          /\ gestore'[h].stato = gestore[h].stato /\ gestore'[h].cod = gestore[h].cod
          /\ gestore'[h].verso = gestore[h].verso
      BY <1>4, <1>5, <2>2
    <3>2. QED
      BY <1>2, <1>3, <2>1, <2>2, <3>1 DEF GestoreSano
  <2>3. CASE gestore[h].s = Nessuno
    BY <1>5, <2>1, <2>3 DEF GestoreSano
  <2>4. CASE gestore[h].s \in Sessione \ {s}
    <3>1. gestore'[h] = gestore[h] /\ modulo'[gestore[h].s] = modulo[gestore[h].s]
      BY <1>4, <1>5, <2>4
    <3>2. QED
      BY <2>1, <3>1 DEF GestoreSano
  <2>5. QED
    BY <2>1, <2>2, <2>3, <2>4 DEF Attesa
<1>9. ASSUME NEW d \in Dispositivo, NEW i \in DOMAIN coda[d]
      PROVE  ScritturaSana(d, i)'
  <2>1. ScritturaSana(d, i) /\ coda[d][i] \in Scrittura /\ coda' = coda
    BY DEF Struttura, TypeOK, ChiudiDialogo, cliente
  <2>2. CASE coda[d][i].h = Nessuno
    BY <2>1, <2>2 DEF ScritturaSana
  <2>3. CASE coda[d][i].h \in Gestore
    <3> DEFINE g == gestore[coda[d][i].h]
    <3>1. g.s \in Sessione /\ modulo'[g.s].tipo = modulo[g.s].tipo
      BY <1>3, <1>4, <2>1, <2>3 DEF ScritturaSana
    <3>2. QED
      BY <1>5, <2>1, <2>3, <3>1 DEF ScritturaSana
  <2>4. QED
    BY <2>1, <2>2, <2>3 DEF Scrittura
<1>10. coda' = coda
  BY DEF ChiudiDialogo, cliente
<1>11. QED
  BY <1>6, <1>7, <1>8, <1>9, <1>10 DEF Struttura

\* The end of a handler, orderly or by an exception: it is free again, and at
\* most its own window's phase has changed.
LEMMA TerminaMantiene ==
  ASSUME TypeOK, Struttura, NEW h \in Gestore, gestore[h].s \in Sessione,
         \/ Termina(h)
         \/ gestore' = [gestore EXCEPT ![h] = Libero] /\ UNCHANGED modulo
  PROVE  /\ gestore' \in [Gestore -> Attesa] /\ modulo' \in [Sessione -> Finestra]
         /\ \A s \in Sessione : FinestraSana(s)'
         /\ \A k \in Gestore : GestoreSano(k)'
         /\ gestore'[h] = Libero
         /\ \A k \in Gestore \ {h} : gestore'[k] = gestore[k]
         /\ \A s \in Sessione : /\ modulo'[s].tipo = modulo[s].tipo
                                /\ modulo'[s].cod = modulo[s].cod
                                /\ modulo'[s].rec = modulo[s].rec
<1> DEFINE z == gestore[h].s
           w == [modulo[z] EXCEPT !.fase = "coperta"]
<1> USE ArchivioAssumption
<1>1. modulo[z] \in Finestra /\ FinestraSana(z) /\ GestoreSano(h)
  BY DEF TypeOK, Struttura
<1>2. /\ w \in Finestra /\ w.fase = "coperta" /\ w.tipo = modulo[z].tipo
      /\ w.cod = modulo[z].cod /\ w.rec = modulo[z].rec
  BY <1>1 DEF Finestra, Fase
<1>3. gestore'[h] = Libero /\ \A k \in Gestore \ {h} : gestore'[k] = gestore[k]
  BY DEF TypeOK, Termina
<1>4. gestore' \in [Gestore -> Attesa]
  <2>1. Libero \in Attesa
    BY DEF Libero, Attesa
  <2>2. QED
    BY <2>1 DEF TypeOK, Termina
<1>5. \A s \in Sessione : \/ modulo'[s] = modulo[s]
                          \/ s = z /\ gestore[h].montato /\ modulo'[s] = w
  BY DEF TypeOK, Termina
<1>6. modulo' \in [Sessione -> Finestra]
  BY <1>2 DEF TypeOK, Termina
<1> HIDE DEF w
<1>7. ASSUME NEW s \in Sessione
      PROVE  /\ FinestraSana(s)'
             /\ modulo'[s].tipo = modulo[s].tipo
             /\ modulo'[s].cod = modulo[s].cod /\ modulo'[s].rec = modulo[s].rec
  <2>1. FinestraSana(s)
    BY DEF Struttura
  <2>2. modulo[z].cod \in Codice /\ modulo[z].tipo # "nessuno" /\ modulo[z].rec \in Controllo
    BY <1>1 DEF GestoreSano
  <2>3. QED
    BY <1>2, <1>5, <2>1, <2>2 DEF FinestraSana
<1>8. ASSUME NEW k \in Gestore PROVE GestoreSano(k)'
  <2>1. GestoreSano(k) /\ gestore[k] \in Attesa
    BY DEF TypeOK, Struttura
  <2>2. CASE k = h
    BY <1>3, <2>2 DEF GestoreSano, Libero
  <2>3. CASE k # h /\ gestore[k].s = Nessuno
    BY <1>3, <2>1, <2>3 DEF GestoreSano
  <2>4. CASE k # h /\ gestore[k].s = z
    <3>1. gestore'[k] = gestore[k] /\ gestore[k].montato \in BOOLEAN
      BY <1>3, <2>1, <2>4 DEF Attesa
    <3>2. modulo'[z] = modulo[z] \/ modulo'[z] = w
      BY <1>5
    <3>3. QED
      BY <1>2, <2>1, <2>4, <3>1, <3>2 DEF GestoreSano
  <2>5. CASE k # h /\ gestore[k].s \in Sessione \ {z}
    BY <1>3, <1>5, <2>1, <2>5 DEF GestoreSano
  <2>6. QED
    BY <2>1, <2>2, <2>3, <2>4, <2>5 DEF Attesa
<1>9. QED
  BY <1>3, <1>4, <1>6, <1>7, <1>8

\* The handler after its write: it uploads, or it ends.  No other handler and
\* nothing that other handlers read is touched.
LEMMA ProseguiMantiene ==
  ASSUME TypeOK, Struttura, NEW h \in Gestore, gestore[h].s \in Sessione, Prosegui(h)
  PROVE  /\ gestore' \in [Gestore -> Attesa] /\ modulo' \in [Sessione -> Finestra]
         /\ \A s \in Sessione : FinestraSana(s)'
         /\ \A k \in Gestore : GestoreSano(k)'
         /\ \A k \in Gestore \ {h} : gestore'[k] = gestore[k]
         /\ \A s \in Sessione : modulo'[s].tipo = modulo[s].tipo
<1> DEFINE c == modulo[gestore[h].s].cod
           g == [gestore[h] EXCEPT !.stato = "carica", !.verso = c]
<1> USE ArchivioAssumption
<1>1. CASE Termina(h)
  BY <1>1, TerminaMantiene
<1>2. CASE /\ gestore' = [gestore EXCEPT ![h].stato = "carica", ![h].verso = c]
           /\ UNCHANGED modulo
  <2>0. gestore[h] \in Attesa /\ GestoreSano(h)
    BY DEF TypeOK, Struttura
  <2>1. /\ gestore[h] \in Attesa /\ GestoreSano(h) /\ c \in Codice
        /\ gestore[h].montato \/ modulo[gestore[h].s].tipo # "add" => c = gestore[h].cod
    BY <2>0 DEF GestoreSano
  <2> HIDE DEF c
  <2>2. /\ g \in Attesa /\ g.stato = "carica" /\ g.s = gestore[h].s
        /\ g.cod = gestore[h].cod /\ g.montato = gestore[h].montato /\ g.verso = c
    BY <2>1 DEF Attesa
  <2>3. gestore' \in [Gestore -> Attesa]
    BY <1>2, <2>2 DEF TypeOK
  <2>4. gestore'[h] = g /\ \A k \in Gestore \ {h} : gestore'[k] = gestore[k]
    BY <1>2 DEF TypeOK
  <2> HIDE DEF g
  <2>5. ASSUME NEW k \in Gestore PROVE GestoreSano(k)'
    <3>1. GestoreSano(k) /\ modulo' = modulo
      BY <1>2 DEF Struttura
    <3>2. CASE k = h
      BY <2>1, <2>2, <2>4, <3>1, <3>2 DEF GestoreSano
    <3>3. CASE k # h
      BY <2>4, <3>1, <3>3 DEF GestoreSano
    <3>4. QED
      BY <3>2, <3>3
  <2>6. \A s \in Sessione : FinestraSana(s)'
    BY <1>2 DEF Struttura, FinestraSana
  <2>7. QED
    BY <1>2, <2>3, <2>4, <2>5, <2>6 DEF TypeOK
<1>3. QED
  BY <1>1, <1>2 DEF Prosegui

\* The oldest write of a device is answered: it is dropped, and its handler, if
\* there is one, goes on.
LEMMA ConclusaMantiene ==
  ASSUME TypeOK, Struttura, NEW d \in Dispositivo, coda[d] # <<>>, Conclusa(d)
  PROVE  /\ coda' \in [Dispositivo -> Seq(Scrittura)]
         /\ gestore' \in [Gestore -> Attesa] /\ modulo' \in [Sessione -> Finestra]
         /\ Struttura'
<1> DEFINE w == Head(coda[d])
<1> USE ArchivioAssumption
<1>1. coda[d] \in Seq(Scrittura)
  BY DEF TypeOK
<1>2. /\ Tail(coda[d]) \in Seq(Scrittura)
      /\ 1 \in DOMAIN coda[d] /\ w = coda[d][1] /\ w \in Scrittura
      /\ \A i \in DOMAIN Tail(coda[d]) :
           i + 1 \in DOMAIN coda[d] /\ Tail(coda[d])[i] = coda[d][i + 1]
  BY <1>1, CodaSenzaTesta
<1>3. coda' \in [Dispositivo -> Seq(Scrittura)] /\ coda'[d] = Tail(coda[d])
      /\ \A e \in Dispositivo \ {d} : coda'[e] = coda[e]
  BY <1>2 DEF TypeOK, Conclusa
<1>4. ScritturaSana(d, 1)
  BY <1>2 DEF Struttura
<1>5. /\ gestore' \in [Gestore -> Attesa] /\ modulo' \in [Sessione -> Finestra]
      /\ \A s \in Sessione : FinestraSana(s)'
      /\ \A k \in Gestore : GestoreSano(k)'
      /\ \A k \in Gestore \ {w.h} : gestore'[k] = gestore[k]
      /\ \A s \in Sessione : modulo'[s].tipo = modulo[s].tipo
  <2>1. CASE w.h = Nessuno
    <3>1. gestore' = gestore /\ modulo' = modulo
      BY <2>1 DEF Conclusa
    <3>2. QED
      BY <3>1 DEF TypeOK, Struttura, FinestraSana, GestoreSano
  <2>2. CASE w.h # Nessuno
    <3>1. w.h \in Gestore /\ gestore[w.h].s \in Sessione
      BY <1>2, <1>4, <2>2 DEF Scrittura, ScritturaSana
    <3>2. Prosegui(w.h)
      BY <2>2 DEF Conclusa
    <3>3. QED
      BY <3>1, <3>2, ProseguiMantiene
  <2>3. QED
    BY <2>1, <2>2
<1>6. ASSUME NEW e \in Dispositivo, NEW i \in DOMAIN coda[e], ScritturaSana(e, i),
             coda[e][i].h # Nessuno, e # d \/ i # 1
      PROVE  LET x == coda[e][i]
                 g == gestore[x.h]
             IN  /\ x.h \in Gestore /\ x.h # w.h
                 /\ gestore'[x.h] = g /\ modulo'[g.s].tipo = modulo[g.s].tipo
  <2>1. coda[e][i].h \in Gestore
    <3>1. coda[e][i] \in Scrittura
      BY DEF TypeOK
    <3>2. QED
      BY <1>6, <3>1 DEF Scrittura
  <2>2. coda[e][i].h # w.h
    BY <1>2, <1>4, <1>6 DEF ScritturaSana
  <2>3. QED
    BY <1>5, <1>6, <2>1, <2>2 DEF ScritturaSana
<1>7. ASSUME NEW e \in Dispositivo, NEW i \in DOMAIN coda'[e]
      PROVE  ScritturaSana(e, i)'
  <2>1. CASE e = d
    <3> DEFINE n == i + 1
    <3>1. n \in DOMAIN coda[d] /\ coda'[d][i] = coda[d][n] /\ n # 1 /\ i \in Nat
      BY <1>2, <1>3, <2>1
    <3>2. ScritturaSana(d, n)
      BY <3>1 DEF Struttura
    <3>3. CASE coda[d][n].h = Nessuno
      BY <2>1, <3>1, <3>3 DEF ScritturaSana
    <3>4. CASE coda[d][n].h # Nessuno
      <4>1. \A j \in DOMAIN coda'[d] : coda'[d][j].h = coda[d][n].h => j = i
        <5>1. \A j \in DOMAIN coda'[d] :
                j \in Nat /\ j + 1 \in DOMAIN coda[d] /\ coda'[d][j] = coda[d][j + 1]
          BY <1>2, <1>3
        <5>2. QED
          BY <3>1, <3>2, <3>4, <5>1 DEF ScritturaSana
      <4>2. LET x == coda[d][n]
                g == gestore[x.h]
            IN  gestore'[x.h] = g /\ modulo'[g.s].tipo = modulo[g.s].tipo
        BY <1>6, <3>1, <3>2, <3>4
      <4>3. QED
        BY <2>1, <3>1, <3>2, <3>4, <4>1, <4>2 DEF ScritturaSana
    <3>5. QED
      BY <3>3, <3>4
  <2>2. CASE e # d
    <3>1. coda'[e] = coda[e] /\ ScritturaSana(e, i)
      BY <1>3, <2>2 DEF Struttura
    <3>2. CASE coda[e][i].h = Nessuno
      BY <3>1, <3>2 DEF ScritturaSana
    <3>3. CASE coda[e][i].h # Nessuno
      <4>1. LET x == coda[e][i]
                g == gestore[x.h]
            IN  gestore'[x.h] = g /\ modulo'[g.s].tipo = modulo[g.s].tipo
        BY <1>6, <2>2, <3>1, <3>3
      <4>2. QED
        BY <3>1, <3>3, <4>1 DEF ScritturaSana
    <3>4. QED
      BY <3>2, <3>3
  <2>3. QED
    BY <2>1, <2>2
<1>8. QED
  BY <1>3, <1>5, <1>7 DEF Struttura

\* The history only grows, within its type.
LEMMA StoriaCresce ==
  ASSUME NEW st \in Storia, NEW C \in SUBSET Codice, NEW D \in SUBSET Codice,
         NEW K \in SUBSET (Codice \X Giorno)
  PROVE  /\ [st EXCEPT !.rifiutate = @ \cup C] \in Storia
         /\ [st EXCEPT !.incomplete = @ \cup C] \in Storia
         /\ [st EXCEPT !.dirottate = @ \cup C, !.incomplete = @ \cup D] \in Storia
         /\ [st EXCEPT !.eseguiti = @ \cup K] \in Storia
         /\ [st EXCEPT !.persi = @ \cup K] \in Storia
         /\ [st EXCEPT !.incomplete = @ \cup C, !.persi = @ \cup K] \in Storia
  BY DEF Storia

\* The server's side of a write keeps the types of what it stores.
LEMMA EffettoTipo ==
  ASSUME TypeOK, NEW w \in Scrittura, Effetto(w)
  PROVE  /\ controlli' \in [Codice -> Controllo \cup {Assente}]
         /\ registro' \in SUBSET (Codice \X Giorno)
         /\ schede' \in SUBSET Codice
         /\ storia' \in Storia
<1>1. w.cod \in Codice /\ w.val \in Controllo /\ w.val.ultimo \in Giorno
  BY DEF Scrittura, Controllo
<1>2. controlli' \in [Codice -> Controllo \cup {Assente}]
  BY <1>1 DEF TypeOK, Effetto
<1>3. registro' \in SUBSET (Codice \X Giorno)
  BY <1>1 DEF TypeOK, Effetto, IdRegistro
<1>4. storia' \in Storia
  <2>1. {<<w.cod, w.val.ultimo>>} \in SUBSET (Codice \X Giorno) /\ storia \in Storia
    BY <1>1 DEF TypeOK
  <2>2. [storia EXCEPT !.eseguiti = @ \cup {<<w.cod, w.val.ultimo>>}] \in Storia
    BY <2>1, StoriaCresce
  <2>3. QED
    BY <2>1, <2>2 DEF Effetto
<1>5. QED
  BY <1>2, <1>3, <1>4 DEF TypeOK, Effetto

\* A step of the queue: executed, answered, the answer lost, refused.
LEMMA CodaMantiene ==
  ASSUME TypeOK, Struttura, RisposteFondate, NEW d \in Dispositivo,
         Esegui(d) \/ Risposta(d) \/ RispostaPersa(d) \/ Rifiuta(d)
  PROVE  TypeOK' /\ Struttura'
<1>1. coda[d] \in Seq(Scrittura) /\ inviate[d] \in Nat /\ inviate[d] <= Len(coda[d])
  BY DEF TypeOK, RisposteFondate, FlussoSano
<1>2. CASE Esegui(d)
  <2> DEFINE w == coda[d][inviate[d] + 1]
  <2>1. w \in Scrittura
    BY <1>1, <1>2 DEF Esegui
  <2>2. Effetto(w) /\ UNCHANGED <<coda, gestore, modulo>>
    BY <1>2 DEF Esegui
  <2>3. inviate' \in [Dispositivo -> Nat]
    BY <1>1, <1>2 DEF Esegui, TypeOK
  <2>4. TypeOK'
    BY <2>1, <2>2, <2>3, EffettoTipo DEF TypeOK
  <2>5. Struttura'
    BY <2>2 DEF Struttura, FinestraSana, GestoreSano, ScritturaSana
  <2>6. QED
    BY <2>4, <2>5
<1>3. CASE Risposta(d)
  <2>1. coda[d] # <<>> /\ Conclusa(d) /\ UNCHANGED <<server, storia>>
    BY <1>1, <1>3 DEF Risposta
  <2>2. inviate' \in [Dispositivo -> Nat]
    BY <1>1, <1>3 DEF Risposta, TypeOK
  <2>3. QED
    BY <2>1, <2>2, ConclusaMantiene DEF TypeOK, server
<1>4. CASE RispostaPersa(d)
  <2>1. inviate' \in [Dispositivo -> Nat] /\ UNCHANGED <<server, coda, gestore, modulo, storia>>
    BY <1>4 DEF RispostaPersa, TypeOK
  <2>2. TypeOK'
    BY <2>1 DEF TypeOK, server
  <2>3. Struttura'
    BY <2>1 DEF Struttura, FinestraSana, GestoreSano, ScritturaSana
  <2>4. QED
    BY <2>2, <2>3
<1>5. CASE Rifiuta(d)
  <2> DEFINE w == Head(coda[d])
  <2>1. coda[d] # <<>> /\ Conclusa(d) /\ UNCHANGED <<server, inviate>>
    BY <1>5 DEF Rifiuta
  <2>2. w \in Scrittura
    BY <1>1, <2>1
  <2>3. w.cod \in Codice /\ w.val.ultimo \in Giorno
    BY <2>2 DEF Scrittura, Controllo
  <2>4. storia' \in Storia
    <3>1. /\ {<<w.cod, w.val.ultimo>>} \in SUBSET (Codice \X Giorno)
          /\ {w.cod} \in SUBSET Codice /\ storia \in Storia
      BY <2>3 DEF TypeOK
    <3>2. /\ [storia EXCEPT !.rifiutate = @ \cup {w.cod}] \in Storia
          /\ [storia EXCEPT !.persi = @ \cup {<<w.cod, w.val.ultimo>>}] \in Storia
      BY <3>1, StoriaCresce
    <3>3. QED
      BY <1>5, <3>1, <3>2 DEF Rifiuta
  <2>5. QED
    BY <2>1, <2>4, ConclusaMantiene DEF TypeOK, server
<1>6. QED
  BY <1>2, <1>3, <1>4, <1>5

\* No queued write belongs to a handler that is uploading.
LEMMA NonInCoda ==
  ASSUME TypeOK, Struttura, NEW h \in Gestore, gestore[h].stato = "carica",
         NEW d \in Dispositivo, NEW i \in DOMAIN coda[d]
  PROVE  coda[d][i].h # h
  BY ArchivioAssumption DEF Struttura, ScritturaSana

\* The end of an upload, good or bad.
LEMMA CaricamentoMantiene ==
  ASSUME TypeOK, Struttura, NEW h \in Gestore, putFile(h) \/ putFileFallito(h)
  PROVE  TypeOK' /\ Struttura'
<1> DEFINE z == gestore[h].s
<1> USE ArchivioAssumption
<1>1. /\ gestore[h].stato = "carica" /\ gestore[h] \in Attesa /\ GestoreSano(h)
      /\ coda' = coda /\ inviate' = inviate
  BY DEF putFile, putFileFallito, TypeOK, Struttura, cliente
<1>2. z \in Sessione /\ gestore[h].cod \in Codice /\ gestore[h].verso \in Codice
  BY <1>1 DEF Attesa, GestoreSano, Libero
<1>3. /\ gestore' \in [Gestore -> Attesa] /\ modulo' \in [Sessione -> Finestra]
      /\ \A s \in Sessione : FinestraSana(s)'
      /\ \A k \in Gestore : GestoreSano(k)'
      /\ \A k \in Gestore \ {h} : gestore'[k] = gestore[k]
      /\ \A s \in Sessione : modulo'[s].tipo = modulo[s].tipo
  BY <1>2, TerminaMantiene DEF putFile, putFileFallito
<1>4. /\ storia' \in Storia /\ schede' \in SUBSET Codice
      /\ controlli' = controlli /\ registro' = registro
  <2>1. CASE putFile(h)
    BY <1>2, <2>1 DEF TypeOK, putFile, Storia
  <2>2. CASE putFileFallito(h)
    <3>1. Scoperte({h}) \subseteq Codice
      BY <1>2 DEF Scoperte
    <3>2. QED
      BY <2>2, <3>1 DEF TypeOK, putFileFallito, Storia, server
  <2>3. QED
    BY <2>1, <2>2
<1>5. ASSUME NEW d \in Dispositivo, NEW i \in DOMAIN coda[d]
      PROVE  ScritturaSana(d, i)'
  <2>1. ScritturaSana(d, i) /\ coda[d][i] \in Scrittura /\ coda[d][i].h # h
    BY <1>1, NonInCoda DEF TypeOK, Struttura
  <2>2. CASE coda[d][i].h = Nessuno
    BY <1>1, <2>2 DEF ScritturaSana
  <2>3. CASE coda[d][i].h \in Gestore
    <3> DEFINE x == coda[d][i].h
    <3>1. gestore'[x] = gestore[x] /\ gestore[x].s \in Sessione
      BY <1>3, <2>1, <2>3 DEF ScritturaSana
    <3>2. modulo'[gestore[x].s].tipo = modulo[gestore[x].s].tipo
      BY <1>3, <3>1
    <3>3. QED
      BY <1>1, <2>1, <3>1, <3>2 DEF ScritturaSana
  <2>4. QED
    BY <2>1, <2>2, <2>3 DEF Scrittura
<1>6. QED
  BY <1>1, <1>3, <1>4, <1>5 DEF TypeOK, Struttura

-----------------------------------------------------------------------------
(* Confirming and dying *)

\* What a confirmation queues: writes of the form's record, the awaited one
\* among them exactly once and of the form's kind.
LEMMA ScrittureForma ==
  ASSUME NEW s \in Sessione, NEW h \in Gestore, NEW q \in Scritture(s, h),
         modulo[s] \in Finestra, modulo[s].cod \in Codice, modulo[s].rec \in Controllo,
         modulo[s].tipo # "nessuno"
  PROVE  /\ q \in Seq(Scrittura)
         /\ \A i \in DOMAIN q :
              /\ q[i].cod = modulo[s].cod /\ q[i].val = modulo[s].rec
              /\ q[i].h \in {h, Nessuno}
              /\ q[i].h = Nessuno => q[i].op = "registro" /\ modulo[s].tipo = "check"
              /\ q[i].h = h =>
                   /\ <<modulo[s].tipo, q[i].op>> \in
                        {<<"add", "set">>, <<"edit", "edit">>, <<"check", "check">>}
                   /\ \A j \in DOMAIN q : q[j].h = h => j = i
         /\ modulo[s].tipo = "check" => \E i \in DOMAIN q : q[i].op = "registro"
<1> USE ArchivioAssumption
<1>1. \A o \in {"set", "edit", "check", "registro"}, k \in {h, Nessuno} :
        /\ W(s, o, k) \in Scrittura /\ W(s, o, k).op = o /\ W(s, o, k).h = k
        /\ W(s, o, k).cod = modulo[s].cod /\ W(s, o, k).val = modulo[s].rec
  BY DEF W, Scrittura
<1>2. modulo[s].tipo \in {"add", "edit", "check"}
  BY DEF Finestra
<1>3. CASE modulo[s].tipo = "add"
  <2>1. q = <<W(s, "set", h)>>
    BY <1>3 DEF Scritture
  <2>2. q \in Seq(Scrittura) /\ DOMAIN q = {1} /\ q[1] = W(s, "set", h)
    BY <1>1, <2>1
  <2>3. QED
    BY <1>1, <1>3, <2>2
<1>4. CASE modulo[s].tipo = "edit"
  <2>1. q = <<W(s, "edit", h)>>
    BY <1>4 DEF Scritture
  <2>2. q \in Seq(Scrittura) /\ DOMAIN q = {1} /\ q[1] = W(s, "edit", h)
    BY <1>1, <2>1
  <2>3. QED
    BY <1>1, <1>4, <2>2
<1>5. CASE modulo[s].tipo = "check"
  <2>1. \/ q = <<W(s, "registro", Nessuno), W(s, "check", h)>>
        \/ q = <<W(s, "check", h), W(s, "registro", Nessuno)>>
    BY <1>5 DEF Scritture
  <2>2. /\ q \in Seq(Scrittura) /\ DOMAIN q = {1, 2}
        /\ \/ q[1] = W(s, "registro", Nessuno) /\ q[2] = W(s, "check", h)
           \/ q[1] = W(s, "check", h) /\ q[2] = W(s, "registro", Nessuno)
    <3> DEFINE a == W(s, "registro", Nessuno)
               b == W(s, "check", h)
    <3>1. a \in Scrittura /\ b \in Scrittura
      BY <1>1
    <3>2. q = <<a, b>> \/ q = <<b, a>>
      BY <2>1
    <3> HIDE DEF a, b
    <3>3. /\ q \in Seq(Scrittura) /\ DOMAIN q = {1, 2}
          /\ (q[1] = a /\ q[2] = b) \/ (q[1] = b /\ q[2] = a)
      <4>1. CASE q = <<a, b>>
        BY <3>1, <4>1
      <4>2. CASE q = <<b, a>>
        BY <3>1, <4>2
      <4>3. QED
        BY <3>2, <4>1, <4>2
    <3>4. QED
      BY <3>3 DEF a, b
  <2>3. h # Nessuno
    OBVIOUS
  <2>4. QED
    BY <1>1, <1>5, <2>2, <2>3
<1>6. QED
  BY <1>2, <1>3, <1>4, <1>5

LEMMA ConfermaMantiene ==
  ASSUME TypeOK, Struttura, NEW s \in Sessione, Conferma(s)
  PROVE  TypeOK' /\ Struttura'
<1> DEFINE m == modulo[s]
           d == su[s]
<1> USE ArchivioAssumption
<1>1. /\ m \in Finestra /\ m.fase = "conferma" /\ m.cod \in Codice
      /\ m.rec \in Controllo /\ m.tipo # "nessuno"
  BY DEF TypeOK, Struttura, FinestraSana, Conferma
<1>0. PICK h \in Gestore : \E q \in Scritture(s, h) :
        /\ gestore[h] = Libero
        /\ gestore' = [gestore EXCEPT
             ![h] = [stato |-> "scrive", s |-> s, cod |-> m.cod, montato |-> TRUE,
                     verso |-> Nessuno]]
        /\ coda' = [coda EXCEPT ![d] = @ \o q]
  BY DEF Conferma
<1>2. PICK q \in Scritture(s, h) :
        /\ gestore[h] = Libero
        /\ gestore' = [gestore EXCEPT
             ![h] = [stato |-> "scrive", s |-> s, cod |-> m.cod, montato |-> TRUE,
                     verso |-> Nessuno]]
        /\ coda' = [coda EXCEPT ![d] = @ \o q]
  BY <1>0
<1>3. UNCHANGED <<server, inviate, modulo, storia>>
  BY DEF Conferma
<1>4. /\ q \in Seq(Scrittura)
      /\ \A i \in DOMAIN q :
              /\ q[i].cod = m.cod
              /\ q[i].h \in {h, Nessuno}
              /\ q[i].h = h =>
                   /\ <<m.tipo, q[i].op>> \in
                        {<<"add", "set">>, <<"edit", "edit">>, <<"check", "check">>}
                   /\ \A j \in DOMAIN q : q[j].h = h => j = i
  BY <1>1, ScrittureForma
<1>5. d \in Dispositivo /\ coda[d] \in Seq(Scrittura)
  BY DEF TypeOK
<1> DEFINE g == [stato |-> "scrive", s |-> s, cod |-> m.cod, montato |-> TRUE,
                   verso |-> Nessuno]
           r == coda[d] \o q
           n == Len(coda[d])
<1>6. /\ g \in Attesa /\ g.stato = "scrive" /\ g.s = s /\ g.cod = m.cod
      /\ g.montato = TRUE
  BY <1>1 DEF Attesa
<1>7. /\ gestore' \in [Gestore -> Attesa] /\ gestore'[h] = g
      /\ \A k \in Gestore \ {h} : gestore'[k] = gestore[k]
  BY <1>2, <1>6 DEF TypeOK
<1>8. /\ r \in Seq(Scrittura) /\ n \in Nat
      /\ \A i \in DOMAIN r :
           \/ i \in DOMAIN coda[d] /\ r[i] = coda[d][i]
           \/ i - n \in DOMAIN q /\ r[i] = q[i - n]
  BY <1>4, <1>5, CodaConAltre
<1>9. /\ coda' \in [Dispositivo -> Seq(Scrittura)] /\ coda'[d] = r
      /\ \A e \in Dispositivo \ {d} : coda'[e] = coda[e]
  BY <1>2, <1>5, <1>8 DEF TypeOK
<1> HIDE DEF g, r, n
<1>10. TypeOK'
  BY <1>3, <1>7, <1>9 DEF TypeOK, server
<1>11. \A x \in Sessione : FinestraSana(x)'
  BY <1>3 DEF Struttura, FinestraSana
<1>12. ASSUME NEW k \in Gestore PROVE GestoreSano(k)'
  <2>1. CASE k = h
    BY <1>1, <1>3, <1>6, <1>7, <2>1 DEF GestoreSano
  <2>2. CASE k # h
    BY <1>3, <1>7, <2>2 DEF GestoreSano, Struttura
  <2>3. QED
    BY <2>1, <2>2
<1>13. ASSUME NEW e \in Dispositivo, NEW i \in DOMAIN coda[e]
       PROVE  coda[e][i].h # h /\ coda[e][i].h \in Gestore \cup {Nessuno}
  <2>1. coda[e][i] \in Scrittura /\ ScritturaSana(e, i)
    BY DEF TypeOK, Struttura
  <2>2. QED
    BY <1>2, <2>1 DEF ScritturaSana, Libero, Scrittura
<1>14. ASSUME NEW e \in Dispositivo, NEW i \in DOMAIN coda'[e]
       PROVE  ScritturaSana(e, i)'
  <2>1. CASE e # d
    <3>1. coda'[e] = coda[e] /\ ScritturaSana(e, i) /\ modulo' = modulo
      BY <1>3, <1>9, <2>1 DEF Struttura
    <3>2. coda[e][i].h # Nessuno => gestore'[coda[e][i].h] = gestore[coda[e][i].h]
      BY <1>7, <1>13, <3>1
    <3>3. QED
      BY <3>1, <3>2 DEF ScritturaSana
  <2>2. CASE e = d /\ i \in DOMAIN coda[d] /\ r[i] = coda[d][i]
    <3>1. ScritturaSana(d, i) /\ modulo' = modulo /\ coda'[d] = r
      BY <1>3, <1>9, <2>2 DEF Struttura
    <3>2. coda[d][i].h # Nessuno => gestore'[coda[d][i].h] = gestore[coda[d][i].h]
      BY <1>7, <1>13, <2>2, <1>5
    <3>3. ASSUME NEW j \in DOMAIN r, r[j].h = coda[d][i].h, coda[d][i].h # Nessuno
          PROVE  j = i
      <4>1. coda[d][i].h # h
        BY <1>5, <1>13, <2>2
      <4>2. j \in DOMAIN coda[d] /\ r[j] = coda[d][j]
        BY <1>4, <1>8, <3>3, <4>1
      <4>3. QED
        BY <2>2, <3>1, <3>3, <4>2 DEF ScritturaSana
    <3>4. QED
      BY <2>2, <3>1, <3>2, <3>3 DEF ScritturaSana
  <2>3. CASE e = d /\ i - n \in DOMAIN q /\ r[i] = q[i - n]
    <3>1. modulo' = modulo /\ coda'[d] = r /\ i \in Nat
      BY <1>3, <1>8, <1>9, <2>3
    <3>2. ASSUME r[i].h # Nessuno
          PROVE  /\ r[i].h = h /\ r[i].cod = m.cod
                 /\ <<m.tipo, r[i].op>> \in
                        {<<"add", "set">>, <<"edit", "edit">>, <<"check", "check">>}
                 /\ \A j \in DOMAIN r : r[j].h = h => j = i
      <4>1. /\ r[i].h = h /\ r[i].cod = m.cod
            /\ <<m.tipo, r[i].op>> \in
                   {<<"add", "set">>, <<"edit", "edit">>, <<"check", "check">>}
        BY <1>4, <2>3, <3>2
      <4>2. ASSUME NEW j \in DOMAIN r, r[j].h = h PROVE j = i
        <5>1. j - n \in DOMAIN q /\ r[j] = q[j - n] /\ j \in Nat
          BY <1>5, <1>8, <1>13, <4>2
        <5>2. j - n = i - n
          BY <1>4, <2>3, <4>1, <4>2, <5>1
        <5>3. QED
          BY <1>8, <3>1, <5>1, <5>2
      <4>3. QED
        BY <4>1, <4>2
    <3>3. QED
      BY <1>5, <1>6, <1>7, <2>3, <3>1, <3>2 DEF ScritturaSana
  <2>4. QED
    BY <1>8, <1>9, <2>1, <2>2, <2>3
<1>15. QED
  BY <1>10, <1>11, <1>12, <1>14 DEF Struttura

\* The process dies with queue q on disk.
LEMMA SpegniMantiene ==
  ASSUME TypeOK, Struttura, NEW d \in Dispositivo, NEW q \in Seq(Scrittura), Spegni(d, q)
  PROVE  /\ coda' \in [Dispositivo -> Seq(Scrittura)]
         /\ inviate' \in [Dispositivo -> Nat]
         /\ gestore' \in [Gestore -> Attesa] /\ modulo' \in [Sessione -> Finestra]
         /\ Struttura'
<1> DEFINE r == [i \in DOMAIN q |-> SenzaGestore(q[i])]
<1> USE ArchivioAssumption
<1>1. r \in Seq(Scrittura) /\ \A i \in DOMAIN r : r[i].h = Nessuno
  <2>1. \A i \in DOMAIN q : SenzaGestore(q[i]).h = Nessuno
    BY SenzaGestoreTipo
  <2>2. QED
    BY <2>1, CodaSenzaGestori
<1>2. /\ coda' \in [Dispositivo -> Seq(Scrittura)] /\ coda'[d] = r
      /\ \A e \in Dispositivo \ {d} : coda'[e] = coda[e]
  BY <1>1 DEF TypeOK, Spegni
<1> HIDE DEF r
<1>3. /\ modulo' \in [Sessione -> Finestra]
      /\ \A s \in Sessione : modulo'[s] = IF su[s] = d THEN Libera ELSE modulo[s]
  BY LiberaSana DEF TypeOK, Spegni
<1>4. /\ gestore' \in [Gestore -> Attesa]
      /\ \A h \in Gestore : gestore'[h] = IF h \in AttiviSu(d) THEN Libero ELSE gestore[h]
  <2>1. Libero \in Attesa
    BY DEF Libero, Attesa
  <2>2. QED
    BY <2>1 DEF TypeOK, Spegni
<1>5. \A s \in Sessione : FinestraSana(s)'
  BY <1>3 DEF Struttura, FinestraSana, Libera
<1>6. ASSUME NEW h \in Gestore PROVE GestoreSano(h)'
  <2>1. GestoreSano(h) /\ gestore[h] \in Attesa
    BY DEF TypeOK, Struttura
  <2>2. CASE h \in AttiviSu(d)
    BY <1>4, <2>2 DEF GestoreSano, Libero
  <2>3. CASE h \notin AttiviSu(d)
    <3>1. gestore'[h] = gestore[h]
      BY <1>4, <2>3
    <3>2. CASE gestore[h].s = Nessuno
      BY <2>1, <3>1, <3>2 DEF GestoreSano
    <3>3. CASE gestore[h].s \in Sessione
      <4>1. modulo'[gestore[h].s] = modulo[gestore[h].s]
        BY <1>3, <2>3, <3>3 DEF AttiviSu
      <4>2. QED
        BY <2>1, <3>1, <3>3, <4>1 DEF GestoreSano
    <3>4. QED
      BY <2>1, <3>2, <3>3 DEF Attesa
  <2>4. QED
    BY <2>2, <2>3
<1>7. ASSUME NEW e \in Dispositivo, NEW i \in DOMAIN coda'[e]
      PROVE  ScritturaSana(e, i)'
  <2>1. CASE e = d
    BY <1>1, <1>2, <2>1 DEF ScritturaSana
  <2>2. CASE e # d
    <3>1. coda'[e] = coda[e] /\ ScritturaSana(e, i) /\ coda[e][i] \in Scrittura
      BY <1>2, <2>2 DEF TypeOK, Struttura
    <3>2. CASE coda[e][i].h = Nessuno
      BY <3>1, <3>2 DEF ScritturaSana
    <3>3. CASE coda[e][i].h \in Gestore
      <4> DEFINE x == coda[e][i].h
      <4>1. gestore[x].s \in Sessione /\ su[gestore[x].s] = e
        BY <3>1, <3>3 DEF ScritturaSana
      <4>2. gestore'[x] = gestore[x] /\ modulo'[gestore[x].s] = modulo[gestore[x].s]
        BY <1>3, <1>4, <2>2, <3>3, <4>1 DEF AttiviSu
      <4>3. QED
        BY <3>1, <3>3, <4>2 DEF ScritturaSana
    <3>4. QED
      BY <3>1, <3>2, <3>3 DEF Scrittura
  <2>3. QED
    BY <2>1, <2>2
<1>8. inviate' \in [Dispositivo -> Nat]
  BY DEF Spegni, TypeOK
<1>9. QED
  BY <1>2, <1>3, <1>4, <1>5, <1>6, <1>7, <1>8 DEF Struttura

\* The additions a dying process leaves behind are additions of real codes.
LEMMA ScoperteTipo ==
  ASSUME TypeOK, Struttura, NEW d \in Dispositivo
  PROVE  Scoperte(AttiviSu(d)) \in SUBSET Codice
<1>1. ASSUME NEW h \in AttiviSu(d) PROVE gestore[h].cod \in Codice
  <2>1. h \in Gestore /\ gestore[h].s \in Sessione /\ GestoreSano(h)
    BY DEF AttiviSu, Struttura
  <2>2. QED
    BY <2>1, ArchivioAssumption DEF GestoreSano
<1>2. QED
  BY <1>1 DEF Scoperte

\* A crash, also one in the middle of a check's confirmation.
LEMMA CrashMantiene ==
  ASSUME TypeOK, Struttura,
         \/ \E d \in Dispositivo : Crash(d)
         \/ \E s \in Sessione : ConfermaInterrotta(s)
  PROVE  TypeOK' /\ Struttura'
<1> USE ArchivioAssumption
<1>1. ASSUME NEW d \in Dispositivo, Crash(d) PROVE TypeOK' /\ Struttura'
  <2>1. coda[d] \in Seq(Scrittura) /\ storia \in Storia
    BY DEF TypeOK
  <2>2. storia' \in Storia
    BY <1>1, <2>1, ScoperteTipo, StoriaCresce DEF Crash
  <2>3. Spegni(d, coda[d]) /\ UNCHANGED server
    BY <1>1 DEF Crash
  <2>4. QED
    BY <2>1, <2>2, <2>3, SpegniMantiene DEF TypeOK, server
<1>2. ASSUME NEW s \in Sessione, ConfermaInterrotta(s) PROVE TypeOK' /\ Struttura'
  <2> DEFINE d == su[s]
             k == <<modulo[s].cod, modulo[s].rec.ultimo>>
             C == Scoperte(AttiviSu(d))
  <2>1. PICK o \in {"registro", "check"} :
          /\ Spegni(d, Append(coda[d], W(s, o, Nessuno)))
          /\ storia' = [storia EXCEPT !.incomplete = @ \cup C,
                                      !.persi = IF o = "check" THEN @ \cup {k} ELSE @]
    BY <1>2 DEF ConfermaInterrotta
  <2>2. modulo[s].cod \in Codice /\ modulo[s].rec \in Controllo
    BY <1>2 DEF ConfermaInterrotta, Struttura, FinestraSana
  <2>3. d \in Dispositivo /\ coda[d] \in Seq(Scrittura) /\ storia \in Storia
    BY DEF TypeOK
  <2>4. W(s, o, Nessuno) \in Scrittura
    BY <2>2 DEF W, Scrittura
  <2>5. storia' \in Storia
    <3>1. C \in SUBSET Codice
      BY <2>3, ScoperteTipo
    <3>2. {k} \in SUBSET (Codice \X Giorno)
      BY <2>2 DEF Controllo
    <3>3. QED
      BY <2>1, <2>3, <3>1, <3>2 DEF Storia
  <2>6. QED
    <3>1. Append(coda[d], W(s, o, Nessuno)) \in Seq(Scrittura)
      BY <2>3, <2>4
    <3>2. UNCHANGED server
      BY <1>2 DEF ConfermaInterrotta
    <3>3. QED
      BY <2>1, <2>3, <2>5, <3>1, <3>2, SpegniMantiene DEF TypeOK, server
<1>3. QED
  BY <1>1, <1>2

-----------------------------------------------------------------------------
(* What the server has executed *)

\* Write w is executed after this step.
EseguitaDopo(w) == IF w.op = "registro" THEN IdRegistro(w) \in registro'
                                        ELSE controlli'[w.cod] # Assente

\* Nothing that is stored goes away.
LEMMA EseguitaResta ==
  ASSUME TypeOK, NEW w \in Scrittura, Eseguita(w),
         \/ controlli' = controlli /\ registro' = registro
         \/ \E x \in Scrittura : Effetto(x)
  PROVE  EseguitaDopo(w)
<1>1. CASE controlli' = controlli /\ registro' = registro
  BY <1>1 DEF Eseguita, EseguitaDopo
<1>2. ASSUME NEW x \in Scrittura, Effetto(x) PROVE EseguitaDopo(w)
  <2>1. w.cod \in Codice /\ x.cod \in Codice /\ x.val \in Controllo
    BY DEF Scrittura
  <2>2. registro \subseteq registro' /\ (controlli[w.cod] # Assente => controlli'[w.cod] # Assente)
    BY <1>2, <2>1, ArchivioAssumption DEF Effetto, TypeOK
  <2>3. QED
    BY <2>2 DEF Eseguita, EseguitaDopo
<1>3. QED
  BY <1>1, <1>2

\* A write leaves its mark when it is executed.
LEMMA EffettoEseguita ==
  ASSUME TypeOK, NEW w \in Scrittura, Effetto(w)
  PROVE  EseguitaDopo(w)
<1>1. w.cod \in Codice /\ w.val \in Controllo
  BY DEF Scrittura
<1>2. QED
  BY <1>1, ArchivioAssumption DEF Effetto, EseguitaDopo, TypeOK

\* The write that an answer is about is there, and was executed.
LEMMA RispostaEseguita ==
  ASSUME TypeOK, RisposteFondate, NEW d \in Dispositivo, Risposta(d)
  PROVE  coda[d] # <<>> /\ coda[d][1] \in Scrittura /\ Eseguita(coda[d][1])
<1>1. /\ coda[d] \in Seq(Scrittura) /\ inviate[d] \in Nat /\ inviate[d] > 0
      /\ inviate[d] <= Len(coda[d]) /\ FlussoSano(d)
  BY DEF TypeOK, RisposteFondate, FlussoSano, Risposta
<1>2. coda[d] # <<>> /\ 1 \in DOMAIN coda[d] /\ coda[d][1] \in Scrittura /\ 1 <= inviate[d]
  BY <1>1
<1>3. QED
  BY <1>1, <1>2 DEF FlussoSano

\* FlussoSano after a step.
LEMMA FlussoDopo ==
  ASSUME NEW d, inviate'[d] <= Len(coda'[d]),
         \A i \in DOMAIN coda'[d] : i <= inviate'[d] => EseguitaDopo(coda'[d][i])
  PROVE  FlussoSano(d)'
BY DEF FlussoSano, Eseguita, EseguitaDopo, IdRegistro

\* The writes under way stay the front of the queue when others join it, and when
\* the stream starts from nothing.
LEMMA FlussoStesso ==
  ASSUME TypeOK, NEW d \in Dispositivo, FlussoSano(d), inviate'[d] = inviate[d],
         Len(coda[d]) <= Len(coda'[d]), coda'[d] \in Seq(Scrittura),
         \A i \in DOMAIN coda[d] : coda'[d][i] = coda[d][i],
         \A w \in Scrittura : Eseguita(w) => EseguitaDopo(w)
  PROVE  FlussoSano(d)'
<1>1. coda[d] \in Seq(Scrittura) /\ inviate[d] \in Nat /\ inviate[d] <= Len(coda[d])
  BY DEF TypeOK, FlussoSano
<1>2. inviate'[d] <= Len(coda'[d])
  BY <1>1
<1>3. ASSUME NEW i \in DOMAIN coda'[d], i <= inviate'[d] PROVE EseguitaDopo(coda'[d][i])
  <2>1. i \in DOMAIN coda[d] /\ coda'[d][i] = coda[d][i] /\ coda[d][i] \in Scrittura
    BY <1>1, <1>3
  <2>2. Eseguita(coda[d][i])
    BY <1>3, <2>1 DEF FlussoSano
  <2>3. QED
    BY <2>1, <2>2
<1>4. QED
  BY <1>2, <1>3, FlussoDopo

LEMMA FlussoVuoto ==
  ASSUME NEW d \in Dispositivo, coda'[d] \in Seq(Scrittura), inviate'[d] = 0
  PROVE  FlussoSano(d)'
<1>1. Len(coda'[d]) \in Nat /\ DOMAIN coda'[d] = 1..Len(coda'[d])
  OBVIOUS
<1>2. inviate'[d] <= Len(coda'[d]) /\ \A i \in DOMAIN coda'[d] : ~(i <= inviate'[d])
  BY <1>1
<1>3. QED
  BY <1>2, FlussoDopo

LEMMA RisposteCoda ==
  ASSUME TypeOK, RisposteFondate, TypeOK', NEW d \in Dispositivo,
         Esegui(d) \/ Risposta(d) \/ RispostaPersa(d) \/ Rifiuta(d)
  PROVE  RisposteFondate'
<1>1. ASSUME NEW e \in Dispositivo
      PROVE  /\ coda[e] \in Seq(Scrittura) /\ coda'[e] \in Seq(Scrittura)
             /\ inviate[e] \in Nat /\ FlussoSano(e) /\ inviate[e] <= Len(coda[e])
  BY DEF TypeOK, RisposteFondate, FlussoSano
<1>2. \/ controlli' = controlli /\ registro' = registro
      \/ \E x \in Scrittura : Effetto(x)
  <2>1. CASE Esegui(d)
    <3>1. coda[d][inviate[d] + 1] \in Scrittura
      BY <1>1, <2>1 DEF Esegui
    <3>2. QED
      BY <2>1, <3>1 DEF Esegui
  <2>2. QED
    BY <2>1 DEF Risposta, RispostaPersa, Rifiuta, server
<1>3. ASSUME NEW w \in Scrittura, Eseguita(w) PROVE EseguitaDopo(w)
  BY <1>2, <1>3, EseguitaResta
<1>4. ASSUME NEW e \in Dispositivo \ {d} PROVE FlussoSano(e)'
  <2>1. coda'[e] = coda[e] /\ inviate'[e] = inviate[e]
    BY DEF Esegui, Risposta, RispostaPersa, Rifiuta, Conclusa, TypeOK
  <2>2. QED
    BY <1>1, <1>3, <2>1, FlussoStesso
<1>5. CASE Esegui(d)
  <2>1. /\ coda' = coda /\ inviate'[d] = inviate[d] + 1 /\ inviate[d] < Len(coda[d])
        /\ Effetto(coda[d][inviate[d] + 1])
    BY <1>5 DEF Esegui, TypeOK
  <2>2. EseguitaDopo(coda[d][inviate[d] + 1])
    BY <1>1, <2>1, EffettoEseguita
  <2>3. inviate'[d] <= Len(coda'[d])
    BY <1>1, <2>1
  <2>4. ASSUME NEW i \in DOMAIN coda[d], i <= inviate[d] + 1 PROVE EseguitaDopo(coda[d][i])
    <3>1. CASE i = inviate[d] + 1
      BY <2>2, <3>1
    <3>2. CASE i # inviate[d] + 1
      <4>1. i <= inviate[d]
        BY <1>1, <2>4, <3>2
      <4>2. QED
        BY <1>1, <1>3, <4>1 DEF FlussoSano
    <3>3. QED
      BY <3>1, <3>2
  <2>5. FlussoSano(d)'
    BY <2>1, <2>3, <2>4, FlussoDopo
  <2>6. QED
    BY <1>4, <2>5 DEF RisposteFondate
<1>6. CASE Risposta(d)
  <2>1. /\ inviate[d] > 0 /\ inviate'[d] = inviate[d] - 1 /\ coda'[d] = Tail(coda[d])
        /\ coda[d] # <<>>
    BY <1>1, <1>6 DEF Risposta, Conclusa, TypeOK
  <2>2. /\ Len(coda'[d]) = Len(coda[d]) - 1 /\ DOMAIN coda'[d] = 1..(Len(coda[d]) - 1)
        /\ \A i \in DOMAIN coda'[d] : i + 1 \in DOMAIN coda[d] /\ coda'[d][i] = coda[d][i + 1]
    BY <1>1, <2>1
  <2>3. inviate'[d] <= Len(coda'[d])
    BY <1>1, <2>1, <2>2
  <2>4. ASSUME NEW i \in DOMAIN coda'[d], i <= inviate'[d]
        PROVE  EseguitaDopo(coda'[d][i])
    <3>1. /\ i + 1 \in DOMAIN coda[d] /\ i + 1 <= inviate[d]
          /\ coda'[d][i] = coda[d][i + 1] /\ coda[d][i + 1] \in Scrittura
      BY <1>1, <2>1, <2>2, <2>4
    <3>2. Eseguita(coda[d][i + 1])
      BY <1>1, <3>1 DEF FlussoSano
    <3>3. QED
      BY <1>3, <3>1, <3>2
  <2>5. FlussoSano(d)'
    BY <2>3, <2>4, FlussoDopo
  <2>6. QED
    BY <1>4, <2>5 DEF RisposteFondate
<1>7. CASE RispostaPersa(d) \/ Rifiuta(d)
  <2>1. inviate'[d] = 0
    BY <1>7 DEF RispostaPersa, Rifiuta, TypeOK
  <2>2. QED
    BY <1>1, <1>4, <2>1, FlussoVuoto DEF RisposteFondate
<1>8. QED
  BY <1>5, <1>6, <1>7

\* A process that dies has nothing under way any more.
LEMMA RisposteSpegni ==
  ASSUME TypeOK, RisposteFondate, TypeOK', NEW d \in Dispositivo,
         UNCHANGED <<controlli, registro>>, inviate'[d] = 0,
         \A e \in Dispositivo \ {d} : coda'[e] = coda[e] /\ inviate'[e] = inviate[e]
  PROVE  RisposteFondate'
<1>1. ASSUME NEW e \in Dispositivo PROVE FlussoSano(e)'
  <2>1. /\ coda[e] \in Seq(Scrittura) /\ coda'[e] \in Seq(Scrittura)
        /\ inviate[e] \in Nat /\ FlussoSano(e)
    BY DEF TypeOK, RisposteFondate
  <2>2. CASE e = d
    BY <2>1, <2>2, FlussoVuoto
  <2>3. CASE e # d
    <3>1. coda'[e] = coda[e] /\ inviate'[e] = inviate[e] /\ Len(coda[e]) <= Len(coda'[e])
      BY <2>1, <2>3
    <3>2. \A w \in Scrittura : Eseguita(w) => EseguitaDopo(w)
      BY EseguitaResta
    <3>3. QED
      BY <2>1, <3>1, <3>2, FlussoStesso
  <2>4. QED
    BY <2>2, <2>3
<1>2. QED
  BY <1>1 DEF RisposteFondate

LEMMA RispostePasso ==
  ASSUME TypeOK, Struttura, RisposteFondate, TypeOK', [Next]_vars
  PROVE  RisposteFondate'
<1> USE ArchivioAssumption
<1>1. ASSUME NEW e \in Dispositivo
      PROVE  /\ coda[e] \in Seq(Scrittura) /\ coda'[e] \in Seq(Scrittura)
             /\ inviate[e] \in Nat /\ FlussoSano(e)
  BY DEF TypeOK, RisposteFondate
<1>2. CASE UNCHANGED <<controlli, registro, cliente>>
  BY <1>2 DEF RisposteFondate, FlussoSano, Eseguita, IdRegistro, cliente
<1>3. ASSUME NEW s \in Sessione, Utente(s) PROVE RisposteFondate'
  <2>1. CASE Naviga(s) \/ ChiudiDialogo(s)
    BY <1>2, <2>1 DEF Naviga, SearchControl, ControlCard, Add, isControlloPresente,
      getControllo, UnregisteredMachineAlert, EditControl, ControlCheck, Compila, Chiudi,
      QRCode, Salva, Verifica, Indietro, ChiudiDialogo, server
  <2>2. CASE Conferma(s)
    <3>1. PICK h \in Gestore : \E q \in Scritture(s, h) :
            coda' = [coda EXCEPT ![su[s]] = @ \o q]
      BY <2>2 DEF Conferma
    <3>2. PICK q \in Scritture(s, h) : coda' = [coda EXCEPT ![su[s]] = @ \o q]
      BY <3>1
    <3>3. UNCHANGED <<controlli, registro, inviate>>
      BY <2>2 DEF Conferma, server
    <3>4. q \in Seq(Scrittura)
      <4>1. /\ modulo[s] \in Finestra /\ modulo[s].cod \in Codice
            /\ modulo[s].rec \in Controllo /\ modulo[s].tipo # "nessuno"
        BY <2>2 DEF TypeOK, Struttura, FinestraSana, Conferma
      <4>2. QED
        BY <4>1, ScrittureForma
    <3>5. ASSUME NEW e \in Dispositivo
          PROVE  /\ Len(coda[e]) <= Len(coda'[e])
                 /\ \A i \in DOMAIN coda[e] : coda'[e][i] = coda[e][i]
      <4>1. CASE e = su[s]
        <5>1. coda'[e] = coda[e] \o q
          BY <3>2, <4>1 DEF TypeOK
        <5>2. QED
          BY <1>1, <3>4, <5>1
      <4>2. CASE e # su[s]
        <5>1. coda'[e] = coda[e]
          BY <3>2, <4>2 DEF TypeOK
        <5>2. QED
          BY <1>1, <5>1
      <4>3. QED
        BY <4>1, <4>2
    <3>6. \A w \in Scrittura : Eseguita(w) => EseguitaDopo(w)
      BY <3>3, EseguitaResta
    <3>7. ASSUME NEW e \in Dispositivo PROVE FlussoSano(e)'
      BY <1>1, <3>3, <3>5, <3>6, FlussoStesso
    <3>8. QED
      BY <3>7 DEF RisposteFondate
  <2>3. CASE ConfermaInterrotta(s)
    <3>1. /\ UNCHANGED <<controlli, registro>> /\ inviate'[su[s]] = 0
          /\ \A e \in Dispositivo \ {su[s]} : coda'[e] = coda[e] /\ inviate'[e] = inviate[e]
      BY <2>3 DEF ConfermaInterrotta, Spegni, server, TypeOK
    <3>2. QED
      BY <3>1, RisposteSpegni
  <2>4. QED
    BY <1>3, <2>1, <2>2, <2>3 DEF Utente, Naviga
<1>4. ASSUME NEW h \in Gestore, putFile(h) \/ putFileFallito(h) PROVE RisposteFondate'
  BY <1>2, <1>4 DEF putFile, putFileFallito, server
<1>5. ASSUME NEW d \in Dispositivo,
             Esegui(d) \/ Risposta(d) \/ RispostaPersa(d) \/ Rifiuta(d)
      PROVE  RisposteFondate'
  BY <1>5, RisposteCoda
<1>6. ASSUME NEW d \in Dispositivo, Crash(d) PROVE RisposteFondate'
  <2>1. /\ UNCHANGED <<controlli, registro>> /\ inviate'[d] = 0
        /\ \A e \in Dispositivo \ {d} : coda'[e] = coda[e] /\ inviate'[e] = inviate[e]
    BY <1>6 DEF Crash, Spegni, server, TypeOK
  <2>2. QED
    BY <2>1, RisposteSpegni
<1>7. CASE UNCHANGED vars
  BY <1>2, <1>7 DEF vars, cliente
<1>8. QED
  BY <1>3, <1>4, <1>5, <1>6, <1>7 DEF Next

-----------------------------------------------------------------------------
(* The theorems *)

\* Types, windows, handlers, queues and streams: what every later proof rests on.
Fondamento == TypeOK /\ Struttura /\ RisposteFondate

LEMMA FondamentoIniziale == Init => Fondamento
<1> SUFFICES ASSUME Init PROVE Fondamento
  OBVIOUS
<1> USE ArchivioAssumption
<1>1. Libera \in Finestra /\ Libero \in Attesa
  BY LiberaSana DEF Libero, Attesa
<1>2. \A d \in Dispositivo : coda[d] = <<>> /\ inviate[d] = 0
  BY DEF Init
<1>3. TypeOK
  BY <1>1 DEF Init, TypeOK, Storia
<1>4. Struttura
  BY <1>2 DEF Init, Struttura, FinestraSana, GestoreSano, ScritturaSana, Libera, Libero
<1>5. RisposteFondate
  <2>1. ASSUME NEW d \in Dispositivo PROVE FlussoSano(d)
    BY <1>2 DEF FlussoSano
  <2>2. QED
    BY <2>1 DEF RisposteFondate
<1>6. QED
  BY <1>3, <1>4, <1>5 DEF Fondamento

LEMMA StrutturaPasso == Fondamento /\ [Next]_vars => TypeOK' /\ Struttura'
<1> SUFFICES ASSUME TypeOK, Struttura, RisposteFondate, [Next]_vars PROVE TypeOK' /\ Struttura'
  BY DEF Fondamento
<1>1. ASSUME NEW s \in Sessione, Utente(s) PROVE TypeOK' /\ Struttura'
  <2>1. CASE Naviga(s)
    BY <2>1, NavigaMantiene
  <2>2. CASE ChiudiDialogo(s)
    BY <2>2, ChiudiDialogoMantiene
  <2>3. CASE Conferma(s)
    BY <2>3, ConfermaMantiene
  <2>4. CASE ConfermaInterrotta(s)
    BY <2>4, CrashMantiene
  <2>5. QED
    BY <1>1, <2>1, <2>2, <2>3, <2>4 DEF Utente, Naviga
<1>2. ASSUME NEW h \in Gestore, putFile(h) \/ putFileFallito(h) PROVE TypeOK' /\ Struttura'
  BY <1>2, CaricamentoMantiene
<1>3. ASSUME NEW d \in Dispositivo,
             Esegui(d) \/ Risposta(d) \/ RispostaPersa(d) \/ Rifiuta(d)
      PROVE  TypeOK' /\ Struttura'
  BY <1>3, CodaMantiene
<1>4. ASSUME NEW d \in Dispositivo, Crash(d) PROVE TypeOK' /\ Struttura'
  BY <1>4, CrashMantiene
<1>5. CASE UNCHANGED vars
  BY <1>5 DEF vars, TypeOK, Struttura, FinestraSana, GestoreSano, ScritturaSana
<1>6. QED
  BY <1>1, <1>2, <1>3, <1>4, <1>5 DEF Next

LEMMA FondamentoPasso == Fondamento /\ [Next]_vars => Fondamento'
<1> SUFFICES ASSUME Fondamento, [Next]_vars PROVE Fondamento'
  OBVIOUS
<1>1. TypeOK' /\ Struttura'
  BY StrutturaPasso
<1>2. RisposteFondate'
  BY <1>1, RispostePasso DEF Fondamento
<1>3. QED
  BY <1>1, <1>2 DEF Fondamento

\* One inductive invariant for the three.
LEMMA FondamentoVale == Spec => []Fondamento
  BY FondamentoIniziale, FondamentoPasso, PTL DEF Spec

\* Type correctness: every document, queue, window and handler is well formed.
THEOREM TipiCorretti == Spec => []TypeOK
<1>1. Fondamento => TypeOK
  BY DEF Fondamento
<1>2. QED
  BY <1>1, FondamentoVale, PTL

\* The fit between windows, handlers and queued writes: whatever is tapped twice,
\* closed, refused or restarted, the answer to a Firestore write finds the one
\* handler awaiting it, with its form intact.
THEOREM StrutturaCorretta == Spec => []Struttura
<1>1. Fondamento => Struttura
  BY DEF Fondamento
<1>2. QED
  BY <1>1, FondamentoVale, PTL

\* Whatever breaks the stream, an answer is only ever of an executed write.
THEOREM RisposteCorrette == Spec => []RisposteFondate
<1>1. Fondamento => RisposteFondate
  BY DEF Fondamento
<1>2. QED
  BY <1>1, FondamentoVale, PTL
=============================================================================
