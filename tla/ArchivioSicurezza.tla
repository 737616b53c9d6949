------------------------- MODULE ArchivioSicurezza -------------------------
(***************************************************************************)
(* The safety properties of Archivio, proved from the structure that       *)
(* ArchivioProofs establishes.  The argument has three parts: what a step  *)
(* may do to a queue, which facts no step can undo, and one invariant per  *)
(* subject (updates, check records, files).                                *)
(***************************************************************************)
EXTENDS ArchivioProofs

-----------------------------------------------------------------------------
(* What a step does to a queue *)

\* The same write, possibly without its handler.
Stessa(x, y) == x.op = y.op /\ x.cod = y.cod /\ x.val = y.val /\ x.h \in {y.h, Nessuno}

\* Write x comes from the form of window s, whose dialog is open.
Viene(x, s) ==
  /\ modulo[s].fase = "conferma"
  /\ x.cod = modulo[s].cod /\ x.val = modulo[s].rec
  /\ <<modulo[s].tipo, x.op>> \in {<<"add", "set">>, <<"edit", "edit">>,
                                   <<"check", "check">>, <<"check", "registro">>}

\* A step keeps the writes of device d in order, drops at most the oldest one
\* (k = 1, when it is answered), and puts new ones behind them.
Eredita(d, k) ==
  /\ k = 1 => coda[d] # <<>> /\ (Risposta(d) \/ Rifiuta(d))
  /\ \A i \in DOMAIN coda[d] :
       i > k => i - k \in DOMAIN coda'[d] /\ Stessa(coda'[d][i - k], coda[d][i])
  /\ \A j \in DOMAIN coda'[d] :
       \/ j + k \in DOMAIN coda[d]
       \/ /\ k = 0 /\ \A i \in DOMAIN coda[d] : i < j
          /\ \E s \in Sessione : su[s] = d /\ Viene(coda'[d][j], s)

\* Nothing happens to a queue that does not change.
LEMMA EreditaFerma ==
  ASSUME TypeOK, NEW d \in Dispositivo, coda'[d] = coda[d]
  PROVE  Eredita(d, 0)
<1>1. coda[d] \in Seq(Scrittura)
  BY DEF TypeOK
<1>2. \A i \in DOMAIN coda[d] : i \in Nat /\ i - 0 = i /\ i + 0 = i
  BY <1>1
<1>3. \A i \in DOMAIN coda[d] : Stessa(coda'[d][i], coda[d][i])
  BY DEF Stessa
<1>4. QED
  BY <1>2, <1>3 DEF Eredita

\* An answered write leaves the queue.
LEMMA EreditaRisposta ==
  ASSUME TypeOK, NEW d \in Dispositivo, coda[d] # <<>>, Risposta(d) \/ Rifiuta(d)
  PROVE  Eredita(d, 1)
<1>1. coda[d] \in Seq(Scrittura) /\ coda'[d] = Tail(coda[d])
  BY DEF TypeOK, Rifiuta, Risposta, Conclusa
<1>2. /\ \A i \in DOMAIN Tail(coda[d]) : i + 1 \in DOMAIN coda[d]
      /\ \A j \in DOMAIN coda[d] :
           /\ j \in Nat \ {0}
           /\ j # 1 => j - 1 \in DOMAIN Tail(coda[d]) /\ Tail(coda[d])[j - 1] = coda[d][j]
  BY <1>1, CodaSenzaTesta
<1>3. ASSUME NEW i \in DOMAIN coda[d], i > 1
      PROVE  i - 1 \in DOMAIN coda'[d] /\ Stessa(coda'[d][i - 1], coda[d][i])
  <2>1. i - 1 \in DOMAIN coda'[d] /\ coda'[d][i - 1] = coda[d][i]
    BY <1>1, <1>2, <1>3
  <2>2. QED
    BY <2>1 DEF Stessa
<1>4. QED
  BY <1>1, <1>2, <1>3 DEF Eredita

\* A confirmation puts its writes behind the queued ones.
LEMMA EreditaConferma ==
  ASSUME TypeOK, Struttura, NEW s \in Sessione, Conferma(s)
  PROVE  Eredita(su[s], 0) /\ \A e \in Dispositivo \ {su[s]} : coda'[e] = coda[e]
<1> DEFINE d == su[s]
<1> USE ArchivioAssumption
<1>1. /\ modulo[s] \in Finestra /\ modulo[s].fase = "conferma" /\ modulo[s].cod \in Codice
      /\ modulo[s].rec \in Controllo /\ modulo[s].tipo # "nessuno"
      /\ modulo[s].tipo \in {"add", "edit", "check"}
  BY DEF TypeOK, Struttura, FinestraSana, Conferma, Finestra
<1>2. PICK h \in Gestore : \E q \in Scritture(s, h) : coda' = [coda EXCEPT ![d] = @ \o q]
  BY DEF Conferma
<1>3. PICK q \in Scritture(s, h) : coda' = [coda EXCEPT ![d] = @ \o q]
  BY <1>2
<1>4. d \in Dispositivo /\ coda[d] \in Seq(Scrittura)
  BY DEF TypeOK
<1>5. coda'[d] = coda[d] \o q /\ \A e \in Dispositivo \ {d} : coda'[e] = coda[e]
  BY <1>3, <1>4 DEF TypeOK
<1>6. q \in Seq(Scrittura) /\ \A i \in DOMAIN q : Viene(q[i], s)
  <2>1. q \in Seq(Scrittura)
    BY <1>1, ScrittureForma
  <2>2. ASSUME NEW i \in DOMAIN q PROVE Viene(q[i], s)
    <3>1. /\ q[i].cod = modulo[s].cod /\ q[i].val = modulo[s].rec
          /\ \/ q[i].op = "registro" /\ modulo[s].tipo = "check"
             \/ <<modulo[s].tipo, q[i].op>> \in
                  {<<"add", "set">>, <<"edit", "edit">>, <<"check", "check">>}
      BY <1>1, ScrittureForma
    <3>2. QED
      BY <1>1, <3>1 DEF Viene
  <2>3. QED
    BY <2>1, <2>2
<1>7. /\ \A i \in DOMAIN coda[d] : i \in DOMAIN coda'[d] /\ coda'[d][i] = coda[d][i]
      /\ \A i \in DOMAIN coda[d] : i \in Nat /\ i <= Len(coda[d])
      /\ \A j \in DOMAIN coda'[d] :
           \/ j \in DOMAIN coda[d]
           \/ j - Len(coda[d]) \in DOMAIN q /\ coda'[d][j] = q[j - Len(coda[d])]
      /\ \A j \in DOMAIN q : j \in Nat /\ j >= 1
      /\ \A j \in DOMAIN coda'[d] : j \in Nat
      /\ Len(coda[d]) \in Nat
  BY <1>4, <1>5, <1>6, CodaConAltre
<1>8. ASSUME NEW i \in DOMAIN coda[d], i > 0
      PROVE  i - 0 \in DOMAIN coda'[d] /\ Stessa(coda'[d][i - 0], coda[d][i])
  BY <1>7 DEF Stessa
<1>9. ASSUME NEW j \in DOMAIN coda'[d]
      PROVE  \/ j + 0 \in DOMAIN coda[d]
             \/ /\ \A i \in DOMAIN coda[d] : i < j
                /\ \E x \in Sessione : su[x] = d /\ Viene(coda'[d][j], x)
  <2>1. CASE j \in DOMAIN coda[d]
    BY <1>7, <2>1
  <2>2. CASE j - Len(coda[d]) \in DOMAIN q /\ coda'[d][j] = q[j - Len(coda[d])]
    <3>1. \A i \in DOMAIN coda[d] : i < j
      BY <1>7, <2>2
    <3>2. Viene(coda'[d][j], s)
      BY <1>6, <2>2
    <3>3. QED
      BY <3>1, <3>2
  <2>3. QED
    BY <1>7, <2>1, <2>2
<1>10. QED
  BY <1>5, <1>8, <1>9 DEF Eredita

\* A dead process leaves the queue on disk, at most one write longer.
LEMMA EreditaSpegni ==
  ASSUME TypeOK, NEW d \in Dispositivo, NEW q \in Seq(Scrittura), Spegni(d, q),
         \A i \in DOMAIN coda[d] : i \in DOMAIN q /\ q[i] = coda[d][i],
         \A j \in DOMAIN q : \/ j \in DOMAIN coda[d]
                             \/ /\ \A i \in DOMAIN coda[d] : i < j
                                /\ \E s \in Sessione : su[s] = d /\ Viene(q[j], s)
  PROVE  Eredita(d, 0) /\ \A e \in Dispositivo \ {d} : coda'[e] = coda[e]
<1>1. coda'[d] = [i \in DOMAIN q |-> SenzaGestore(q[i])]
      /\ \A e \in Dispositivo \ {d} : coda'[e] = coda[e]
  BY DEF TypeOK, Spegni
<1>2. ASSUME NEW i \in DOMAIN q
      PROVE  /\ i \in DOMAIN coda'[d] /\ i \in Nat /\ i - 0 = i /\ i + 0 = i
             /\ coda'[d][i] = SenzaGestore(q[i])
             /\ coda'[d][i].op = q[i].op /\ coda'[d][i].cod = q[i].cod
             /\ coda'[d][i].val = q[i].val /\ coda'[d][i].h = Nessuno
  <2>1. q[i] \in Scrittura /\ i \in Nat
    OBVIOUS
  <2>2. coda'[d][i] = SenzaGestore(q[i]) /\ i \in DOMAIN coda'[d]
    BY <1>1
  <2>3. QED
    BY <2>1, <2>2, SenzaGestoreTipo
<1>3. ASSUME NEW i \in DOMAIN coda[d], i > 0
      PROVE  i - 0 \in DOMAIN coda'[d] /\ Stessa(coda'[d][i - 0], coda[d][i])
  BY <1>2 DEF Stessa
<1>4. ASSUME NEW j \in DOMAIN coda'[d]
      PROVE  \/ j + 0 \in DOMAIN coda[d]
             \/ /\ \A i \in DOMAIN coda[d] : i < j
                /\ \E x \in Sessione : su[x] = d /\ Viene(coda'[d][j], x)
  <2>1. j \in DOMAIN q
    BY <1>1
  <2>2. CASE j \in DOMAIN coda[d]
    BY <1>2, <2>1, <2>2
  <2>3. ASSUME NEW s \in Sessione, su[s] = d, Viene(q[j], s), \A i \in DOMAIN coda[d] : i < j
        PROVE  Viene(coda'[d][j], s)
    BY <1>2, <2>1, <2>3 DEF Viene
  <2>4. QED
    BY <2>1, <2>2, <2>3
<1>5. Eredita(d, 0)
  BY <1>3, <1>4 DEF Eredita
<1>6. QED
  BY <1>1, <1>5

\* Every step, on every queue.
LEMMA EreditaPasso ==
  ASSUME TypeOK, Struttura, RisposteFondate, [Next]_vars, NEW d \in Dispositivo
  PROVE  Eredita(d, 0) \/ Eredita(d, 1)
<1> USE ArchivioAssumption
<1>1. CASE coda' = coda
  BY <1>1, EreditaFerma
<1>2. ASSUME NEW s \in Sessione, Conferma(s) PROVE Eredita(d, 0)
  BY <1>2, EreditaConferma, EreditaFerma
<1>3. ASSUME NEW e \in Dispositivo, Risposta(e) \/ Rifiuta(e) PROVE Eredita(d, 0) \/ Eredita(d, 1)
  <2>1. coda[e] # <<>> /\ coda' = [coda EXCEPT ![e] = Tail(@)]
    BY <1>3, RispostaEseguita DEF Rifiuta, Risposta, Conclusa
  <2>2. CASE e = d
    BY <1>3, <2>1, <2>2, EreditaRisposta
  <2>3. CASE e # d
    <3>1. coda'[d] = coda[d]
      BY <2>1, <2>3 DEF TypeOK
    <3>2. QED
      BY <3>1, EreditaFerma
  <2>4. QED
    BY <2>2, <2>3
<1>4. ASSUME NEW e \in Dispositivo, Crash(e) PROVE Eredita(d, 0)
  <2>1. coda[e] \in Seq(Scrittura) /\ Spegni(e, coda[e])
    BY <1>4 DEF TypeOK, Crash
  <2>2. Eredita(e, 0) /\ \A x \in Dispositivo \ {e} : coda'[x] = coda[x]
    BY <2>1, EreditaSpegni
  <2>3. QED
    BY <2>2, EreditaFerma
<1>5. ASSUME NEW s \in Sessione, ConfermaInterrotta(s) PROVE Eredita(d, 0)
  <2> DEFINE e == su[s]
  <2>1. PICK o \in {"registro", "check"} : Spegni(e, Append(coda[e], W(s, o, Nessuno)))
    BY <1>5 DEF ConfermaInterrotta
  <2> DEFINE w == W(s, o, Nessuno)
             q == Append(coda[e], w)
  <2>2. /\ modulo[s].fase = "conferma" /\ modulo[s].tipo = "check"
        /\ modulo[s].cod \in Codice /\ modulo[s].rec \in Controllo
    BY <1>5 DEF ConfermaInterrotta, Struttura, FinestraSana
  <2>3. e \in Dispositivo /\ coda[e] \in Seq(Scrittura)
    BY DEF TypeOK
  <2>4. w \in Scrittura /\ Viene(w, s)
    BY <2>2 DEF W, Scrittura, Viene
  <2> HIDE DEF w
  <2>5. /\ q \in Seq(Scrittura)
        /\ \A i \in DOMAIN coda[e] : i \in DOMAIN q /\ q[i] = coda[e][i]
        /\ \A j \in DOMAIN q :
             \/ j \in DOMAIN coda[e]
             \/ (\A i \in DOMAIN coda[e] : i < j) /\ q[j] = w
    BY <2>3, <2>4
  <2>6. Spegni(e, q)
    BY <2>1 DEF w
  <2> HIDE DEF q
  <2>7. Eredita(e, 0) /\ \A x \in Dispositivo \ {e} : coda'[x] = coda[x]
    BY <2>3, <2>4, <2>5, <2>6, EreditaSpegni
  <2>8. QED
    BY <2>7, EreditaFerma
<1>6. ASSUME NEW s \in Sessione, Utente(s), ~Conferma(s), ~ConfermaInterrotta(s)
      PROVE  coda' = coda
  BY <1>6 DEF Utente, SearchControl, ControlCard, Add, isControlloPresente, getControllo,
    UnregisteredMachineAlert, EditControl, ControlCheck, Compila, Chiudi, QRCode,
    Salva, Verifica, Indietro, ChiudiDialogo, cliente
<1>7. ASSUME NEW h \in Gestore, putFile(h) \/ putFileFallito(h) PROVE coda' = coda
  BY <1>7 DEF putFile, putFileFallito, cliente
<1>8. ASSUME NEW e \in Dispositivo, Esegui(e) \/ RispostaPersa(e) PROVE coda' = coda
  BY <1>8 DEF Esegui, RispostaPersa
<1>9. CASE UNCHANGED vars
  BY <1>1, <1>9 DEF vars
<1>10. QED
  BY <1>1, <1>2, <1>3, <1>4, <1>5, <1>6, <1>7, <1>8, <1>9 DEF Next

-----------------------------------------------------------------------------
(* What no step undoes *)

\* Documents, records and files stay; so does what the history knows.
Cresce ==
  /\ \A c \in Codice : controlli[c] # Assente => controlli'[c] # Assente
  /\ registro \subseteq registro' /\ schede \subseteq schede'
  /\ storia.rifiutate \subseteq storia'.rifiutate
  /\ storia.incomplete \subseteq storia'.incomplete
  /\ storia.dirottate \subseteq storia'.dirottate
  /\ storia.eseguiti \subseteq storia'.eseguiti
  /\ storia.persi \subseteq storia'.persi

LEMMA CrescePasso ==
  ASSUME TypeOK, [Next]_vars
  PROVE  Cresce
<1> USE ArchivioAssumption
<1>1. storia \in Storia /\ controlli \in [Codice -> Controllo \cup {Assente}]
  BY DEF TypeOK
<1>2. CASE UNCHANGED <<server, storia>>
  BY <1>2 DEF Cresce, server
<1>3. ASSUME NEW d \in Dispositivo, Esegui(d) PROVE Cresce
  <2>1. PICK w \in Scrittura : Effetto(w)
    BY <1>3 DEF Esegui, TypeOK
  <2>2. w.val \in Controllo
    BY DEF Scrittura
  <2>3. QED
    BY <1>1, <2>1, <2>2 DEF Cresce, Effetto, Storia
<1>4. ASSUME NEW d \in Dispositivo, Rifiuta(d) PROVE Cresce
  BY <1>1, <1>4 DEF Cresce, Rifiuta, Storia, server
<1>5. ASSUME NEW h \in Gestore, putFile(h) PROVE Cresce
  BY <1>1, <1>5 DEF Cresce, putFile, Storia
<1>6. ASSUME NEW h \in Gestore, putFileFallito(h) PROVE Cresce
  BY <1>1, <1>6 DEF Cresce, putFileFallito, Storia, server
<1>7. ASSUME NEW d \in Dispositivo, Crash(d) PROVE Cresce
  BY <1>1, <1>7 DEF Cresce, Crash, Storia, server
<1>8. ASSUME NEW s \in Sessione, ConfermaInterrotta(s) PROVE Cresce
  BY <1>1, <1>8 DEF Cresce, ConfermaInterrotta, Storia, server
<1>9. ASSUME NEW s \in Sessione, Utente(s), ~ConfermaInterrotta(s)
      PROVE  UNCHANGED <<server, storia>>
  BY <1>9 DEF Utente, SearchControl, ControlCard, Add, isControlloPresente, getControllo,
    UnregisteredMachineAlert, EditControl, ControlCheck, Compila, Chiudi, QRCode,
    Salva, Verifica, Indietro, ChiudiDialogo, Conferma
<1>10. CASE UNCHANGED vars
  BY <1>2, <1>10 DEF vars, server
<1>11. QED
  BY <1>2, <1>3, <1>4, <1>5, <1>6, <1>7, <1>8, <1>9, <1>10 DEF Next, Risposta, RispostaPersa

LEMMA NotaStabile ==
  ASSUME TypeOK, [Next]_vars, NEW c \in Codice, Nota(c)
  PROVE  Nota(c)'
  BY CrescePasso DEF Cresce, Nota

\* An answered addition is stored or known to be refused; an answered record is
\* stored or known to be lost.
LEMMA TestaConclusa ==
  ASSUME TypeOK, RisposteFondate, NEW d \in Dispositivo, coda[d] # <<>>,
         Risposta(d) \/ Rifiuta(d)
  PROVE  /\ coda[d][1] \in Scrittura
         /\ coda[d][1].op = "set" => \/ controlli'[coda[d][1].cod] # Assente
                                     \/ coda[d][1].cod \in storia'.rifiutate
         /\ coda[d][1].op = "registro" => IdRegistro(coda[d][1]) \in registro' \cup storia'.persi
<1> DEFINE w == Head(coda[d])
<1> USE ArchivioAssumption
<1>1. w \in Scrittura /\ w = coda[d][1]
  BY DEF TypeOK
<1>2. w.cod \in Codice /\ w.val \in Controllo
  BY <1>1 DEF Scrittura
<1>3. storia \in Storia /\ controlli \in [Codice -> Controllo \cup {Assente}]
  BY DEF TypeOK
<1>4. CASE Risposta(d)
  <2>1. Eseguita(w) /\ controlli' = controlli /\ registro' = registro
    BY <1>1, <1>4, RispostaEseguita DEF Risposta, server
  <2> HIDE DEF w
  <2>2. QED
    BY <1>1, <2>1 DEF Eseguita
<1>5. CASE Rifiuta(d)
  <2>1. w.op = "set" => storia' = [storia EXCEPT !.rifiutate = @ \cup {w.cod}]
    BY <1>5 DEF Rifiuta
  <2>2. w.op = "registro" => storia' = [storia EXCEPT !.persi = @ \cup {IdRegistro(w)}]
    BY <1>5 DEF Rifiuta, IdRegistro
  <2> HIDE DEF w
  <2>3. /\ w.op = "set" => w.cod \in storia'.rifiutate
        /\ w.op = "registro" => IdRegistro(w) \in storia'.persi
    BY <1>3, <2>1, <2>2 DEF Storia
  <2>4. QED
    BY <1>1, <2>3
<1>6. QED
  BY <1>4, <1>5

\* A machine that was really added, as far as device d knows.
Fondata(d, c) == Nota(c) \/ Creata(d, c)

LEMMA FondataStabile ==
  ASSUME TypeOK, Struttura, RisposteFondate, [Next]_vars, NEW d \in Dispositivo, NEW c \in Codice, Fondata(d, c)
  PROVE  Fondata(d, c)'
<1>1. CASE Nota(c)
  BY <1>1, NotaStabile DEF Fondata
<1>2. CASE Creata(d, c)
  <2>1. PICK i \in DOMAIN coda[d] : coda[d][i].cod = c /\ coda[d][i].op = "set"
    BY <1>2 DEF Creata, InCoda
  <2>2. PICK k \in {0, 1} : Eredita(d, k)
    BY EreditaPasso
  <2>3. coda[d] \in Seq(Scrittura) /\ i \in Nat /\ i >= 1
    BY DEF TypeOK
  <2>4. CASE i > k
    <3>1. i - k \in DOMAIN coda'[d] /\ Stessa(coda'[d][i - k], coda[d][i])
      BY <2>2, <2>4 DEF Eredita
    <3>2. Creata(d, c)'
      BY <2>1, <3>1 DEF Creata, InCoda, Stessa
    <3>3. QED
      BY <3>2 DEF Fondata
  <2>5. CASE ~(i > k)
    <3>1. i = 1 /\ k = 1
      BY <2>3, <2>5
    <3>2. coda[d] # <<>> /\ (Risposta(d) \/ Rifiuta(d))
      BY <2>2, <3>1 DEF Eredita
    <3>3. QED
      BY <2>1, <3>1, <3>2, TestaConclusa DEF Fondata, Nota
  <2>6. QED
    BY <2>4, <2>5
<1>3. QED
  BY <1>1, <1>2 DEF Fondata

\* A check whose record is accounted for stays so.
LEMMA TracciatoStabile ==
  ASSUME TypeOK, Struttura, RisposteFondate, [Next]_vars, NEW k, Tracciato(k)
  PROVE  Tracciato(k)'
<1>1. CASE k \in registro \cup storia.persi
  BY <1>1, CrescePasso DEF Cresce, Tracciato
<1>2. ASSUME NEW d \in Dispositivo, NEW i \in DOMAIN coda[d],
             coda[d][i].op = "registro", k = IdRegistro(coda[d][i])
      PROVE  Tracciato(k)'
  <2>1. PICK n \in {0, 1} : Eredita(d, n)
    BY EreditaPasso
  <2>2. coda[d] \in Seq(Scrittura) /\ i \in Nat /\ i >= 1
    BY DEF TypeOK
  <2>3. CASE i > n
    <3>1. i - n \in DOMAIN coda'[d] /\ Stessa(coda'[d][i - n], coda[d][i])
      BY <2>1, <2>3 DEF Eredita
    <3>2. coda'[d][i - n].op = "registro" /\ k = IdRegistro(coda'[d][i - n])
      BY <1>2, <3>1 DEF Stessa, IdRegistro
    <3>3. QED
      BY <3>1, <3>2 DEF Tracciato, IdRegistro
  <2>4. CASE ~(i > n)
    <3>1. i = 1 /\ n = 1
      BY <2>2, <2>4
    <3>2. coda[d] # <<>> /\ (Risposta(d) \/ Rifiuta(d))
      BY <2>1, <3>1 DEF Eredita
    <3>3. QED
      BY <1>2, <3>1, <3>2, TestaConclusa DEF Tracciato
  <2>5. QED
    BY <2>3, <2>4
<1>3. QED
  BY <1>1, <1>2 DEF Tracciato

-----------------------------------------------------------------------------
(* Updates are of machines that were added *)

\* A get that returns a record saw the machine.
LEMMA LeggeVisibile ==
  ASSUME NEW d, NEW c, NEW r \in Controllo, Legge(d, c, r)
  PROVE  Visibile(d, c)
  BY ArchivioAssumption DEF Legge

\* A window comes to be on a machine by a read that saw it, or already was.
LEMMA FinestraPasso ==
  ASSUME TypeOK, Struttura, RisposteFondate, [Next]_vars, NEW s \in Sessione, SuMacchina(s)'
  PROVE  \/ SuMacchina(s) /\ modulo'[s].cod = modulo[s].cod
         \/ modulo'[s].cod \in Codice /\ Visibile(su[s], modulo'[s].cod)
<1> DEFINE Meta ==
             \/ SuMacchina(s) /\ modulo'[s].cod = modulo[s].cod
             \/ modulo'[s].cod \in Codice /\ Visibile(su[s], modulo'[s].cod)
<1> USE ArchivioAssumption
<1> SUFFICES Meta
  OBVIOUS
<1>1. modulo \in [Sessione -> Finestra] /\ modulo[s] \in Finestra /\ FinestraSana(s)
  BY DEF TypeOK, Struttura
<1>2. CASE modulo'[s] = modulo[s]
  BY <1>2 DEF SuMacchina
<1>3. ASSUME modulo'[s].cod = modulo[s].cod, modulo'[s].tipo = modulo[s].tipo,
             modulo'[s].fase \notin {"trovata", "vista"}
      PROVE  Meta
  BY <1>3 DEF SuMacchina
<1>4. CASE modulo'[s] = Libera
  BY <1>4 DEF SuMacchina, Libera
<1>5. ASSUME NEW f \in {"libera", "vista"}, Torna(s, f), f = "vista" => SuMacchina(s)
      PROVE  Meta
  <2>1. CASE modulo'[s] = [modulo[s] EXCEPT !.fase = f]
    <3>1. modulo'[s].cod = modulo[s].cod /\ modulo'[s].tipo = modulo[s].tipo
          /\ modulo'[s].fase = f
      BY <1>1, <2>1 DEF Finestra
    <3>2. QED
      BY <1>3, <1>5, <3>1
  <2>2. CASE f = "vista" /\ modulo'[s] = [Libera EXCEPT !.fase = f, !.cod = modulo[s].cod,
                                                        !.base = modulo[s].base]
    BY <1>5, <2>2 DEF Libera
  <2>3. QED
    BY <1>1, <1>4, <1>5, <2>1, <2>2 DEF Torna, Apre
<1>6. CASE Naviga(s)
  <2>1. ASSUME NEW c \in Codice, SearchControl(s, c) PROVE Meta
    BY <1>1, <2>1 DEF SearchControl, Apre, SuMacchina, Libera
  <2>2. ASSUME NEW c \in Codice, ControlCard(s, c) PROVE Meta
    <3>1. PICK r \in Controllo :
            /\ Legge(su[s], c, r)
            /\ Apre(s, [Libera EXCEPT !.fase = "vista", !.cod = c, !.base = r])
      BY <2>2 DEF ControlCard
    <3>2. modulo'[s].cod = c
      BY <1>1, <3>1 DEF Apre, Libera
    <3>3. QED
      BY <3>1, <3>2, LeggeVisibile
  <2>3. ASSUME NEW c \in Codice, Add(s, c) PROVE Meta
    BY <1>1, <2>3 DEF Add, Apre, SuMacchina, Libera
  <2>4. CASE isControlloPresente(s)
    <3>1. modulo[s].cod \in Codice /\ modulo[s].tipo = "nessuno"
      BY <1>1, <2>4 DEF isControlloPresente, FinestraSana
    <3>2. ASSUME NEW c \in Codice, NEW f \in {"ignota", "riscritta"},
                 Apre(s, [modulo[s] EXCEPT !.cod = c, !.fase = f])
          PROVE  Meta
      BY <1>1, <3>1, <3>2 DEF Apre, Finestra, SuMacchina
    <3>3. CASE Visibile(su[s], modulo[s].cod)
               /\ Apre(s, [modulo[s] EXCEPT !.cod = modulo[s].cod, !.fase = "trovata"])
      <4>1. modulo'[s].cod = modulo[s].cod
        BY <1>1, <3>3 DEF Apre, Finestra
      <4>2. QED
        BY <3>1, <3>3, <4>1
    <3>4. QED
      BY <2>4, <3>2, <3>3 DEF isControlloPresente, Riletta
  <2>5. CASE getControllo(s)
    <3>1. modulo[s].cod \in Codice
      BY <1>1, <2>5 DEF getControllo, FinestraSana
    <3>2. CASE Torna(s, "libera")
      BY <1>5, <3>2
    <3>3. ASSUME NEW r \in Controllo, Legge(su[s], modulo[s].cod, r),
                 Apre(s, [modulo[s] EXCEPT !.fase = "vista", !.base = r])
          PROVE  Meta
      <4>1. modulo'[s].cod = modulo[s].cod
        BY <1>1, <3>3 DEF Apre, Finestra
      <4>2. QED
        BY <3>1, <3>3, <4>1, LeggeVisibile
    <3>4. QED
      BY <2>5, <3>2, <3>3 DEF getControllo
  <2>6. CASE UnregisteredMachineAlert(s)
    <3>1. CASE Torna(s, "libera")
      BY <1>5, <3>1
    <3>2. CASE Apre(s, [modulo[s] EXCEPT !.fase = "modulo", !.tipo = "add"])
      BY <1>1, <3>2 DEF Apre, Finestra, SuMacchina
    <3>3. QED
      BY <2>6, <3>1, <3>2 DEF UnregisteredMachineAlert
  <2>7. CASE EditControl(s) \/ ControlCheck(s)
    BY <1>1, <2>7 DEF EditControl, ControlCheck, Apre, Libera, SuMacchina
  <2>8. CASE Compila(s)
    <3>1. PICK c \in CodiceAmmesso(s), r \in RecAmmesso(s), f \in {modulo[s].file, TRUE} :
            Apre(s, [modulo[s] EXCEPT !.cod = c, !.rec = r, !.file = f])
      BY <2>8 DEF Compila
    <3>2. /\ modulo'[s].cod = c /\ modulo'[s].tipo = modulo[s].tipo
          /\ modulo'[s].fase = modulo[s].fase /\ modulo[s].fase = "modulo"
      BY <1>1, <2>8, <3>1 DEF Compila, Apre, Finestra
    <3>3. modulo[s].tipo # "add" => c = modulo[s].cod
      BY DEF CodiceAmmesso
    <3>4. QED
      BY <3>2, <3>3 DEF SuMacchina
  <2>9. CASE Chiudi(s)
    <3>1. CASE Torna(s, "libera")
      BY <1>5, <3>1
    <3>2. CASE modulo[s].fase = "modulo" /\ modulo[s].tipo # "add" /\ Torna(s, "vista")
      <4>1. SuMacchina(s)
        BY <1>1, <3>2 DEF SuMacchina, FinestraSana, Finestra
      <4>2. QED
        BY <1>5, <3>2, <4>1
    <3>3. QED
      BY <2>9, <3>1, <3>2 DEF Chiudi
  <2>10. CASE QRCode(s)
    BY <1>5, <2>10 DEF QRCode
  <2>11. CASE Salva(s) \/ Verifica(s) \/ Indietro(s)
    <3>1. PICK f \in {"verifica", "presente", "conferma"} : Apre(s, [modulo[s] EXCEPT !.fase = f])
      BY <2>11 DEF Salva, Verifica, Indietro
    <3>2. QED
      BY <1>1, <1>3, <3>1 DEF Apre, Finestra
  <2>12. QED
    BY <1>6, <2>1, <2>2, <2>3, <2>4, <2>5, <2>6, <2>7, <2>8, <2>9, <2>10, <2>11 DEF Naviga
<1>7. CASE ChiudiDialogo(s)
  BY <1>1, <1>3, <1>7 DEF ChiudiDialogo, Apre, Finestra
<1>8. ASSUME NEW x \in Sessione, Utente(x), x # s, ~ConfermaInterrotta(x)
      PROVE  modulo'[s] = modulo[s]
  <2>1. UNCHANGED modulo \/ \E w : modulo' = [modulo EXCEPT ![x] = w]
    BY <1>8 DEF Utente, SearchControl, ControlCard, Add, isControlloPresente, getControllo,
      UnregisteredMachineAlert, EditControl, ControlCheck, Compila, Chiudi, QRCode,
      Salva, Verifica, Indietro, ChiudiDialogo, Conferma, Torna, Riletta, Apre
  <2>2. QED
    BY <1>1, <1>8, <2>1
<1>9. CASE Conferma(s)
  BY <1>2, <1>9 DEF Conferma
<1>10. ASSUME NEW h \in Gestore, Termina(h) PROVE Meta
  <2>1. CASE modulo'[s] = [modulo[s] EXCEPT !.fase = "coperta"]
    BY <1>1, <1>3, <2>1 DEF Finestra
  <2>2. QED
    BY <1>1, <1>2, <1>10, <2>1 DEF Termina
<1>11. ASSUME NEW h \in Gestore, putFile(h) \/ putFileFallito(h) PROVE Meta
  BY <1>2, <1>10, <1>11 DEF putFile, putFileFallito
<1>12. ASSUME NEW d \in Dispositivo,
              Esegui(d) \/ Risposta(d) \/ RispostaPersa(d) \/ Rifiuta(d)
       PROVE  Meta
  <2>1. CASE UNCHANGED modulo
    BY <1>2, <2>1
  <2>2. CASE coda[d] # <<>> /\ Conclusa(d)
    <3>1. Head(coda[d]).h \in Gestore \cup {Nessuno}
      <4>1. Head(coda[d]) \in Scrittura
        BY <2>2 DEF TypeOK
      <4>2. QED
        BY <4>1 DEF Scrittura
    <3>2. QED
      BY <1>10, <2>1, <2>2, <3>1 DEF Conclusa, Prosegui
  <2>3. QED
    BY <1>12, <2>1, <2>2, RispostaEseguita DEF Esegui, Risposta, RispostaPersa, Rifiuta
<1>13. ASSUME NEW d \in Dispositivo, NEW q, Spegni(d, q) PROVE Meta
  BY <1>2, <1>4, <1>13 DEF Spegni
<1>14. ASSUME NEW x \in Sessione, ConfermaInterrotta(x) PROVE Meta
  <2>1. su[x] \in Dispositivo
    OBVIOUS
  <2>2. QED
    BY <1>13, <1>14, <2>1 DEF ConfermaInterrotta
<1>15. ASSUME NEW d \in Dispositivo, Crash(d) PROVE Meta
  BY <1>13, <1>15 DEF Crash
<1>16. ASSUME NEW x \in Sessione, Utente(x) PROVE Meta
  <2>1. CASE x = s
    BY <1>6, <1>7, <1>9, <1>14, <1>16, <2>1 DEF Utente, Naviga
  <2>2. CASE x # s
    BY <1>2, <1>8, <1>14, <1>16, <2>2
  <2>3. QED
    BY <2>1, <2>2
<1>17. CASE UNCHANGED vars
  BY <1>2, <1>17 DEF vars
<1>18. QED
  BY <1>11, <1>12, <1>15, <1>16, <1>17 DEF Next

LEMMA FinestreFondatePasso ==
  ASSUME TypeOK, Struttura, RisposteFondate, FinestreFondate, [Next]_vars
  PROVE  FinestreFondate'
<1> SUFFICES ASSUME NEW s \in Sessione, SuMacchina(s)'
             PROVE  modulo'[s].cod \in Codice /\ (Nota(modulo[s].cod) \/ Creata(su[s], modulo[s].cod))'
  BY DEF FinestreFondate
<1> USE ArchivioAssumption
<1>1. su[s] \in Dispositivo
  OBVIOUS
<1>2. PICK c : c = modulo'[s].cod
  OBVIOUS
<1>3. c \in Codice /\ Fondata(su[s], c)
  <2>1. CASE SuMacchina(s) /\ c = modulo[s].cod
    BY <2>1 DEF FinestreFondate, Fondata
  <2>2. CASE c \in Codice /\ Visibile(su[s], c)
    BY <2>2 DEF Visibile, Fondata, Nota
  <2>3. QED
    BY <1>2, <2>1, <2>2, FinestraPasso
<1>4. Fondata(su[s], c)'
  BY <1>1, <1>3, FondataStabile
<1>5. QED
  BY <1>2, <1>3, <1>4 DEF Fondata, Nota, Creata, InCoda

LEMMA AggiornamentiFondatiPasso ==
  ASSUME TypeOK, Struttura, RisposteFondate, FinestreFondate, AggiornamentiFondati, [Next]_vars
  PROVE  AggiornamentiFondati'
<1> SUFFICES ASSUME NEW d \in Dispositivo, NEW j \in DOMAIN coda'[d],
                    coda'[d][j].op \in {"edit", "check"}
             PROVE  \/ controlli'[coda'[d][j].cod] # Assente
                    \/ coda'[d][j].cod \in storia'.rifiutate
                    \/ \E l \in 1..(j - 1) :
                         coda'[d][l].op = "set" /\ coda'[d][l].cod = coda'[d][j].cod
  BY DEF AggiornamentiFondati, Nota
<1> USE ArchivioAssumption
<1>1. PICK k \in {0, 1} : Eredita(d, k)
  BY EreditaPasso
<1>2. /\ coda[d] \in Seq(Scrittura) /\ coda'[d] \in Seq(Scrittura)
      /\ \A i \in DOMAIN coda[d] : coda[d][i].cod \in Codice /\ i \in Nat /\ i >= 1
      /\ j \in Nat /\ j >= 1
  <2>1. coda[d] \in Seq(Scrittura) /\ coda'[d] \in Seq(Scrittura)
    BY FondamentoPasso DEF Fondamento, TypeOK
  <2>2. \A i \in DOMAIN coda[d] : coda[d][i] \in Scrittura
    BY <2>1
  <2>3. QED
    BY <2>1, <2>2 DEF Scrittura
<1>3. PICK c : c = coda'[d][j].cod
  OBVIOUS
<1>4. SUFFICES ASSUME ~Nota(c)'
               PROVE  \E l \in 1..(j - 1) : coda'[d][l].op = "set" /\ coda'[d][l].cod = c
  BY <1>3 DEF Nota
<1>5. CASE j + k \in DOMAIN coda[d]
  <2> DEFINE i == j + k
  <2>1. i > k /\ i - k = j
    BY <1>2
  <2>2. Stessa(coda'[d][j], coda[d][i])
    BY <1>1, <1>5, <2>1 DEF Eredita
  <2>3. coda[d][i].op \in {"edit", "check"} /\ coda[d][i].cod = c /\ c \in Codice
    BY <1>2, <1>3, <1>5, <2>2 DEF Stessa
  <2>4. ~Nota(c)
    BY <1>4, <2>3, NotaStabile
  <2>5. PICK l \in 1..(i - 1) : coda[d][l].op = "set" /\ coda[d][l].cod = c
    BY <1>5, <2>3, <2>4 DEF AggiornamentiFondati
  <2>6. l \in DOMAIN coda[d] /\ l \in Nat
    BY <1>2, <1>5
  <2>7. l > k
    <3>1. CASE k = 1 /\ l = 1
      BY <1>1, <1>4, <2>5, <3>1, TestaConclusa DEF Eredita, Nota
    <3>2. QED
      BY <1>2, <2>6, <3>1
  <2>8. l - k \in DOMAIN coda'[d] /\ Stessa(coda'[d][l - k], coda[d][l])
    BY <1>1, <2>6, <2>7 DEF Eredita
  <2>9. l - k \in 1..(j - 1)
    BY <1>2, <2>6, <2>7
  <2>10. QED
    BY <2>5, <2>8, <2>9 DEF Stessa
<1>6. ASSUME k = 0, \A i \in DOMAIN coda[d] : i < j,
             NEW s \in Sessione, su[s] = d, Viene(coda'[d][j], s)
      PROVE  \E l \in 1..(j - 1) : coda'[d][l].op = "set" /\ coda'[d][l].cod = c
  <2>1. SuMacchina(s) /\ modulo[s].cod = c
    BY <1>3, <1>6 DEF Viene, SuMacchina
  <2>2. c \in Codice /\ Creata(d, c)
    BY <1>4, <1>6, <2>1, NotaStabile DEF FinestreFondate
  <2>3. PICK l \in DOMAIN coda[d] : coda[d][l].op = "set" /\ coda[d][l].cod = c
    BY <2>2 DEF Creata, InCoda
  <2>4. l - k = l /\ l > k /\ l < j /\ l \in Nat /\ l >= 1
    BY <1>2, <1>6
  <2>5. Stessa(coda'[d][l], coda[d][l])
    BY <1>1, <2>4 DEF Eredita
  <2>6. l \in 1..(j - 1)
    BY <1>2, <2>4
  <2>7. QED
    BY <2>3, <2>5, <2>6 DEF Stessa
<1>7. QED
  BY <1>1, <1>5, <1>6 DEF Eredita

\* The two invariants of this section, by one induction.
LEMMA AggiornamentiELetture == Spec => [](AggiornamentiFondati /\ SecondaLettura)
<1> DEFINE Inv == TypeOK /\ Struttura /\ RisposteFondate /\ FinestreFondate /\ AggiornamentiFondati
<1>1. Init => Inv
  <2> SUFFICES ASSUME Init PROVE Inv
    OBVIOUS
  <2>1. TypeOK /\ Struttura /\ RisposteFondate
    BY FondamentoIniziale DEF Fondamento
  <2>2. FinestreFondate
    BY DEF Init, FinestreFondate, SuMacchina, Libera
  <2>3. \A d \in Dispositivo : coda[d] = <<>>
    BY DEF Init
  <2>4. AggiornamentiFondati
    BY <2>3 DEF AggiornamentiFondati
  <2>5. QED
    BY <2>1, <2>2, <2>4
<1>2. Inv /\ [Next]_vars => Inv'
  BY FondamentoPasso, FinestreFondatePasso, AggiornamentiFondatiPasso DEF Fondamento
<1>3. Inv => AggiornamentiFondati /\ SecondaLettura
  BY DEF FinestreFondate, SecondaLettura, SuMacchina, Visibile
<1>4. QED
  BY <1>1, <1>2, <1>3, PTL DEF Spec

\* EditControl and ControlCheck only send an update for a machine that was
\* added before, unless an addition of that machine was refused by the server.
THEOREM AggiornamentiCorretti == Spec => []AggiornamentiFondati
  BY AggiornamentiELetture, PTL

\* The second read of a search finds what the first one saw, unless an addition
\* of that machine was refused by the server.
THEOREM LettureCorrette == Spec => []SecondaLettura
  BY AggiornamentiELetture, PTL

-----------------------------------------------------------------------------
(* Checks leave a record *)

\* After the step, the check that write x stores has its record in the queue of
\* device d, or that record is known to be lost.
Accompagnato(d, x) ==
  \/ <<x.cod, x.val.ultimo>> \in storia'.persi
  \/ \E l \in DOMAIN coda'[d] : /\ coda'[d][l].op = "registro"
                                /\ <<x.cod, x.val.ultimo>> = IdRegistro(coda'[d][l])

\* The two writes of a check enter the queue together.
LEMMA AccompagnatoConferma ==
  ASSUME TypeOK, Struttura, NEW s \in Sessione, Conferma(s), NEW j \in DOMAIN coda'[su[s]],
         j \notin DOMAIN coda[su[s]], coda'[su[s]][j].op = "check"
  PROVE  Accompagnato(su[s], coda'[su[s]][j])
<1> DEFINE d == su[s]
<1> USE ArchivioAssumption
<1>1. /\ modulo[s] \in Finestra /\ modulo[s].cod \in Codice
      /\ modulo[s].rec \in Controllo /\ modulo[s].tipo # "nessuno"
  BY DEF TypeOK, Struttura, FinestraSana, Conferma
<1>2. PICK h \in Gestore : \E q \in Scritture(s, h) : coda' = [coda EXCEPT ![d] = @ \o q]
  BY DEF Conferma
<1>3. PICK q \in Scritture(s, h) : coda' = [coda EXCEPT ![d] = @ \o q]
  BY <1>2
<1>4. d \in Dispositivo /\ coda[d] \in Seq(Scrittura)
  BY DEF TypeOK
<1>5. coda'[d] = coda[d] \o q
  BY <1>3, <1>4 DEF TypeOK
<1>6. /\ q \in Seq(Scrittura)
      /\ \A i \in DOMAIN q :
           /\ q[i].cod = modulo[s].cod /\ q[i].val = modulo[s].rec
           /\ q[i].op = "check" => modulo[s].tipo = "check"
      /\ modulo[s].tipo = "check" => \E i \in DOMAIN q : q[i].op = "registro"
  <2>1. q \in Seq(Scrittura) /\ (modulo[s].tipo = "check" => \E i \in DOMAIN q : q[i].op = "registro")
    BY <1>1, ScrittureForma
  <2>2. ASSUME NEW i \in DOMAIN q
        PROVE  /\ q[i].cod = modulo[s].cod /\ q[i].val = modulo[s].rec
               /\ \/ q[i].op = "registro"
                  \/ <<modulo[s].tipo, q[i].op>> \in
                        {<<"add", "set">>, <<"edit", "edit">>, <<"check", "check">>}
    BY <1>1, ScrittureForma
  <2>3. QED
    BY <2>1, <2>2
<1>7. PICK i \in DOMAIN q : coda'[d][j] = q[i]
  BY <1>4, <1>5, <1>6, CodaConAltre
<1>8. PICK l \in DOMAIN q : q[l].op = "registro"
  BY <1>6, <1>7
<1>9. PICK n \in DOMAIN coda'[d] : coda'[d][n] = q[l]
  <2>1. /\ Len(coda[d]) + l \in DOMAIN (coda[d] \o q)
        /\ (coda[d] \o q)[Len(coda[d]) + l] = q[l]
    BY <1>4, <1>6, CodaConAltre
  <2>2. QED
    BY <1>5, <2>1
<1>10. QED
  BY <1>6, <1>7, <1>8, <1>9 DEF Accompagnato, IdRegistro

\* A crash between the two writes of a check is remembered.
LEMMA AccompagnatoInterrotta ==
  ASSUME TypeOK, Struttura, NEW s \in Sessione, ConfermaInterrotta(s), NEW j \in DOMAIN coda'[su[s]],
         j \notin DOMAIN coda[su[s]], coda'[su[s]][j].op = "check"
  PROVE  Accompagnato(su[s], coda'[su[s]][j])
<1> DEFINE d == su[s]
           k == <<modulo[s].cod, modulo[s].rec.ultimo>>
<1> USE ArchivioAssumption
<1>1. PICK o \in {"registro", "check"} :
        /\ Spegni(d, Append(coda[d], W(s, o, Nessuno)))
        /\ storia' = [storia EXCEPT !.incomplete = @ \cup Scoperte(AttiviSu(d)),
                                    !.persi = IF o = "check" THEN @ \cup {k} ELSE @]
  BY DEF ConfermaInterrotta
<1>2. modulo[s].cod \in Codice /\ modulo[s].rec \in Controllo
  BY DEF ConfermaInterrotta, Struttura, FinestraSana
<1>3. d \in Dispositivo /\ coda[d] \in Seq(Scrittura) /\ storia \in Storia
  BY DEF TypeOK
<1> DEFINE w == W(s, o, Nessuno)
           q == Append(coda[d], w)
<1>4. w \in Scrittura /\ w.op = o /\ w.cod = modulo[s].cod /\ w.val = modulo[s].rec
  BY <1>2 DEF W, Scrittura
<1>5. coda'[d] = [i \in DOMAIN q |-> SenzaGestore(q[i])]
  BY <1>1, <1>3 DEF Spegni, TypeOK
<1> HIDE DEF w
<1>6. j \in DOMAIN q /\ q[j] = w
  BY <1>3, <1>4, <1>5
<1>7. coda'[d][j] = SenzaGestore(w)
  BY <1>5, <1>6
<1>8. coda'[d][j].op = o /\ <<coda'[d][j].cod, coda'[d][j].val.ultimo>> = k
  BY <1>4, <1>7, SenzaGestoreTipo
<1>9. k \in storia'.persi
  BY <1>1, <1>3, <1>8 DEF Storia
<1>10. QED
  BY <1>8, <1>9 DEF Accompagnato

\* Hence every check that enters a queue is accompanied.
LEMMA NuovoControllo ==
  ASSUME TypeOK, Struttura, RisposteFondate, [Next]_vars, NEW d \in Dispositivo, NEW j \in DOMAIN coda'[d],
         j \notin DOMAIN coda[d], coda'[d][j].op = "check"
  PROVE  Accompagnato(d, coda'[d][j])
<1> USE ArchivioAssumption
<1>1. coda'[d] # coda[d]
  OBVIOUS
<1>2. ASSUME NEW s \in Sessione, Conferma(s) PROVE Accompagnato(d, coda'[d][j])
  <2>1. d = su[s]
    BY <1>1, <1>2, EreditaConferma
  <2>2. QED
    BY <1>2, <2>1, AccompagnatoConferma
<1>3. ASSUME NEW s \in Sessione, ConfermaInterrotta(s) PROVE Accompagnato(d, coda'[d][j])
  <2>1. d = su[s]
    BY <1>1, <1>3 DEF ConfermaInterrotta, Spegni, TypeOK
  <2>2. QED
    BY <1>3, <2>1, AccompagnatoInterrotta
<1>4. ASSUME NEW e \in Dispositivo, Risposta(e) \/ Rifiuta(e) PROVE FALSE
  <2>1. coda[e] # <<>> /\ coda' = [coda EXCEPT ![e] = Tail(@)]
    BY <1>4, RispostaEseguita DEF Rifiuta, Risposta, Conclusa
  <2>2. e = d /\ coda'[d] = Tail(coda[d]) /\ coda[d] \in Seq(Scrittura) /\ coda[d] # <<>>
    BY <1>1, <2>1 DEF TypeOK
  <2>3. DOMAIN Tail(coda[d]) \subseteq DOMAIN coda[d]
    BY <2>2
  <2>4. QED
    BY <2>2, <2>3
<1>5. ASSUME NEW e \in Dispositivo, Crash(e) PROVE FALSE
  BY <1>1, <1>5 DEF Crash, Spegni, TypeOK
<1>6. ASSUME NEW s \in Sessione, Utente(s), ~Conferma(s), ~ConfermaInterrotta(s)
      PROVE  FALSE
  BY <1>1, <1>6 DEF Utente, SearchControl, ControlCard, Add, isControlloPresente, getControllo,
    UnregisteredMachineAlert, EditControl, ControlCheck, Compila, Chiudi, QRCode,
    Salva, Verifica, Indietro, ChiudiDialogo, cliente
<1>7. ASSUME NEW h \in Gestore, putFile(h) \/ putFileFallito(h) PROVE FALSE
  BY <1>1, <1>7 DEF putFile, putFileFallito, cliente
<1>8. ASSUME NEW e \in Dispositivo, Esegui(e) \/ RispostaPersa(e) PROVE FALSE
  BY <1>1, <1>8 DEF Esegui, RispostaPersa
<1>9. CASE UNCHANGED vars
  BY <1>1, <1>9 DEF vars
<1>10. QED
  BY <1>2, <1>3, <1>4, <1>5, <1>6, <1>7, <1>8, <1>9 DEF Next

\* A check counts as executed only when its write, which is queued, is executed.
LEMMA EseguitiPasso ==
  ASSUME TypeOK, Struttura, RisposteFondate, [Next]_vars, NEW k \in storia'.eseguiti, k \notin storia.eseguiti
  PROVE  \E d \in Dispositivo : \E i \in DOMAIN coda[d] :
           coda[d][i].op = "check" /\ k = <<coda[d][i].cod, coda[d][i].val.ultimo>>
<1> USE ArchivioAssumption
<1>1. storia \in Storia
  BY DEF TypeOK
<1>2. ASSUME NEW d \in Dispositivo, Esegui(d)
      PROVE  \E i \in DOMAIN coda[d] :
               coda[d][i].op = "check" /\ k = <<coda[d][i].cod, coda[d][i].val.ultimo>>
  <2>1. PICK i \in DOMAIN coda[d] : Effetto(coda[d][i])
    BY <1>2 DEF Esegui, TypeOK
  <2>2. coda[d][i].op = "check" /\ k = <<coda[d][i].cod, coda[d][i].val.ultimo>>
    BY <1>1, <2>1 DEF Effetto, Storia
  <2>3. QED
    BY <2>2
<1>3. ASSUME NEW d \in Dispositivo, Risposta(d) \/ RispostaPersa(d) \/ Rifiuta(d) \/ Crash(d)
      PROVE  FALSE
  BY <1>1, <1>3 DEF Risposta, RispostaPersa, Rifiuta, Crash, Storia
<1>4. ASSUME NEW s \in Sessione, Utente(s) PROVE FALSE
  <2>1. CASE ConfermaInterrotta(s)
    BY <1>1, <2>1 DEF ConfermaInterrotta, Storia
  <2>2. CASE ~ConfermaInterrotta(s)
    BY <1>4, <2>2 DEF Utente, SearchControl, ControlCard, Add, isControlloPresente, getControllo,
      UnregisteredMachineAlert, EditControl, ControlCheck, Compila, Chiudi, QRCode,
      Salva, Verifica, Indietro, ChiudiDialogo, Conferma
  <2>3. QED
    BY <2>1, <2>2
<1>5. ASSUME NEW h \in Gestore, putFile(h) \/ putFileFallito(h) PROVE FALSE
  BY <1>1, <1>5 DEF putFile, putFileFallito, Storia
<1>6. CASE UNCHANGED vars
  BY <1>6 DEF vars
<1>7. QED
  BY <1>2, <1>3, <1>4, <1>5, <1>6 DEF Next

\* The queued checks keep their records: an old one by TracciatoStabile, a new
\* one because its record came with it.
LEMMA ControlliTracciatiPasso ==
  ASSUME TypeOK, Struttura, RisposteFondate, ControlliTracciati, [Next]_vars
  PROVE  ControlliTracciati'
<1> SUFFICES ASSUME NEW d \in Dispositivo, NEW j \in DOMAIN coda'[d], coda'[d][j].op = "check"
             PROVE  Tracciato(<<coda[d][j].cod, coda[d][j].val.ultimo>>)'
  BY DEF ControlliTracciati
<1> DEFINE k == <<coda'[d][j].cod, coda'[d][j].val.ultimo>>
<1>1. PICK n \in {0, 1} : Eredita(d, n)
  BY EreditaPasso
<1>2. coda'[d] \in Seq(Scrittura) /\ coda[d] \in Seq(Scrittura)
  BY FondamentoPasso DEF Fondamento, TypeOK
<1>3. j \in Nat /\ j >= 1 /\ j + n > n /\ (j + n) - n = j
  BY <1>2
<1>4. CASE j + n \in DOMAIN coda[d]
  <2>1. Stessa(coda'[d][j], coda[d][j + n])
    BY <1>1, <1>3, <1>4 DEF Eredita
  <2>2. coda[d][j + n].op = "check" /\ k = <<coda[d][j + n].cod, coda[d][j + n].val.ultimo>>
    BY <2>1 DEF Stessa
  <2>3. Tracciato(k)
    BY <1>4, <2>2 DEF ControlliTracciati
  <2>4. \/ k \in registro' \cup storia'.persi
        \/ \E e \in Dispositivo : \E i \in DOMAIN coda'[e] :
             coda'[e][i].op = "registro" /\ k = IdRegistro(coda'[e][i])
    BY <2>3, TracciatoStabile DEF Tracciato, IdRegistro
  <2>5. QED
    BY <2>4 DEF Tracciato, IdRegistro
<1>5. CASE n = 0 /\ \A i \in DOMAIN coda[d] : i < j
  <2>1. j \notin DOMAIN coda[d]
    BY <1>3, <1>5
  <2>2. Accompagnato(d, coda'[d][j])
    BY <2>1, NuovoControllo
  <2>3. QED
    BY <2>2 DEF Accompagnato, Tracciato, IdRegistro
<1>6. QED
  BY <1>1, <1>4, <1>5 DEF Eredita

\* Every check that moved the dates of a machine (CheckControl's editControlDB)
\* has its record in registro_controlli, or that record is queued, was refused
\* by the server, or was cut off by the process dying between the two writes.
THEOREM ControlliDocumentati == Spec => []TracciaControllo
<1> DEFINE Inv == TypeOK /\ Struttura /\ RisposteFondate /\ ControlliTracciati /\ TracciaControllo
<1>1. Init => Inv
  <2> SUFFICES ASSUME Init PROVE Inv
    OBVIOUS
  <2>1. TypeOK /\ Struttura /\ RisposteFondate
    BY FondamentoIniziale DEF Fondamento
  <2>2. \A d \in Dispositivo : coda[d] = <<>>
    BY DEF Init
  <2>3. ControlliTracciati
    BY <2>2 DEF ControlliTracciati
  <2>4. TracciaControllo
    BY DEF Init, TracciaControllo
  <2>5. QED
    BY <2>1, <2>3, <2>4
<1>2. Inv /\ [Next]_vars => Inv'
  <2> SUFFICES ASSUME Inv, [Next]_vars PROVE Inv'
    OBVIOUS
  <2>1. TypeOK' /\ Struttura' /\ RisposteFondate' /\ ControlliTracciati'
    BY FondamentoPasso, ControlliTracciatiPasso DEF Fondamento
  <2>2. ASSUME NEW k \in storia'.eseguiti PROVE Tracciato(k)
    <3>1. CASE k \in storia.eseguiti
      BY <3>1 DEF TracciaControllo
    <3>2. CASE k \notin storia.eseguiti
      BY <3>2, EseguitiPasso DEF ControlliTracciati
    <3>3. QED
      BY <3>1, <3>2
  <2>3. ASSUME NEW k \in storia'.eseguiti
        PROVE  \/ k \in registro' \cup storia'.persi
               \/ \E d \in Dispositivo : \E i \in DOMAIN coda'[d] :
                    coda'[d][i].op = "registro" /\ k = IdRegistro(coda'[d][i])
    BY <2>2, TracciatoStabile DEF Tracciato, IdRegistro
  <2>4. TracciaControllo'
    BY <2>3 DEF TracciaControllo, Tracciato, IdRegistro
  <2>5. QED
    BY <2>1, <2>4
<1>3. QED
  BY <1>1, <1>2, PTL DEF Spec
=============================================================================
