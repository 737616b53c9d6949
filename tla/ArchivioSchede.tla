--------------------------- MODULE ArchivioSchede ---------------------------
(***************************************************************************)
(* The files of the archive: SchedaSpiegata, OrfanaSpiegata and            *)
(* SuccessoDurevole, proved for every instance.  The argument follows the  *)
(* handler of an addition: a step leaves it running for the same machine,  *)
(* or ends it with the file stored or known to be missing.                 *)
(***************************************************************************)
EXTENDS ArchivioSicurezza

-----------------------------------------------------------------------------
(* What a step does to a window and to a handler *)

\* A step of the user's navigation changes its own window only, does not put a
\* home page over a dialog, and leaves the kind of a form that is being saved.
LEMMA NavigaFinestra ==
  ASSUME TypeOK, Struttura, NEW s \in Sessione, Naviga(s)
  PROVE  /\ UNCHANGED <<server, cliente, gestore, storia>>
         /\ \A z \in Sessione \ {s} : modulo'[z] = modulo[z]
         /\ modulo'[s].fase # "coperta"
         /\ InCorso(s) # {} => modulo'[s].tipo = modulo[s].tipo
<1> DEFINE m == modulo[s]
           Bene == /\ \A z \in Sessione \ {s} : modulo'[z] = modulo[z]
                   /\ modulo'[s].fase # "coperta"
                   /\ InCorso(s) # {} => modulo'[s].tipo = m.tipo
<1>1. m \in Finestra
  BY DEF TypeOK
<1>2. UNCHANGED <<server, cliente, gestore, storia>>
  BY DEF Naviga, SearchControl, ControlCard, Add, isControlloPresente, getControllo,
    UnregisteredMachineAlert, EditControl, ControlCheck, Compila, Chiudi, QRCode,
    Salva, Verifica, Indietro
<1>3. ASSUME NEW w, Apre(s, w), w.fase # "coperta", InCorso(s) # {} => w.tipo = m.tipo
      PROVE  Bene
  BY <1>3 DEF Apre, TypeOK
<1>4. ASSUME m.fase \in {"cercata", "trovata", "riscritta", "ignota"}
      PROVE  InCorso(s) = {}
  BY <1>4, ArchivioAssumption DEF InCorso, Struttura, GestoreSano
<1>5. ASSUME NEW f \in {"libera", "vista"}, Torna(s, f)
      PROVE  Bene
  <2> DEFINE u == [m EXCEPT !.fase = f]
             v == [Libera EXCEPT !.fase = f, !.cod = m.cod, !.base = m.base]
  <2>1. CASE InCorso(s) # {}
    <3>1. Apre(s, u) /\ u.fase = f /\ u.tipo = m.tipo
      BY <1>1, <1>5, <2>1 DEF Torna, Finestra
    <3>2. QED
      BY <1>3, <3>1
  <2>2. CASE InCorso(s) = {} /\ f = "libera"
    <3>1. Apre(s, Libera) /\ Libera.fase = "libera"
      BY <1>5, <2>2 DEF Torna, Libera
    <3>2. QED
      BY <1>3, <2>2, <3>1
  <2>3. CASE InCorso(s) = {} /\ f = "vista"
    <3>1. Apre(s, v) /\ v.fase = f
      BY <1>5, <2>3 DEF Torna, Libera
    <3>2. QED
      BY <1>3, <2>3, <3>1
  <2>4. QED
    BY <2>1, <2>2, <2>3
<1>6. ASSUME NEW f \in Fase \ {"coperta"}, Apre(s, [m EXCEPT !.fase = f])
      PROVE  Bene
  <2> DEFINE u == [m EXCEPT !.fase = f]
  <2>1. u.fase = f /\ u.tipo = m.tipo
    BY <1>1 DEF Finestra
  <2>2. QED
    BY <1>3, <1>6, <2>1
<1>7. ASSUME NEW c \in Codice, SearchControl(s, c) PROVE Bene
  <2> DEFINE w == [Libera EXCEPT !.fase = "cercata", !.cod = c]
  <2>1. w.fase = "cercata"
    BY DEF Libera
  <2>2. QED
    BY <1>3, <1>7, <2>1 DEF SearchControl
<1>8. ASSUME NEW c \in Codice, ControlCard(s, c) PROVE Bene
  <2>1. PICK r \in Controllo :
          Apre(s, [Libera EXCEPT !.fase = "vista", !.cod = c, !.base = r])
    BY <1>8 DEF ControlCard
  <2> DEFINE w == [Libera EXCEPT !.fase = "vista", !.cod = c, !.base = r]
  <2>2. w.fase = "vista"
    BY DEF Libera
  <2>3. QED
    BY <1>3, <1>8, <2>1, <2>2 DEF ControlCard
<1>9. ASSUME NEW c \in Codice, Add(s, c) PROVE Bene
  <2> DEFINE w == [Libera EXCEPT !.fase = "modulo", !.tipo = "add", !.cod = c]
  <2>1. w.fase = "modulo"
    BY DEF Libera
  <2>2. QED
    BY <1>3, <1>9, <2>1 DEF Add
<1>10. ASSUME Salva(s) \/ Verifica(s) \/ Indietro(s) PROVE Bene
  BY <1>6, <1>10 DEF Salva, Verifica, Indietro, Fase
<1>11. ASSUME getControllo(s) PROVE Bene
  <2>1. ASSUME NEW r \in Controllo, Apre(s, [m EXCEPT !.fase = "vista", !.base = r])
        PROVE  Bene
    <3> DEFINE w == [m EXCEPT !.fase = "vista", !.base = r]
    <3>1. w.fase = "vista" /\ w.tipo = m.tipo
      BY <1>1 DEF Finestra
    <3>2. QED
      BY <1>3, <2>1, <3>1
  <2>2. QED
    BY <1>5, <1>11, <2>1 DEF getControllo
<1>12. ASSUME UnregisteredMachineAlert(s) PROVE Bene
  <2>1. InCorso(s) = {}
    BY <1>4, <1>12 DEF UnregisteredMachineAlert
  <2>2. CASE Apre(s, [m EXCEPT !.fase = "modulo", !.tipo = "add"])
    <3> DEFINE w == [m EXCEPT !.fase = "modulo", !.tipo = "add"]
    <3>1. w.fase = "modulo"
      BY <1>1 DEF Finestra
    <3>2. QED
      BY <1>3, <2>1, <2>2, <3>1
  <2>3. QED
    BY <1>5, <1>12, <2>2 DEF UnregisteredMachineAlert
<1>13. ASSUME EditControl(s) \/ ControlCheck(s) PROVE Bene
  <2> DEFINE e == [Libera EXCEPT !.fase = "modulo", !.tipo = "edit", !.cod = m.cod,
                                 !.rec = m.base, !.base = m.base]
             k == [Libera EXCEPT !.fase = "modulo", !.tipo = "check",
                                 !.cod = m.cod, !.base = m.base]
  <2>1. e.fase = "modulo" /\ k.fase = "modulo"
    BY DEF Libera
  <2>2. QED
    BY <1>3, <1>13, <2>1 DEF EditControl, ControlCheck
<1>14. ASSUME Compila(s) PROVE Bene
  <2>1. PICK c \in CodiceAmmesso(s), r \in RecAmmesso(s), f \in {m.file, TRUE} :
          Apre(s, [m EXCEPT !.cod = c, !.rec = r, !.file = f])
    BY <1>14 DEF Compila
  <2> DEFINE w == [m EXCEPT !.cod = c, !.rec = r, !.file = f]
  <2>2. w.fase = "modulo" /\ w.tipo = m.tipo
    BY <1>1, <1>14 DEF Finestra, Compila
  <2>3. QED
    BY <1>3, <2>1, <2>2
<1>15. ASSUME Chiudi(s) \/ QRCode(s) PROVE Bene
  BY <1>5, <1>15 DEF Chiudi, QRCode
<1>16. ASSUME isControlloPresente(s) PROVE Bene
  <2>1. PICK f \in Fase \ {"coperta"} : \E c \in Codice : Apre(s, [m EXCEPT !.cod = c, !.fase = f])
    BY <1>16 DEF isControlloPresente, Riletta, Fase
  <2>2. PICK c \in Codice : Apre(s, [m EXCEPT !.cod = c, !.fase = f])
    BY <2>1
  <2> DEFINE w == [m EXCEPT !.cod = c, !.fase = f]
  <2>3. w.fase = f /\ w.tipo = m.tipo
    BY <1>1 DEF Finestra
  <2>4. QED
    BY <1>3, <2>2, <2>3
<1>17. QED
  BY <1>2, <1>7, <1>8, <1>9, <1>10, <1>11, <1>12, <1>13, <1>14, <1>15, <1>16 DEF Naviga


\* Handler h goes on, for the same form and machine.
Resta(h) ==
  /\ gestore'[h].s = gestore[h].s /\ gestore'[h].cod = gestore[h].cod
  /\ gestore'[h].stato # "libero"
  /\ modulo'[gestore[h].s].tipo = modulo[gestore[h].s].tipo

\* Handler h ends; an addition leaves its file, or a known gap.
Finita(h) ==
  /\ gestore'[h] = Libero
  /\ modulo[gestore[h].s].tipo = "add" => gestore[h].cod \in schede' \cup storia'.incomplete

\* A handler of the windows of d is an addition that Scoperte counts.
LEMMA ScoperteAttivi ==
  ASSUME NEW d \in Dispositivo, NEW h \in AttiviSu(d), modulo[gestore[h].s].tipo = "add"
  PROVE  gestore[h].cod \in Scoperte(AttiviSu(d))
  BY DEF Scoperte

\* The process dies: the handlers of its device end, and the additions among
\* them are known to be incomplete.
LEMMA SpegniGestore ==
  ASSUME TypeOK, Struttura, NEW d \in Dispositivo, NEW q, Spegni(d, q),
         Scoperte(AttiviSu(d)) \subseteq storia'.incomplete,
         NEW h \in Gestore, gestore[h].s \in Sessione
  PROVE  Resta(h) \/ Finita(h)
<1> DEFINE z == gestore[h].s
<1>1. GestoreSano(h) /\ z # Nessuno
  BY ArchivioAssumption DEF Struttura
<1>2. CASE su[z] = d
  <2>1. h \in AttiviSu(d)
    BY <1>2 DEF AttiviSu
  <2>2. gestore'[h] = Libero
    BY <2>1 DEF Spegni
  <2>3. modulo[z].tipo = "add" => gestore[h].cod \in storia'.incomplete
    BY <2>1, ScoperteAttivi
  <2>4. QED
    BY <2>2, <2>3 DEF Finita
<1>3. CASE su[z] # d
  <2>1. h \notin AttiviSu(d)
    BY <1>3 DEF AttiviSu
  <2>2. gestore'[h] = gestore[h] /\ modulo'[z] = modulo[z]
    BY <1>3, <2>1 DEF Spegni
  <2>3. QED
    BY <1>1, <2>2 DEF Resta, GestoreSano
<1>4. QED
  BY <1>2, <1>3

\* The answer to a write: its handler goes on to the upload or, if there is
\* nothing to upload, ends; the other handlers do not notice.
LEMMA RispostaGestore ==
  ASSUME TypeOK, Struttura, NEW d \in Dispositivo, coda[d] # <<>>, Conclusa(d),
         NEW h \in Gestore, gestore[h].s \in Sessione
  PROVE  Resta(h) \/ Finita(h)
<1> DEFINE w == Head(coda[d])
<1>1. GestoreSano(h) /\ gestore[h].s # Nessuno /\ gestore[h] \in Attesa
  BY ArchivioAssumption DEF Struttura, TypeOK
<1>2. w \in Scrittura /\ ScritturaSana(d, 1) /\ w = coda[d][1]
  BY CodaSenzaTesta DEF TypeOK, Struttura
<1>3. CASE w.h = Nessuno
  BY <1>1, <1>3 DEF Conclusa, Resta, GestoreSano
<1>4. CASE w.h # Nessuno
  <2>1. w.h \in Gestore /\ gestore[w.h].s \in Sessione /\ Prosegui(w.h)
    BY <1>2, <1>4 DEF Scrittura, ScritturaSana, Conclusa
  <2>2. /\ \A k \in Gestore \ {w.h} : gestore'[k] = gestore[k]
        /\ \A s \in Sessione : modulo'[s].tipo = modulo[s].tipo
    BY <2>1, ProseguiMantiene
  <2>3. CASE h # w.h
    BY <1>1, <2>2, <2>3 DEF Resta, GestoreSano
  <2>4. CASE h = w.h
    <3>1. CASE Termina(h) /\ modulo[gestore[h].s].tipo # "add"
      BY <3>1, TerminaMantiene DEF Finita
    <3>2. CASE gestore' = [gestore EXCEPT ![h].stato = "carica",
                                          ![h].verso = modulo[gestore[h].s].cod]
      <4>1. gestore'[h] = [gestore[h] EXCEPT !.stato = "carica",
                                             !.verso = modulo[gestore[h].s].cod]
        BY <3>2 DEF TypeOK
      <4>2. /\ gestore'[h].s = gestore[h].s /\ gestore'[h].cod = gestore[h].cod
            /\ gestore'[h].stato = "carica"
        BY <1>1, <4>1 DEF Attesa
      <4>3. QED
        BY <2>2, <4>2 DEF Resta
    <3>3. QED
      BY <2>1, <2>4, <3>1, <3>2 DEF Prosegui
  <2>5. QED
    BY <2>3, <2>4
<1>5. QED
  BY <1>3, <1>4

\* The end of an upload: its handler ends, with the file stored for the machine
\* it added, or that machine known to be incomplete.
LEMMA CaricamentoGestore ==
  ASSUME TypeOK, Struttura, NEW x \in Gestore, putFile(x) \/ putFileFallito(x),
         NEW h \in Gestore, gestore[h].s \in Sessione
  PROVE  Resta(h) \/ Finita(h)
<1> DEFINE z == gestore[x].s
<1> USE ArchivioAssumption
<1>1. /\ GestoreSano(h) /\ gestore[h].s # Nessuno
      /\ gestore[x] \in Attesa /\ GestoreSano(x) /\ storia \in Storia
  BY DEF Struttura, TypeOK
<1>2. gestore[x].stato = "carica" /\ z \in Sessione
  BY <1>1 DEF putFile, putFileFallito, GestoreSano, Attesa, Libero
<1>3. /\ gestore'[x] = Libero
      /\ \A k \in Gestore \ {x} : gestore'[k] = gestore[k]
      /\ \A s \in Sessione : modulo'[s].tipo = modulo[s].tipo
  BY <1>2, TerminaMantiene DEF putFile, putFileFallito
<1>4. CASE h # x
  BY <1>1, <1>3, <1>4 DEF Resta, GestoreSano
<1>5. CASE h = x /\ putFile(x)
  <2> DEFINE c == gestore[x].verso
  <2>1. CASE c = gestore[x].cod
    BY <1>3, <1>5, <2>1 DEF putFile, Finita
  <2>2. CASE c # gestore[x].cod
    <3>1. storia' = [storia EXCEPT !.dirottate = @ \cup {c},
                                   !.incomplete = @ \cup {gestore[x].cod}]
      BY <1>5, <2>2 DEF putFile
    <3>2. gestore[x].cod \in storia'.incomplete
      BY <1>1, <3>1 DEF Storia
    <3>3. QED
      BY <1>3, <1>5, <3>2 DEF Finita
  <2>3. QED
    BY <2>1, <2>2
<1>6. CASE h = x /\ putFileFallito(x)
  <2>1. modulo[z].tipo = "add" => gestore[x].cod \in Scoperte({x})
    BY DEF Scoperte
  <2>2. Scoperte({x}) \subseteq storia'.incomplete
    BY <1>1, <1>6 DEF putFileFallito, Storia
  <2>3. QED
    BY <1>3, <1>6, <2>1, <2>2 DEF Finita
<1>7. QED
  BY <1>4, <1>5, <1>6

\* No step loses an addition: its handler goes on, or ends with the file stored
\* or the machine known to be incomplete.
LEMMA GestorePasso ==
  ASSUME TypeOK, Struttura, RisposteFondate, [Next]_vars, NEW h \in Gestore, gestore[h].s \in Sessione
  PROVE  Resta(h) \/ Finita(h)
<1> DEFINE z == gestore[h].s
<1> USE ArchivioAssumption
<1>1. /\ GestoreSano(h) /\ z # Nessuno /\ gestore[h] \in Attesa
      /\ gestore[h].stato # "libero" /\ storia \in Storia
  BY DEF Struttura, TypeOK, GestoreSano
<1>2. ASSUME gestore' = gestore, modulo'[z].tipo = modulo[z].tipo PROVE Resta(h)
  BY <1>1, <1>2 DEF Resta
<1>3. ASSUME NEW s \in Sessione, Naviga(s) PROVE Resta(h)
  <2>1. h \in InCorso(z)
    BY DEF InCorso
  <2>2. gestore' = gestore /\ modulo'[z].tipo = modulo[z].tipo
    BY <1>3, <2>1, NavigaFinestra
  <2>3. QED
    BY <1>2, <2>2
<1>4. ASSUME NEW s \in Sessione, ChiudiDialogo(s) PROVE Resta(h)
  <2>1. /\ gestore'[h].s = z /\ gestore'[h].cod = gestore[h].cod
        /\ gestore'[h].stato = gestore[h].stato
    BY <1>1, <1>4 DEF ChiudiDialogo, Attesa
  <2>2. modulo'[z].tipo = modulo[z].tipo
    BY <1>4 DEF ChiudiDialogo, Apre, TypeOK, Finestra
  <2>3. QED
    BY <1>1, <2>1, <2>2 DEF Resta
<1>5. ASSUME NEW s \in Sessione, Conferma(s) PROVE Resta(h)
  <2>1. PICK k \in Gestore : /\ gestore[k] = Libero
                             /\ \A x \in Gestore \ {k} : gestore'[x] = gestore[x]
    BY <1>5 DEF Conferma, TypeOK
  <2>2. h # k
    BY <1>1, <2>1 DEF Libero
  <2>3. modulo' = modulo
    BY <1>5 DEF Conferma
  <2>4. QED
    BY <1>1, <2>1, <2>2, <2>3 DEF Resta
<1>6. ASSUME NEW s \in Sessione, ConfermaInterrotta(s) PROVE Resta(h) \/ Finita(h)
  <2>1. su[s] \in Dispositivo
    OBVIOUS
  <2>2. \E q : Spegni(su[s], q)
    BY <1>6 DEF ConfermaInterrotta
  <2>3. Scoperte(AttiviSu(su[s])) \subseteq storia'.incomplete
    BY <1>1, <1>6 DEF ConfermaInterrotta, Storia
  <2>4. QED
    BY <2>1, <2>2, <2>3, SpegniGestore
<1>7. ASSUME NEW d \in Dispositivo, Crash(d) PROVE Resta(h) \/ Finita(h)
  <2>1. Spegni(d, coda[d]) /\ Scoperte(AttiviSu(d)) \subseteq storia'.incomplete
    BY <1>1, <1>7 DEF Crash, Storia
  <2>2. QED
    BY <2>1, SpegniGestore
<1>8. ASSUME NEW d \in Dispositivo, Risposta(d) \/ Rifiuta(d) PROVE Resta(h) \/ Finita(h)
  <2>1. coda[d] # <<>> /\ Conclusa(d)
    BY <1>8, RispostaEseguita DEF Risposta, Rifiuta
  <2>2. QED
    BY <2>1, RispostaGestore
<1>9. ASSUME NEW d \in Dispositivo, Esegui(d) \/ RispostaPersa(d) PROVE Resta(h)
  BY <1>2, <1>9 DEF Esegui, RispostaPersa
<1>10. ASSUME NEW x \in Gestore, putFile(x) \/ putFileFallito(x) PROVE Resta(h) \/ Finita(h)
  BY <1>10, CaricamentoGestore
<1>11. CASE UNCHANGED vars
  BY <1>2, <1>11 DEF vars
<1>12. QED
  BY <1>3, <1>4, <1>5, <1>6, <1>7, <1>8, <1>9, <1>10, <1>11 DEF Next, Utente, Naviga

-----------------------------------------------------------------------------
(* Uploads *)

\* A handler is uploading because it was, or because its write was answered.
LEMMA CaricaPasso ==
  ASSUME TypeOK, Struttura, RisposteFondate, [Next]_vars, NEW h \in Gestore, gestore'[h].stato = "carica",
         gestore[h].stato # "carica"
  PROVE  \E d \in Dispositivo :
           /\ coda[d] # <<>> /\ Head(coda[d]).h = h
           /\ Risposta(d) \/ Rifiuta(d)
           /\ modulo[gestore[h].s].tipo \in {"add", "edit"}
<1> USE ArchivioAssumption
<1>1. gestore[h] \in Attesa
  BY DEF TypeOK
<1>2. ASSUME gestore' = gestore \/ gestore'[h] = gestore[h] \/ gestore'[h] = Libero PROVE FALSE
  BY <1>2 DEF Libero
<1>3. ASSUME NEW s \in Sessione, Naviga(s) \/ ChiudiDialogo(s) PROVE FALSE
  <2>1. CASE Naviga(s)
    BY <1>2, <2>1, NavigaFinestra
  <2>2. CASE ChiudiDialogo(s)
    BY <1>1, <2>2 DEF ChiudiDialogo, Attesa
  <2>3. QED
    BY <1>3, <2>1, <2>2
<1>4. ASSUME NEW s \in Sessione, Conferma(s) PROVE FALSE
  <2>1. \E k \in Gestore :
          gestore' = [gestore EXCEPT
            ![k] = [stato |-> "scrive", s |-> s, cod |-> modulo[s].cod, montato |-> TRUE,
                    verso |-> Nessuno]]
    BY <1>4 DEF Conferma
  <2>2. QED
    BY <2>1 DEF TypeOK
<1>5. ASSUME NEW d, NEW q, Spegni(d, q) PROVE FALSE
  BY <1>2, <1>5 DEF Spegni
<1>6. ASSUME NEW x \in Gestore, putFile(x) \/ putFileFallito(x) PROVE FALSE
  BY <1>2, <1>6 DEF putFile, putFileFallito, Termina, TypeOK
<1>7. ASSUME NEW d \in Dispositivo, Risposta(d) \/ Rifiuta(d)
      PROVE  /\ coda[d] # <<>> /\ Head(coda[d]).h = h
             /\ modulo[gestore[h].s].tipo \in {"add", "edit"}
  <2> DEFINE w == Head(coda[d])
  <2>1. coda[d] # <<>> /\ Conclusa(d)
    BY <1>7, RispostaEseguita DEF Risposta, Rifiuta
  <2>2. w.h # Nessuno /\ Prosegui(w.h)
    BY <1>2, <2>1 DEF Conclusa
  <2>3. ~Termina(w.h) \/ w.h # h
    BY <1>2 DEF Termina, TypeOK
  <2>4. h = w.h
    BY <1>2, <2>2 DEF Prosegui, Termina, TypeOK
  <2>5. QED
    BY <2>1, <2>2, <2>3, <2>4 DEF Prosegui
<1>8. ASSUME NEW d \in Dispositivo, Esegui(d) \/ RispostaPersa(d) PROVE FALSE
  BY <1>2, <1>8 DEF Esegui, RispostaPersa
<1>9. CASE UNCHANGED vars
  BY <1>2, <1>9 DEF vars
<1>10. QED
  BY <1>3, <1>4, <1>5, <1>6, <1>7, <1>8, <1>9
    DEF Next, Utente, Naviga, Crash, ConfermaInterrotta

\* An upload only starts for a machine that is stored or known as refused: an
\* addition's write is answered, and an update's machine was there before it.
LEMMA CaricamentiFondatiPasso ==
  ASSUME TypeOK, Struttura, RisposteFondate, AggiornamentiFondati, CaricamentiFondati, [Next]_vars
  PROVE  CaricamentiFondati'
<1> USE ArchivioAssumption
<1> SUFFICES ASSUME NEW h \in Gestore, gestore'[h].stato = "carica"
             PROVE  Nota(gestore[h].cod)'
  BY DEF CaricamentiFondati
<1>1. CASE gestore[h].stato = "carica"
  <2>1. gestore[h] \in Attesa /\ GestoreSano(h)
    BY DEF TypeOK, Struttura
  <2>2. gestore[h].s \in Sessione /\ gestore[h].cod \in Codice
    BY <1>1, <2>1 DEF GestoreSano, Attesa, Libero
  <2>3. gestore'[h].cod = gestore[h].cod
    <3>1. ~Finita(h)
      BY DEF Finita, Libero
    <3>2. QED
      BY <2>2, <3>1, GestorePasso DEF Resta
  <2>4. Nota(gestore[h].cod)
    BY <1>1 DEF CaricamentiFondati
  <2>5. \/ controlli'[gestore[h].cod] # Assente
        \/ gestore[h].cod \in storia'.rifiutate
    BY <2>2, <2>4, NotaStabile DEF Nota
  <2>6. QED
    BY <2>3, <2>5 DEF Nota
<1>2. CASE gestore[h].stato # "carica"
  <2>1. PICK d \in Dispositivo :
          /\ coda[d] # <<>> /\ Head(coda[d]).h = h
          /\ Risposta(d) \/ Rifiuta(d)
          /\ modulo[gestore[h].s].tipo \in {"add", "edit"}
    BY <1>2, CaricaPasso
  <2>2. 1 \in DOMAIN coda[d] /\ Head(coda[d]) = coda[d][1]
    BY <2>1, CodaSenzaTesta DEF TypeOK
  <2>3. /\ gestore[h].s \in Sessione /\ gestore[h].cod = coda[d][1].cod
        /\ coda[d][1].op \in {"set", "edit"}
    BY <2>1, <2>2 DEF Struttura, ScritturaSana
  <2>4. coda[d][1].cod \in Codice
    <3>1. coda[d][1] \in Scrittura
      BY <2>1, TestaConclusa
    <3>2. QED
      BY <3>1 DEF Scrittura
  <2>5. gestore'[h].cod = gestore[h].cod
    <3>1. ~Finita(h)
      BY DEF Finita, Libero
    <3>2. QED
      BY <2>3, <3>1, GestorePasso DEF Resta
  <2>6. \/ controlli'[coda[d][1].cod] # Assente
        \/ coda[d][1].cod \in storia'.rifiutate
    <3>1. CASE coda[d][1].op = "set"
      BY <2>1, <3>1, TestaConclusa
    <3>2. CASE coda[d][1].op = "edit"
      <4>1. \A j \in 1..(1 - 1) : FALSE
        OBVIOUS
      <4>2. Nota(coda[d][1].cod)
        BY <2>2, <3>2, <4>1 DEF AggiornamentiFondati
      <4>3. QED
        BY <2>4, <4>2, NotaStabile DEF Nota
    <3>3. QED
      BY <2>3, <3>1, <3>2
  <2>7. QED
    BY <2>3, <2>5, <2>6 DEF Nota
<1>3. QED
  BY <1>1, <1>2

\* The process dies: each addition in its queue, with or without a handler, is
\* known to be incomplete.
LEMMA SpegniAggiunte ==
  ASSUME TypeOK, Struttura, AggiunteOrfane, NEW d \in Dispositivo, NEW q \in Seq(Scrittura),
         Spegni(d, q), Scoperte(AttiviSu(d)) \subseteq storia'.incomplete,
         storia.incomplete \subseteq storia'.incomplete,
         \A j \in DOMAIN q : (j \in DOMAIN coda[d] /\ q[j] = coda[d][j]) \/ q[j].op # "set",
         NEW j \in DOMAIN coda'[d], coda'[d][j].op = "set"
  PROVE  coda'[d][j].cod \in storia'.incomplete
<1> DEFINE w == coda[d][j]
           h == w.h
<1> USE ArchivioAssumption
<1>1. coda'[d] = [i \in DOMAIN q |-> SenzaGestore(q[i])]
  BY DEF Spegni, TypeOK
<1>2. j \in DOMAIN q /\ coda'[d][j] = SenzaGestore(q[j]) /\ q[j] \in Scrittura
  BY <1>1
<1>3. coda'[d][j].op = q[j].op /\ coda'[d][j].cod = q[j].cod
  BY <1>2, SenzaGestoreTipo
<1>4. j \in DOMAIN coda[d] /\ q[j] = w
  BY <1>2, <1>3
<1>5. CASE h = Nessuno
  BY <1>3, <1>4, <1>5 DEF AggiunteOrfane
<1>6. CASE h # Nessuno
  <2>1. h \in Gestore
    BY <1>2, <1>4, <1>6 DEF Scrittura
  <2>2. /\ gestore[h].s \in Sessione /\ su[gestore[h].s] = d
        /\ gestore[h].cod = w.cod /\ modulo[gestore[h].s].tipo = "add"
    BY <1>3, <1>4, <1>6 DEF Struttura, ScritturaSana
  <2>3. h \in AttiviSu(d)
    BY <2>1, <2>2 DEF AttiviSu
  <2>4. gestore[h].cod \in Scoperte(AttiviSu(d))
    BY <2>2, <2>3, ScoperteAttivi
  <2>5. QED
    BY <1>3, <1>4, <2>2, <2>4
<1>7. QED
  BY <1>5, <1>6

\* An addition left in a queue without its handler is known to be incomplete.
LEMMA AggiunteOrfanePasso ==
  ASSUME TypeOK, Struttura, RisposteFondate, AggiunteOrfane, [Next]_vars
  PROVE  AggiunteOrfane'
<1> USE ArchivioAssumption
<1> SUFFICES ASSUME NEW d \in Dispositivo, NEW j \in DOMAIN coda'[d],
                    coda'[d][j].op = "set", coda'[d][j].h = Nessuno
             PROVE  coda'[d][j].cod \in storia'.incomplete
  BY DEF AggiunteOrfane
<1> DEFINE Saputa == coda'[d][j].cod \in storia'.incomplete
<1>1. storia.incomplete \subseteq storia'.incomplete
  BY CrescePasso DEF Cresce
<1>2. coda[d] \in Seq(Scrittura) /\ storia \in Storia
  BY DEF TypeOK
<1>3. ASSUME NEW i \in DOMAIN coda[d], coda'[d][j] = coda[d][i] PROVE Saputa
  BY <1>1, <1>3 DEF AggiunteOrfane
<1>4. ASSUME coda'[d] = coda[d] PROVE Saputa
  BY <1>3, <1>4
<1>5. ASSUME NEW s \in Sessione, Conferma(s) PROVE Saputa
  <2>1. CASE su[s] # d
    BY <1>4, <1>5, <2>1, EreditaConferma
  <2>2. CASE su[s] = d
    <3>1. /\ modulo[s] \in Finestra /\ modulo[s].cod \in Codice
          /\ modulo[s].rec \in Controllo /\ modulo[s].tipo # "nessuno"
      BY <1>5 DEF TypeOK, Struttura, FinestraSana, Conferma
    <3>2. PICK h \in Gestore : \E q \in Scritture(s, h) : coda' = [coda EXCEPT ![d] = @ \o q]
      BY <1>5, <2>2 DEF Conferma
    <3>3. PICK q \in Scritture(s, h) : coda' = [coda EXCEPT ![d] = @ \o q]
      BY <3>2
    <3>4. q \in Seq(Scrittura) /\ \A i \in DOMAIN q : q[i].h = Nessuno => q[i].op = "registro"
      BY <3>1, ScrittureForma
    <3>5. coda'[d] = coda[d] \o q
      BY <3>3 DEF TypeOK
    <3>6. \/ j \in DOMAIN coda[d] /\ coda'[d][j] = coda[d][j]
          \/ \E i \in DOMAIN q : coda'[d][j] = q[i]
      BY <1>2, <3>4, <3>5, CodaConAltre
    <3>7. QED
      BY <1>3, <3>4, <3>6
  <2>3. QED
    BY <2>1, <2>2
<1>6. ASSUME NEW e \in Dispositivo, Risposta(e) \/ Rifiuta(e) PROVE Saputa
  <2>1. coda[e] # <<>> /\ coda' = [coda EXCEPT ![e] = Tail(@)]
    BY <1>6, RispostaEseguita DEF Risposta, Rifiuta, Conclusa
  <2>2. CASE e # d
    BY <1>4, <2>1, <2>2 DEF TypeOK
  <2>3. CASE e = d
    <3>1. coda'[d] = Tail(coda[d])
      BY <2>1, <2>3 DEF TypeOK
    <3>2. \A i \in DOMAIN Tail(coda[d]) :
            i + 1 \in DOMAIN coda[d] /\ Tail(coda[d])[i] = coda[d][i + 1]
      <4>1. coda[d] # <<>>
        BY <2>1, <2>3
      <4>2. QED
        BY <1>2, <4>1, CodaSenzaTesta
    <3>3. j + 1 \in DOMAIN coda[d] /\ coda'[d][j] = coda[d][j + 1]
      BY <3>1, <3>2
    <3>4. QED
      BY <1>3, <3>3
  <2>4. QED
    BY <2>2, <2>3
<1>7. ASSUME NEW e \in Dispositivo, Crash(e) PROVE Saputa
  <2>1. /\ Spegni(e, coda[e]) /\ coda[e] \in Seq(Scrittura)
        /\ Scoperte(AttiviSu(e)) \subseteq storia'.incomplete
    BY <1>2, <1>7 DEF Crash, Storia, TypeOK
  <2>2. CASE e = d
    BY <1>1, <2>1, <2>2, SpegniAggiunte
  <2>3. CASE e # d
    BY <1>4, <2>1, <2>3 DEF Spegni, TypeOK
  <2>4. QED
    BY <2>2, <2>3
<1>8. ASSUME NEW s \in Sessione, ConfermaInterrotta(s) PROVE Saputa
  <2> DEFINE e == su[s]
  <2>1. PICK o \in {"registro", "check"} : Spegni(e, Append(coda[e], W(s, o, Nessuno)))
    BY <1>8 DEF ConfermaInterrotta
  <2> DEFINE w == W(s, o, Nessuno)
             q == Append(coda[e], w)
  <2>2. modulo[s].cod \in Codice /\ modulo[s].rec \in Controllo
    BY <1>8 DEF ConfermaInterrotta, Struttura, FinestraSana
  <2>3. w \in Scrittura /\ w.op = o
    BY <2>2 DEF W, Scrittura
  <2>4. e \in Dispositivo /\ coda[e] \in Seq(Scrittura)
    BY DEF TypeOK
  <2> HIDE DEF w
  <2>5. /\ q \in Seq(Scrittura)
        /\ \A i \in DOMAIN q : (i \in DOMAIN coda[e] /\ q[i] = coda[e][i]) \/ q[i].op # "set"
    BY <2>3, <2>4
  <2>6. Spegni(e, q)
    BY <2>1 DEF w
  <2>7. Scoperte(AttiviSu(e)) \subseteq storia'.incomplete
    BY <1>2, <1>8 DEF ConfermaInterrotta, Storia
  <2> HIDE DEF q
  <2>8. CASE e = d
    BY <1>1, <2>5, <2>6, <2>7, <2>8, SpegniAggiunte
  <2>9. CASE e # d
    BY <1>4, <2>4, <2>6, <2>9 DEF Spegni, TypeOK
  <2>10. QED
    BY <2>8, <2>9
<1>9. ASSUME NEW s \in Sessione, Naviga(s) \/ ChiudiDialogo(s) PROVE Saputa
  BY <1>4, <1>9, NavigaFinestra DEF ChiudiDialogo, cliente
<1>10. ASSUME NEW h \in Gestore, putFile(h) \/ putFileFallito(h) PROVE Saputa
  BY <1>4, <1>10 DEF putFile, putFileFallito, cliente
<1>11. ASSUME NEW e \in Dispositivo, Esegui(e) \/ RispostaPersa(e) PROVE Saputa
  BY <1>4, <1>11 DEF Esegui, RispostaPersa
<1>12. CASE UNCHANGED vars
  BY <1>4, <1>12 DEF vars
<1>13. QED
  BY <1>5, <1>6, <1>7, <1>8, <1>9, <1>10, <1>11, <1>12 DEF Next, Utente, Naviga

-----------------------------------------------------------------------------
(* Machines and files *)

\* Handler h is an addition of machine c, still running.
InAggiunta(h, c) ==
  gestore[h].stato # "libero" /\ gestore[h].cod = c /\ modulo[gestore[h].s].tipo = "add"

\* What SchedaSpiegata says of machine c.
Spiegata(c) == c \in schede \cup storia.incomplete \/ \E h \in Gestore : InAggiunta(h, c)

LEMMA SpiegataTutte == SchedaSpiegata <=> \A c \in Codice : controlli[c] # Assente => Spiegata(c)
  BY DEF SchedaSpiegata, Spiegata, InAggiunta, Scoperte

\* An explained machine stays explained.
LEMMA SpiegataStabile ==
  ASSUME TypeOK, Struttura, RisposteFondate, [Next]_vars, NEW c \in Codice, Spiegata(c)
  PROVE  Spiegata(c)'
<1>1. schede \subseteq schede' /\ storia.incomplete \subseteq storia'.incomplete
  BY CrescePasso DEF Cresce
<1>2. CASE c \in schede \cup storia.incomplete
  BY <1>1, <1>2 DEF Spiegata
<1>3. ASSUME NEW h \in Gestore, InAggiunta(h, c) PROVE Spiegata(c)'
  <2>1. gestore[h].s \in Sessione
    BY <1>3, ArchivioAssumption DEF InAggiunta, TypeOK, Struttura, GestoreSano, Attesa, Libero
  <2>2. CASE Resta(h)
    BY <1>3, <2>2 DEF InAggiunta, Resta, Spiegata
  <2>3. CASE Finita(h)
    BY <1>3, <2>3 DEF InAggiunta, Finita, Spiegata
  <2>4. QED
    BY <2>1, <2>2, <2>3, GestorePasso
<1>4. QED
  BY <1>2, <1>3 DEF Spiegata

\* A document appears when the server executes a queued addition.
LEMMA DocumentoNuovo ==
  ASSUME TypeOK, Struttura, RisposteFondate, [Next]_vars, NEW c \in Codice,
         controlli[c] = Assente, controlli'[c] # Assente
  PROVE  \E d \in Dispositivo : \E i \in DOMAIN coda[d] :
           coda[d][i].op = "set" /\ coda[d][i].cod = c
<1> USE ArchivioAssumption
<1>1. ASSUME NEW d \in Dispositivo, Esegui(d)
      PROVE  \E i \in DOMAIN coda[d] : coda[d][i].op = "set" /\ coda[d][i].cod = c
  <2> DEFINE i == inviate[d] + 1
             w == coda[d][i]
  <2>1. i \in DOMAIN coda[d] /\ coda[d] \in Seq(Scrittura)
    BY <1>1 DEF Esegui, TypeOK
  <2>2. w \in Scrittura /\ Ammessa(w) /\ Effetto(w)
    BY <1>1, <2>1 DEF Esegui
  <2> HIDE DEF w
  <2>3. w.cod = c /\ w.op = "set"
    BY <2>2 DEF Effetto, Ammessa, Scrittura, TypeOK
  <2>4. QED
    BY <2>1, <2>3 DEF w
<1>2. ASSUME controlli' = controlli PROVE FALSE
  BY <1>2
<1>3. ASSUME NEW s \in Sessione, Utente(s) PROVE FALSE
  <2>1. CASE Naviga(s)
    BY <1>2, <2>1, NavigaFinestra DEF server
  <2>2. CASE ~Naviga(s)
    BY <1>2, <1>3, <2>2
      DEF Utente, Naviga, ChiudiDialogo, Conferma, ConfermaInterrotta, server
  <2>3. QED
    BY <2>1, <2>2
<1>4. ASSUME NEW h \in Gestore, putFile(h) \/ putFileFallito(h) PROVE FALSE
  BY <1>2, <1>4 DEF putFile, putFileFallito, server
<1>5. ASSUME NEW d \in Dispositivo, Risposta(d) \/ RispostaPersa(d) \/ Rifiuta(d) \/ Crash(d)
      PROVE  FALSE
  BY <1>2, <1>5 DEF Risposta, RispostaPersa, Rifiuta, Crash, server
<1>6. CASE UNCHANGED vars
  BY <1>2, <1>6 DEF vars
<1>7. QED
  BY <1>1, <1>3, <1>4, <1>5, <1>6 DEF Next

\* Its machine is explained: the handler that awaits the addition is running,
\* or a dead process left the addition behind.
LEMMA SchedaSpiegataPasso ==
  ASSUME TypeOK, Struttura, RisposteFondate, AggiunteOrfane, SchedaSpiegata, [Next]_vars
  PROVE  SchedaSpiegata'
<1> USE ArchivioAssumption
<1> SUFFICES ASSUME NEW c \in Codice, controlli'[c] # Assente
             PROVE  Spiegata(c)
  <2>1. (\A c \in Codice : controlli[c] # Assente => Spiegata(c))' => SchedaSpiegata'
    BY SpiegataTutte, PTL
  <2>2. QED
    BY <2>1, SpiegataStabile
<1>1. CASE controlli[c] # Assente
  BY <1>1, SpiegataTutte
<1>2. CASE controlli[c] = Assente
  <2>1. PICK d \in Dispositivo : \E i \in DOMAIN coda[d] :
               coda[d][i].op = "set" /\ coda[d][i].cod = c
    BY <1>2, DocumentoNuovo
  <2>2. PICK i \in DOMAIN coda[d] : coda[d][i].op = "set" /\ coda[d][i].cod = c
    BY <2>1
  <2>3. coda[d][i] \in Scrittura
    BY DEF TypeOK
  <2>4. CASE coda[d][i].h = Nessuno
    BY <2>2, <2>4 DEF AggiunteOrfane, Spiegata
  <2>5. CASE coda[d][i].h # Nessuno
    BY <2>2, <2>3, <2>5 DEF Struttura, ScritturaSana, Scrittura, Spiegata, InAggiunta
  <2>6. QED
    BY <2>4, <2>5
<1>3. QED
  BY <1>1, <1>2

\* A file appears when an upload ends: its machine is the one its handler
\* added or edited, or the upload is known to have gone astray.
LEMMA OrfanaSpiegataPasso ==
  ASSUME TypeOK, Struttura, RisposteFondate, CaricamentiFondati, OrfanaSpiegata, [Next]_vars,
         NEW c \in Codice, c \in schede'
  PROVE  \/ controlli'[c] # Assente
         \/ c \in storia'.rifiutate \cup storia'.dirottate
<1> USE ArchivioAssumption
<1>1. storia.dirottate \subseteq storia'.dirottate
  BY CrescePasso DEF Cresce
<1>2. ASSUME Nota(c) \/ c \in storia.dirottate
      PROVE  \/ controlli'[c] # Assente
             \/ c \in storia'.rifiutate \cup storia'.dirottate
  BY <1>1, <1>2, NotaStabile DEF Nota
<1>3. CASE c \in schede
  BY <1>2, <1>3 DEF OrfanaSpiegata
<1>4. ASSUME c \notin schede
      PROVE  \E h \in Gestore : putFile(h)
  <2>1. ASSUME schede' = schede PROVE FALSE
    BY <1>4, <2>1
  <2>2. ASSUME NEW s \in Sessione, Utente(s) PROVE FALSE
    <3>1. CASE Naviga(s)
      BY <2>1, <3>1, NavigaFinestra DEF server
    <3>2. CASE ~Naviga(s)
      BY <2>1, <2>2, <3>2
        DEF Utente, Naviga, ChiudiDialogo, Conferma, ConfermaInterrotta, server
    <3>3. QED
      BY <3>1, <3>2
  <2>3. ASSUME NEW h \in Gestore, putFileFallito(h) PROVE FALSE
    BY <2>1, <2>3 DEF putFileFallito, server
  <2>4. ASSUME NEW d \in Dispositivo,
               Esegui(d) \/ Risposta(d) \/ RispostaPersa(d) \/ Rifiuta(d) \/ Crash(d)
        PROVE  FALSE
    BY <2>1, <2>4 DEF Esegui, Effetto, Risposta, RispostaPersa, Rifiuta, Crash, server
  <2>5. CASE UNCHANGED vars
    BY <2>1, <2>5 DEF vars
  <2>6. QED
    BY <2>2, <2>3, <2>4, <2>5 DEF Next
<1>5. ASSUME c \notin schede, NEW h \in Gestore, putFile(h)
      PROVE  Nota(c) \/ c \in storia'.dirottate
  <2>1. c = gestore[h].verso /\ gestore[h].stato = "carica"
    BY <1>5 DEF putFile
  <2>2. CASE gestore[h].verso = gestore[h].cod
    BY <2>1, <2>2 DEF CaricamentiFondati
  <2>3. CASE gestore[h].verso # gestore[h].cod
    BY <1>5, <2>1, <2>3 DEF putFile, TypeOK, Storia
  <2>4. QED
    BY <2>2, <2>3
<1>6. QED
  BY <1>2, <1>3, <1>4, <1>5

\* Only the end of a mounted addition's upload puts a home page over its dialog.
LEMMA CopertaPasso ==
  ASSUME TypeOK, Struttura, RisposteFondate, [Next]_vars, NEW s \in Sessione,
         modulo'[s].fase = "coperta", modulo'[s].tipo = "add", modulo'[s] # modulo[s]
  PROVE  \E h \in Gestore : /\ putFile(h) /\ gestore[h].s = s /\ gestore[h].montato
                            /\ modulo[s].tipo = "add" /\ modulo'[s].cod = modulo[s].cod
<1> USE ArchivioAssumption
<1>1. \A h \in Gestore : GestoreSano(h) /\ gestore[h] \in Attesa
  BY DEF Struttura, TypeOK
<1>2. ASSUME NEW h \in Gestore, gestore[h].s \in Sessione, Termina(h)
      PROVE  /\ gestore[h].s = s /\ gestore[h].montato
             /\ modulo[s].tipo = "add" /\ modulo'[s].cod = modulo[s].cod
  <2>1. gestore[h].montato /\ modulo' = [modulo EXCEPT ![gestore[h].s].fase = "coperta"]
    BY <1>2 DEF Termina
  <2>2. gestore[h].s = s
    BY <2>1 DEF TypeOK
  <2>3. modulo'[s] = [modulo[s] EXCEPT !.fase = "coperta"] /\ modulo[s] \in Finestra
    BY <2>1, <2>2 DEF TypeOK
  <2>4. modulo'[s].tipo = modulo[s].tipo /\ modulo'[s].cod = modulo[s].cod
    BY <2>3 DEF Finestra
  <2>5. QED
    BY <2>1, <2>2, <2>4
<1>3. ASSUME NEW d, NEW q, Spegni(d, q) PROVE FALSE
  BY <1>3 DEF Spegni, Libera
<1>4. ASSUME NEW z \in Sessione, Utente(z) PROVE FALSE
  <2>1. CASE Naviga(z)
    <3>1. z # s => modulo'[s] = modulo[s]
      BY <2>1, NavigaFinestra
    <3>2. modulo'[z].fase # "coperta"
      BY <2>1, NavigaFinestra
    <3>3. QED
      BY <3>1, <3>2
  <2>2. CASE ChiudiDialogo(z)
    <3>1. modulo' = [modulo EXCEPT ![z].fase = "modulo"]
      BY <2>2 DEF ChiudiDialogo, Apre, TypeOK
    <3>2. z = s
      BY <3>1 DEF TypeOK
    <3>3. modulo'[s].fase = "modulo"
      BY <3>1, <3>2 DEF TypeOK, Finestra
    <3>4. QED
      BY <3>3
  <2>3. QED
    BY <1>3, <1>4, <2>1, <2>2 DEF Utente, Naviga, Conferma, ConfermaInterrotta
<1>5. ASSUME NEW d \in Dispositivo, coda[d] # <<>>, Conclusa(d) PROVE FALSE
  <2> DEFINE h == Head(coda[d]).h
  <2>1. h # Nessuno /\ Prosegui(h)
    BY <1>5 DEF Conclusa
  <2>2. Head(coda[d]) \in Scrittura /\ Head(coda[d]) = coda[d][1] /\ 1 \in DOMAIN coda[d]
    BY <1>5, CodaSenzaTesta DEF TypeOK
  <2>3. h \in Gestore /\ gestore[h].s \in Sessione
    BY <2>1, <2>2 DEF Scrittura, Struttura, ScritturaSana
  <2>4. Termina(h) /\ modulo[gestore[h].s].tipo # "add"
    BY <2>1 DEF Prosegui
  <2>5. QED
    BY <1>2, <2>3, <2>4
<1>6. ASSUME NEW h \in Gestore, putFile(h) \/ putFileFallito(h)
      PROVE  /\ putFile(h) /\ gestore[h].s = s /\ gestore[h].montato
             /\ modulo[s].tipo = "add" /\ modulo'[s].cod = modulo[s].cod
  <2>1. putFile(h)
    BY <1>6 DEF putFileFallito
  <2>2. gestore[h].s \in Sessione
    BY <1>1, <2>1 DEF putFile, GestoreSano, Attesa, Libero
  <2>3. QED
    BY <1>2, <2>1, <2>2 DEF putFile
<1>7. ASSUME NEW d \in Dispositivo,
             Esegui(d) \/ Risposta(d) \/ RispostaPersa(d) \/ Rifiuta(d) \/ Crash(d)
      PROVE  FALSE
  <2>1. CASE Risposta(d) \/ Rifiuta(d)
    BY <1>5, <2>1, RispostaEseguita DEF Risposta, Rifiuta
  <2>2. CASE Esegui(d) \/ RispostaPersa(d) \/ Crash(d)
    BY <1>3, <2>2 DEF Esegui, RispostaPersa, Crash
  <2>3. QED
    BY <1>7, <2>1, <2>2
<1>8. CASE UNCHANGED vars
  BY <1>8 DEF vars
<1>9. QED
  BY <1>4, <1>6, <1>7, <1>8 DEF Next

\* The machine that the home page covers has its file and its document.
LEMMA SuccessoDurevolePasso ==
  ASSUME TypeOK, Struttura, RisposteFondate, CaricamentiFondati, SuccessoDurevole, [Next]_vars,
         NEW s \in Sessione, modulo'[s].fase = "coperta", modulo'[s].tipo = "add"
  PROVE  /\ modulo'[s].cod \in schede'
         /\ controlli'[modulo'[s].cod] # Assente \/ modulo'[s].cod \in storia'.rifiutate
<1>1. CASE modulo'[s] = modulo[s]
  <2>1. modulo[s].cod \in Codice
    BY <1>1 DEF Struttura, FinestraSana
  <2>2. modulo[s].cod \in schede /\ Nota(modulo[s].cod)
    BY <1>1 DEF SuccessoDurevole
  <2>3. schede \subseteq schede'
    BY CrescePasso DEF Cresce
  <2>4. controlli'[modulo[s].cod] # Assente \/ modulo[s].cod \in storia'.rifiutate
    BY <2>1, <2>2, NotaStabile DEF Nota
  <2>5. QED
    BY <1>1, <2>2, <2>3, <2>4
<1>2. CASE modulo'[s] # modulo[s]
  <2>1. PICK h \in Gestore : /\ putFile(h) /\ gestore[h].s = s /\ gestore[h].montato
                             /\ modulo[s].tipo = "add" /\ modulo'[s].cod = modulo[s].cod
    BY <1>2, CopertaPasso
  <2>2. /\ modulo[s].cod = gestore[h].cod /\ modulo[s].cod \in Codice
        /\ gestore[h].verso = gestore[h].cod
    BY <2>1, ArchivioAssumption DEF Struttura, GestoreSano, putFile
  <2>3. Nota(modulo[s].cod)
    BY <2>1, <2>2 DEF CaricamentiFondati, putFile
  <2>4. controlli'[modulo[s].cod] # Assente \/ modulo[s].cod \in storia'.rifiutate
    BY <2>2, <2>3, NotaStabile DEF Nota
  <2>5. QED
    BY <2>1, <2>2, <2>4 DEF putFile
<1>3. QED
  BY <1>1, <1>2

\* SchedaSpiegata, OrfanaSpiegata and SuccessoDurevole hold together, on the
\* invariants that a running handler and a queued addition rest on.
LEMMA FileSpiegati == Spec => [](SchedaSpiegata /\ OrfanaSpiegata /\ SuccessoDurevole)
<1> DEFINE Fondamenta == /\ TypeOK /\ Struttura /\ RisposteFondate /\ FinestreFondate
                         /\ AggiornamentiFondati /\ CaricamentiFondati /\ AggiunteOrfane
           Spiegazioni == SchedaSpiegata /\ OrfanaSpiegata /\ SuccessoDurevole
<1>1. Init => Fondamenta /\ Spiegazioni
  <2> SUFFICES ASSUME Init PROVE Fondamenta /\ Spiegazioni
    OBVIOUS
  <2>1. TypeOK /\ Struttura /\ RisposteFondate
    BY FondamentoIniziale DEF Fondamento
  <2>2. FinestreFondate
    BY DEF Init, FinestreFondate, SuMacchina, Libera
  <2>3. \A d \in Dispositivo : coda[d] = <<>>
    BY DEF Init
  <2>4. AggiornamentiFondati /\ AggiunteOrfane
    BY <2>3 DEF AggiornamentiFondati, AggiunteOrfane
  <2>5. CaricamentiFondati
    BY DEF Init, CaricamentiFondati, Libero
  <2>6. Spiegazioni
    BY DEF Init, SchedaSpiegata, OrfanaSpiegata, SuccessoDurevole, Libera
  <2>7. QED
    BY <2>1, <2>2, <2>4, <2>5, <2>6
<1>2. Fondamenta /\ Spiegazioni /\ [Next]_vars => (Fondamenta /\ Spiegazioni)'
  <2> SUFFICES ASSUME Fondamenta, Spiegazioni, [Next]_vars PROVE (Fondamenta /\ Spiegazioni)'
    OBVIOUS
  <2>1. TypeOK' /\ Struttura' /\ RisposteFondate'
    BY FondamentoPasso DEF Fondamento
  <2>2. FinestreFondate' /\ AggiornamentiFondati'
    BY FinestreFondatePasso, AggiornamentiFondatiPasso
  <2>3. CaricamentiFondati' /\ AggiunteOrfane'
    BY CaricamentiFondatiPasso, AggiunteOrfanePasso
  <2>4. SchedaSpiegata'
    BY SchedaSpiegataPasso
  <2>5. OrfanaSpiegata'
    <3>1. \A c \in schede' : c \in Codice
      BY <2>1 DEF TypeOK
    <3>2. QED
      BY <3>1, OrfanaSpiegataPasso DEF OrfanaSpiegata, Nota
  <2>6. SuccessoDurevole'
    BY SuccessoDurevolePasso DEF SuccessoDurevole, Nota
  <2>7. QED
    BY <2>1, <2>2, <2>3, <2>4, <2>5, <2>6
<1>3. QED
  BY <1>1, <1>2, PTL DEF Spec

\* A stored machine without a file is still being added, or its upload failed,
\* was cut off or went to another code (Add.dart's putFile after the write).
THEOREM SchedeSpiegate == Spec => []SchedaSpiegata
  BY FileSpiegati, PTL

\* A file without a machine follows an addition that the server refused, whose
\* error addControlloDB drops, or an upload that went to another code.
THEOREM OrfaneSpiegate == Spec => []OrfanaSpiegata
  BY FileSpiegati, PTL

\* The home page that Add pushes over its dialog covers a machine whose file is
\* stored and whose document is too, unless the server refused it.
THEOREM SuccessiDurevoli == Spec => []SuccessoDurevole
  BY FileSpiegati, PTL
=============================================================================
