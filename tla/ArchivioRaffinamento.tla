------------------------ MODULE ArchivioRaffinamento ------------------------
(***************************************************************************)
(* Archivio implements the contract of the queue (Coda), for every set of  *)
(* devices, windows, handlers, codes, data and days, every queue bound and *)
(* every choice of faults.  The mapping is the identity: a step that       *)
(* touches the queues is a step of the contract, every other one stutters. *)
(***************************************************************************)
EXTENDS ArchivioProofs

\* A step leaves the queues alone, or the contract allows it.
Consentito == Contratto!Next \/ UNCHANGED <<coda, inviate>>

\* A confirmation puts its writes behind those already queued.
LEMMA ConfermaScrive ==
  ASSUME TypeOK, Struttura, NEW s \in Sessione, Conferma(s)
  PROVE  Contratto!Scrivi(su[s])
<1> USE ArchivioAssumption
<1> DEFINE d == su[s]
<1>1. PICK h \in Gestore : \E q \in Scritture(s, h) : coda' = [coda EXCEPT ![d] = @ \o q]
  BY DEF Conferma
<1>2. PICK q \in Scritture(s, h) : coda' = [coda EXCEPT ![d] = @ \o q]
  BY <1>1
<1>3. d \in Dispositivo /\ coda[d] \in Seq(Scrittura)
  BY DEF TypeOK
<1>4. q \in Seq(Scrittura) /\ q # <<>>
  <2>1. /\ modulo[s] \in Finestra /\ modulo[s].cod \in Codice
        /\ modulo[s].rec \in Controllo /\ modulo[s].tipo # "nessuno"
    BY DEF TypeOK, Struttura, FinestraSana, Conferma
  <2>2. q \in Seq(Scrittura)
    BY <2>1, ScrittureForma
  <2>3. q # <<>>
    <3>1. \E a, b : q = <<a>> \/ q = <<a, b>>
      BY DEF Scritture
    <3>2. QED
      BY <3>1
  <2>4. QED
    BY <2>2, <2>3
<1>5. coda'[d] = coda[d] \o q /\ \A e \in Dispositivo \ {d} : coda'[e] = coda[e]
  BY <1>2, <1>3 DEF TypeOK
<1>6. /\ Len(coda[d]) <= Len(coda[d] \o q) /\ Len(coda[d] \o q) # Len(coda[d])
      /\ coda[d] = SubSeq(coda[d] \o q, 1, Len(coda[d]))
  BY <1>3, <1>4
<1>7. UNCHANGED inviate
  BY DEF Conferma
<1>8. QED
  BY <1>5, <1>6, <1>7 DEF Contratto!Scrivi, Contratto!Prolunga

\* What a dead process leaves behind is its queue q, which continues the one it
\* had, without handlers.
LEMMA SpegniRiavvia ==
  ASSUME TypeOK, NEW d \in Dispositivo, NEW q \in Seq(Scrittura), Spegni(d, q),
         Len(coda[d]) <= Len(q), \A i \in DOMAIN coda[d] : q[i] = coda[d][i]
  PROVE  Contratto!Riavvia({d})
<1>1. coda[d] \in Seq(Scrittura) /\ DOMAIN q = 1..Len(q) /\ Len(q) \in Nat
  BY DEF TypeOK
<1>2. coda'[d] = [i \in DOMAIN q |-> SenzaGestore(q[i])]
  BY DEF Spegni, TypeOK
<1>3. DOMAIN coda'[d] = DOMAIN q /\ Len(coda'[d]) = Len(q)
  <2>1. coda'[d] \in Seq(Scrittura)
    BY <1>2, CodaSenzaGestori
  <2>2. DOMAIN coda'[d] = DOMAIN q
    BY <1>2
  <2>3. QED
    BY <1>1, <2>1, <2>2
<1>4. ASSUME NEW i \in DOMAIN coda'[d]
      PROVE  coda'[d][i] = SenzaGestore(IF i <= Len(coda[d]) THEN coda[d][i] ELSE coda'[d][i])
  <2>1. q[i] \in Scrittura /\ coda'[d][i] = SenzaGestore(q[i])
    BY <1>1, <1>2, <1>3
  <2>2. CASE i <= Len(coda[d])
    <3>1. i \in DOMAIN coda[d]
      BY <1>1, <1>3, <2>2
    <3>2. QED
      BY <2>1, <2>2, <3>1
  <2>3. CASE ~(i <= Len(coda[d]))
    <3>1. SenzaGestore(SenzaGestore(q[i])) = SenzaGestore(q[i])
      BY <2>1 DEF SenzaGestore, Scrittura
    <3>2. QED
      BY <2>1, <2>3, <3>1
  <2>4. QED
    BY <2>2, <2>3
<1>5. \A e \in Dispositivo \ {d} : coda'[e] = coda[e]
  BY DEF Spegni, TypeOK
<1>6. inviate' = [e \in Dispositivo |-> IF e \in {d} THEN 0 ELSE inviate[e]]
  BY DEF Spegni, TypeOK
<1>7. QED
  BY <1>3, <1>4, <1>5, <1>6 DEF Contratto!Riavvia

\* The server and the stream move a queue as the contract says.
LEMMA CodaConsentita ==
  ASSUME TypeOK, RisposteFondate, NEW d \in Dispositivo,
         Esegui(d) \/ Risposta(d) \/ RispostaPersa(d) \/ Rifiuta(d)
  PROVE  Contratto!Next
<1>1. CASE Esegui(d)
  BY <1>1 DEF Esegui, Contratto!Esegui, Contratto!Next
<1>2. CASE Risposta(d)
  BY <1>2 DEF Risposta, Conclusa, Contratto!Risposta, Contratto!Next
<1>3. CASE RispostaPersa(d)
  BY <1>3 DEF RispostaPersa, Contratto!Interrompi, Contratto!Next
<1>4. CASE Rifiuta(d)
  BY <1>4 DEF Rifiuta, Conclusa, Contratto!Rifiuta, Contratto!Next
<1>5. QED
  BY <1>1, <1>2, <1>3, <1>4

LEMMA ContrattoPasso ==
  ASSUME Fondamento, [Next]_vars
  PROVE  Consentito
<1> USE ArchivioAssumption
<1>0. TypeOK /\ Struttura /\ RisposteFondate
  BY DEF Fondamento
<1>1. ASSUME NEW s \in Sessione, Utente(s) PROVE Consentito
  <2>1. CASE Naviga(s) \/ ChiudiDialogo(s)
    BY <2>1 DEF Naviga, SearchControl, ControlCard, Add, isControlloPresente,
      getControllo, UnregisteredMachineAlert, EditControl, ControlCheck, Compila, Chiudi,
      QRCode, Salva, Verifica, Indietro, ChiudiDialogo, cliente, Consentito
  <2>2. CASE Conferma(s)
    BY <1>0, <2>2, ConfermaScrive DEF Consentito, Contratto!Next
  <2>3. CASE ConfermaInterrotta(s)
    <3> DEFINE d == su[s]
    <3>1. PICK o \in {"registro", "check"} : Spegni(d, Append(coda[d], W(s, o, Nessuno)))
      BY <2>3 DEF ConfermaInterrotta
    <3>2. d \in Dispositivo /\ coda[d] \in Seq(Scrittura)
      BY <1>0 DEF TypeOK
    <3>3. W(s, o, Nessuno) \in Scrittura
      BY <1>0, <2>3 DEF ConfermaInterrotta, Struttura, FinestraSana, W, Scrittura
    <3> DEFINE q == Append(coda[d], W(s, o, Nessuno))
    <3>4. /\ q \in Seq(Scrittura) /\ Len(coda[d]) <= Len(q)
          /\ \A i \in DOMAIN coda[d] : q[i] = coda[d][i]
      BY <3>2, <3>3
    <3>5. Contratto!Riavvia({d})
      BY <1>0, <3>1, <3>2, <3>4, SpegniRiavvia
    <3>6. QED
      BY <3>2, <3>5 DEF Consentito, Contratto!Next
  <2>4. QED
    BY <1>1, <2>1, <2>2, <2>3 DEF Utente, Naviga
<1>2. ASSUME NEW h \in Gestore, putFile(h) \/ putFileFallito(h) PROVE Consentito
  BY <1>2 DEF putFile, putFileFallito, cliente, Consentito
<1>3. ASSUME NEW d \in Dispositivo,
             Esegui(d) \/ Risposta(d) \/ RispostaPersa(d) \/ Rifiuta(d)
      PROVE  Consentito
  BY <1>0, <1>3, CodaConsentita DEF Consentito
<1>4. ASSUME NEW d \in Dispositivo, Crash(d) PROVE Consentito
  <2>1. Spegni(d, coda[d]) /\ coda[d] \in Seq(Scrittura) /\ Len(coda[d]) <= Len(coda[d])
    BY <1>0, <1>4 DEF Crash, TypeOK
  <2>2. Contratto!Riavvia({d})
    BY <1>0, <2>1, SpegniRiavvia
  <2>3. QED
    BY <2>2 DEF Consentito, Contratto!Next
<1>5. CASE UNCHANGED vars
  BY <1>5 DEF vars, cliente, Consentito
<1>6. QED
  BY <1>1, <1>2, <1>3, <1>4, <1>5 DEF Next

\* The screens, their handlers, the faults and the server all keep the contract of
\* the Firestore client's queue: calls append, execution and answers keep the order,
\* nothing is lost, and a dead process leaves its queue without handlers.
THEOREM ContrattoRispettato == Spec => RispettaCoda
<1>1. Init => Contratto!Init
  BY DEF Init, Contratto!Init
<1>2. Fondamento /\ [Next]_vars => [Contratto!Next]_(Contratto!vars)
  BY ContrattoPasso DEF Consentito, Contratto!vars
<1>3. QED
  BY <1>1, <1>2, FondamentoVale, PTL DEF Spec, RispettaCoda, Contratto!Spec
=============================================================================
