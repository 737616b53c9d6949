--------------------------- MODULE ScadenzeProofs ---------------------------
(***************************************************************************)
(* What holds of the dates for every calendar, every choice of the days in *)
(* summer time, and every day that is picked.                              *)
(*                                                                         *)
(* Instants first: a midnight comes before the next one, so the day of an  *)
(* instant is well defined.  Then the forms: nothing but the pickers keeps *)
(* the next date behind the last one, and FormaOrdinata says how far they  *)
(* do.                                                                     *)
(***************************************************************************)
EXTENDS Scadenze, TLAPS

\* An open picker has its form; a form that is not Add's has a document.
PickerAperto ==
  /\ picker # Vuoto => modulo.tipo # "nessuno"
  /\ modulo.tipo \in {"edit", "check"} => modulo.base # Vuoto

\* The dates of an open form, and those that EditControl was opened with, are in
\* order as long as no history says otherwise.
FormaOrdinata ==
  modulo.tipo # "nessuno" =>
    /\ ~modulo.ritocco /\ modulo.ultimo # Vuoto /\ modulo.prossimo # Vuoto =>
         modulo.ultimo <= modulo.prossimo
    /\ modulo.tipo = "edit" /\ ~modulo.base.ritocco =>
         modulo.base.ultimo <= modulo.base.prossimo

IInv == TypeOK /\ PickerAperto /\ FormaOrdinata /\ ScadenzaOrdinata

(***************************************************************************)
(* Instants                                                                *)
(***************************************************************************)
LEMMA MezzanottiOrdinate ==
  ASSUME NEW g \in Int, NEW h \in Int
  PROVE  /\ Mezzanotte(g) \in Int
         /\ g < h <=> Mezzanotte(g) < Mezzanotte(h)
         /\ g = h <=> Mezzanotte(g) = Mezzanotte(h)
  BY DEF Mezzanotte

\* An instant belongs to the day whose midnight is the last one before it.
LEMMA GiornoDellIstante ==
  ASSUME NEW t \in Int, NEW g \in Int, Mezzanotte(g) <= t, t < Mezzanotte(g + 1)
  PROVE  GiornoDi(t) = g
<1> DEFINE k == t \div 24
<1>1. k \in Int /\ 24 * k <= t /\ t < 24 * k + 24
  OBVIOUS
<1> HIDE DEF k
<1>2. g \in {k, k + 1}
  <2>1. 24 * g - 2 <= t /\ t < 24 * (g + 1) - 1
    BY DEF Mezzanotte
  <2>2. QED
    BY <1>1, <2>1
<1>3. \A h \in {k, k + 1} : Mezzanotte(h) <= t /\ t < Mezzanotte(h + 1) => h = g
  BY <1>1 DEF Mezzanotte
<1>4. \A h : h \in {k, k + 1} /\ Mezzanotte(h) <= t /\ t < Mezzanotte(h + 1) <=> h = g
  BY <1>2, <1>3
<1>5. GiornoDi(t) = CHOOSE h : h \in {k, k + 1} /\ Mezzanotte(h) <= t /\ t < Mezzanotte(h + 1)
  BY DEF GiornoDi, k
<1>6. QED
  BY <1>4, <1>5

\* add() counts hours: from summer to winter time the day before is reached.
LEMMA PropostaCalcolata ==
  ASSUME NEW g \in Nat, NEW p \in Periodo
  PROVE  /\ setPeriod(p) \in 30..365
         /\ Proposta(g, p) = IF g \in Estate /\ g + setPeriod(p) \notin Estate
                             THEN g + setPeriod(p) - 1 ELSE g + setPeriod(p)
<1> DEFINE n == setPeriod(p)
<1>1. n \in {30, 90, 180, 365}
  BY ScadenzeAssumption DEF setPeriod
<1> DEFINE t == Mezzanotte(g) + 24 * n
<1>2. Proposta(g, p) = GiornoDi(t)
  BY DEF Proposta
<1> HIDE DEF n
<1>3. t \in Int /\ t = 24 * (g + n) - (IF g \in Estate THEN 2 ELSE 1)
  BY <1>1 DEF Mezzanotte
<1>4. CASE g \in Estate /\ g + n \notin Estate
  <2>1. Mezzanotte(g + n - 1) <= t /\ t < Mezzanotte((g + n - 1) + 1)
    BY <1>1, <1>3, <1>4 DEF Mezzanotte
  <2>2. GiornoDi(t) = g + n - 1
    BY <1>1, <1>3, <2>1, GiornoDellIstante
  <2>3. QED
    BY <1>1, <1>2, <1>4, <2>2 DEF n
<1>5. CASE ~(g \in Estate /\ g + n \notin Estate)
  <2>1. Mezzanotte(g + n) <= t /\ t < Mezzanotte((g + n) + 1)
    BY <1>1, <1>3, <1>5 DEF Mezzanotte
  <2>2. GiornoDi(t) = g + n
    BY <1>1, <1>3, <2>1, GiornoDellIstante
  <2>3. QED
    BY <1>1, <1>2, <1>5, <2>2 DEF n
<1>6. QED
  BY <1>4, <1>5

(***************************************************************************)
(* Forms and pickers                                                       *)
(***************************************************************************)
LEMMA DataForma ==
  /\ PrimoGiorno \in Nat /\ UltimoGiorno \in Nat /\ Oggi \in Nat
  /\ \A g : g \in Data <=> g \in Int /\ PrimoGiorno <= g /\ g <= UltimoGiorno
  /\ \A g : g \in DataProssima <=> g \in Int /\ PrimoGiorno <= g /\ g <= UltimoGiorno + 365
<1>1. PrimoGiorno \in Nat /\ UltimoGiorno \in Nat /\ Oggi \in Nat
  BY ScadenzeAssumption
<1>2. QED
  BY <1>1 DEF Data, DataProssima

LEMMA VuotoDistinto ==
  /\ Vuoto \notin DataProssima /\ Vuoto \notin {"ultimo", "prossimo"} /\ Vuoto \notin Documento
  /\ Oggi \in Data /\ PrimoGiorno \in Data /\ Giorno \subseteq Data
  /\ Data \subseteq DataProssima /\ DataProssima \subseteq Nat
<1>1. DataProssima \subseteq Nat /\ Data \subseteq DataProssima
  BY DataForma
<1>2. QED
  BY <1>1, DataForma, ScadenzeAssumption

LEMMA ChiusoForma ==
  /\ Chiuso \in Modulo /\ Chiuso.tipo = "nessuno" /\ Chiuso.ultimo = Vuoto
  /\ Chiuso.prossimo = Vuoto /\ ~Chiuso.ritocco
<1>1. (CHOOSE p \in Periodo : TRUE) \in Periodo
  BY ScadenzeAssumption
<1>2. QED
  BY <1>1 DEF Chiuso, Modulo

\* The days of the two pickers.
LEMMA LimitiForma ==
  ASSUME TypeOK, PickerAperto, modulo.tipo # "nessuno"
  PROVE  /\ Limiti("ultimo").primo \in Data /\ Limiti("ultimo").iniziale \in Data
         /\ Limiti("ultimo").primo <= Limiti("ultimo").iniziale
         /\ modulo.tipo = "check" /\ modulo.ultimo # Vuoto =>
              Limiti("ultimo").primo = modulo.ultimo
         /\ Limiti("prossimo").primo \in Data /\ Limiti("prossimo").iniziale \in DataProssima
         /\ modulo.ultimo # Vuoto => Limiti("prossimo").primo = modulo.ultimo
<1>1. /\ modulo.ultimo \in Data \cup {Vuoto} /\ modulo.prossimo \in DataProssima \cup {Vuoto}
      /\ modulo.periodo \in Periodo
      /\ modulo.tipo = "edit" => modulo.base \in Documento
  BY DEF TypeOK, PickerAperto, Modulo
<1>2. modulo.tipo = "edit" => modulo.base.ultimo \in Data /\ modulo.base.prossimo \in DataProssima
  BY <1>1 DEF Documento
<1>3. \A g \in Data : g \in Nat /\ PrimoGiorno <= g
  BY DataForma
<1>4. modulo.ultimo # Vuoto => Proposta(modulo.ultimo, modulo.periodo) \in DataProssima
  <2>1. SUFFICES ASSUME modulo.ultimo # Vuoto
                 PROVE  Proposta(modulo.ultimo, modulo.periodo) \in DataProssima
    OBVIOUS
  <2>2. modulo.ultimo \in Nat /\ PrimoGiorno <= modulo.ultimo /\ modulo.ultimo <= UltimoGiorno
    BY <1>1, <2>1, DataForma
  <2>3. PICK n \in 30..365 : Proposta(modulo.ultimo, modulo.periodo)
                               \in {modulo.ultimo + n, modulo.ultimo + n - 1}
    BY <1>1, <2>2, PropostaCalcolata
  <2>4. QED
    BY <2>2, <2>3, DataForma
<1>5. /\ Limiti("ultimo").primo \in Data /\ Limiti("ultimo").iniziale \in Data
      /\ Limiti("ultimo").primo <= Limiti("ultimo").iniziale
      /\ modulo.tipo = "check" /\ modulo.ultimo # Vuoto => Limiti("ultimo").primo = modulo.ultimo
  <2>1. /\ Limiti("ultimo").primo = IF modulo.tipo = "check" /\ modulo.ultimo # Vuoto
                                    THEN modulo.ultimo ELSE PrimoGiorno
        /\ Limiti("ultimo").iniziale = IF modulo.tipo = "edit" THEN modulo.base.ultimo
                                       ELSE IF modulo.ultimo # Vuoto THEN modulo.ultimo ELSE Oggi
    BY DEF Limiti, LimitiUltimo, Oppure
  <2>2. PrimoGiorno \in Data /\ Oggi \in Data
    BY VuotoDistinto
  <2>3. QED
    BY <1>1, <1>2, <1>3, <2>1, <2>2, DataForma
<1>6. /\ Limiti("prossimo").primo \in Data
      /\ modulo.ultimo # Vuoto => Limiti("prossimo").primo = modulo.ultimo
  BY <1>1, VuotoDistinto DEF Limiti, LimitiProssimo, Oppure
<1>7. Limiti("prossimo").iniziale \in DataProssima
  BY <1>1, <1>2, <1>4, VuotoDistinto DEF Limiti, LimitiProssimo, Oppure
<1>8. QED
  BY <1>5, <1>6, <1>7

\* The next date that a picker starts from is not before the last date, unless that
\* was changed since.
LEMMA ProssimoOrdinato ==
  ASSUME TypeOK, PickerAperto, FormaOrdinata, modulo.tipo # "nessuno",
         IF modulo.tipo = "edit"
         THEN ~modulo.base.ritocco /\ modulo.ultimo \in {Vuoto, modulo.base.ultimo}
         ELSE ~modulo.ritocco
  PROVE  Limiti("prossimo").primo <= Limiti("prossimo").iniziale
<1>1. CASE modulo.ultimo = Vuoto
  <2>1. Limiti("prossimo").primo = PrimoGiorno
    BY <1>1 DEF Limiti, LimitiProssimo, Oppure
  <2>2. Limiti("prossimo").iniziale \in DataProssima
    BY LimitiForma
  <2>3. QED
    BY <2>1, <2>2, DataForma
<1>2. CASE modulo.ultimo # Vuoto
  <2>1. /\ modulo.ultimo \in Data /\ modulo.ultimo \in Nat /\ modulo.periodo \in Periodo
        /\ modulo.prossimo \in DataProssima \cup {Vuoto}
    BY <1>2, VuotoDistinto DEF TypeOK, Modulo
  <2>2. Limiti("prossimo").primo = modulo.ultimo
    BY <1>2, LimitiForma
  <2>3. CASE modulo.tipo = "edit"
    <3>1. Limiti("prossimo").iniziale = modulo.base.prossimo
      BY <2>3 DEF Limiti, LimitiProssimo
    <3>2. QED
      BY <1>2, <2>2, <2>3, <3>1 DEF FormaOrdinata
  <2>4. CASE modulo.tipo # "edit" /\ modulo.prossimo # Vuoto
    <3>1. Limiti("prossimo").iniziale = modulo.prossimo
      BY <2>4 DEF Limiti, LimitiProssimo, Oppure
    <3>2. QED
      BY <1>2, <2>2, <2>4, <3>1 DEF FormaOrdinata
  <2>5. CASE modulo.tipo # "edit" /\ modulo.prossimo = Vuoto
    <3>1. Limiti("prossimo").iniziale = Proposta(modulo.ultimo, modulo.periodo)
      BY <1>2, <2>5 DEF Limiti, LimitiProssimo, Oppure
    <3>2. modulo.ultimo <= Proposta(modulo.ultimo, modulo.periodo)
      BY <2>1, PropostaCalcolata
    <3>3. QED
      BY <2>2, <3>1, <3>2
  <2>6. QED
    BY <2>3, <2>4, <2>5
<1>3. QED
  BY <1>1, <1>2

(***************************************************************************)
(* Steps                                                                   *)
(***************************************************************************)
\* A form opens.
LEMMA Apertura ==
  ASSUME IInv, Add \/ EditControl \/ ControlCheck
  PROVE  IInv'
<1>1. /\ modulo.tipo = "nessuno" /\ UNCHANGED <<documento, registro, picker>>
      /\ TypeOK /\ PickerAperto /\ FormaOrdinata /\ ScadenzaOrdinata
  BY DEF IInv, Add, EditControl, ControlCheck
<1>2. picker = Vuoto
  BY <1>1 DEF PickerAperto
<1>3. /\ modulo' \in Modulo
      /\ modulo'.tipo \in {"edit", "check"} => modulo'.base # Vuoto
      /\ ~modulo'.ritocco /\ modulo'.ultimo # Vuoto /\ modulo'.prossimo # Vuoto =>
           modulo'.ultimo <= modulo'.prossimo
      /\ modulo'.tipo = "edit" /\ ~modulo'.base.ritocco =>
           modulo'.base.ultimo <= modulo'.base.prossimo
  <2>1. CASE Add
    <3>1. modulo' = [Chiuso EXCEPT !.tipo = "add"]
      BY <2>1 DEF Add
    <3>2. QED
      BY <3>1, ChiusoForma DEF Modulo
  <2>2. CASE EditControl
    <3>1. /\ documento \in Documento
          /\ modulo' = [tipo |-> "edit", ultimo |-> documento.ultimo,
                prossimo |-> documento.prossimo, periodo |-> documento.periodo,
                base |-> documento, ritocco |-> documento.prossimo < documento.ultimo]
      BY <1>1, <2>2 DEF EditControl, TypeOK
    <3>2. /\ documento.ultimo \in Data /\ documento.prossimo \in DataProssima
          /\ documento.periodo \in Periodo
          /\ documento.ultimo \in Nat /\ documento.prossimo \in Nat /\ documento # Vuoto
      BY <3>1, VuotoDistinto DEF Documento
    <3>3. (documento.prossimo < documento.ultimo) \in BOOLEAN
      OBVIOUS
    <3>4. modulo' \in Modulo /\ modulo'.base # Vuoto
      BY <3>1, <3>2, <3>3 DEF Modulo
    <3>5. /\ modulo'.ultimo = documento.ultimo /\ modulo'.prossimo = documento.prossimo
          /\ modulo'.base = documento
          /\ modulo'.ritocco <=> documento.prossimo < documento.ultimo
      BY <3>1
    <3>6. ~documento.ritocco => documento.ultimo <= documento.prossimo
      BY <1>1, <3>2 DEF ScadenzaOrdinata
    <3>7. QED
      BY <3>2, <3>4, <3>5, <3>6
  <2>3. CASE ControlCheck
    <3>1. /\ documento \in Documento /\ documento.periodo \in Periodo
          /\ modulo' = [Chiuso EXCEPT !.tipo = "check", !.periodo = documento.periodo,
                                      !.base = documento]
      BY <1>1, <2>3 DEF ControlCheck, TypeOK, Documento
    <3>2. QED
      BY <3>1, ChiusoForma, VuotoDistinto DEF Modulo
  <2>4. QED
    BY <2>1, <2>2, <2>3
<1>4. TypeOK'
  BY <1>1, <1>3 DEF TypeOK
<1>5. PickerAperto'
  BY <1>1, <1>2, <1>3 DEF PickerAperto
<1>6. FormaOrdinata' /\ ScadenzaOrdinata'
  BY <1>1, <1>3 DEF FormaOrdinata, ScadenzaOrdinata
<1>7. QED
  BY <1>4, <1>5, <1>6 DEF IInv

\* A day is picked, or the initial one confirmed.
LEMMA Scelta ==
  ASSUME IInv, Scegli
  PROVE  /\ IInv'
         /\ modulo'.tipo = modulo.tipo
         /\ modulo.tipo = "check" /\ Vuoto \notin {modulo.ultimo, modulo'.ultimo} =>
              modulo.ultimo <= modulo'.ultimo
<1>1. /\ TypeOK /\ PickerAperto /\ FormaOrdinata /\ ScadenzaOrdinata
      /\ picker \in {"ultimo", "prossimo"} /\ picker' = Vuoto
      /\ UNCHANGED <<documento, registro>> /\ modulo.tipo # "nessuno"
      /\ modulo \in Modulo
  BY DEF IInv, Scegli, TypeOK, PickerAperto
<1>2. PICK g \in {h \in Giorno : Limiti(picker).primo <= h} \cup {Limiti(picker).iniziale} :
        modulo' = IF picker = "ultimo"
                  THEN [modulo EXCEPT !.ultimo = g, !.ritocco = modulo.prossimo # Vuoto]
                  ELSE [modulo EXCEPT !.prossimo = g, !.ritocco = g < Limiti(picker).primo]
  BY DEF Scegli
<1>3. (modulo.prossimo # Vuoto) \in BOOLEAN /\ (g < Limiti(picker).primo) \in BOOLEAN
  OBVIOUS
<1>4. CASE picker = "ultimo"
  <2>1. g \in Data /\ Limiti("ultimo").primo <= g
    BY <1>1, <1>2, <1>4, LimitiForma, VuotoDistinto
  <2>2. modulo' = [modulo EXCEPT !.ultimo = g, !.ritocco = modulo.prossimo # Vuoto]
    BY <1>2, <1>4
  <2>3. /\ modulo' \in Modulo /\ modulo'.tipo = modulo.tipo /\ modulo'.base = modulo.base
        /\ modulo'.ultimo = g /\ modulo'.prossimo = modulo.prossimo
        /\ modulo'.ritocco = (modulo.prossimo # Vuoto)
    BY <1>1, <1>3, <2>1, <2>2 DEF Modulo
  <2>4. FormaOrdinata'
    BY <1>1, <2>3 DEF FormaOrdinata
  <2>5. modulo.tipo = "check" /\ modulo.ultimo # Vuoto => modulo.ultimo <= g
    BY <1>1, <2>1, LimitiForma
  <2>6. QED
    BY <1>1, <2>3, <2>4, <2>5 DEF IInv, TypeOK, PickerAperto, ScadenzaOrdinata
<1>5. CASE picker = "prossimo"
  <2>1. /\ g \in DataProssima /\ g \in Nat /\ Limiti("prossimo").primo \in Nat
        /\ modulo.ultimo # Vuoto => Limiti("prossimo").primo = modulo.ultimo
    BY <1>1, <1>2, <1>5, LimitiForma, VuotoDistinto
  <2>2. modulo' = [modulo EXCEPT !.prossimo = g, !.ritocco = g < Limiti("prossimo").primo]
    BY <1>2, <1>5
  <2>3. /\ modulo' \in Modulo /\ modulo'.tipo = modulo.tipo /\ modulo'.base = modulo.base
        /\ modulo'.ultimo = modulo.ultimo /\ modulo'.prossimo = g
        /\ modulo'.ritocco = (g < Limiti("prossimo").primo)
    BY <1>1, <1>3, <1>5, <2>1, <2>2 DEF Modulo
  <2>4. ~modulo'.ritocco /\ modulo.ultimo # Vuoto => modulo.ultimo <= g
    <3>1. ~modulo'.ritocco => ~(g < Limiti("prossimo").primo)
      BY <2>3, Zenon
    <3>2. QED
      BY <2>1, <3>1
  <2>5. FormaOrdinata'
    BY <1>1, <2>3, <2>4 DEF FormaOrdinata
  <2>6. modulo.ultimo # Vuoto => modulo.ultimo \in Nat
    BY <1>1, VuotoDistinto DEF Modulo
  <2>7. modulo.ultimo # Vuoto => modulo.ultimo <= modulo'.ultimo
    BY <2>3, <2>6
  <2>8. QED
    BY <1>1, <2>3, <2>5, <2>7 DEF IInv, TypeOK, PickerAperto, ScadenzaOrdinata
<1>6. QED
  BY <1>1, <1>4, <1>5

\* The other things that are done in a form.
LEMMA AltriPassi ==
  ASSUME IInv,
         \/ \E p \in Periodo : CambiaPeriodo(p)
         \/ \E campo \in {"ultimo", "prossimo"} : onShowPicker(campo) \/ Cancella(campo)
         \/ Annulla
  PROVE  /\ IInv'
         /\ modulo'.ultimo \in {modulo.ultimo, Vuoto}
<1>1. /\ TypeOK /\ PickerAperto /\ FormaOrdinata /\ ScadenzaOrdinata /\ modulo \in Modulo
      /\ UNCHANGED <<documento, registro>>
  BY DEF IInv, TypeOK, CambiaPeriodo, onShowPicker, Cancella, Annulla
<1>2. ASSUME NEW p \in Periodo, CambiaPeriodo(p)
      PROVE  IInv' /\ modulo'.ultimo = modulo.ultimo
  <2>1. /\ modulo' = [modulo EXCEPT !.periodo = p] /\ picker' = picker /\ picker = Vuoto
    BY <1>2 DEF CambiaPeriodo
  <2>2. /\ modulo' \in Modulo /\ modulo'.tipo = modulo.tipo /\ modulo'.base = modulo.base
        /\ modulo'.ultimo = modulo.ultimo /\ modulo'.prossimo = modulo.prossimo
        /\ modulo'.ritocco = modulo.ritocco
    BY <1>1, <1>2, <2>1 DEF Modulo
  <2>3. QED
    BY <1>1, <2>1, <2>2 DEF IInv, TypeOK, PickerAperto, FormaOrdinata, ScadenzaOrdinata
<1>3. ASSUME NEW campo \in {"ultimo", "prossimo"}, onShowPicker(campo)
      PROVE  IInv' /\ modulo'.ultimo = modulo.ultimo
  <2>1. /\ modulo' = modulo /\ picker' = campo /\ modulo.tipo # "nessuno"
    BY <1>3 DEF onShowPicker
  <2>2. QED
    BY <1>1, <2>1 DEF IInv, TypeOK, PickerAperto, FormaOrdinata, ScadenzaOrdinata
<1>4. ASSUME NEW campo \in {"ultimo", "prossimo"}, Cancella(campo)
      PROVE  IInv' /\ modulo'.ultimo \in {modulo.ultimo, Vuoto}
  <2>1. picker' = picker /\ picker = Vuoto /\ modulo.tipo # "nessuno"
    BY <1>4 DEF Cancella
  <2>2. (modulo.prossimo # Vuoto) \in BOOLEAN
    OBVIOUS
  <2>3. CASE campo = "ultimo"
    <3>1. modulo' = [modulo EXCEPT !.ultimo = Vuoto, !.ritocco = modulo.prossimo # Vuoto]
      BY <1>4, <2>3 DEF Cancella
    <3>2. /\ modulo' \in Modulo /\ modulo'.tipo = modulo.tipo /\ modulo'.base = modulo.base
          /\ modulo'.ultimo = Vuoto
      BY <1>1, <2>2, <3>1 DEF Modulo
    <3>3. QED
      BY <1>1, <2>1, <3>2 DEF IInv, TypeOK, PickerAperto, FormaOrdinata, ScadenzaOrdinata
  <2>4. CASE campo = "prossimo"
    <3>1. modulo' = [modulo EXCEPT !.prossimo = Vuoto, !.ritocco = FALSE]
      BY <1>4, <2>4 DEF Cancella
    <3>2. /\ modulo' \in Modulo /\ modulo'.tipo = modulo.tipo /\ modulo'.base = modulo.base
          /\ modulo'.ultimo = modulo.ultimo /\ modulo'.prossimo = Vuoto
      BY <1>1, <3>1 DEF Modulo
    <3>3. FormaOrdinata'
      BY <1>1, <3>2 DEF FormaOrdinata
    <3>4. QED
      BY <1>1, <2>1, <3>2, <3>3 DEF IInv, TypeOK, PickerAperto, ScadenzaOrdinata
  <2>5. QED
    BY <2>3, <2>4
<1>5. CASE Annulla
  <2>1. /\ picker' = Vuoto
        /\ \/ modulo' = modulo
           \/ modulo' = Chiuso
    BY <1>5 DEF Annulla
  <2>2. CASE modulo' = modulo
    BY <1>1, <2>1, <2>2 DEF IInv, TypeOK, PickerAperto, FormaOrdinata, ScadenzaOrdinata
  <2>3. CASE modulo' = Chiuso
    BY <1>1, <2>1, <2>3, ChiusoForma DEF IInv, TypeOK, PickerAperto, FormaOrdinata, ScadenzaOrdinata
  <2>4. QED
    BY <2>1, <2>2, <2>3, ChiusoForma
<1>6. QED
  BY <1>2, <1>3, <1>4, <1>5

\* The form is saved.
LEMMA Salvataggio ==
  ASSUME IInv, Conferma
  PROVE  IInv' /\ modulo'.ultimo = Vuoto
<1>1. /\ TypeOK /\ FormaOrdinata /\ modulo \in Modulo /\ modulo.tipo # "nessuno"
      /\ modulo.ultimo # Vuoto /\ modulo.prossimo # Vuoto
      /\ modulo' = Chiuso /\ picker' = Vuoto
      /\ registro' \in {registro, registro \cup {modulo.ultimo}}
      /\ documento' = [ultimo |-> modulo.ultimo, prossimo |-> modulo.prossimo,
                       periodo |-> modulo.periodo, ritocco |-> modulo.ritocco]
  BY DEF IInv, TypeOK, Conferma
<1>2. /\ modulo.ultimo \in Data /\ modulo.prossimo \in DataProssima /\ modulo.periodo \in Periodo
      /\ modulo.ritocco \in BOOLEAN
  BY <1>1 DEF Modulo
<1>3. documento' \in Documento /\ registro' \subseteq Data
  BY <1>1, <1>2 DEF Documento, TypeOK
<1>4. ScadenzaOrdinata'
  BY <1>1 DEF FormaOrdinata, ScadenzaOrdinata
<1>5. QED
  BY <1>1, <1>3, <1>4, ChiusoForma DEF IInv, TypeOK, PickerAperto, FormaOrdinata

LEMMA IInvIniziale == Init => IInv
  BY ChiusoForma DEF Init, IInv, TypeOK, PickerAperto, FormaOrdinata, ScadenzaOrdinata

LEMMA IInvPasso == IInv /\ [Next]_vars => IInv'
<1> SUFFICES ASSUME IInv, [Next]_vars PROVE IInv'
  OBVIOUS
<1>1. CASE UNCHANGED vars
  BY <1>1 DEF IInv, TypeOK, PickerAperto, FormaOrdinata, ScadenzaOrdinata, vars
<1>2. CASE Next
  BY <1>2, Apertura, Scelta, AltriPassi, Salvataggio DEF Next
<1>3. QED
  BY <1>1, <1>2

LEMMA Invariante == Spec => []IInv
  BY IInvIniziale, IInvPasso, PTL DEF Spec

(***************************************************************************)
(* The theorems                                                            *)
(***************************************************************************)
\* A last date and a record's day stay in the calendar, a next date passes its end by
\* less than the longest period, whatever is proposed, confirmed, stored and edited.
THEOREM TipiDelleDate == Spec => []TypeOK
<1>1. IInv => TypeOK
  BY DEF IInv
<1>2. QED
  BY <1>1, Invariante, PTL

\* A stored machine is due after its last check, unless the last date was changed
\* after the next one, or the next one is an initial day that lay before the first
\* of its picker (the pickers of Add, EditControl and ControlCheck).
THEOREM ScadenzeInOrdine == Spec => []ScadenzaOrdinata
<1>1. IInv => ScadenzaOrdinata
  BY DEF IInv
<1>2. QED
  BY <1>1, Invariante, PTL

\* A picker's days are in order, with the exceptions that PickerApribili names
\* (showDatePicker's assertions).
THEOREM PickerCorretti == Spec => []PickerApribili
<1>1. IInv => PickerApribili
  <2> DEFINE Eccezione ==
        IF modulo.tipo = "edit"
        THEN modulo.base.ritocco \/ modulo.ultimo \notin {Vuoto, modulo.base.ultimo}
        ELSE modulo.ritocco
  <2>1. SUFFICES ASSUME IInv, modulo.tipo # "nessuno"
                 PROVE  /\ InOrdine("ultimo")
                        /\ \/ InOrdine("prossimo")
                           \/ LimitiProssimo(modulo).iniziale > UltimoGiorno
                           \/ Eccezione
    BY DEF PickerApribili
  <2>2. TypeOK /\ PickerAperto /\ FormaOrdinata
    BY <2>1 DEF IInv
  <2>3. InOrdine("ultimo")
    BY <2>1, <2>2, LimitiForma, DataForma DEF InOrdine
  <2>4. ASSUME ~Eccezione
        PROVE  InOrdine("prossimo") \/ LimitiProssimo(modulo).iniziale > UltimoGiorno
    <3>1. /\ Limiti("prossimo").primo <= Limiti("prossimo").iniziale
          /\ Limiti("prossimo").iniziale \in Nat
      BY <2>1, <2>2, <2>4, LimitiForma, ProssimoOrdinato, VuotoDistinto
    <3>2. Limiti("prossimo") = LimitiProssimo(modulo)
      BY DEF Limiti
    <3>3. QED
      BY <3>1, <3>2, DataForma DEF InOrdine
  <2>5. QED
    BY <2>3, <2>4
<1>2. QED
  BY <1>1, Invariante, PTL

\* The proposal is a whole period after the last date, or a day less (setPeriod).
THEOREM PropostaCorretta == Spec => []PropostaGiusta
<1>1. IInv => PropostaGiusta
  <2>1. SUFFICES ASSUME IInv, modulo.ultimo # Vuoto PROVE PropostaGiusta
    BY DEF PropostaGiusta
  <2>2. modulo.ultimo \in Nat /\ modulo.periodo \in Periodo
    BY <2>1, VuotoDistinto DEF IInv, TypeOK, Modulo
  <2>3. modulo.periodo \in {"Mensile", "Trimestrale", "Semestrale", "Annuale"}
    BY <2>2, ScadenzeAssumption
  <2>4. setPeriod(modulo.periodo) = [Mensile |-> 30, Trimestrale |-> 90, Semestrale |-> 180,
                                     Annuale |-> 365][modulo.periodo]
    BY <2>3 DEF setPeriod
  <2>5. QED
    BY <2>2, <2>4, PropostaCalcolata DEF PropostaGiusta
<1>2. QED
  BY <1>1, Invariante, PTL

\* The report holds exactly the records of its days (getRevisioniPerData).
THEOREM PeriodoCorretto == Spec => []PeriodoEsatto
<1>1. IInv => PeriodoEsatto
  <2>1. SUFFICES ASSUME IInv, NEW start \in Giorno, NEW end \in Giorno, start <= end
                 PROVE  {g \in registro : NelPeriodo(g, start, end)} = registro \cap start..end
    BY DEF PeriodoEsatto
  <2>2. start \in Int /\ end \in Int /\ \A g \in registro : g \in Int
    BY <2>1, VuotoDistinto DEF IInv, TypeOK
  <2>3. \A g \in registro : NelPeriodo(g, start, end) <=> start <= g /\ g <= end
    <3>1. SUFFICES ASSUME NEW g \in Int
                   PROVE  NelPeriodo(g, start, end) <=> start <= g /\ g <= end
      BY <2>2
    <3>2. /\ Mezzanotte(g) < Mezzanotte(end) <=> g < end
          /\ Mezzanotte(g) = Mezzanotte(end) <=> g = end
          /\ Mezzanotte(start) < Mezzanotte(g) <=> start < g
          /\ Mezzanotte(g) = Mezzanotte(start) <=> g = start
          /\ {Mezzanotte(g), Mezzanotte(start), Mezzanotte(end)} \subseteq Int
      BY <2>2, MezzanottiOrdinate
    <3>3. QED
      BY <2>1, <2>2, <3>2 DEF NelPeriodo
  <2>4. QED
    BY <2>2, <2>3
<1>2. QED
  BY <1>1, Invariante, PTL

\* The date of a check only moves forward until it is cleared (the picker's
\* firstDate).
THEOREM ControlliInAvanti == Spec => ControlloInAvanti
<1> DEFINE A == modulo.tipo = "check" /\ modulo'.tipo = "check"
                  /\ Vuoto \notin {modulo.ultimo, modulo'.ultimo} => modulo.ultimo <= modulo'.ultimo
<1>1. IInv /\ [Next]_vars => [A]_vars
  <2>1. SUFFICES ASSUME IInv, Next PROVE A
    OBVIOUS
  <2>2. modulo.ultimo # Vuoto => modulo.ultimo \in Nat
    BY <2>1, VuotoDistinto DEF IInv, TypeOK, Modulo
  <2>3. CASE Add \/ EditControl \/ ControlCheck
    BY <2>3 DEF Add, EditControl, ControlCheck
  <2>4. CASE Scegli
    BY <2>1, <2>4, Scelta
  <2>5. CASE Conferma
    BY <2>1, <2>5, Salvataggio
  <2>6. CASE \/ \E p \in Periodo : CambiaPeriodo(p)
             \/ \E campo \in {"ultimo", "prossimo"} : onShowPicker(campo) \/ Cancella(campo)
             \/ Annulla
    BY <2>1, <2>2, <2>6, AltriPassi
  <2>7. QED
    BY <2>1, <2>3, <2>4, <2>5, <2>6 DEF Next
<1>2. QED
  BY <1>1, Invariante, PTL DEF Spec, ControlloInAvanti
=============================================================================
