------------------------------ MODULE Scadenze ------------------------------
(***************************************************************************)
(* The two dates of a machine: the fields and date pickers of the three    *)
(* forms (Add, EditControl, ControlCheck), the next date they propose, the *)
(* document and the records they save, and the range of the report.        *)
(*                                                                         *)
(* A date is a day number; Dart's DateTime is an instant, in hours of UTC, *)
(* of a device one hour ahead, two in summer.  Flutter's showDatePicker    *)
(* (external) lets the user choose a day between its first and its last,   *)
(* or confirm the initial one, wherever that lies: only a debug build      *)
(* asserts that the three are in order.  The fields are not typed in.      *)
(***************************************************************************)
EXTENDS Integers

CONSTANTS
  Giorno,        \* days that the user picks
  Oggi,          \* DateTime.now()
  PrimoGiorno,   \* 1900-01-01
  UltimoGiorno,  \* 2100-01-01
  Estate,        \* days at whose midnight summer time is in force
  Periodo,       \* entries of the "Periodicità" menu
  Vuoto          \* an empty date field, no document, no picker

VARIABLES
  documento,  \* the machine's document: its two dates and its period
  registro,   \* the days of its check records
  modulo,     \* the open form
  picker      \* the open date picker

vars == <<documento, registro, modulo, picker>>

Data == PrimoGiorno..UltimoGiorno

\* The days that a next date can be: a proposal may pass the end of the calendar.
DataProssima == PrimoGiorno..UltimoGiorno + 365

\* ritocco (history): the last date was changed after the next one was chosen, or the
\* next one is an initial day, before its picker's first, confirmed as it was.
Documento ==
  [ultimo : Data, prossimo : DataProssima, periodo : Periodo, ritocco : BOOLEAN]

ASSUME ScadenzeAssumption ==
  /\ {PrimoGiorno, Oggi, UltimoGiorno} \subseteq Nat /\ Giorno \subseteq Nat
  /\ PrimoGiorno <= Oggi /\ Oggi <= UltimoGiorno
  /\ \A g \in Giorno : PrimoGiorno <= g /\ g <= UltimoGiorno
  /\ Periodo # {} /\ Periodo \subseteq {"Mensile", "Trimestrale", "Semestrale", "Annuale"}
  /\ Vuoto \notin Nat \cup {"ultimo", "prossimo"} /\ Vuoto \notin Documento

Modulo == [tipo : {"nessuno", "add", "edit", "check"},
           ultimo : Data \cup {Vuoto}, prossimo : DataProssima \cup {Vuoto},
           periodo : Periodo, base : Documento \cup {Vuoto}, ritocco : BOOLEAN]

(***************************************************************************)
(* Instants                                                                *)
(***************************************************************************)
\* DateTime.parse of a field: the midnight that begins day g.
Mezzanotte(g) == 24 * g - (IF g \in Estate THEN 2 ELSE 1)

\* The day of instant t, which is all that a picker or a field keeps of it.
GiornoDi(t) ==
  CHOOSE g \in {t \div 24, t \div 24 + 1} : Mezzanotte(g) <= t /\ t < Mezzanotte(g + 1)

\* (Mutant: a year of 366 days.)
setPeriod_Bisestile(periodo) ==
  CASE periodo = "Mensile" -> 30 [] periodo = "Trimestrale" -> 90
    [] periodo = "Semestrale" -> 180 [] periodo = "Annuale" -> 366

setPeriod(periodo) ==
  CASE periodo = "Mensile" -> 30 [] periodo = "Trimestrale" -> 90
    [] periodo = "Semestrale" -> 180 [] periodo = "Annuale" -> 365

\* The next date proposed after day g: add() counts hours, not days.
Proposta(g, periodo) == GiornoDi(Mezzanotte(g) + 24 * setPeriod(periodo))

(***************************************************************************)
(* The pickers                                                             *)
(***************************************************************************)
Oppure(x, y) == IF x # Vuoto THEN x ELSE y

\* (Mutant: a check's date may start anywhere.)
LimitiUltimo_Liberi(m) ==
  [primo |-> PrimoGiorno,
   iniziale |-> IF m.tipo = "edit" THEN m.base.ultimo ELSE Oppure(m.ultimo, Oggi)]

\* The picker of the last date, or of the date of a check.
LimitiUltimo(m) ==
  [primo |-> IF m.tipo = "check" THEN Oppure(m.ultimo, PrimoGiorno) ELSE PrimoGiorno,
   iniziale |-> IF m.tipo = "edit" THEN m.base.ultimo ELSE Oppure(m.ultimo, Oggi)]

\* (Mutant: the next date may be any day.)
LimitiProssimo_Liberi(m) ==
  [primo |-> PrimoGiorno,
   iniziale |-> IF m.tipo = "edit" THEN m.base.prossimo
                ELSE Oppure(m.prossimo, IF m.ultimo = Vuoto THEN Oggi
                                        ELSE Proposta(m.ultimo, m.periodo))]

\* (Mutant: today is the first choice, whatever the last date.)
LimitiProssimo_Oggi(m) ==
  [primo |-> Oppure(m.ultimo, PrimoGiorno),
   iniziale |-> IF m.tipo = "edit" THEN m.base.prossimo ELSE Oppure(m.prossimo, Oggi)]

\* The picker of the next date.
LimitiProssimo(m) ==
  [primo |-> Oppure(m.ultimo, PrimoGiorno),
   iniziale |-> IF m.tipo = "edit" THEN m.base.prossimo
                ELSE Oppure(m.prossimo, IF m.ultimo = Vuoto THEN Oggi
                                        ELSE Proposta(m.ultimo, m.periodo))]

Limiti(campo) == IF campo = "ultimo" THEN LimitiUltimo(modulo) ELSE LimitiProssimo(modulo)

\* The assertions of showDatePicker: a debug build stops at them, the shipped one
\* opens the picker all the same.
InOrdine(campo) ==
  LET l == Limiti(campo)
  IN l.primo <= l.iniziale /\ l.iniziale <= UltimoGiorno

(***************************************************************************)
(* Forms                                                                   *)
(***************************************************************************)
Chiuso == [tipo |-> "nessuno", ultimo |-> Vuoto, prossimo |-> Vuoto,
           periodo |-> CHOOSE p \in Periodo : TRUE, base |-> Vuoto, ritocco |-> FALSE]

Init ==
  /\ documento = Vuoto
  /\ registro = {}
  /\ modulo = Chiuso
  /\ picker = Vuoto

Add ==
  /\ modulo.tipo = "nessuno"
  /\ modulo' = [Chiuso EXCEPT !.tipo = "add"]
  /\ UNCHANGED <<documento, registro, picker>>

\* The form starts from the document's dates.
EditControl ==
  /\ modulo.tipo = "nessuno" /\ documento # Vuoto
  /\ modulo' = [tipo |-> "edit", ultimo |-> documento.ultimo,
                prossimo |-> documento.prossimo, periodo |-> documento.periodo,
                base |-> documento, ritocco |-> documento.prossimo < documento.ultimo]
  /\ UNCHANGED <<documento, registro, picker>>

\* The form starts empty; the period is the document's.
ControlCheck ==
  /\ modulo.tipo = "nessuno" /\ documento # Vuoto
  /\ modulo' = [Chiuso EXCEPT !.tipo = "check", !.periodo = documento.periodo,
                              !.base = documento]
  /\ UNCHANGED <<documento, registro, picker>>

\* The "Periodicità" menu; a check has none.
CambiaPeriodo(p) ==
  /\ modulo.tipo \in {"add", "edit"} /\ picker = Vuoto
  /\ modulo' = [modulo EXCEPT !.periodo = p]
  /\ UNCHANGED <<documento, registro, picker>>

\* A field is tapped: its picker opens.
onShowPicker(campo) ==
  /\ modulo.tipo # "nessuno" /\ picker = Vuoto
  /\ picker' = campo
  /\ UNCHANGED <<documento, registro, modulo>>

\* "OK": a day between the first and the last, or the initial day left as it was.
Scegli ==
  /\ picker # Vuoto
  /\ LET l == Limiti(picker)
     IN \E g \in {h \in Giorno : l.primo <= h} \cup {l.iniziale} :
          modulo' = IF picker = "ultimo"
                    THEN [modulo EXCEPT !.ultimo = g, !.ritocco = modulo.prossimo # Vuoto]
                    ELSE [modulo EXCEPT !.prossimo = g, !.ritocco = g < l.primo]
  /\ picker' = Vuoto
  /\ UNCHANGED <<documento, registro>>

\* The picker is dismissed, or the form is left.
Annulla ==
  /\ picker # Vuoto \/ modulo.tipo # "nessuno"
  /\ picker' = Vuoto
  /\ modulo' = IF picker # Vuoto THEN modulo ELSE Chiuso
  /\ UNCHANGED <<documento, registro>>

\* A field's clear button.
Cancella(campo) ==
  /\ modulo.tipo # "nessuno" /\ picker = Vuoto
  /\ modulo' = IF campo = "ultimo"
               THEN [modulo EXCEPT !.ultimo = Vuoto, !.ritocco = modulo.prossimo # Vuoto]
               ELSE [modulo EXCEPT !.prossimo = Vuoto, !.ritocco = FALSE]
  /\ UNCHANGED <<documento, registro, picker>>

\* (Mutant: the form is not validated.)
Conferma_SenzaValidate ==
  /\ modulo.tipo # "nessuno" /\ picker = Vuoto
  /\ documento' = [ultimo |-> modulo.ultimo, prossimo |-> modulo.prossimo,
                   periodo |-> modulo.periodo, ritocco |-> modulo.ritocco]
  /\ registro' = IF modulo.tipo = "check" THEN registro \cup {modulo.ultimo} ELSE registro
  /\ modulo' = Chiuso
  /\ UNCHANGED picker

\* "Conferma": both dates are there (validate), in whatever order; a check also
\* leaves its record.
Conferma ==
  /\ modulo.tipo # "nessuno" /\ picker = Vuoto
  /\ modulo.ultimo # Vuoto /\ modulo.prossimo # Vuoto
  /\ documento' = [ultimo |-> modulo.ultimo, prossimo |-> modulo.prossimo,
                   periodo |-> modulo.periodo, ritocco |-> modulo.ritocco]
  /\ registro' = IF modulo.tipo = "check" THEN registro \cup {modulo.ultimo} ELSE registro
  /\ modulo' = Chiuso
  /\ UNCHANGED picker

\* (Mutant: the end of the range is left out.)
NelPeriodo_Aperto(g, start, end) ==
  LET e == Mezzanotte(g)
  IN \/ e < Mezzanotte(end) /\ e > Mezzanotte(start)
     \/ e = Mezzanotte(start)

\* getRevisioniPerData keeps a record of day g for the report from start to end.
NelPeriodo(g, start, end) ==
  LET e == Mezzanotte(g)
  IN \/ e < Mezzanotte(end) /\ e > Mezzanotte(start)
     \/ e = Mezzanotte(end)
     \/ e = Mezzanotte(start)

Next ==
  \/ Add \/ EditControl \/ ControlCheck
  \/ \E p \in Periodo : CambiaPeriodo(p)
  \/ \E campo \in {"ultimo", "prossimo"} : onShowPicker(campo) \/ Cancella(campo)
  \/ Scegli \/ Annulla \/ Conferma

Spec == Init /\ [][Next]_vars

(***************************************************************************)
(* Properties                                                              *)
(***************************************************************************)
\* Every variable keeps its type; in particular the last date of a machine and the
\* days of its records stay in the calendar, and a next date passes its end by less
\* than the longest period, however often a proposal is confirmed and stored.
TypeOK ==
  /\ documento \in Documento \cup {Vuoto}
  /\ registro \subseteq Data
  /\ modulo \in Modulo
  /\ picker \in {"ultimo", "prossimo", Vuoto}

\* The picker of the last date always finds its days in order.  That of the next one
\* does unless its initial day is past the end of the calendar, or the last date was
\* changed since that day was chosen: EditControl starts from the stored next date,
\* which goes with the stored last one, the other forms from the field.
PickerApribili ==
  modulo.tipo # "nessuno" =>
    /\ InOrdine("ultimo")
    /\ \/ InOrdine("prossimo")
       \/ LimitiProssimo(modulo).iniziale > UltimoGiorno
       \/ IF modulo.tipo = "edit"
          THEN modulo.base.ritocco \/ modulo.ultimo \notin {Vuoto, modulo.base.ultimo}
          ELSE modulo.ritocco

\* A stored machine is due after its last check, unless the last date was changed
\* after the next one, or the next one is an initial day that lay before the first
\* of its picker and was confirmed as it was (EditControl's stored next date, behind
\* the new last one): the pickers are all that keeps the two in order.
ScadenzaOrdinata ==
  documento # Vuoto /\ ~documento.ritocco => documento.ultimo <= documento.prossimo

\* The proposed next date is a whole period after the last one; from summer to
\* winter time it is the day before, because add() counts hours.
PropostaGiusta ==
  modulo.ultimo # Vuoto =>
    LET giorni == [Mensile |-> 30, Trimestrale |-> 90, Semestrale |-> 180,
                   Annuale |-> 365][modulo.periodo]
        attesa == modulo.ultimo + giorni
    IN Proposta(modulo.ultimo, modulo.periodo) =
         IF modulo.ultimo \in Estate /\ attesa \notin Estate THEN attesa - 1 ELSE attesa

\* The report holds exactly the records of its days, both ends included, across
\* the changes of the clock.
PeriodoEsatto ==
  \A start, end \in Giorno : start <= end =>
    {g \in registro : NelPeriodo(g, start, end)} = registro \cap start..end

\* The date of a check, once picked, only moves forward until it is cleared: its
\* picker starts at the date already chosen.
ControlloInAvanti ==
  [][modulo.tipo = "check" /\ modulo'.tipo = "check" /\ Vuoto \notin {modulo.ultimo, modulo'.ultimo}
       => modulo.ultimo <= modulo'.ultimo]_vars
=============================================================================
