\* Two days and today, summer time between days 80 and 299 of two years, a
\* calendar that ends before a year after the later day, two periods.
SPECIFICATION Spec
CONSTANTS
  Giorno <- GiorniScelti
  Oggi = 100
  PrimoGiorno = 1
  UltimoGiorno = 600
  Estate <- OraLegale
  Periodo = {"Trimestrale", "Annuale"}
  Vuoto = Vuoto
INVARIANTS
  TypeOK
  PickerApribili
  ScadenzaOrdinata
  PropostaGiusta
  PeriodoEsatto
PROPERTIES
  ControlloInAvanti
