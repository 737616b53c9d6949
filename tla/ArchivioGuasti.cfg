\* Two windows on one device, one machine, every kind of fault.
SPECIFICATION Spec
CONSTANTS
  d1 = d1
  d2 = d2
  s1 = s1
  s2 = s2
  Dispositivo = {d1}
  Sessione = {s1, s2}
  su <- SuUno
  Gestore = {g1, g2}
  Codice = {A}
  Dati = {x}
  Giorno = {1}
  Assente = Assente
  Nessuno = Nessuno
  MaxCoda = 2
  Guasti = {"lettura", "caricamento", "rifiuto", "risposta", "crash"}
  UtentePaziente = FALSE
SYMMETRY SimmetriaUno
INVARIANTS
  TypeOK
  Struttura
  RisposteFondate
  SecondaLettura
  TracciaControllo
  SchedaSpiegata
  SuccessoDurevole
PROPERTIES
  RispettaCoda
