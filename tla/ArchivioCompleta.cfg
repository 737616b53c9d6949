\* Two devices, two machines, no faults, forms left alone while they are saving.
SPECIFICATION SpecEqua
CONSTANTS
  d1 = d1
  d2 = d2
  s1 = s1
  s2 = s2
  Dispositivo = {d1, d2}
  Sessione = {s1, s2}
  su <- SuDue
  Gestore = {g1, g2}
  Codice = {A, B}
  Dati = {x}
  Giorno = {1}
  Assente = Assente
  Nessuno = Nessuno
  MaxCoda = 1
  Guasti = {}
  UtentePaziente = TRUE
PROPERTIES
  AggiuntaCompletata
