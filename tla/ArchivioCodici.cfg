\* One window, two machines: the code is retyped while a save is running.
SPECIFICATION Spec
CONSTANTS
  d1 = d1
  d2 = d2
  s1 = s1
  s2 = s2
  Dispositivo = {d1}
  Sessione = {s1}
  su <- SuSolo
  Gestore = {g1, g2}
  Codice = {A, B}
  Dati = {x}
  Giorno = {1}
  Assente = Assente
  Nessuno = Nessuno
  MaxCoda = 3
  Guasti = {"caricamento", "rifiuto"}
  UtentePaziente = FALSE
SYMMETRY Simmetria
INVARIANTS
  AggiornamentiFondati
  OrfanaSpiegata
