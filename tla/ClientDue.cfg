\* Two users, three writes, a pipeline of two, every kind of fault.
SPECIFICATION Spec
CONSTANTS
  Utente = {u1, u2}
  MaxScritture = 3
  kMaxPendingWrites = 2
  Guasti = {"credenziali", "caduta", "rifiuto", "rete", "utente", "crash"}
SYMMETRY Simmetria
INVARIANTS
  TypeOK
  EsitoVero
  RichiesteVive
  Allineamento
  IdentificativiSani
  AsserzioniRispettate
  PipelinePiena
PROPERTIES
  ImplementaCoda
