\* One user, two writes, a pipeline of one: the queue drains.
SPECIFICATION SpecEqua
CONSTANTS
  Utente = {u1}
  MaxScritture = 2
  kMaxPendingWrites = 1
  Guasti = {"credenziali", "caduta", "rifiuto", "rete", "utente", "crash"}
PROPERTIES
  CodaSmaltita
