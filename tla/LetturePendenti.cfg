\* One get at a time, a server that may refuse the document.
SPECIFICATION Spec
CONSTANTS
  Codice = {c1}
  Lettore = {g1}
  MaxCanale = 2
  MaxRiavvii = 0
  Guasti = {"rifiuto"}
INVARIANT
  PendentiEstinti
