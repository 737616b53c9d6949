\* One get, a network that gives no sign, no assumption on it.
SPECIFICATION SpecTempi
CONSTANTS
  Codice = {c1}
  Lettore = {g1}
  MaxCanale = 1
  MaxRiavvii = 0
  Guasti = {}
PROPERTY
  AttesaLimitata
