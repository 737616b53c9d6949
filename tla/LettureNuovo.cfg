\* One get at a time, no faults.
SPECIFICATION Spec
CONSTANTS
  Codice = {c1}
  Lettore = {g1}
  MaxCanale = 2
  MaxRiavvii = 0
  Guasti = {}
INVARIANT
  NuovoDaCapo
