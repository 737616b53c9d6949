\* One get at a time, a stream that may fail for ever, one change of connectivity.
SPECIFICATION SpecEqua
CONSTANTS
  Codice = {c1}
  Lettore = {g1}
  MaxCanale = 2
  MaxRiavvii = 1
  Guasti = {"caduta"}
PROPERTY
  RispostaPrimaOPoi
