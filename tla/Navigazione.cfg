\* Every page and callback, three pages, two callbacks at once.
SPECIFICATION SpecEqua
CONSTANTS
  Aperture = {"modulo", "cerca", "elenco", "vista", "esci", "scanner"}
  MaxPagine = 3
  MaxChiamate = 2
INVARIANTS
  TypeOK
  FondoSano
  LoginInCima
  SenzaUtente
  ScannerVivo
PROPERTIES
  ScannerRiprende
