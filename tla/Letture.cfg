\* Two gets of one document, a stream that fails, a server that refuses.
SPECIFICATION Spec
CONSTANTS
  Codice = {c1}
  Lettore = {g1, g2}
  MaxCanale = 2
  MaxRiavvii = 0
  Guasti = {"caduta", "rifiuto"}
SYMMETRY Simmetria
INVARIANTS
  TypeOK
  RispostaUnica
  RispostaFondata
  BersagliAscoltati
  NessunoDimenticato
  AsserzioniRispettate
  PendentiContati
