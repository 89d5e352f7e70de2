SPECIFICATION MCSpec
CONSTANTS
  c1 = c1
  c2 = c2
  c3 = c3
  Main = Main
  Nobody = Nobody
  Sessions <- MCSessions
SYMMETRY Symmetry
INVARIANTS
  FreshIdentifier
  OwnSession
  NoDescriptorLeak
PROPERTIES
  TableSpec
