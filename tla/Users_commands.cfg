SPECIFICATION Spec
CONSTANTS
  People = {p1, p2, p3}
  None = None
  AutoRegister = TRUE
  MaxEdits = 4
SYMMETRY Symmetry
INVARIANTS PairedWithNamed WelcomedOnce EnteredStays SilenceExplained
