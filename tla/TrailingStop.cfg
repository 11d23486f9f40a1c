SPECIFICATION StopSpec
CONSTANTS
  h1 = h1
  h2 = h2
  h3 = h3
  UNSET = UNSET
  Thread <- Threads
  Price <- Prints
  Stops <- Some
  ArmDisturbed = FALSE
SYMMETRY Symmetry
INVARIANTS
  NoMissedBreach
PROPERTY RatchetSpec
