SPECIFICATION Spec
CONSTANTS
  K = 2
  Kprime = 3
  Buffer = 5
  Decodable <- MostPairs
  Lengths = {0, 1, 2, 4, 5, 6}
  Commands <- SomeCommands
  Receptions <- SomeReceptions
INVARIANT
  SuccessIsComplete
