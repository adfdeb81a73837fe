SPECIFICATION Spec
CONSTANTS
  MaxScreens = 6
  MaxPresses = 2
  MaxAuth = 1
INVARIANTS
  TypeOK
  StackIsCoordinated
  UserScreensSignedIn
  ClosuresMatchStack
PROPERTIES
  LateAnswersHarmless
