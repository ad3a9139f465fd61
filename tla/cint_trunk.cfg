SPECIFICATION Spec
CONSTANTS
  Program <- TrunkProgram
  RefersTo <- MCRefersTo
  Unreliable = {}
  MaxCommands <- MCMaxCommands
  MaxFaults <- MCMaxFaults
  Notes <- WorkedOutNotes
  Flow <- WorkedOutFlow
  Apart <- MCApart
INVARIANTS QuietMeansDone
CHECK_DEADLOCK FALSE
