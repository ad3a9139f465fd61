SPECIFICATION Spec
CONSTANTS
  Program <- MCProgram
  RefersTo <- MCRefersTo
  Unreliable <- MCUnreliable
  MaxCommands <- MCMaxCommands
  MaxFaults <- MCMaxFaults
  Notes <- WorkedOutNotes
  Flow <- WorkedOutFlow
  Apart <- MCApart
INVARIANTS TypeOK ScriptsFitTogether TearDownIsComplete OpenStagesStand NothingDanglesSilently QuietMeansDone StagesHold TextsBearOut
CHECK_DEADLOCK FALSE
