CONSTANTS
  Port = {11}
  Pg = {3, 4}
  Value = {1}
  Dynamic <- MixedDynamic
  Faults = TRUE
  RxVoqsKnown = {TRUE, FALSE}
SPECIFICATION Spec
INVARIANTS TypeOK PauseExcludesPfc LastCallHolds EnabledMeansBackpressure StuckTrafficWasReported InitialisedPortsReceive
PROPERTY ConditionalChangesQuiesced
