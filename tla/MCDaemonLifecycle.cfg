\* Two starts by hand and two crashes, beside any number of starts of the unit.
CONSTANTS
  MaxCrashes = 2
  MaxHands = 2
SPECIFICATION Spec
INVARIANTS LifecycleTypeOK 
PROPERTIES SocketTakenOnlyByAStopper FailedUnitServesAgain
