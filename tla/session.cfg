\* Pairing and runtime authentication, with failures of both sides and of the link.
SPECIFICATION Spec
CONSTANTS
  NSecrets = 6
  NSessions = 5
  SequenceMax = 3
  MaxFails = 2
  EventCap = 3
  MaxBacklog = 1
  MaxFaults = 3
  LateReset = FALSE
INVARIANTS
  OnlyForgottenSecretsDiffer
  EndsAgree
PROPERTIES
  DrainedIsAccepted
  FailuresAreAnswered
  Recovers
CHECK_DEADLOCK FALSE
