CONSTANTS
    VersionModulus = 1000
    MaxFaults = 2
SPECIFICATION Spec
INVARIANTS
  BothRead
  OneEncoding
  ProofsAgree
CHECK_DEADLOCK FALSE
