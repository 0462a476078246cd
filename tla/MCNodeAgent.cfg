CONSTANTS
  Bundles = {b1, b2, bad}
  Rejected = {bad}
  NoBundle = NoBundle
  Torn = Torn
  Files = {users, secret}
  MaxEdits = 2
  MaxFaults = 2
SPECIFICATION FairSpec
INVARIANTS
  TypeOK
  AppliedIsServed
  OnlyValidated
PROPERTIES
  SuccessIsServed
  ImplementsService
  Converges
