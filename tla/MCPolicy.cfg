SPECIFICATION Spec
CONSTANTS
  Addresses <- MCAddresses
  Public <- MCPublic
  Users <- MCUsers
  Anonymous = Anonymous
  Hosts <- MCHosts
  Literals <- MCLiterals
  Ports <- MCPorts
  SafePorts <- MCSafePorts
  NListeners = 2
  PortName <- MCPortName
  NetIds <- MCNetIds
  CidrLists <- MCCidrLists
  RuleRows <- MCRuleRows
  ListenerRows <- MCListenerRows
  Initial <- MCInitial
  Admins = {a1, a2}
  MaxRules = 2
  MaxEdits = 2
INVARIANTS
  TypeOK
  ServedFaithful
  GuestNeverChallenged
  RequiredNeverAnonymous
PROPERTIES
  UnacknowledgedNeverOpens
  Converges
