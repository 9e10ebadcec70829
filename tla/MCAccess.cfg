SPECIFICATION Spec
CONSTANTS
  p1 = p1
  p2 = p2
  k1 = k1
  k2 = k2
  c1 = c1
  r1 = r1
  r2 = r2
  NoOne = NoOne
  Machine = Machine
  People <- MCPeople
  Passwords <- OnePassword
  Keys <- MCKeys
  Clients <- MCClients
  Calls <- MCCalls
  MaxInvites = 3
  MaxSessions = 2
  MaxLinks = 3
  MaxTokens = 3
  MaxCodes = 2
  NameAttempts = 2
  MaxCalls = 4
  MaxExpiries = 1
  MaxBoots = 3
SYMMETRY MCSymmetry
INVARIANTS
  AccessTypeOK
  InviteBuysOneAccount
  OneWayIn
  AdministratorStays
  OldCredentialsEnd
  ConfirmedOnly
  GrantsAreBoughtOnce
  ServesWithItsToken
PROPERTIES
  EndedStaysEnded
CHECK_DEADLOCK FALSE
