\* Two requests in flight; every environment over three fields.
CONSTANTS
  Handler = {h1, h2}
  ReqTimeout = "GEOAPIFY_REQ_TIMEOUT"
  Port = "SERVER_PORT"
  Listenable <- MCListenable
  Field <- MCField
  IntField <- MCIntField
  Required <- MCRequired
  Text <- MCText
  Unset = ""
  Default <- MCDefault
  Numeral <- MCNumeral
  Atoi <- MCAtoi
SPECIFICATION FairLifecycleSpec
INVARIANTS
  LifecycleTypeOK
  HandlersKeepConnections
  CleanExit
PROPERTIES
  SignalEndsProcess
  StartupEnds
\* The process really ends.
CHECK_DEADLOCK FALSE
