SPECIFICATION Spec
CONSTANTS
  MaxClients = 2
  Descriptors <- MCDescriptors
  Addresses <- MCAddresses
  MaxBacklog = 1
INVARIANTS SlotsCurrent NothingLeaks WithinLimit
PROPERTIES DataReceived GoneClientsRemoved StopEnds
CHECK_DEADLOCK FALSE
