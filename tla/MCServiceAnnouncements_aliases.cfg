\* A configured service that is also detected.
CONSTANTS
  Configured <- MCConfigured
  Clients <- MCClients
  Request <- MCRequests
  Ports = {"www"}
  Discovery = TRUE
  NetCap = 1
SPECIFICATION Spec
PROPERTY ConfiguredAliasesBroadcast
