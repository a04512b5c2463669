\* Two commands, the detector and the tickers, with fair loops.
CONSTANTS
  Configured <- MCConfigured
  Clients <- MCClients
  Request <- MCRequests
  Ports = {"www"}
  Discovery = TRUE
  NetCap = 1
SPECIFICATION FairSpec
INVARIANT ConfiguredAlwaysListed
PROPERTIES FutureBroadcastsCarry AddedServicesSettle
