SPECIFICATION SettableSpec
CONSTANTS
  h1 = h1
  h2 = h2
  web = web
  printer = printer
  a1 = a1
  a2 = a2
  www = www
  Names <- MCNames
  Addrs = {a1, a2}
  Services = {www}
  StaticHosts <- MCStaticHosts
  Announcements <- MCAnnouncements
  Grace = 1
  Expire = 2
  MaxClock = 2
  TTLHealthy = 2
  TTLStale = 1
INVARIANT AliasIndexSound
INVARIANT StaticHostsResolve
INVARIANT NssAnswerInDns
 
 
 
