SPECIFICATION Spec
CONSTANTS
    Envs <- MCEnvs
    Requests <- MCRequests
    Scrapes <- MCScrapes
    Clients <- MCClients
    Remotes <- MCRemotes
    Paseto <- MCPaseto
INVARIANT ReleaseIsRestricted
INVARIANT StartsWhenSafe
INVARIANT NeverKeyless
INVARIANT PeerCharged
INVARIANT BudgetShared
INVARIANT TokenBound
INVARIANT HostsKnown
INVARIANT DialedIsPublic
INVARIANT LiteralsSeen
INVARIANT OneKeyPerDest
INVARIANT SniMatches
INVARIANT MetricsGuarded
CHECK_DEADLOCK FALSE
