SPECIFICATION Spec
CONSTANTS
    Envs <- MCEnvs
    Requests <- MCRequests
    Scrapes <- MCScrapes
    Clients <- MCClients
    Remotes <- MCRemotes
    Paseto <- MCPaseto
INVARIANT NoLiteralDialed
CHECK_DEADLOCK FALSE
