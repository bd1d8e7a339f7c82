CONSTANTS
  Registry <- MCRegistry
  RoleRequests <- MCRoleRequestsC
  APIKeys <- MCAPIKeysNul
  Now = 1
  RequestIds = {r1}
  Paths <- MCPaths
  Methods = {"GET"}
  HeaderNames = {}
  HopHeaders = {"Connection", "Keep-Alive", "Proxy-Authenticate", "Proxy-Authorization", "Te", "Trailers", "Transfer-Encoding", "Upgrade"}
  UpstreamStatuses = {200}
  UpstreamBodies <- MCBodies
  MaxSealAttempts = 1
  TimestampRange = 4
  None = None
  SecretConfigurations = {TRUE}
  MaxBoots = 1
SPECIFICATION Spec
INVARIANT TokenCarriesIssuedGrantAnyKey
