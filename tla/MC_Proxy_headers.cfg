CONSTANTS
  Registry <- MCRegistry
  RoleRequests <- MCRoleRequests
  APIKeys <- MCAPIKeys
  Now = 1
  RequestIds = {r1}
  Paths <- MCPaths
  Methods = {"GET"}
  HeaderNames = {"Connection", "Content-Type"}
  HopHeaders = {"Connection", "Keep-Alive", "Proxy-Authenticate", "Proxy-Authorization", "Te", "Trailers", "Transfer-Encoding", "Upgrade"}
  UpstreamStatuses = {200, 404}
  UpstreamBodies <- MCJSONBodies
  MaxSealAttempts = 1
  TimestampRange = 4
  None = None
  SecretConfigurations = {TRUE}
  MaxBoots = 1
SPECIFICATION Spec
INVARIANT UpstreamHeadersEchoed
