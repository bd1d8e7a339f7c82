CONSTANTS
  Registry <- MCRegistry
  RoleRequests <- MCRoleRequestsMixed
  APIKeys <- MCAPIKeysPlain
  Now = 1
  RequestIds = {r1}
  Paths <- MCPaths
  Methods = {"GET", "POST"}
  HeaderNames = {"Connection"}
  HopHeaders = {"Connection", "Keep-Alive", "Proxy-Authenticate", "Proxy-Authorization", "Te", "Trailers", "Transfer-Encoding", "Upgrade"}
  UpstreamStatuses = {200, 404}
  UpstreamBodies <- MCJSONBodies
  MaxSealAttempts = 2
  TimestampRange = 4
  None = None
  SecretConfigurations = {TRUE}
  MaxBoots = 1
SPECIFICATION Spec
PROPERTY ImplementsProxySpec
