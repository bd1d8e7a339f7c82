CONSTANTS
  Registry <- MCRegistry
  RoleRequests <- MCRoleRequests
  APIKeys <- MCAPIKeys
  Now = 1
  RequestIds = {r1}
  Paths <- MCPaths
  Methods = {"GET", "POST"}
  HeaderNames = {"Connection"}
  HopHeaders = {"Connection", "Keep-Alive", "Proxy-Authenticate", "Proxy-Authorization", "Te", "Trailers", "Transfer-Encoding", "Upgrade"}
  UpstreamStatuses = {200, 302, 404}
  UpstreamBodies <- MCBodies
  MaxSealAttempts = 2
  TimestampRange = 4
  None = None
  SecretConfigurations = {TRUE}
  MaxBoots = 1
SPECIFICATION Spec
INVARIANT TypeOK
INVARIANT IssuedTokenAccepted
INVARIANT TokenCarriesIssuedGrant
INVARIANT ForwardedIffAuthorized
INVARIANT ResponseShaping
