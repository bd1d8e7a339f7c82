-------------------------------- MODULE Proxy --------------------------------
(***************************************************************************)
(* The proxy as the server of main.go builds it: the internal API's POST  *)
(* /keys (api.go generateKey) issues tokens through Auth.Generate, and    *)
(* Proxy.ServeHTTP (proxy.go) serves every other path: it authenticates   *)
(* the Basic-auth user with Auth.Open, authorizes the path and method     *)
(* against the token's roles, forwards the request upstream with the      *)
(* token's APIKey, and filters a 2xx JSON response to the matched rules'  *)
(* ResponseKeys.  The recovery handler main.go wraps around everything    *)
(* turns a panic into a 500 unless a status was already written.          *)
(*                                                                         *)
(* Each request runs in its own goroutine; the only state they share, the *)
(* role registry and the secret, is never written after start-up, so a    *)
(* request is a record of its own and the one place it waits is the       *)
(* upstream round trip.                                                   *)
(***************************************************************************)
EXTENDS Filter, Auth

CONSTANTS Registry,          \* role name -> (URL pattern -> Rule), the parsed RoleFile
          RoleRequests,      \* role lists clients ask POST /keys for
          APIKeys,           \* upstream API keys clients ask POST /keys for
          Now,               \* time.Now().Unix() when a key is generated
          RequestIds,        \* proxied requests that may be in flight at once
          Paths,             \* URL paths clients request
          Methods,           \* HTTP methods clients use
          HeaderNames,       \* header names requests and responses may carry
          HopHeaders,        \* hopHeaders of proxy.go
          UpstreamStatuses,  \* status codes the upstream API answers with
          UpstreamBodies,    \* bodies the upstream API answers with
          None,
          SecretConfigurations, \* whether Specification.Secret is set: subsets of BOOLEAN
          MaxBoots           \* bound on the times the process is started

VARIABLES configured, \* Specification.Secret was given (not the default)
          boots,    \* how many times main has started the server
          issued,   \* tokens POST /keys returned, with the keyRequest and boot of each
          apiResp,  \* status and error code of the last POST /keys response
          req       \* req[r]: the state of proxied request r

vars == <<configured, boots, issued, apiResp, req>>

KeyRequests  == [Roles : RoleRequests, APIKey : APIKeys]
NoCredential == [kind |-> "none"]
Credentials  == {NoCredential, Forged} \cup {i.token : i \in issued}

UnauthorizedBody  == [type |-> "proxy_error", code |-> "unauthorized"]
InternalErrorBody == [type |-> "internal_error"]
TransportError    == [kind |-> "transport_error"]
Responses == [kind : {"response"}, status : UpstreamStatuses,
              body : UpstreamBodies, hdrs : SUBSET HeaderNames]

Phases == {"idle", "sent", "forwarded", "done"}

IdleRequest == [phase |-> "idle", cred |-> NoCredential, path |-> None,
                method |-> None, hdrs |-> {}, key |-> None, matches |-> {},
                outreq |-> None, inbound |-> None, upstream |-> None, resp |-> None]

TypeOK ==
  /\ configured \in BOOLEAN /\ boots \in 1..MaxBoots
  /\ \A i \in issued : i.req \in KeyRequests /\ i.token.kind = "sealed"
  /\ apiResp \in {None} \cup [route : {"/keys", "other"}, status : {200, 404, 500},
                              code : {"ok", "not_found", "invalid_request", "internal"},
                              role : Seq(STRING) \cup {None}]
  /\ \A r \in RequestIds :
       /\ req[r].phase \in Phases
       /\ req[r].path \in Paths \cup {None}
       /\ req[r].method \in Methods \cup {None}
       /\ req[r].hdrs \subseteq HeaderNames
       /\ req[r].upstream \in Responses \cup {TransportError, None}
       /\ req[r].phase = "done" =>
            req[r].resp.status \in {401, 500} \cup UpstreamStatuses

Init == /\ configured \in SecretConfigurations
        /\ boots = 1
        /\ issued = {}
        /\ apiResp = None
        /\ req = [r \in RequestIds |-> IdleRequest]

(***************************************************************************)
(* The panic recovery service.New installs (recovery.LogOnPanic): the     *)
(* client gets 500 and an error body, or, when the handler had already    *)
(* written a status, that status followed by the error body.              *)
(***************************************************************************)
Recovered(written) ==
  [status |-> IF written = None THEN 500 ELSE written,
   body |-> InternalErrorBody, hdrs |-> {}]

(* A build that draws a random key even when a secret is configured. *)
SecretAlwaysRandom == boots

(***************************************************************************)
(* The AES key build gives NewAuth: the configured secret, the same at    *)
(* every start, or 16 fresh random bytes drawn at this start.             *)
(***************************************************************************)
Secret == IF configured THEN 0 ELSE boots

(***************************************************************************)
(* The process stops (graceful.ListenAndServe returns once its 10 s grace *)
(* is over, dropping the requests still in flight, e.g. one waiting on an *)
(* upstream that never answers) and main starts it again: build runs      *)
(* anew, with the registry unchanged.  Clients keep their tokens.         *)
(***************************************************************************)
Restart ==
  /\ boots < MaxBoots
  /\ boots' = boots + 1
  /\ req' = [r \in RequestIds |-> IdleRequest]
  /\ apiResp' = None
  /\ UNCHANGED <<configured, issued>>

-----------------------------------------------------------------------------
(***************************************************************************)
(* respond(w, data, status): the JSON body written with its status; the   *)
(* body is abstracted to the error code (or "ok") and the role named.     *)
(***************************************************************************)
APIRespond(route, status, code, role) ==
  [route |-> route, status |-> status, code |-> code, role |-> role]

(* API.Handler's catch-all: any path under the prefix other than /keys. *)
APINotFound ==
  /\ apiResp' = APIRespond("other", 404, "not_found", None)
  /\ UNCHANGED <<configured, boots, issued, req>>

(***************************************************************************)
(* POST /keys (api.go generateKey).  Each early return is an action.      *)
(***************************************************************************)
GenerateKeyNotPost ==
  /\ apiResp' = APIRespond("/keys", 404, "not_found", None)
  /\ UNCHANGED <<configured, boots, issued, req>>

GenerateKeyBadBody ==
  /\ apiResp' = APIRespond("/keys", 404, "invalid_request", None)
  /\ UNCHANGED <<configured, boots, issued, req>>

UnknownRole(roles) == \E i \in DOMAIN roles : roles[i] \notin DOMAIN Registry

(* The first role of the list that is not in the registry. *)
FirstUnknownRole(roles) ==
  roles[Min({i \in DOMAIN roles : roles[i] \notin DOMAIN Registry})]

(* The 404 names the first unknown role ("Role %s does not exist"). *)
GenerateKeyUnknownRole ==
  /\ \E kr \in KeyRequests :
       /\ UnknownRole(kr.Roles)
       /\ apiResp' = APIRespond("/keys", 404, "not_found", FirstUnknownRole(kr.Roles))
  /\ UNCHANGED <<configured, boots, issued, req>>

(* The Key generateKey hands to Generate, CreatedAt set by Generate. *)
NewKey(kr) == [CreatedAt |-> Now, Roles |-> kr.Roles, APIKey |-> kr.APIKey]

(* Generate fails after MaxSealAttempts outputs with ':'; the handler panics. *)
GenerateKeyFailed ==
  /\ \E kr \in KeyRequests, colons \in [1..MaxSealAttempts -> BOOLEAN] :
       /\ ~UnknownRole(kr.Roles)
       /\ Generate(NewKey(kr), colons, Secret) = GenerateFailed
  /\ apiResp' = [route |-> "/keys", status |-> 500, code |-> "internal", role |-> None]
  /\ UNCHANGED <<configured, boots, issued, req>>

GenerateKey ==
  \E kr \in KeyRequests, colons \in [1..MaxSealAttempts -> BOOLEAN] :
    LET token == Generate(NewKey(kr), colons, Secret)
    IN /\ ~UnknownRole(kr.Roles)
       /\ token # GenerateFailed
       /\ issued' = issued \cup {[req |-> kr, token |-> token, boot |-> boots]}
       /\ apiResp' = APIRespond("/keys", 200, "ok", None)
       /\ UNCHANGED <<configured, boots, req>>

-----------------------------------------------------------------------------
(***************************************************************************)
(* A client sends a proxied request, its token as the Basic-auth user     *)
(* (SetBasicAuth(token, "")), or no Authorization header, or bytes that   *)
(* were never sealed under the secret.                                    *)
(***************************************************************************)
Send(r) ==
  /\ req[r].phase \in {"idle", "done"}
  /\ \E cred \in Credentials, p \in Paths, m \in Methods, h \in SUBSET HeaderNames :
       req' = [req EXCEPT ![r] = [IdleRequest EXCEPT !.phase = "sent", !.cred = cred,
                                    !.path = p, !.method = m, !.hdrs = h]]
  /\ UNCHANGED <<configured, boots, issued, apiResp>>

(***************************************************************************)
(* r.BasicAuth(): no header gives no user; otherwise the user is the      *)
(* decoded "token:" up to its first ':', so a token holding ':' arrives   *)
(* cut short.                                                             *)
(***************************************************************************)
BasicAuthUser(cred) ==
  CASE cred = NoCredential                    -> None
    [] cred.kind = "sealed" /\ cred.colon     -> Truncated
    [] OTHER                                  -> cred

(* authenticate: the Key Open returns for the Basic-auth user, or OpenFailed. *)
Authenticate(q) ==
  IF BasicAuthUser(q.cred) = None THEN OpenFailed ELSE Open(BasicAuthUser(q.cred), Secret)

(* A method check that only accepts the exact method, not "*". *)
MethodAllowedExact(methods, m) == \E i \in DOMAIN methods : methods[i] = m

(* The loop over rule.Methods: "*" or the request's method. *)
MethodAllowed(methods, m) == \E i \in DOMAIN methods : methods[i] \in {"*", m}

(***************************************************************************)
(* The rules the role loop appends to matches: every rule of every role   *)
(* of the key whose pattern matches the path and whose methods allow the  *)
(* method.  Go's random map order only changes the order of matches,      *)
(* which nothing depends on, so they form a set.                          *)
(***************************************************************************)
Matches(key, path, method) ==
  UNION {{Registry[role][p] :
            p \in {pp \in DOMAIN Registry[role] :
                     Match(pp, path) /\ MethodAllowed(Registry[role][pp].Methods, method)}} :
         role \in ToSet(key.Roles) \cap DOMAIN Registry}

(* respond(w, 401, unauthorizedResp): the JSON error with its Content-Type. *)
UnauthorizedResponse ==
  [status |-> 401, body |-> UnauthorizedBody, hdrs |-> {"Content-Type"}]

(* A refusal answered with 403 Forbidden instead of 401. *)
RejectForbidden(q, key) ==
  [q EXCEPT !.phase = "done", !.key = key,
            !.resp = [UnauthorizedResponse EXCEPT !.status = 403]]

(* The 401 every failed check answers with. *)
Reject(q, key) == [q EXCEPT !.phase = "done", !.key = key, !.resp = UnauthorizedResponse]

RejectUnauthenticated(r) ==
  /\ req[r].phase = "sent"
  /\ Authenticate(req[r]) = OpenFailed
  /\ req' = [req EXCEPT ![r] = Reject(@, OpenFailed)]
  /\ UNCHANGED <<configured, boots, issued, apiResp>>

RejectUnknownRole(r) ==
  LET key == Authenticate(req[r])
  IN /\ req[r].phase = "sent"
     /\ key # OpenFailed
     /\ UnknownRole(key.Roles)
     /\ req' = [req EXCEPT ![r] = Reject(@, key)]
     /\ UNCHANGED <<configured, boots, issued, apiResp>>

RejectNoMatch(r) ==
  LET key == Authenticate(req[r])
  IN /\ req[r].phase = "sent"
     /\ key # OpenFailed
     /\ ~UnknownRole(key.Roles)
     /\ Matches(key, req[r].path, req[r].method) = {}
     /\ req' = [req EXCEPT ![r] = Reject(@, key)]
     /\ UNCHANGED <<configured, boots, issued, apiResp>>

(***************************************************************************)
(* request(): the outbound request, same path and method, Basic auth set  *)
(* to the key's APIKey, hop-by-hop headers removed, X-Forwarded-For set.  *)
(***************************************************************************)
(* An outbound request whose SetBasicAuth was left out: an empty user. *)
OutRequestNoBasicAuth(q, key) ==
  [path |-> q.path, method |-> q.method, user |-> <<>>,
   hdrs |-> (q.hdrs \ HopHeaders) \cup {"Authorization", "X-Forwarded-For"}]

OutRequest(q, key) ==
  [path |-> q.path, method |-> q.method, user |-> key.APIKey,
   hdrs |-> (q.hdrs \ HopHeaders) \cup {"Authorization", "X-Forwarded-For"}]

(***************************************************************************)
(* The client's own request as request() leaves it.  *outreq = *r shares  *)
(* r's header map, so SetBasicAuth writes the API key into it; the        *)
(* X-Forwarded-For Set does too unless a hop-by-hop header made request() *)
(* copy the map first (after SetBasicAuth had already run).               *)
(***************************************************************************)
InboundAfterRequest(q, key) ==
  [auth |-> [kind |-> "basic", user |-> key.APIKey],
   hdrs |-> IF q.hdrs \cap HopHeaders = {} THEN q.hdrs \cup {"X-Forwarded-For"}
            ELSE q.hdrs]

Forward(r) ==
  LET key == Authenticate(req[r])
      ms  == Matches(key, req[r].path, req[r].method)
  IN /\ req[r].phase = "sent"
     /\ key # OpenFailed
     /\ ~UnknownRole(key.Roles)
     /\ ms # {}
     /\ req' = [req EXCEPT ![r] = [@ EXCEPT !.phase = "forwarded", !.key = key,
                                   !.matches = ms, !.outreq = OutRequest(req[r], key),
                                   !.inbound = InboundAfterRequest(req[r], key)]]
     /\ UNCHANGED <<configured, boots, issued, apiResp>>

-----------------------------------------------------------------------------
(* A response step that also filters 3xx responses. *)
RespondFilterBelow400(res, matches) ==
  LET filtered == IF res.status < 400 THEN filterBytes(res.body, SetToSeq(matches))
                  ELSE [ok |-> TRUE, out |-> res.body]
  IN IF filtered.ok THEN [status |-> res.status, body |-> filtered.out, hdrs |-> {}]
     ELSE Recovered(res.status)

(***************************************************************************)
(* What ServeHTTP writes for an upstream response: hop-by-hop headers     *)
(* deleted, WriteHeader(status), the headers copied, and below 300 the    *)
(* body replaced by filterBytes(body, matches).  A filterBytes error      *)
(* panics after WriteHeader, so the client keeps the upstream status.     *)
(* net/http sends the header map as it stands at WriteHeader and ignores  *)
(* later changes; ServeHTTP has set nothing by then, so copyHeader's      *)
(* copies never reach the client.  The headers net/http adds itself       *)
(* (Date, Content-Length, a sniffed Content-Type) are left out.           *)
(***************************************************************************)
Respond(res, matches) ==
  LET filtered == IF res.status < 300 THEN filterBytes(res.body, SetToSeq(matches))
                  ELSE [ok |-> TRUE, out |-> res.body]
  IN IF filtered.ok THEN [status |-> res.status, body |-> filtered.out, hdrs |-> {}]
     ELSE Recovered(res.status)

(***************************************************************************)
(* The round trip fails (or reading the body does): request() returns the *)
(* error, ServeHTTP panics before writing anything.                       *)
(***************************************************************************)
UpstreamFails(r) ==
  /\ req[r].phase = "forwarded"
  /\ req' = [req EXCEPT ![r] = [@ EXCEPT !.phase = "done", !.upstream = TransportError,
                                         !.resp = Recovered(None)]]
  /\ UNCHANGED <<configured, boots, issued, apiResp>>

(* The upstream answers and ServeHTTP writes the response. *)
UpstreamResponds(r) ==
  /\ req[r].phase = "forwarded"
  /\ \E res \in Responses :
       req' = [req EXCEPT ![r] = [@ EXCEPT !.phase = "done", !.upstream = res,
                                           !.resp = Respond(res, req[r].matches)]]
  /\ UNCHANGED <<configured, boots, issued, apiResp>>

Next ==
  \/ Restart
  \/ APINotFound \/ GenerateKeyNotPost \/ GenerateKeyBadBody \/ GenerateKeyUnknownRole
  \/ GenerateKeyFailed \/ GenerateKey
  \/ \E r \in RequestIds :
       \/ Send(r)
       \/ RejectUnauthenticated(r) \/ RejectUnknownRole(r) \/ RejectNoMatch(r)
       \/ Forward(r)
       \/ UpstreamFails(r) \/ UpstreamResponds(r)

(***************************************************************************)
(* A request's goroutine runs ServeHTTP without waiting on anything until *)
(* the round trip, so each check and the forwarding step are weakly fair. *)
(* The upstream's answer is not: RoundTrip has no timeout (proxy.go:161)  *)
(* and a silent upstream holds the request for ever.                      *)
(***************************************************************************)
Fairness ==
  \A r \in RequestIds :
    /\ WF_vars(RejectUnauthenticated(r)) /\ WF_vars(RejectUnknownRole(r))
    /\ WF_vars(RejectNoMatch(r)) /\ WF_vars(Forward(r))

Spec == Init /\ [][Next]_vars /\ Fairness

-----------------------------------------------------------------------------
Handled(r) == req[r].phase \in {"forwarded", "done"}

NulFree(s) == \A i \in DOMAIN s : s[i] # NUL

(***************************************************************************)
(* A token POST /keys returned is never refused as unauthenticated: the   *)
(* client's Basic-auth header carries it whole (Generate's ':' retry) and *)
(* Open accepts it.                                                       *)
(***************************************************************************)
(* A token POST /keys returned is accepted exactly while the key it was   *)
(* sealed under is in use: always when Specification.Secret is set, and   *)
(* otherwise until the next start draws a new random key.  Accepted       *)
(* means the client's Basic-auth header carries it whole (Generate's ':'  *)
(* retry) and Open authenticates it.                                      *)
(***************************************************************************)
IssuedTokenAccepted ==
  \A r \in RequestIds, i \in issued :
    Handled(r) /\ req[r].cred = i.token =>
      (req[r].key # OpenFailed <=> configured \/ i.boot = boots)

(***************************************************************************)
(* Spec 8 round trip, for API keys without NUL: a request presenting a    *)
(* token is authorized under exactly the roles that were requested and    *)
(* validated when it was issued, and is forwarded upstream with exactly   *)
(* the API key given then.                                                *)
(***************************************************************************)
TokenCarriesIssuedGrant ==
  \A r \in RequestIds, i \in issued :
    Handled(r) /\ req[r].cred = i.token /\ NulFree(i.req.APIKey)
      /\ req[r].key # OpenFailed
      => /\ req[r].key.Roles = i.req.Roles
         /\ req[r].key.APIKey = i.req.APIKey
         /\ req[r].outreq # None => req[r].outreq.user = i.req.APIKey

(***************************************************************************)
(* The same round trip for any API key the API accepts (spec 8 excludes   *)
(* only NUL in roles and an empty credential).                            *)
(***************************************************************************)
TokenCarriesIssuedGrantAnyKey ==
  \A r \in RequestIds, i \in issued :
    Handled(r) /\ req[r].cred = i.token /\ req[r].key # OpenFailed
      => /\ req[r].key.Roles = i.req.Roles
         /\ req[r].key.APIKey = i.req.APIKey

(***************************************************************************)
(* Spec 4.2 decision, fail-closed: a request reaches the upstream exactly *)
(* when its credential is an intact sealed token, every role in it is in  *)
(* the registry, and some role has a pattern matching the path whose      *)
(* methods hold the method or "*".                                        *)
(***************************************************************************)
AuthorizedBySpec(q) ==
  /\ q.cred \notin {NoCredential, Forged}
  /\ ~q.cred.colon
  /\ q.cred.secret = Secret
  /\ LET roles == Deserialize(q.cred.plaintext).Roles
     IN /\ \A i \in DOMAIN roles : roles[i] \in DOMAIN Registry
        /\ \E i \in DOMAIN roles : \E p \in DOMAIN Registry[roles[i]] :
             /\ Match(p, q.path)
             /\ \E j \in DOMAIN Registry[roles[i]][p].Methods :
                  Registry[roles[i]][p].Methods[j] \in {q.method, "*"}

ForwardedIffAuthorized ==
  \A r \in RequestIds :
    Handled(r) => ((req[r].outreq # None) <=> AuthorizedBySpec(req[r]))

(***************************************************************************)
(* Spec 4.4 response shaping: a refused request gets 401, a failed round  *)
(* trip 500, a response of 300 or more its status and untouched body, a   *)
(* 2xx JSON response its status and the body filtered to the request's    *)
(* matched rules.                                                         *)
(***************************************************************************)
ResponseShaping ==
  \A r \in RequestIds :
    LET q == req[r] IN
    q.phase = "done" =>
      /\ q.outreq = None => q.resp.status = 401
      /\ q.upstream = TransportError => q.resp.status = 500
      /\ q.upstream \in Responses /\ q.upstream.status >= 300 =>
           q.resp.status = q.upstream.status /\ q.resp.body = q.upstream.body
      /\ q.upstream \in Responses /\ q.upstream.status < 300
         /\ q.upstream.body # InvalidJSON =>
           /\ q.resp.status = q.upstream.status
           /\ q.resp.body = filterBytes(q.upstream.body, SetToSeq(q.matches)).out

(***************************************************************************)
(* Spec 4.4/7: a 2xx upstream body that is not JSON is a server-side      *)
(* error for that caller, reported as 500.                                *)
(***************************************************************************)
FilterFailureIsServerError ==
  \A r \in RequestIds :
    req[r].phase = "done" /\ req[r].upstream \in Responses
    /\ req[r].upstream.status < 300 /\ req[r].upstream.body = InvalidJSON
      => req[r].resp.status = 500

(***************************************************************************)
(* Spec 4.4: an upstream response reaches the client with the upstream's  *)
(* headers, hop-by-hop ones removed (ServeHTTP's copyHeader after the     *)
(* Del loop).                                                             *)
(***************************************************************************)
UpstreamHeadersEchoed ==
  \A r \in RequestIds :
    req[r].phase = "done" /\ req[r].upstream \in Responses
      => req[r].resp.hdrs = req[r].upstream.hdrs \ HopHeaders

(***************************************************************************)
(* Spec 3: an outbound request is owned by the request that created it    *)
(* and never shared, so forwarding leaves the client's request, its       *)
(* credential and its headers, as the client sent it.                     *)
(***************************************************************************)
InboundRequestUntouched ==
  \A r \in RequestIds :
    req[r].inbound # None => req[r].inbound = [auth |-> req[r].cred, hdrs |-> req[r].hdrs]

-----------------------------------------------------------------------------
(***************************************************************************)
(* Refinement: a request is "sent" for the client until its response is   *)
(* written, whatever the proxy does in between; the credential the        *)
(* upstream saw is part of the answer.                                    *)
(***************************************************************************)
ClientView(q) ==
  [phase |-> IF q.phase = "forwarded" THEN "sent" ELSE q.phase,
   cred |-> q.cred, path |-> q.path, method |-> q.method, hdrs |-> q.hdrs,
   user |-> IF q.phase = "done" /\ q.outreq # None THEN q.outreq.user ELSE None,
   resp |-> q.resp]

(* Every output Generate can return: a seal without ':' under a key of some start. *)
Tokens == {Seal(Serialize(NewKey(kr)), FALSE, s) : kr \in KeyRequests, s \in 0..MaxBoots}

(* The issued tokens the current key still opens. *)
Live == {i \in issued : configured \/ i.boot = boots}

Abstract == INSTANCE ProxySpec
              WITH issued <- {[req |-> i.req, token |-> i.token] : i \in Live},
                   areq <- [r \in RequestIds |-> ClientView(req[r])],
                   Unissued <- {NoCredential, Forged}, Refused <- UnauthorizedResponse,
                   ServerError <- Recovered(None)

(***************************************************************************)
(* The proxy implements ProxySpec: every response is the one the issued   *)
(* grant of the presented token calls for (a 401 when no grant allows the *)
(* path and method, else the shaped upstream answer, fetched with the     *)
(* grant's API key), and every request no grant allows is refused.        *)
(***************************************************************************)
ImplementsProxySpec == Abstract!Spec

=============================================================================
