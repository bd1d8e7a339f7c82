# TLA+ models of jsonproxy

jsonproxy is an HTTP reverse proxy. Clients call it with an API key. The proxy:

- authorizes each request by role, path and method;
- forwards allowed requests to one upstream with the client's real upstream credential;
- filters the upstream's JSON response down to a whitelist of key-paths.

The API keys are AES-GCM tokens that the proxy issues itself. This directory holds the TLA+
modules that model the proxy, the TLC configurations that check them, and `PROJECT.json`,
which maps every definition to the source lines it models.

## The system and its parts

| Part | Source | What it does |
|---|---|---|
| Token codec | `src/unnamed/part_002` (auth.go) `Generate`, `Open` | Serializes `uint32(CreatedAt)`, each role plus a NUL, then the API key. Seals this with AES-GCM under a random nonce, retrying up to 100 times until the ciphertext holds no `:`. `Open` checks the length, authenticates, reads the timestamp and splits the rest on NUL: the last piece is the API key and the others are roles. |
| Key issuance API | `src/api.go` `generateKey` | Gives 404 to a non-POST, an undecodable body or an unknown role. When `KeyGen` fails it panics, which becomes a 500. Otherwise it returns 200 with the base64 token. |
| Authorization | `src/proxy.go` `ServeHTTP` lines 44-87, `authenticate` | Reads the token from the basic-auth user, which is cut at the first `:`, and opens it. For every role of the token: an unknown role refuses the request (fail closed); each rule whose path glob matches and whose methods hold `*` or the method contributes the rule. No match gives 401. |
| Forwarding | `proxy.go` `request` | Copies the request shallowly, so the outbound request shares the client request's header map. It puts the token's API key in basic auth (into the shared map), copies the map only if a hop-by-hop header must be removed, adds `X-Forwarded-For`, logs the outbound request and calls the transport (no timeout). |
| Response shaping | `proxy.go` lines 89-109 | A transport error panics, which becomes a 500. Otherwise it strips the response's hop headers, **writes the status**, copies the headers (too late: net/http has already sent them) and, only for a status below 300, filters the body. A filter error panics after the status is written. |
| Response filter | `proxy.go` `filterBytes`, `filterJSON`, `checkFilter` | Parses the body and prunes it recursively. A leaf is kept when the `path.Join` of its member names matches some rule's `ResponseKeys` glob. An array or object that ends up empty becomes null or `{}`, and its parent drops it. |
| Startup | `src/unnamed/part_000` (main.go) `build` | Takes the secret from config, or draws a random one when none is set, and loads the role file. It mounts the API under the prefix and the proxy at `/`, and wraps everything in the panic recovery middleware. |

All three handlers share state that is read-only once `build` returns: the role registry and
the AEAD key. There is no mutable state in the server, so concurrent requests cannot interfere
with each other. The only interaction between components is the one the model composes:
tokens issued by the API are presented to the proxy. That is why the proxy model handles
requests in any interleaving but has no hazards from memory shared between requests. The one sharing in the code is
within a request: the header map `request()` shares with the client's request (finding 6).

## Modules

| Module | Models | State and actions |
|---|---|---|
| `Text` | byte strings as sequences of symbols | `Split` is `bytes.Split`; `JoinWith` joins with a separator. `NUL` is the 0x00 byte. |
| `PathMatch` | `path.Match` with `*` and `?` | `Match` is a recursive operator. `Generated` is a reference definition that computes the set of names a pattern denotes. |
| `Filter` | the response filter | `Clean`/`KeyPath` are `path.Join`. `checkFilter`, `filterJSON` and `filterBytes` follow the Go functions. JSON values are records made by `Scalar`, `Null`, `Arr` and `Obj`, and `InvalidJSON` stands for an unparsable body. |
| `Auth` | the token codec | `Serialize`, `Generate` (its inputs are the colon outcome of each seal attempt), `Deserialize` and `Open`. AES-GCM is an ideal AEAD: only `Seal` produces a token that opens, and it carries its plaintext. |
| `Proxy` | the API, authorization, forwarding and response shaping composed | The variables are `issued` (tokens the API handed out), `apiResp` (the last API response) and `req` (one record per client request, with phase `idle → sent → forwarded → done`). Each API branch is one action. Each refusal (`RejectUnauthenticated`, `RejectUnknownRole`, `RejectNoMatch`) is an action, and so are `Forward`, `UpstreamFails` and `UpstreamResponds`. `Recovered` is the recovery middleware. `APINotFound` is `Handler`'s catch-all route. `Secret` is the key `build` gives `NewAuth`: the configured one, or a random one drawn at each start. `Restart` is a stop of `main` (graceful shutdown drops in-flight requests) followed by a new `build`. `configured` and `boots` record the secret setting and the number of starts. `InboundAfterRequest` is the client's request as `request()` leaves it (field `inbound`). `Abstract` instantiates `ProxySpec` through the refinement mapping `ClientView`. Its `issued` is `Live`, the issued tokens the current key still opens. |
| `ProxySpec` | what the proxy promises a client (spec §4.2, §4.4, §4.5) | The variables are `issued` (grants with the tokens issued for them) and `areq` (each request as its client sees it: `idle`, `sent` or `done`). `Issue` issues a token. `Send` sends a request. `Refuse` answers with the 401 when no issued grant of the token allows the path and method. `Answer` makes one upstream call with the grant's API key and returns the shaped answer. The upstream round trip is part of the one step. `Restart` drops every request in flight and either keeps the issued tokens (a configured secret) or revokes them all (a new random key). A client may send any credential: none, a forged one, or any value a token can take, issued or revoked. `Refuse` is weakly fair. |
| `MC_PathMatch`, `MC_Filter`, `MC_Proxy` | TLC drivers | These give the constants their values and define the properties that compare the code to reference definitions. |

## Runs

| Run | Config | Expect | What it shows |
|---|---|---|---|
| `glob_reference` | `MC_PathMatch.cfg` | pass | Over every pattern of length ≤ 4 on `{a, b, /, *, ?}` and every name of length ≤ 4 on `{a, b, /}`, `Match` holds exactly when the name is in the set the pattern generates. In that set, `*` never spans a `/`. (94,501 states.) |
| `filter_whitelist` | `MC_Filter.cfg` | pass | For every body (objects or arrays of up to 2 members, nested once, plus top-level scalars and invalid JSON) and every list of up to 2 rules, two properties hold. `FilterKeepsWhitelistedLeaves`: the output's nested leaves are, as a bag, exactly the input's nested leaves whose key-path matches a pattern. `FilterIdempotent`: filtering the output again changes nothing. (190,280 states.) |
| `filter_deep` | `MC_Filter_deep.cfg` | pass | The same two properties for bodies with three levels of containers below the top-level one. Each object has at most one member and each array at most one element. The patterns have stars at each of the three levels (`a/*/b`, `*/*/a`, `a/b/*`). A cascade of pruned containers, and a key-path threaded through arrays at several depths, are both reached. (19,320 states.) |
| `filter_toplevel_leak` | `MC_Filter_toplevel.cfg` | violation | A top-level scalar is returned whatever the whitelist. |
| `filter_cleaned_keypath` | `MC_Filter_cleaned.cfg` | violation | A member named `..` is tested against its grandparent's key-path. |
| `proxy_core` | `MC_Proxy.cfg` | pass | Four properties hold, with one start and a configured secret. `IssuedTokenAccepted`: every issued token authenticates. `TokenCarriesIssuedGrant`: for NUL-free API keys, it opens to the issued roles and upstream credential. `ForwardedIffAuthorized`: a request is forwarded iff the token's roles are all known and one of them allows the path and method. `ResponseShaping`: an upstream failure gives a 500, a refused request gets 401, a response of 300 or more keeps its status and body, and a 2xx JSON body is filtered to the matched rules. (15,552 states.) |
| `proxy_refinement` | `MC_Proxy_refine.cfg` | pass | `ImplementsProxySpec`: the proxy implements `ProxySpec`, including its fairness. The mapping shows a forwarded request as still `sent` and exposes the credential the upstream saw. Every response is therefore the one the issued grant of the presented token calls for, fetched with that grant's API key, and every request no grant allows is eventually refused. The run uses grants of one and of two roles, a grant naming a non-role, NUL-free keys and JSON bodies. The excluded cases (NUL in an API key, non-JSON 2xx bodies, non-hop upstream headers) are the findings below. (6,480 states.) |
| `proxy_restart` | `MC_Proxy_restart.cfg` | pass | Two starts, with the secret configured and with it not configured, role requests `[c]`. `IssuedTokenAccepted`: an issued token is accepted exactly when it was issued in the current start or a secret is configured. `ImplementsProxySpec`: a restart maps to `ProxySpec`'s `Restart`. Requests in flight are dropped, and the tokens of the previous start are revoked exactly when the secret is random. A revoked token presented later is refused like a forged one. (5,070 states.) |
| `proxy_response_headers` | `MC_Proxy_headers.cfg` | violation | An upstream 200 carrying `Content-Type` reaches the client with no upstream header at all. |
| `proxy_shared_headers` | `MC_Proxy_shared.cfg` | violation | After forwarding, the client's own request carries the upstream API key as its basic-auth user and, when it sent no hop-by-hop header, an `X-Forwarded-For` it never sent. |
| `proxy_nul_apikey` | `MC_Proxy_nul.cfg` | violation | An api_key `d\0k` issued for role `c` opens as roles `c, d` with credential `k`. |
| `proxy_filter_error` | `MC_Proxy_filtererror.cfg` | violation | A 200 whose body is not JSON reaches the client as a 200. |

Each property of a passing run has a mutant in `PROJECT.json`: a plausible bug in the mapped
definition that TLC finds. The mutants are:

- a `*` that crosses `/`;
- only the first rule consulted;
- empty containers kept;
- 403 instead of 401;
- no colon check on the token;
- roles joined rather than NUL-terminated;
- exact method match only;
- the no-match refusal tested on "the key has no roles" instead of "no rule matched", which leaves requests undecided;
- an outbound request without `SetBasicAuth`;
- a random key even when a secret is configured;
- filtering below 400 instead of 300.

### Bounds

- **Paths.** `/c/x`, `/c/x/x` and `/x` exercise both rules of role `c`, which are `/c/*` and `/c/*/*`. Each path is matched by exactly one rule, or by none.
- **Methods.** GET and POST separate the exact-method rule from the `*` rule.
- **Roles.** The requests are `[c]`, `[d]` and `[c, g]`, where `g` is not in the registry. This covers the unknown role at issuance and a mix of roles.
- **Seal attempts.** Two attempts reach success on the first try, success after a colon, and exhaustion.
- **Headers.** In the passing proxy runs, `Connection`, a hop-by-hop header, is the only header name. Non-hop upstream headers never reach the client (finding 5), so they would only repeat that finding, and the smaller set keeps the refinement checks well inside their time. `proxy_response_headers` adds `Content-Type`.
- **Starts.** Two starts (`MaxBoots = 2`), with both secret settings, are enough for a token to outlive the key it was sealed under.
- **Statuses.** 200, 302 and 404 sit on both sides of the 300 filter threshold and the hypothetical 400 one.
- **Filter bodies.** `Depth` bounds the containers below the top-level one, and `MaxMembers` and `MaxElems` bound their width. `filter_whitelist` is wide and shallow: depth 1, two members, two elements. That is enough for an array inside an object, an object inside an array and a pruned container. `filter_deep` is narrow and deep: depth 3, one member, one element. That is enough for prunings that cascade over several levels. Wider and deeper at once is out of TLC's reach: at depth 2 with two members, there are over a million top-level objects.

## Fairness

Each request runs in its own goroutine. Until the round trip, `ServeHTTP` waits on nothing:
it takes no lock and makes no other blocking call. Its refusals and its forwarding step
(`RejectUnauthenticated`, `RejectUnknownRole`, `RejectNoMatch` and `Forward`) are therefore
weakly fair.

The upstream's answer (`UpstreamResponds`, `UpstreamFails`) gets no fairness. `RoundTrip`
uses `http.DefaultTransport` with no timeout (`proxy.go:161`), and spec §5 says no timeout
is defined. A silent upstream holds the request until a graceful shutdown drops it, so "every request is
eventually answered" fails by design and is not checked. The fairness is used by the refinement:
`ProxySpec`'s weakly fair `Refuse` holds of the proxy only because its refusals are fair.
No separate "refused or forwarded" property is checked. The four fair steps' guards cover
every received request by construction, so such a property would hold whatever the guards test.

`Restart`, the key API and the clients are not fair, because nothing forces them to act.
`ProxySpec` asks fairness only of `Refuse`, which depends on nothing outside the proxy.

## Findings

1. **NUL in api_key (`api.go:78`).** `generateKey` does not reject a NUL byte in the API key. `Open` splits on NUL, so the token grants roles that were never requested or checked, and it forwards a different credential.
2. **Status before filtering (`proxy.go:98`).** The upstream's 2xx status is written before `filterBytes` runs. A body that is not JSON therefore panics after the status is committed, and the client sees 2xx with an error body rather than a 500.
3. **Top-level values are not filtered (`proxy.go:197`).** A scalar or null body passes the whitelist unchanged.
4. **`path.Join` cleans key-paths (`proxy.go:255`).** Empty member names vanish and `..` cancels its parent, so a leaf is whitelisted under another key-path.
5. **Upstream headers are dropped (`proxy.go:99`).** `ServeHTTP` calls `WriteHeader` before `copyHeader`. net/http sends the header map as it stands at `WriteHeader` and ignores later changes, so no upstream header reaches the client. Spec §4.4 says they are echoed, and `TestProxy` (`part_002:276`) expects the header `foo` to be proxied.
6. **The outbound request shares the client's headers (`proxy.go:119`).** `*outreq = *r` copies the header map by reference. `SetBasicAuth` runs before the copy that removing a hop-by-hop header forces, so it always writes the upstream API key into the client request's map. Without a hop-by-hop header, `X-Forwarded-For` lands there too. Spec §3 says an outbound request is never shared. Nothing in this repository reads `r.Header` afterwards, but a middleware that logs or inspects the request after the handler would see the upstream credential.

A note outside TLC: `request()` logs `httputil.DumpRequest(outreq)` (`proxy.go:147-149`) after `SetBasicAuth`. Every forwarded request therefore writes `Authorization: Basic` with the base64 of the upstream API key to the process log. This is the credential the tokens exist to hide. The model leaves logging out, so no run shows this.

A second note outside TLC: `TestAuth` (`src/unnamed/part_001`) fails when `reflect.DeepEqual(key, opened)` holds. That call compares a `Key` with a `*Key`, so it never holds, and the test checks nothing.

## Not modelled

- **Outside the model:** TLS, flag parsing, hex decoding of the secret, role-file parsing and the debug endpoints.
- **Abstracted:** the byte-level AES-GCM, JSON encoding and the X-Forwarded-For string.
- **Excluded by design:** the upstream side effects of a request dropped at shutdown, because the upstream is outside the model. Nothing in spec.md promises anything about them (spec §1 puts shutdown out of scope).
- **Graceful drain as one step.** `graceful.ListenAndServe` (`part_000:97`) stops accepting connections, lets in-flight requests run for up to 10 s, then returns. `Restart` drops what is still in flight in one step. A request that finishes within the grace period is a behaviour where its steps come before `Restart`. A connection refused during the drain looks to the client the same as a request dropped by `Restart`: no response. A separate draining phase would therefore add no behaviour a property can tell apart.
- **Request logging.** `DumpRequest` and the `log` calls are left out (see the note under Findings).
- **Character classes in `path.Match`** (`[...]`, `[^...]`, ranges, `\` escapes and `ErrBadPattern`). No role file in the repository or its tests uses them. `MC_PathMatch` checks `Match` against a reference by enumerating every pattern and name, and adding five more pattern symbols puts that enumeration out of TLC's reach.
- **More than two matched rules in the filter.** `checkFilter` asks whether any pattern of any rule matches, so the order and the number of rules beyond two add no case that two rules with several patterns do not cover.
- **Beyond TLC's integers:** float64 rounding of JSON numbers in `filterBytes` (`proxy.go:193`). Rounding starts at 2^53 and TLC's integers are 32-bit. A table of hand-computed roundings would only restate the expected answer.
- **Timestamp wrap** (`part_002:48`). `CreatedAt` is modelled within `TimestampRange`, but no code reads it after `Open` (there is no expiry), so no property can observe a wrap.

## Plan for later sittings

Done in the second sitting:
- the abstract `ProxySpec` and its refinement;
- fairness on the server steps, checked through the refinement;
- restart with the configured or random secret;
- the API's catch-all route.

Done in the third sitting:
- restart and revocation in `ProxySpec`, with the refinement checked over restarts (`proxy_restart`);
- a deep filter instance (`filter_deep`);
- the net/http header snapshot in `Respond`, with finding 5 (`proxy_response_headers`).

Done in the fourth sitting:
- the header map `request()` shares with the client's request, with finding 6 (`proxy_shared_headers`);
- the reasons, under "Not modelled", why the remaining parts stay out of the model.

Every part of the system that TLC can check faithfully is now modelled. What remains is listed under "Not modelled" with its reason.
