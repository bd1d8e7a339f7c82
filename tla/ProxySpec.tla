------------------------------ MODULE ProxySpec ------------------------------
(***************************************************************************)
(* What the proxy promises a client, with tokens and their plaintext left *)
(* out: a token means the grant the key API issued it for.  A request        *)
(* presenting an issued token whose grant allows the path and method is   *)
(* answered with the upstream's response (filtered below 300) after one   *)
(* upstream call made with the grant's API key; every other request is    *)
(* refused with the same 401.  Each request is answered in one step: the  *)
(* upstream round trip is part of it.  The process may restart: requests  *)
(* in flight are dropped and, unless the secret outlives the process,     *)
(* every token issued so far is revoked.                                  *)
(***************************************************************************)
EXTENDS Filter

CONSTANTS Registry, RoleRequests, APIKeys, RequestIds, Paths, Methods,
          HeaderNames, HopHeaders, UpstreamStatuses, UpstreamBodies, None,
          Unissued,        \* credentials that are no issued token (none, forged)
          Tokens,          \* the values a token the key API returns can have
          Refused,         \* the 401 response of every refusal
          ServerError,     \* the 500 response of a request that failed upstream
          TransportError   \* the upstream's answer when the round trip fails

VARIABLES issued,  \* [req, token] pairs the key API returned
          areq     \* areq[r]: request r as its client sees it

vars == <<issued, areq>>

KeyRequests == [Roles : RoleRequests, APIKey : APIKeys]
Responses == [kind : {"response"}, status : UpstreamStatuses,
              body : UpstreamBodies, hdrs : SUBSET HeaderNames]

(* The rules of a grant that allow method on path. *)
GrantRules(kr, path, method) ==
  UNION {{Registry[role][p] :
            p \in {pp \in DOMAIN Registry[role] :
                     /\ Match(pp, path)
                     /\ \E j \in DOMAIN Registry[role][pp].Methods :
                          Registry[role][pp].Methods[j] \in {method, "*"}}} :
         role \in ToSet(kr.Roles)}

Grants(q) == {i \in issued : i.token = q.cred}

Authorized(q) == \E i \in Grants(q) : GrantRules(i.req, q.path, q.method) # {}

(* The client's view of an upstream answer. *)
Shaped(res, rules) ==
  LET filtered == filterBytes(res.body, SetToSeq(rules))
  IN CASE res = TransportError   -> ServerError
       [] res.status >= 300      -> [status |-> res.status, body |-> res.body,
                                     hdrs |-> res.hdrs \ HopHeaders]
       [] filtered.ok            -> [status |-> res.status, body |-> filtered.out,
                                     hdrs |-> res.hdrs \ HopHeaders]
       [] OTHER                  -> ServerError

Init == /\ issued = {}
        /\ \A r \in RequestIds : areq[r].phase = "idle" /\ areq[r].user = None
                                 /\ areq[r].resp = None

Issue ==
  \E kr \in KeyRequests, t \in Tokens :
    /\ \A i \in DOMAIN kr.Roles : kr.Roles[i] \in DOMAIN Registry
    /\ issued' = issued \cup {[req |-> kr, token |-> t]}
    /\ UNCHANGED areq

Send(r) ==
  /\ areq[r].phase \in {"idle", "done"}
  /\ \E cred \in Unissued \cup Tokens, p \in Paths, m \in Methods,
        h \in SUBSET HeaderNames :
       areq' = [areq EXCEPT ![r] = [phase |-> "sent", cred |-> cred, path |-> p,
                                    method |-> m, hdrs |-> h, user |-> None, resp |-> None]]
  /\ UNCHANGED issued

Refuse(r) ==
  /\ areq[r].phase = "sent"
  /\ ~Authorized(areq[r])
  /\ areq' = [areq EXCEPT ![r].phase = "done", ![r].resp = Refused]
  /\ UNCHANGED issued

Answer(r) ==
  /\ areq[r].phase = "sent"
  /\ \E i \in Grants(areq[r]), res \in Responses \cup {TransportError} :
       LET rules == GrantRules(i.req, areq[r].path, areq[r].method)
       IN /\ rules # {}
          /\ areq' = [areq EXCEPT ![r].phase = "done", ![r].user = i.req.APIKey,
                                  ![r].resp = Shaped(res, rules)]
  /\ UNCHANGED issued

Restart ==
  /\ \A r \in RequestIds : areq'[r].phase = "idle" /\ areq'[r].user = None
                           /\ areq'[r].resp = None
  /\ issued' \in {issued, {}}

Next == Restart \/ Issue \/ \E r \in RequestIds : Send(r) \/ Refuse(r) \/ Answer(r)

(* A refusal depends on nothing outside the proxy, so it always happens. *)
Spec == Init /\ [][Next]_vars /\ \A r \in RequestIds : WF_vars(Refuse(r))

=============================================================================
