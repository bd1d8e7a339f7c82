------------------------------ MODULE MC_Proxy ------------------------------
(***************************************************************************)
(* A model of the proxy after TestProxy (main_test.go): a role "c"         *)
(* modelled on the test role "candidates", a second role "d" that allows  *)
(* every method, and a name "g" that is not a role.                       *)
(***************************************************************************)
EXTENDS Proxy

RoleC == <<"c">>
RoleD == <<"d">>
RoleG == <<"g">>

(* "/c/*": GET, keys a, b, b/*.  "/c/*/*": GET and POST, key b/a.  "/x": any method, any top-level key. *)
MCRegistry ==
  (RoleC :> ((<<"/", "c", "/", "*">> :>
                 [Methods |-> <<"GET">>,
                  ResponseKeys |-> <<<<"a">>, <<"b">>, <<"b", "/", "*">>>>])
             @@ (<<"/", "c", "/", "*", "/", "*">> :>
                 [Methods |-> <<"GET", "POST">>,
                  ResponseKeys |-> <<<<"b", "/", "a">>>>])))
  @@ (RoleD :> (<<"/", "x">> :> [Methods |-> <<"*">>, ResponseKeys |-> <<<<"*">>>>]))

MCRoleRequests == {<<RoleC>>, <<RoleD>>, <<RoleC, RoleG>>}

(* A plain API key, and one holding a NUL byte after the name "g". *)
MCAPIKeys == {<<"k">>, <<"g", NUL, "k">>}

(* Only role "c" requested, and an API key that holds "d" before a NUL. *)
MCRoleRequestsC == {<<RoleC>>}
MCAPIKeysNul == {<<"k">>, <<"d", NUL, "k">>}

(* Grants of one role, of two, and with a name that is not a role; NUL-free keys. *)
MCRoleRequestsMixed == {<<RoleC>>, <<RoleD>>, <<RoleC, RoleD>>, <<RoleC, RoleG>>}
MCAPIKeysPlain == {<<"k">>}

MCPaths == {<<"/", "c", "/", "x">>, <<"/", "c", "/", "x", "/", "x">>, <<"/", "x">>}

S == Scalar("s")
(* {"a": "s", "b": [{"a": "s"}, {"b": "s"}]} *)
Body1 == Obj((<<"a">> :> S) @@ (<<"b">> :> Arr(<<Obj(<<"a">> :> S), Obj(<<"b">> :> S)>>)))

MCBodies == {Body1, InvalidJSON}
MCJSONBodies == {Body1}

=============================================================================
