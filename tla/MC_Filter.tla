----------------------------- MODULE MC_Filter -----------------------------
(***************************************************************************)
(* Checks filterBytes over every upstream body of a bounded shape and     *)
(* every short list of matched rules.  A behaviour picks a body and a     *)
(* rule list, then takes one filterBytes step.                            *)
(***************************************************************************)
EXTENDS Filter

CONSTANTS Keys,         \* member names upstream objects may use
          ScalarValues, \* the scalar values leaves may hold
          KeyPatterns,  \* the ResponseKeys lists rules may carry
          MaxRules,     \* longest list of matched rules
          MaxElems,     \* longest array
          MaxMembers,   \* most members of an object
          Depth,        \* containers nested below the top-level one
          TopScalars    \* whether a top-level body may be a scalar

VARIABLES body, rules, out

vars == <<body, rules, out>>

NoOutput == [ok |-> FALSE, out |-> Null]

MemberSets == {S \in SUBSET Keys : Cardinality(S) <= MaxMembers}
Objects(V) == {Obj(f) : f \in UNION {[D -> V] : D \in MemberSets}}
Arrays(V)  == {Arr(s) : s \in BoundedSeq(V, MaxElems)}
Leaves0    == {Scalar(x) : x \in ScalarValues} \cup {Null, Arr(<<>>), Obj(<<>>)}

(* The values with at most n levels of containers. *)
RECURSIVE Values(_)
Values(n) == IF n = 0 THEN Leaves0
             ELSE Leaves0 \cup Objects(Values(n - 1)) \cup Arrays(Values(n - 1))

Bodies     == Objects(Values(Depth)) \cup Arrays(Values(Depth)) \cup {InvalidJSON}
                \cup (IF TopScalars THEN Leaves0 ELSE {})
Rules      == {[Methods |-> <<"GET">>, ResponseKeys |-> ks] : ks \in KeyPatterns}
RuleLists  == BoundedSeq(Rules, MaxRules) \ {<<>>}

Init == body \in Bodies /\ rules \in RuleLists /\ out = NoOutput

(* ServeHTTP's call filterBytes(body, matches) on a 2xx response. *)
Filtering == /\ out = NoOutput
             /\ body # InvalidJSON
             /\ out' = filterBytes(body, rules)
             /\ UNCHANGED <<body, rules>>

(* The same call on a body that does not parse. *)
ParseFailure == /\ out = NoOutput
                /\ body = InvalidJSON
                /\ out' = filterBytes(body, rules)
                /\ UNCHANGED <<body, rules>>

Next == Filtering \/ ParseFailure

Spec == Init /\ [][Next]_vars

-----------------------------------------------------------------------------
(* Values for the constants, substituted by the .cfg files. *)
PlainKeys == {<<"a">>, <<"b">>}
(* An ordinary member name and "..", which path.Clean rewrites. *)
CleanedKeys == {<<"a">>, <<".", ".">>}
(* Rules whitelisting "a", "b/*" and "a", "*/a", and anything at the top. *)
SampleKeyPatterns == {<<<<"a">>>>, <<<<"b", "/", "*">>, <<"a">>>>,
                      <<<<"*", "/", "a">>>>, <<<<"*">>>>}
(* Patterns one, two and three levels down, with stars at each level. *)
DeepKeyPatterns == {<<<<"a", "/", "*", "/", "b">>>>, <<<<"*", "/", "a">>, <<"b">>>>,
                    <<<<"a", "/", "b", "/", "*">>, <<"*", "/", "*", "/", "a">>>>,
                    <<<<"*", "/", "*">>>>}
(* A rule whitelisting "a" only. *)
OnlyA == {<<<<"a">>>>}
(* A rule whitelisting every top-level member. *)
TopMembers == {<<<<"*">>>>}

-----------------------------------------------------------------------------
(***************************************************************************)
(* Below the top level the filter keeps exactly the whitelisted leaves:   *)
(* the multiset of <<member names, value>> leaves of filterJSON's output  *)
(* equals that of the input leaves whose path.Join key-path matches a     *)
(* ResponseKeys pattern.  Wrongly pruned containers, leaked members and   *)
(* array elements filed under the wrong key-path all break it.            *)
(***************************************************************************)
FilterKeepsWhitelistedLeaves ==
  out.ok =>
    NestedLeaves(out.out)
      = ToBag(SelectSeq(LeavesAt(body, <<>>, 0),
                        LAMBDA l : l[3] > 0 /\
                          \E p \in Patterns(rules) : Match(p, KeyPath(l[1]))))

(***************************************************************************)
(* Spec 8, filter idempotence: filtering filterBytes' output again with   *)
(* the same rules gives the same value, so no container the filter        *)
(* emptied survives as an empty leaf that a second pass would drop.       *)
(***************************************************************************)
FilterIdempotent ==
  out.ok => filterBytes(out.out, rules) = out

(***************************************************************************)
(* Spec 4.3, pure whitelist: every scalar the client receives, at any     *)
(* depth, and every nested null or empty container sits at a key-path    *)
(* (member names joined by "/") that some ResponseKeys pattern matches.   *)
(***************************************************************************)
SpecWhitelist ==
  out.ok =>
    \A i \in DOMAIN LeavesAt(out.out, <<>>, 0) :
      LET l == LeavesAt(out.out, <<>>, 0)[i]
      IN  (l[2].type = "scalar" \/ l[3] > 0)
            => \E p \in Patterns(rules) : Match(p, SpecKeyPath(l[1]))

=============================================================================
