------------------------------ MODULE PathMatch ------------------------------
(***************************************************************************)
(* The glob matcher both engines of the proxy rely on: ServeHTTP matches  *)
(* a role's URL patterns against the request path, checkFilter matches a *)
(* rule's response-key patterns against a JSON key-path, both through Go  *)
(* path.Match.  "*" matches any run of non-"/" bytes, "?" one non-"/"     *)
(* byte, any other symbol itself.  Character classes and "\" escapes are  *)
(* not used by any role file of the repository and are left out, and with *)
(* them the ErrBadPattern panic of proxy.go:67.                           *)
(***************************************************************************)
EXTENDS Text

Star == "*"
Quest == "?"

(* A faulty matcher whose "*" also runs across "/" (a shell-style glob). *)
RECURSIVE MatchStarCrossesSlash(_, _)
MatchStarCrossesSlash(pattern, name) ==
  IF pattern = <<>> THEN name = <<>>
  ELSE CASE Head(pattern) = Star ->
              \/ MatchStarCrossesSlash(Tail(pattern), name)
              \/ name # <<>> /\ MatchStarCrossesSlash(pattern, Tail(name))
         [] Head(pattern) = Quest ->
              name # <<>> /\ Head(name) # Slash
              /\ MatchStarCrossesSlash(Tail(pattern), Tail(name))
         [] OTHER ->
              name # <<>> /\ Head(name) = Head(pattern)
              /\ MatchStarCrossesSlash(Tail(pattern), Tail(name))

(***************************************************************************)
(* path.Match(pattern, name): does the whole of name match pattern.       *)
(***************************************************************************)
RECURSIVE Match(_, _)
Match(pattern, name) ==
  IF pattern = <<>> THEN name = <<>>
  ELSE CASE Head(pattern) = Star ->
              \/ Match(Tail(pattern), name)
              \/ name # <<>> /\ Head(name) # Slash /\ Match(pattern, Tail(name))
         [] Head(pattern) = Quest ->
              name # <<>> /\ Head(name) # Slash /\ Match(Tail(pattern), Tail(name))
         [] OTHER ->
              name # <<>> /\ Head(name) = Head(pattern)
              /\ Match(Tail(pattern), Tail(name))

(***************************************************************************)
(* Reference reading of the glob (spec 4.2): the names of at most n bytes *)
(* over alphabet that a pattern generates, "*" standing for any string of *)
(* non-"/" bytes and "?" for exactly one.                                 *)
(***************************************************************************)
RECURSIVE Generated(_, _, _)
Generated(pattern, alphabet, n) ==
  IF pattern = <<>> THEN {<<>>}
  ELSE LET segment == alphabet \ {Slash}
           rest    == Generated(Tail(pattern), alphabet, n)
           heads   == CASE Head(pattern) = Star  -> BoundedSeq(segment, n)
                        [] Head(pattern) = Quest -> {<<c>> : c \in segment}
                        [] OTHER                 -> {<<Head(pattern)>>}
       IN {h \o w : h \in heads, w \in rest} \cap BoundedSeq(alphabet, n)

=============================================================================
