---------------------------- MODULE MC_PathMatch ----------------------------
(***************************************************************************)
(* Checks Match against the reference reading of the glob over every      *)
(* pattern and every name up to a length bound.  A step grows the pattern *)
(* or the name by one byte and calls path.Match on the new pair, so the   *)
(* reachable states are exactly the bounded (pattern, name) pairs.        *)
(***************************************************************************)
EXTENDS PathMatch

CONSTANTS NameAlphabet,   \* bytes a path or key-path is made of
          PatternExtra,   \* the glob metacharacters added for patterns
          MaxLen          \* longest pattern and name enumerated

VARIABLES pattern, name, matched

vars == <<pattern, name, matched>>

Patterns == BoundedSeq(NameAlphabet \cup PatternExtra, MaxLen)
Names    == BoundedSeq(NameAlphabet, MaxLen)

Init == pattern = <<>> /\ name = <<>> /\ matched = TRUE

GrowPattern == \E c \in NameAlphabet \cup PatternExtra :
                 /\ Len(pattern) < MaxLen
                 /\ pattern' = Append(pattern, c)
                 /\ matched' = Match(pattern', name)
                 /\ UNCHANGED name

GrowName == \E c \in NameAlphabet :
              /\ Len(name) < MaxLen
              /\ name' = Append(name, c)
              /\ matched' = Match(pattern, name')
              /\ UNCHANGED pattern

Next == GrowPattern \/ GrowName

Spec == Init /\ [][Next]_vars

(***************************************************************************)
(* path.Match agrees with the single-segment glob of spec 4.2: a pattern  *)
(* matches exactly the names it generates, so "*" and "?" never cross a   *)
(* "/" and a URL or key-path pattern never grants a deeper path.          *)
(***************************************************************************)
MatchAgreesWithGlob ==
  matched = (name \in Generated(pattern, NameAlphabet, MaxLen))

=============================================================================
