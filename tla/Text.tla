-------------------------------- MODULE Text --------------------------------
(***************************************************************************)
(* Byte strings as the proxy handles them.  A string is a tuple of        *)
(* one-character symbols: "/" is the path separator of path.Join and      *)
(* path.Match, "NUL" stands for the byte 0x00 that separates the fields   *)
(* of a serialized key (auth.go), every other symbol is an ordinary byte. *)
(***************************************************************************)
EXTENDS Naturals, Sequences, SequencesExt

NUL == "NUL"
Slash == "/"

(***************************************************************************)
(* bytes.Split(s, <<sep>>): the pieces of s between occurrences of sep.   *)
(* Like Go, an empty s and a trailing separator both yield an empty last  *)
(* piece, so the result always has (number of seps) + 1 pieces.            *)
(***************************************************************************)
RECURSIVE Split(_, _)
Split(s, sep) ==
  IF s = <<>> THEN << <<>> >>
  ELSE LET rest == Split(Tail(s), sep)
       IN IF Head(s) = sep
            THEN << <<>> >> \o rest
            ELSE <<<<Head(s)>> \o Head(rest)>> \o Tail(rest)

(* strings.Join(parts, sep) for a one-symbol separator. *)
JoinWith(parts, sep) ==
  FlattenSeq([i \in DOMAIN parts |->
                IF i = 1 THEN parts[i] ELSE <<sep>> \o parts[i]])

=============================================================================
