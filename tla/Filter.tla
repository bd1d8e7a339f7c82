------------------------------- MODULE Filter -------------------------------
(***************************************************************************)
(* The response filter of proxy.go: filterBytes parses the upstream body, *)
(* filterJSON walks the parsed tree keeping the key-path of object member *)
(* names (array elements add no segment), checkFilter tests a leaf's      *)
(* key-path, joined by path.Join, against every rule's ResponseKeys glob. *)
(*                                                                         *)
(* A parsed JSON value is a record: a scalar (number, string or bool, the *)
(* filter treats them alike), null, an array of values or an object, a    *)
(* function from member names (byte strings) to values.  A body that is   *)
(* not JSON is the record InvalidJSON.  Formatting of the re-serialized   *)
(* body (key order, whitespace) is left out; the one effect of            *)
(* json.Marshal the filter exposes, a nil slice becoming null, is kept.   *)
(***************************************************************************)
EXTENDS PathMatch, Bags

Scalar(x) == [type |-> "scalar", val |-> x]
Null      == [type |-> "null"]
Arr(s)    == [type |-> "array", elems |-> s]
Obj(f)    == [type |-> "object", members |-> f]
InvalidJSON == [type |-> "invalid"]

IsNonEmptyArray(v)  == v.type = "array" /\ v.elems # <<>>
IsNonEmptyObject(v) == v.type = "object" /\ DOMAIN v.members # {}

(***************************************************************************)
(* path.Clean: collapse "//", drop "." segments, let ".." remove the      *)
(* segment before it (or vanish at the root of a rooted path), and turn   *)
(* an empty result into ".".                                              *)
(***************************************************************************)
Clean(p) ==
  LET rooted == p # <<>> /\ Head(p) = Slash
      Step(stack, seg) ==
        CASE seg \in {<<>>, <<".">>} -> stack
          [] seg = <<".", ".">> /\ stack # <<>> /\ Last(stack) # <<".", ".">>
                -> Front(stack)
          [] seg = <<".", ".">> /\ rooted -> stack
          [] OTHER -> Append(stack, seg)
      out == (IF rooted THEN <<Slash>> ELSE <<>>)
               \o JoinWith(FoldLeft(Step, <<>>, Split(p, Slash)), Slash)
  IN IF out = <<>> THEN <<".">> ELSE out

(***************************************************************************)
(* path.Join(keys...): empty elements before the first non-empty one are  *)
(* skipped, the rest are joined with "/" and Cleaned; all-empty gives "". *)
(***************************************************************************)
KeyPath(keys) ==
  LET nonEmpty == {i \in DOMAIN keys : keys[i] # <<>>}
  IN IF nonEmpty = {} THEN <<>>
     ELSE Clean(JoinWith(SubSeq(keys, Min(nonEmpty), Len(keys)), Slash))

(* A checkFilter that stops after the first rule's ResponseKeys. *)
CheckFilterFirstRuleOnly(rules, keys) ==
  rules # <<>> /\
  \E j \in DOMAIN rules[1].ResponseKeys :
      Match(rules[1].ResponseKeys[j], KeyPath(keys))

(***************************************************************************)
(* checkFilter: does any ResponseKeys pattern of any rule match the       *)
(* key-path.                                                              *)
(***************************************************************************)
checkFilter(rules, keys) ==
  \E i \in DOMAIN rules : \E j \in DOMAIN rules[i].ResponseKeys :
      Match(rules[i].ResponseKeys[j], KeyPath(keys))

(* The kept values, in order, of a sequence of <<value, matched>> pairs. *)
RECURSIVE Survivors(_)
Survivors(results) ==
  IF results = <<>> THEN <<>>
  ELSE (IF Head(results)[2] THEN <<Head(results)[1]>> ELSE <<>>)
         \o Survivors(Tail(results))

RECURSIVE filterJSON(_, _, _)

(* A filterJSON that reports a container as kept even with no survivors. *)
FilterJSONKeepsEmpty(v, rules, keys) ==
  CASE IsNonEmptyArray(v) ->
         <<Arr(Survivors([i \in DOMAIN v.elems |->
                            filterJSON(v.elems[i], rules, keys)])), TRUE>>
    [] IsNonEmptyObject(v) ->
         LET res  == [k \in DOMAIN v.members |->
                        filterJSON(v.members[k], rules, Append(keys, k))]
             kept == {k \in DOMAIN res : res[k][2]}
         IN <<Obj([k \in kept |-> res[k][1]]), TRUE>>
    [] OTHER -> <<v, checkFilter(rules, keys)>>

(***************************************************************************)
(* filterJSON(v, rules, keys) = <<filtered value, matched>>.  A non-empty *)
(* array keeps the elements that matched, under the same key-path; when   *)
(* none did its nil slice marshals as null.  A non-empty object keeps the *)
(* members that matched under keys + name.  Anything else, empty          *)
(* containers included, is a leaf tested by checkFilter.                  *)
(***************************************************************************)
filterJSON(v, rules, keys) ==
  CASE IsNonEmptyArray(v) ->
         LET kept == Survivors([i \in DOMAIN v.elems |->
                                  filterJSON(v.elems[i], rules, keys)])
         IN IF kept = <<>> THEN <<Null, FALSE>> ELSE <<Arr(kept), TRUE>>
    [] IsNonEmptyObject(v) ->
         LET res  == [k \in DOMAIN v.members |->
                        filterJSON(v.members[k], rules, Append(keys, k))]
             kept == {k \in DOMAIN res : res[k][2]}
         IN <<Obj([k \in kept |-> res[k][1]]), kept # {}>>
    [] OTHER -> <<v, checkFilter(rules, keys)>>

(***************************************************************************)
(* filterBytes: json.Unmarshal, filterJSON from the empty key-path, then  *)
(* json.Marshal of the filtered value whether or not it matched.  Returns *)
(* [ok, out]; ok is FALSE when the body does not parse.                   *)
(***************************************************************************)
filterBytes(input, rules) ==
  IF input = InvalidJSON THEN [ok |-> FALSE, out |-> input]
  ELSE [ok |-> TRUE, out |-> filterJSON(input, rules, <<>>)[1]]

-----------------------------------------------------------------------------
(***************************************************************************)
(* The leaves of a value: <<keys, value, depth>> for every scalar, null   *)
(* or empty container, keys the member names on the way down and depth    *)
(* the number of containers above it.                                     *)
(***************************************************************************)
RECURSIVE LeavesAt(_, _, _)
LeavesAt(v, keys, depth) ==
  CASE IsNonEmptyArray(v) ->
         FlattenSeq([i \in DOMAIN v.elems |-> LeavesAt(v.elems[i], keys, depth + 1)])
    [] IsNonEmptyObject(v) ->
         LET names == SetToSeq(DOMAIN v.members)
         IN FlattenSeq([i \in DOMAIN names |->
                LeavesAt(v.members[names[i]], Append(keys, names[i]), depth + 1)])
    [] OTHER -> << <<keys, v, depth>> >>

(* The leaves below the top level, as a multiset. *)
NestedLeaves(v) == ToBag(SelectSeq(LeavesAt(v, <<>>, 0), LAMBDA l : l[3] > 0))

(* The key-path spec 4.3 defines: the member names joined by "/". *)
SpecKeyPath(keys) == JoinWith(keys, Slash)

(* Every ResponseKeys pattern of a rule sequence. *)
Patterns(rules) == UNION {ToSet(rules[i].ResponseKeys) : i \in DOMAIN rules}

=============================================================================
