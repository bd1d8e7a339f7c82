-------------------------------- MODULE Auth --------------------------------
(***************************************************************************)
(* The token codec of auth.go.  Generate serializes a Key as the 4-byte   *)
(* big-endian uint32 of CreatedAt, each role followed by a NUL byte, then *)
(* the APIKey, and seals it with AES-GCM under a fresh random nonce,      *)
(* retrying up to MaxSealAttempts times until the output has no ':' byte. *)
(* Open authenticates and decrypts, then splits the plaintext after the   *)
(* timestamp on NUL: every piece but the last is a role, the last is the  *)
(* APIKey.                                                                *)
(*                                                                         *)
(* AES-GCM is taken as ideal authenticated encryption: a sealed token is  *)
(* a record, tagged with the secret it was sealed under, whose plaintext  *)
(* only Open under that secret can read and which nobody without         *)
(* that secret can produce or alter; whether the random output contains a  *)
(* ':' byte is a nondeterministic outcome of each attempt.  The four      *)
(* timestamp bytes are one symbol, the value modulo TimestampRange.       *)
(***************************************************************************)
EXTENDS Text

CONSTANTS MaxSealAttempts,  \* the loop bound of Generate, 100 in the code
          TimestampRange    \* 2^32, the range of uint32(CreatedAt.Unix())

(* An AES-GCM output under secret: nonce ++ ciphertext of plaintext, with or without a ':' byte. *)
Seal(plaintext, colon, secret) ==
  [kind |-> "sealed", plaintext |-> plaintext, colon |-> colon, secret |-> secret]

(* Bytes that are not the output of Seal under this secret. *)
Forged    == [kind |-> "forged"]
(* The Basic-auth user field when the token was cut at its first ':'. *)
Truncated == [kind |-> "truncated"]

GenerateFailed == [kind |-> "generate_failed"]
OpenFailed     == [kind |-> "open_failed"]

(* A serializer that joins the roles with NUL but puts none before the APIKey. *)
SerializeJoinedRoles(key) ==
  <<key.CreatedAt % TimestampRange>> \o JoinWith(key.Roles, NUL) \o key.APIKey

(***************************************************************************)
(* The plaintext Generate builds in buf.                                  *)
(***************************************************************************)
Serialize(key) ==
  <<key.CreatedAt % TimestampRange>>
    \o FlattenSeq([i \in DOMAIN key.Roles |-> key.Roles[i] \o <<NUL>>])
    \o key.APIKey

(* A Generate that returns the first sealed output, ':' or not. *)
GenerateNoColonCheck(key, colons, secret) == Seal(Serialize(key), colons[1], secret)

(***************************************************************************)
(* Generate(key, colons): colons[i] is whether the i-th attempt's output  *)
(* contains ':'.  The first output without one is returned; when every    *)
(* attempt had one, Generate fails.                                       *)
(***************************************************************************)
Generate(key, colons, secret) ==
  LET clean == {i \in 1..MaxSealAttempts : ~colons[i]}
  IN IF clean = {} THEN GenerateFailed
     ELSE Seal(Serialize(key), colons[Min(clean)], secret)

(***************************************************************************)
(* The Key Open rebuilds from an authenticated plaintext.                 *)
(***************************************************************************)
Deserialize(data) ==
  LET parts == Split(Tail(data), NUL)
  IN [CreatedAt |-> Head(data),
      Roles     |-> SubSeq(parts, 1, Len(parts) - 1),
      APIKey    |-> parts[Len(parts)]]

(***************************************************************************)
(* Open(ciphertext) under secret: anything that is not an output of Seal  *)
(* under this secret (too short, forged, altered, truncated, or sealed    *)
(* under another key) fails authentication.                               *)
(***************************************************************************)
Open(ciphertext, secret) ==
  IF ciphertext.kind # "sealed" \/ ciphertext.secret # secret THEN OpenFailed
  ELSE Deserialize(ciphertext.plaintext)

=============================================================================
