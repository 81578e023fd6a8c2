----------------------------- MODULE Canonical ------------------------------
(***************************************************************************)
(* The one text of a JSON value (evidence/canonical.ts) and the signatures *)
(* over it (evidence/signer.ts).                                           *)
(*                                                                         *)
(* A value is a record by its JavaScript type; an object's fields are in   *)
(* the order they were inserted.  A text is a sequence of tokens.  Only    *)
(* the holder of a key can make a signature with it.                       *)
(***************************************************************************)
EXTENDS Integers, Sequences, SequencesExt, Functions, TLC

-----------------------------------------------------------------------------
(* Values *)

Atom(json) == [type |-> "atom", json |-> json]           \* null, boolean, number, string
Unfit(kind) == [type |-> "unfit", kind |-> kind]         \* NaN, -0, a bigint, a function
Undefined == [type |-> "undefined"]
Date(iso) == [type |-> "date", iso |-> iso]              \* of one that is valid
Ancestor == [type |-> "ancestor"]                        \* an object that contains this place
ArrayOf(items) == [type |-> "array", items |-> items]
ObjectOf(fields) == [type |-> "object", fields |-> fields]  \* records [key, value]

-----------------------------------------------------------------------------
(* canonicalize *)

Written(text) == [ok |-> TRUE, text |-> text]
CanonicalizationError == [ok |-> FALSE]

Join(parts) ==
  FlattenSeq([i \in DOMAIN parts |-> IF i = 1 THEN parts[i] ELSE <<",">> \o parts[i]])

\* Seeded fault: the fields are written in the order they were inserted.
FieldsInOrder(fields) == SelectSeq(fields, LAMBDA f : f.value # Undefined)

\* Fields by key; those that are undefined are left out.
FieldsSorted(fields) ==
  SortSeq(SelectSeq(fields, LAMBDA f : f.value # Undefined), LAMBDA f, g : f.key < g.key)

RECURSIVE Write(_)
Write(value) ==
  CASE value.type = "atom" -> Written(<<value.json>>)
    [] value.type = "date" -> Written(<<value.iso>>)
    [] value.type \in {"unfit", "undefined", "ancestor"} -> CanonicalizationError
    [] value.type = "array" ->
         LET parts == [i \in DOMAIN value.items |-> Write(value.items[i])]
         IN  IF \E i \in DOMAIN parts : ~parts[i].ok THEN CanonicalizationError
             ELSE Written(<<"[">> \o Join([i \in DOMAIN parts |-> parts[i].text]) \o <<"]">>)
    [] value.type = "object" ->
         LET fields == FieldsSorted(value.fields)
             parts == [i \in DOMAIN fields |-> Write(fields[i].value)]
         IN  IF \E i \in DOMAIN parts : ~parts[i].ok THEN CanonicalizationError
             ELSE Written(<<"{">> \o Join([i \in DOMAIN parts |->
                            <<ToString(fields[i].key), ":">> \o parts[i].text]) \o <<"}">>)

Canonicalize(value) == Write(value)

-----------------------------------------------------------------------------
(* Signing and verifying *)

Sign(payload, keyId) ==
  LET canonical == Canonicalize(payload)
  IN  IF ~canonical.ok THEN [signed |-> FALSE]
      ELSE [signed |-> TRUE, payload |-> payload,
            signature |-> [algorithm |-> "ed25519", keyId |-> keyId,
                           value |-> [key |-> keyId, over |-> canonical.text]]]

\* The first thing wrong, or "none".  A public key names its private one.
VerifySignature(envelope, publicKey) ==
  LET canonical == Canonicalize(envelope.payload)
  IN  IF envelope.signature.algorithm # "ed25519" THEN "algorithm"
      ELSE IF ~canonical.ok THEN "cannot be canonicalized"
      ELSE IF ~publicKey.usable THEN "unusable public key"
      ELSE IF publicKey.type # "ed25519" THEN "key type"
      ELSE IF envelope.signature.value # [key |-> publicKey.of, over |-> canonical.text]
      THEN "does not match"
      ELSE "none"

-----------------------------------------------------------------------------
(* JSON itself *)

\* JSON.parse(JSON.stringify(value)): dates become strings, undefined items null, and
\* what JSON cannot hold becomes null, or 0 for -0.
RECURSIVE Transported(_)
Transported(value) ==
  CASE value.type = "atom" -> value
    [] value.type = "date" -> Atom(value.iso)
    [] value.type \in {"unfit", "undefined", "ancestor"} -> Atom("null")
    [] value.type = "array" ->
         ArrayOf([i \in DOMAIN value.items |-> Transported(value.items[i])])
    [] value.type = "object" ->
         LET fields == SelectSeq(value.fields, LAMBDA f : f.value # Undefined)
         IN  ObjectOf([i \in DOMAIN fields |->
               [key |-> fields[i].key, value |-> Transported(fields[i].value)]])

\* What a JSON value means: an object is a function, whatever its order.
RECURSIVE Meaning(_)
Meaning(value) ==
  CASE value.type = "atom" -> <<"atom", value.json>>
    [] value.type = "date" -> <<"atom", value.iso>>
    [] value.type \in {"unfit", "undefined", "ancestor"} -> <<"nothing">>
    [] value.type = "array" ->
         <<"array", [i \in DOMAIN value.items |-> Meaning(value.items[i])]>>
    [] value.type = "object" ->
         <<"object", {<<f.key, Meaning(f.value)>> :
                        f \in {g \in Range(value.fields) : g.value # Undefined}}>>

\* Some part of it is not JSON.
RECURSIVE Unrepresentable(_)
Unrepresentable(value) ==
  CASE value.type \in {"atom", "date"} -> FALSE
    [] value.type \in {"unfit", "undefined", "ancestor"} -> TRUE
    [] value.type = "array" -> \E item \in Range(value.items) : Unrepresentable(item)
    [] value.type = "object" ->
         \E f \in Range(value.fields) : f.value # Undefined /\ Unrepresentable(f.value)

-----------------------------------------------------------------------------
(* What a signature promises *)

\* A value has a text exactly when all of it is JSON, two values share one exactly when
\* they mean the same, whatever the order of their keys, and travelling as JSON changes
\* neither; so a signature still holds for the copy a reader received, for no payload
\* that means anything else, and under no other key.
SignatureStands(value, other, keyId, otherKey) ==
  LET text == Canonicalize(value)
      otherText == Canonicalize(other)
      envelope == Sign(value, keyId)
      Key(id) == [usable |-> TRUE, type |-> "ed25519", of |-> id]
  IN  /\ text.ok <=> ~Unrepresentable(value)
      /\ text.ok /\ otherText.ok =>
           (text.text = otherText.text <=> Meaning(value) = Meaning(other))
      /\ envelope.signed <=> text.ok
      /\ envelope.signed =>
           /\ VerifySignature([envelope EXCEPT !.payload = Transported(value)],
                              Key(keyId)) = "none"
           /\ VerifySignature([envelope EXCEPT !.payload = other], Key(keyId)) = "none" =>
                Meaning(other) = Meaning(value)
           /\ VerifySignature(envelope, Key(otherKey)) = "none" => otherKey = keyId
           /\ VerifySignature([envelope EXCEPT !.signature.algorithm = "other"],
                              Key(keyId)) # "none"

=============================================================================
