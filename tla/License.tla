-------------------------------- MODULE License --------------------------------
(***************************************************************************)
(* The offline check of a license (license_verify.rs): the window of       *)
(* trusted keys, which forgets the oldest, and the gates of a token, as    *)
(* pure functions.  A key is of an algorithm; a signature is who made it   *)
(* and over what: it verifies for that key and those bytes only.           *)
(*   key    [kid, alg, material]            material [alg, name]           *)
(*   token  [compact, header, payload, signature]                          *)
(*   header [json, typ, kid, alg]           signature [formed, by, over]   *)
(*   payload [json, claims]                                                *)
(***************************************************************************)
EXTENDS Integers, FiniteSets, SequencesExt, Subsequences

CONSTANTS
  TrustedSetSize, \* the window; 0 for no bound
  Keys,           \* keys that may be inserted
  Tokens,         \* tokens presented
  MaxInserts      \* bound: keys inserted

ASSUME WindowAssumption == TrustedSetSize \in Nat /\ MaxInserts \in Nat

\* LicenseAlg has two members; a signature is its three fields.
ASSUME LicenseAssumption ==
  /\ \A k \in Keys : k.alg \in {"ES256", "EdDSA"}
  /\ \A t \in Tokens :
       LET s == t.signature IN
         s.formed \in BOOLEAN /\ s = [formed |-> s.formed, by |-> s.by, over |-> s.over]

-------------------------------------------------------------------------------
(* The window of keys, oldest first.                                         *)

(* A definition whose name begins with Mutant is the next one with a plausible
   bug.  No specification uses it: it shows which property the bug breaks. *)

\* A key that comes again counts twice against the window.
MutantInsert(window, key) ==
  LET all == Append(window, key) IN
    IF TrustedSetSize > 0 /\ Len(all) > TrustedSetSize
      THEN SubSeq(all, Len(all) - TrustedSetSize + 1, Len(all)) ELSE all

\* A kid that comes again is the newest; past the cap the oldest roll off.
Insert(window, key) ==
  LET others == {i \in 1..Len(window) : window[i].kid # key.kid}
      all == Append(Retained(window, others), key)
  IN
    IF TrustedSetSize > 0 /\ Len(all) > TrustedSetSize
      THEN SubSeq(all, Len(all) - TrustedSetSize + 1, Len(all)) ELSE all

\* The bytes must be a key of the algorithm they are pinned to.
IsKeyOf(key) == key.material.alg = key.alg

\* insert_spki_b64: what is no key changes nothing.
InsertSpki(window, key) == IF IsKeyOf(key) THEN Insert(window, key) ELSE window

Window(inserts) == FoldLeft(InsertSpki, <<>>, inserts)

-------------------------------------------------------------------------------
(* The gates of a token.                                                     *)

\* The bytes that are signed, exactly as received.
SigningInput(token) == <<token.header, token.payload>>

HeaderError(token) ==
  IF ~token.compact THEN "malformed_token"
  ELSE IF ~token.header.json THEN "malformed_header"
  ELSE IF token.header.typ # "hp-lic+jws" THEN "unexpected_typ"
  ELSE IF token.header.kid = "absent" THEN "missing_kid"
  ELSE "ok"

\* Against the one key the kid names: the header's alg never chooses.
SignatureError(token, key) ==
  IF token.header.alg \in {"absent", "none"} THEN "insecure_alg"
  ELSE IF token.header.alg # key.alg THEN "alg_confusion"
  ELSE IF ~token.signature.formed THEN "malformed_signature"
  ELSE IF token.signature.by # key.material \/ token.signature.over # SigningInput(token)
    THEN "bad_signature"
  ELSE "ok"

Required == {"license_id", "sub", "skill_id", "version_constraint", "device_id"}

\* build_verified_license: who is named, and that nothing expires; which device is
\* named is not looked at.
ClaimsError(payload) ==
  IF ~payload.json THEN "malformed_payload"
  ELSE IF /\ payload.claims["iss"] = "hydropark-licensing"
          /\ payload.claims["entitlement"] = "perpetual"
          /\ payload.claims["exp"] \in {"absent", "null"}
          /\ \A c \in Required : payload.claims[c] \notin {"absent", "null", "empty"}
    THEN "ok" ELSE "invalid_claims"

VerifyLicense(token, window) ==
  LET at == SelectInSeq(window, LAMBDA k : k.kid = token.header.kid) IN
    IF HeaderError(token) # "ok" THEN HeaderError(token)
    ELSE IF at = 0 THEN "unknown_kid"
    ELSE IF SignatureError(token, window[at]) # "ok" THEN SignatureError(token, window[at])
    ELSE ClaimsError(token.payload)

-------------------------------------------------------------------------------
(* What a device should take.                                                *)

\* A key of the kid and algorithm the token names made its signature over just these
\* bytes, the kid has named no other key since, and fewer than a window of other kids
\* have come after it.
Honoured(token, inserts) ==
  \E i \in 1..Len(inserts) :
    LET good == {j \in i + 1..Len(inserts) : IsKeyOf(inserts[j])}
        others == {inserts[j].kid : j \in good}
    IN /\ inserts[i].kid = token.header.kid /\ inserts[i].alg = token.header.alg
       /\ inserts[i].material.alg = token.header.alg
       /\ token.signature = [formed |-> TRUE, by |-> inserts[i].material,
                             over |-> <<token.header, token.payload>>]
       /\ inserts[i].kid \notin others
       /\ TrustedSetSize = 0 \/ Cardinality(others) < TrustedSetSize

\* What is taken although it should not be, or refused although it should be taken.
Misjudged ==
  {c \in SeqOf(Keys, MaxInserts) \X Tokens :
     (VerifyLicense(c[2], Window(c[1])) = "ok")
       # (/\ HeaderError(c[2]) = "ok" /\ ClaimsError(c[2].payload) = "ok"
          /\ Honoured(c[2], c[1]))}
================================================================================
