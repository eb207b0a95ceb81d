------------------------------ MODULE SkillPackage ------------------------------
(***************************************************************************)
(* A skill package and the gates an install passes, as pure functions:     *)
(* opening the archive (hpskill.rs), the signature of its manifest         *)
(* (package_verify.rs), and a skill's place in its lifecycle with the      *)
(* compatibility gate (skill_manager.rs).  A signature is who made it and  *)
(* over what: it verifies for that key and that content only.  A version   *)
(* is what is between the dots.                                            *)
(*   archive   [entries, manifest]                                         *)
(*   entry     [path, kind, safe, content]                                 *)
(*   manifest  [object, valid, id, free, min_app, min_tier,                *)
(*              signing_key_id, signature]                                 *)
(*   signature [formed, by, over]                                          *)
(***************************************************************************)
EXTENDS Integers, FiniteSets, SequencesExt

CONSTANTS
  KeySpec,      \* HYDROPARK_PACKAGE_SIGNING_KEYS: a sequence of [kid, key, formed]
  AppVersion,   \* of the host, <<major, minor, patch>>
  DeviceTier,   \* of the host: the size of its model
  NoSignature   \* a manifest without a signature or a key id

ASSUME KeysAssumption == Len(KeySpec) \in Nat

-------------------------------------------------------------------------------
(* The signature.                                                            *)

\* The 44 bytes of an Ed25519 key.
IsKey(e) == e.formed

\* from_env: one entry that is no key leaves the client with no keys at all.
TrustedKeys ==
  IF \A i \in 1..Len(KeySpec) : IsKey(KeySpec[i])
    THEN [kid \in {KeySpec[i].kid : i \in 1..Len(KeySpec)} |->
            KeySpec[SelectLastInSeq(KeySpec, LAMBDA e : e.kid = kid)].key]
    ELSE <<>>

\* What is signed: all but the signature and the name of its key.
CanonicalBytes(manifest) ==
  [f \in DOMAIN manifest \ {"signature", "signing_key_id"} |-> manifest[f]]

Verify(manifest) ==
  LET kid == manifest.signing_key_id  sig == manifest.signature IN
  IF kid = NoSignature \/ sig = NoSignature THEN "missing_signature"
  ELSE IF ~sig.formed THEN "malformed_signature"
  ELSE IF kid \notin DOMAIN TrustedKeys THEN "unknown_kid"
  ELSE IF sig.by = TrustedKeys[kid] /\ sig.over = CanonicalBytes(manifest) THEN "ok"
  ELSE "signature_mismatch"

-------------------------------------------------------------------------------
(* The archive.                                                              *)

\* safe_relative_path, then the kind of the entry decides what its content must be.
EntryError(e) ==
  CASE ~e.safe -> "unsafe_path"
    [] e.safe /\ e.kind = "svg" /\ ~e.content -> "unsafe_svg"
    [] e.safe /\ e.kind = "strings" /\ ~e.content -> "bad_strings"
    [] e.safe /\ e.kind = "other" -> "unexpected_entry"
    [] OTHER -> "ok"

\* Directories carry nothing and are passed over.
Refused(e) == e.kind # "directory" /\ EntryError(e) # "ok"

Manifests(archive) ==
  Cardinality({i \in 1..Len(archive.entries) : archive.entries[i].kind = "manifest"})

\* open_bytes, its errors in order but that a second manifest comes after a bad entry.
OpenError(archive) ==
  LET bad == SelectInSeq(archive.entries, Refused) IN
  IF bad # 0 THEN EntryError(archive.entries[bad])
  ELSE IF Manifests(archive) > 1 THEN "unexpected_entry"
  ELSE IF Manifests(archive) = 0 THEN "missing_manifest"
  ELSE IF ~archive.manifest.object THEN "manifest_not_json"
  ELSE Verify(archive.manifest)

\* extract_to writes the manifest, then the pictures, then the strings, each kind as
\* the archive has it.
KindRank == [manifest |-> 1, svg |-> 2, strings |-> 3]
Extracted(archive) ==
  {i \in 1..Len(archive.entries) : archive.entries[i].kind \in DOMAIN KindRank}
Precedes(archive, i, j) ==
  LET one == KindRank[archive.entries[i].kind]  other == KindRank[archive.entries[j].kind]
  IN one < other \/ (one = other /\ i < j)
FirstOf(archive, todo) == CHOOSE i \in todo : \A j \in todo : ~Precedes(archive, j, i)

-------------------------------------------------------------------------------
(* The lifecycle of a skill.                                                 *)

\* What is left out of a version is zero.
SemVer(parts) == [i \in 1..3 |-> IF i <= Len(parts) THEN parts[i] ELSE 0]

\* The derived order: the first part that differs decides.
Newer(one, other) ==
  \E i \in 1..3 : one[i] > other[i] /\ \A j \in 1..i - 1 : one[j] = other[j]

TierRank == [small |-> 0, mid |-> 1, large |-> 2]

NewEntry(manifest) ==
  [free |-> manifest.free, entitled |-> FALSE, installed |-> FALSE,
   min_app |-> SemVer(manifest.min_app), min_tier |-> manifest.min_tier]

MarkOwned(entry) == [entry EXCEPT !.entitled = ~entry.free]
IsOwned(entry) == entry.free \/ entry.entitled

\* The app is new enough and the model large enough.
Compatible(entry) ==
  ~Newer(entry.min_app, SemVer(AppVersion)) /\ TierRank[entry.min_tier] <= TierRank[DeviceTier]

LifecycleState(entry) ==
  IF ~IsOwned(entry) THEN "not_owned"
  ELSE IF entry.installed THEN "installed_disabled" ELSE "owned_not_installed"

\* SkillEntry::install, which leaves an entry it refuses as it is.
InstallEntry(entry) ==
  [entry EXCEPT !.installed = @ \/ (IsOwned(entry) /\ Compatible(entry))]
UninstallEntry(entry) == [entry EXCEPT !.installed = FALSE]

\* install_bytes up to its first write.
InstallError(archive, bought) ==
  LET fresh == NewEntry(archive.manifest)
      entry == IF archive.manifest.free \/ bought THEN MarkOwned(fresh) ELSE fresh
  IN IF OpenError(archive) # "ok" THEN OpenError(archive)
     ELSE IF ~archive.manifest.valid THEN "manifest"
     ELSE IF ~IsOwned(entry) THEN "not_owned"
     ELSE IF ~Compatible(entry) THEN "incompatible"
     ELSE "ok"
===============================================================================
