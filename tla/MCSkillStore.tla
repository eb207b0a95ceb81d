----------------------------- MODULE MCSkillStore -----------------------------
(* A small instance of SkillStore for TLC, with keys and tokens for License and
   skills and versions for Templates. *)
EXTENDS OfflineLibrary

CONSTANTS cook, a, b, e1, e2, d1, altered, k1, k2, lost

\* One table and one column stand for the four migrations.
MCMigrations == <<<<"table", "index">>, <<"column">>>>

\* Of k1 two keys are pinned, the later one counts.
MCKeySpec ==
  <<[kid |-> "k1", key |-> lost, formed |-> TRUE], [kid |-> "k1", key |-> k1, formed |-> TRUE]>>

Entry(path, kind, safe, content) ==
  [path |-> path, kind |-> kind, safe |-> safe, content |-> content]
ManifestEntry == Entry("manifest.json", "manifest", TRUE, TRUE)
ArtEntry == Entry("art.svg", "svg", TRUE, TRUE)

Unsigned(free, min_app, min_tier) ==
  [object |-> TRUE, valid |-> TRUE, id |-> cook, free |-> free, min_app |-> min_app,
   min_tier |-> min_tier, signing_key_id |-> "k1", signature |-> NoSignature]
Signed(m, key) ==
  [m EXCEPT !.signature = [formed |-> TRUE, by |-> key, over |-> CanonicalBytes(m)]]

Slim == Signed(Unsigned(TRUE, <<1, 2>>, "small"), k1)
Package(entries, m) == [entries |-> entries, manifest |-> m]

\* Two releases, the second without the art of the first, and one package for each
\* gate: not signed, another's key, a key rolled off, a price made free, a kid that is
\* not pinned, a file outside, a script, a stray file, too new, too large.
MCArchive ==
  [full |-> Package(<<ArtEntry, Entry("art", "directory", FALSE, TRUE), ManifestEntry>>,
                    Signed(Unsigned(FALSE, <<1, 2, 0>>, "mid"), k1)),
   slim |-> Package(<<ManifestEntry>>, Slim),
   unsigned |-> Package(<<ManifestEntry>>, Unsigned(TRUE, <<1>>, "small")),
   forged |-> Package(<<ManifestEntry>>, Signed(Unsigned(TRUE, <<1>>, "small"), k2)),
   stale |-> Package(<<ManifestEntry>>, Signed(Unsigned(TRUE, <<1>>, "small"), lost)),
   cheaper |-> Package(<<ManifestEntry>>,
                       [Signed(Unsigned(FALSE, <<1>>, "small"), k1) EXCEPT !.free = TRUE]),
   unpinned |-> Package(<<ManifestEntry>>, [Slim EXCEPT !.signing_key_id = "k2"]),
   outside |-> Package(<<ManifestEntry, Entry("art.svg", "svg", FALSE, TRUE)>>, Slim),
   script |-> Package(<<ManifestEntry, Entry("art.svg", "svg", TRUE, FALSE)>>, Slim),
   stray |-> Package(<<ManifestEntry, Entry("run", "other", TRUE, TRUE)>>, Slim),
   twice |-> Package(<<ManifestEntry, ManifestEntry>>, Slim),
   newer |-> Package(<<ManifestEntry>>, Signed(Unsigned(TRUE, <<1, 2, 1>>, "small"), k1)),
   larger |-> Package(<<ManifestEntry>>, Signed(Unsigned(TRUE, <<1>>, "large"), k1))]
MCPackages == DOMAIN MCArchive
MCAppVersion == <<1, 2>>

\* A kid that changes its key and its algorithm, two more kids, and bytes that are no
\* key of their algorithm.
Material(alg, name) == [alg |-> alg, name |-> name]
MCMaterials == {Material("ES256", e1), Material("ES256", e2), Material("EdDSA", d1)}
Key(kid, alg, material) == [kid |-> kid, alg |-> alg, material |-> material]
MCKeys ==
  {Key("k1", m.alg, m) : m \in MCMaterials}
  \cup {Key("k2", "ES256", Material("ES256", e2)), Key("k3", "EdDSA", Material("EdDSA", d1)),
        Key("k2", "ES256", Material("EdDSA", d1))}

Header(kid, alg) == [json |-> TRUE, typ |-> "hp-lic+jws", kid |-> kid, alg |-> alg]
Claims ==
  [iss |-> "hydropark-licensing", entitlement |-> "perpetual", exp |-> "null",
   license_id |-> "l1", sub |-> "u1", skill_id |-> "s1", version_constraint |-> ">=1.0.0",
   device_id |-> "v1"]
Payload(claims) == [json |-> TRUE, claims |-> claims]
Token(header, payload, key) ==
  [compact |-> TRUE, header |-> header, payload |-> payload,
   signature |-> [formed |-> TRUE, by |-> key, over |-> <<header, payload>>]]

\* Tokens of every key under every kid and algorithm, and one for each gate.
Plain(kid, alg, key) == Token(Header(kid, alg), Payload(Claims), key)
Mine == Plain("k1", "ES256", Material("ES256", e1))
With(header, payload) == Token(header, payload, Material("ES256", e1))
MCTokens ==
  {Plain(kid, alg, key) : kid \in {"k1", "k2", "absent"}, alg \in {"ES256", "EdDSA", "none", "absent"},
                          key \in MCMaterials}
  \cup {With([Mine.header EXCEPT !.typ = "JWT"], Mine.payload),
        With([Mine.header EXCEPT !.json = FALSE], Mine.payload),
        With(Mine.header, [Mine.payload EXCEPT !.json = FALSE]),
        [Mine EXCEPT !.compact = FALSE], [Mine EXCEPT !.signature.formed = FALSE],
        [Mine EXCEPT !.payload.claims["sub"] = altered]}
  \cup {With(Mine.header, Payload([Claims EXCEPT ![c] = "absent"])) : c \in DOMAIN Claims}
  \cup {With(Mine.header, Payload([Claims EXCEPT !["exp"] = "1999-01-01"]))}

\* Versions on both sides of a caret's ceiling, a short one and one that does not parse.
MCVersionTexts == {<<0, 1>>, <<0, 2>>, <<1, 2, 3>>, <<1, 9>>, <<2>>, <<>>}
===============================================================================
