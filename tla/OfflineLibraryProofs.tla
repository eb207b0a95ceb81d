-------------------------- MODULE OfflineLibraryProofs --------------------------
(***************************************************************************)
(* What holds of the skill store for any skills, packages, pinned keys,    *)
(* commands in flight, failures and crashes; of the license check for any  *)
(* keys inserted and any tokens; and of templates for any agents, rows and *)
(* versions on offer.                                                      *)
(***************************************************************************)
EXTENDS OfflineLibrary, FiniteSetTheorems, WellFoundedInduction, TLAPS

-------------------------------------------------------------------------------
(* Numbers.                                                                  *)

\* A set of natural numbers that is not empty has a least number.
LEMMA LeastNat ==
  ASSUME NEW S \in SUBSET Nat, S # {}
  PROVE  \E n \in S : \A m \in S : n <= m
<1>1. PICK x \in S : \A y \in S : ~ (<<y, x>> \in OpToRel(<, Nat))
  BY NatLessThanWellFounded, WFMin
<1>2. ASSUME NEW y \in S PROVE x <= y
  <2>1. SUFFICES ASSUME y < x PROVE FALSE
    OBVIOUS
  <2>2. <<y, x>> \in Nat \X Nat /\ <<y, x>>[1] < <<y, x>>[2]
    BY <2>1
  <2>3. <<y, x>> \in OpToRel(<, Nat)
    BY <2>2 DEF OpToRel
  <2> QED
    BY <1>1, <2>3
<1> QED
  BY <1>2

\* A set of numbers up to n that is not empty has a least and a greatest number.
LEMMA Extremes ==
  ASSUME NEW n \in Nat, NEW S \in SUBSET (1..n), S # {}
  PROVE  /\ Min(S) \in S /\ \A y \in S : Min(S) <= y
         /\ Max(S) \in S /\ \A y \in S : Max(S) >= y
<1>1. \E x \in S : \A y \in S : x <= y
  <2>1. S \in SUBSET Nat
    OBVIOUS
  <2> QED
    BY <2>1, LeastNat
<1>2. \E x \in S : \A y \in S : x >= y
  <2> DEFINE T == {n - x : x \in S}
  <2>1. T \in SUBSET Nat /\ T # {}
    <3>1. ASSUME NEW x \in S PROVE n - x \in Nat
      OBVIOUS
    <3> QED
      BY <3>1
  <2>2. PICK z \in T : \A y \in T : z <= y
    <3> HIDE DEF T
    <3> QED
      BY <2>1, LeastNat
  <2>3. PICK x \in S : z = n - x
    OBVIOUS
  <2>4. ASSUME NEW y \in S PROVE x >= y
    <3>1. n - y \in T
      OBVIOUS
    <3>2. z <= n - y
      <4> HIDE DEF T
      <4> QED
        BY <2>2, <3>1
    <3>3. x \in 1..n /\ y \in 1..n
      OBVIOUS
    <3> QED
      BY <2>3, <3>2, <3>3
  <2> QED
    BY <2>4
<1> QED
  BY <1>1, <1>2 DEF Min, Max

-------------------------------------------------------------------------------
(* The gates of a package.                                                   *)

\* The key of a kid is the key of an entry of that kid.
LEMMA KeyIsPinned ==
  ASSUME NEW kid \in DOMAIN TrustedKeys
  PROVE  \E i \in 1..Len(KeySpec) : KeySpec[i].kid = kid /\ KeySpec[i].key = TrustedKeys[kid]
<1> DEFINE I == {i \in 1..Len(KeySpec) : KeySpec[i].kid = kid}
<1>1. CASE ~ \A i \in 1..Len(KeySpec) : IsKey(KeySpec[i])
  <2>1. TrustedKeys = <<>>
    BY <1>1 DEF TrustedKeys
  <2> QED
    BY <2>1
<1>2. CASE \A i \in 1..Len(KeySpec) : IsKey(KeySpec[i])
  <2>1. TrustedKeys = [k \in {KeySpec[i].kid : i \in 1..Len(KeySpec)} |->
            KeySpec[SelectLastInSeq(KeySpec, LAMBDA e : e.kid = k)].key]
    BY <1>2, Zenon DEF TrustedKeys
  <2>2. kid \in {KeySpec[i].kid : i \in 1..Len(KeySpec)}
    BY <2>1
  <2>3. TrustedKeys[kid] = KeySpec[SelectLastInSeq(KeySpec, LAMBDA e : e.kid = kid)].key
    BY <2>1, <2>2
  <2>4. I # {} /\ I \in SUBSET (1..Len(KeySpec))
    BY <2>2
  <2>5. SelectLastInSeq(KeySpec, LAMBDA e : e.kid = kid) = Max(I)
    BY <2>4, Zenon DEF SelectLastInSeq
  <2>6. Max(I) \in I
    BY <2>4, KeysAssumption, Extremes
  <2> QED
    BY <2>3, <2>5, <2>6
<1> QED
  BY <1>1, <1>2

\* open_bytes lets no entry through that its kind does not allow.
LEMMA NothingRefused ==
  ASSUME NEW p \in Packages, OpenError(Archive[p]) = "ok"
  PROVE  /\ Verify(Archive[p].manifest) = "ok"
         /\ \A i \in 1..Len(Archive[p].entries) : ~Refused(Archive[p].entries[i])
<1> DEFINE entries == Archive[p].entries
           I == {i \in 1..Len(entries) : Refused(entries[i])}
           bad == SelectInSeq(entries, Refused)
<1>1. bad = IF I # {} THEN Min(I) ELSE 0
  BY Zenon DEF SelectInSeq
<1>2. CASE I # {}
  <2>1. I \in SUBSET (1..Len(entries)) /\ Len(entries) \in Nat
    BY PackagesAssumption
  <2>2. Min(I) \in I
    BY <1>2, <2>1, Extremes
  <2>3. bad \in I /\ bad # 0
    BY <1>1, <1>2, <2>1, <2>2
  <2>4. OpenError(Archive[p]) = EntryError(entries[bad])
    BY <2>3 DEF OpenError
  <2>5. EntryError(entries[bad]) # "ok"
    BY <2>3 DEF Refused
  <2> QED
    BY <2>4, <2>5
<1>3. CASE I = {}
  <2>1. bad = 0
    BY <1>1, <1>3
  <2> HIDE DEF bad
  <2>2. OpenError(Archive[p]) = IF Manifests(Archive[p]) > 1 THEN "unexpected_entry"
          ELSE IF Manifests(Archive[p]) = 0 THEN "missing_manifest"
          ELSE IF ~Archive[p].manifest.object THEN "manifest_not_json"
          ELSE Verify(Archive[p].manifest)
    BY <2>1, Zenon DEF OpenError, bad
  <2>3. Verify(Archive[p].manifest) = "ok"
    BY <2>2
  <2> QED
    BY <1>3, <2>3
<1> QED
  BY <1>2, <1>3

\* A signature that verifies is one of the owner of a pinned key over this manifest.
LEMMA VerifiedIsGenuine ==
  ASSUME NEW p \in Packages, Verify(Archive[p].manifest) = "ok"
  PROVE  Genuine(Archive[p])
<1> DEFINE m == Archive[p].manifest
<1>1. /\ m.signing_key_id # NoSignature /\ m.signature # NoSignature
      /\ m.signing_key_id \in DOMAIN TrustedKeys
      /\ m.signature.by = TrustedKeys[m.signing_key_id]
      /\ m.signature.over = CanonicalBytes(m)
  BY DEF Verify
<1>2. \A f \in DOMAIN m \ {"signature", "signing_key_id"} : m.signature.over[f] = m[f]
  BY <1>1 DEF CanonicalBytes
<1>3. PICK i \in 1..Len(KeySpec) : /\ KeySpec[i].kid = m.signing_key_id
                                   /\ KeySpec[i].key = TrustedKeys[m.signing_key_id]
  BY <1>1, KeyIsPinned
<1> HIDE DEF m
<1>4. /\ m.signature # NoSignature /\ m.signing_key_id = KeySpec[i].kid
      /\ m.signature.by = KeySpec[i].key
      /\ \A f \in DOMAIN m \ {"signature", "signing_key_id"} : m.signature.over[f] = m[f]
  BY <1>1, <1>2, <1>3
<1> QED
  BY <1>4, Zenon DEF Genuine, m

\* What passes the gates is sound, and free where it was not bought.
LEMMA GatesAreSound ==
  ASSUME NEW p \in Packages, NEW bought \in BOOLEAN, InstallError(Archive[p], bought) = "ok"
  PROVE  p \in Sound /\ (p \in Free \/ bought) /\ Compatible(OwnedEntry[p])
<1> DEFINE m == Archive[p].manifest
           fresh == NewEntry(m)
           entry == IF m.free \/ bought THEN MarkOwned(fresh) ELSE fresh
<1>1. /\ OpenError(Archive[p]) = "ok" /\ m.valid /\ IsOwned(entry) /\ Compatible(entry)
  BY DEF InstallError
<1>2. Genuine(Archive[p])
  BY <1>1, NothingRefused, VerifiedIsGenuine
<1>3. Harmless(Archive[p])
  <2>1. \A i \in 1..Len(Archive[p].entries) : ~Refused(Archive[p].entries[i])
    BY <1>1, NothingRefused
  <2>2. ASSUME NEW i \in 1..Len(Archive[p].entries), Archive[p].entries[i].kind # "directory"
        PROVE  /\ Archive[p].entries[i].safe /\ Archive[p].entries[i].kind # "other"
               /\ Archive[p].entries[i].kind \in {"svg", "strings"} =>
                    Archive[p].entries[i].content
    <3>1. EntryError(Archive[p].entries[i]) = "ok"
      BY <2>1, <2>2 DEF Refused
    <3> QED
      BY <3>1 DEF EntryError
  <2> QED
    BY <2>2 DEF Harmless
<1>4. m.free \in BOOLEAN
  BY PackagesAssumption
<1>5. m.free \/ bought
  BY <1>1, <1>4 DEF IsOwned, NewEntry
<1>6. entry = OwnedEntry[p]
  BY <1>5 DEF OwnedEntry
<1>7. /\ OwnedEntry[p].min_app = SemVer(m.min_app) /\ OwnedEntry[p].min_tier = m.min_tier
  BY DEF OwnedEntry, MarkOwned, NewEntry
<1>8. /\ TierRank[m.min_tier] <= TierRank[DeviceTier]
      /\ ~Newer(SemVer(m.min_app), SemVer(AppVersion))
  BY <1>1, <1>6, <1>7 DEF Compatible
<1> QED
  BY <1>1, <1>2, <1>3, <1>5, <1>6, <1>8 DEF Sound, Free

-------------------------------------------------------------------------------
(* The invariant.                                                            *)

\* The packages that may be in the store under skill s when those of g were ever owned.
May(s, g) == {p \in Packages : IdOf(p) = s /\ p \in Sound /\ (p \in Free \/ s \in g)}

StoreTypeOK ==
  /\ row \in [Skills -> Packages \cup {None}]
  /\ dir \in [Skills -> [FileNames -> Packages \cup {None}]]
  /\ registry \in [Skills -> Entries \cup {None}]
  /\ entitled \subseteq granted /\ granted \subseteq Skills
  /\ unlock \in UnlockType /\ unlocked \in BOOLEAN /\ kept \in BOOLEAN
  /\ task \in [Tasks -> TaskType]

HoldsOnlyAllowed ==
  \A s \in Skills : /\ row[s] \in May(s, granted) \cup {None}
                    /\ \A f \in FileNames : dir[s][f] \in May(s, granted) \cup {None}

InstallSteps == {"extract", "register", "save"}
UninstallSteps == {"remove", "forget"}

\* The record of a command knows what it is doing: an install carries a package that
\* passed the gates, an uninstall its skill, and no command is an idle record.
Knows(k, g) ==
  /\ k.pc = "idle" => k = NoTask
  /\ k.pc \in InstallSteps =>
       k.kind \in {"install", "download"} /\ k.skill \in Skills /\ k.pkg \in May(k.skill, g)
  /\ k.pc \in UninstallSteps => k.kind = "uninstall" /\ k.skill \in Skills

\* The files of p are in the directory but for those of the entries still to do.
Written(p, files, todo) ==
  \A f \in Files[p] : files[f] = p \/ \E i \in todo : Archive[p].entries[i].path = f

\* How far a command that is alone has come with the directory and the registry entry of
\* its skill.
Come(k, files, entry) ==
  k.alone =>
    /\ k.pc = "extract" => Written(k.pkg, files, k.todo)
    /\ k.pc \in {"register", "save"} => Written(k.pkg, files, {})
    /\ k.pc = "save" => entry # None /\ entry.installed
    /\ k.pc \in UninstallSteps => entry = None \/ ~entry.installed
    /\ k.pc = "forget" => \A f \in FileNames : files[f] = None

TasksKnow == \A t \in Tasks : Knows(task[t], granted)
TasksCome == \A t \in Tasks : Come(task[t], dir[task[t].skill], registry[task[t].skill])

OneSync ==
  \A t, u \in Tasks : task[t].kind \in SyncKinds /\ task[u].kind \in SyncKinds => t = u
OffIsIdle == process # "up" => \A t \in Tasks : task[t] = NoTask

\* Of two commands of one skill neither is alone.
AloneIsAlone ==
  \A t, u \in Tasks : t # u /\ task[t].skill = task[u].skill /\ task[t].skill # None =>
    ~task[t].alone

TasksSound == TasksKnow /\ TasksCome /\ OneSync /\ OffIsIdle /\ AloneIsAlone

\* What was written is in the file unless a write is under way.
UnlockLasts ==
  kept =>
    /\ unlock.unlocked \/ \E t \in Tasks : task[t].pc = "write"
    /\ unlock.torn => \E t \in Tasks : task[t].pc = "write"
    /\ process = "up" => unlocked \/ \E t \in Tasks : task[t].pc = "flag"

SInv == StoreTypeOK /\ HoldsOnlyAllowed /\ TasksSound /\ UnlockLasts

-------------------------------------------------------------------------------
(* Facts about the records.                                                  *)

\* The entry of a package, installed or not, is one the registry can hold.
LEMMA EntryOf ==
  ASSUME NEW p \in Packages, NEW b \in BOOLEAN
  PROVE  [OwnedEntry[p] EXCEPT !.installed = b] \in Entries
BY DEF Entries

\* An entry of the registry is owned, and its state says whether it is installed.
LEMMA EntryFacts ==
  ASSUME NEW e \in Entries
  PROVE  /\ e # None /\ e.installed \in BOOLEAN
         /\ LifecycleState(e) = IF e.installed THEN "installed_disabled" ELSE "owned_not_installed"
         /\ UninstallEntry(e) \in Entries /\ ~UninstallEntry(e).installed
<1>1. PICK p \in Packages, b \in BOOLEAN : e = [OwnedEntry[p] EXCEPT !.installed = b]
  BY DEF Entries
<1> DEFINE m == Archive[p].manifest
<1>2. OwnedEntry[p] = [free |-> m.free, entitled |-> ~m.free, installed |-> FALSE,
                       min_app |-> SemVer(m.min_app), min_tier |-> m.min_tier]
  BY DEF OwnedEntry, MarkOwned, NewEntry
<1>3. m.free \in BOOLEAN
  BY PackagesAssumption
<1> HIDE DEF m
<1>4. e.installed = b /\ e.free = m.free /\ e.entitled = ~m.free
  BY <1>1, <1>2
<1>5. UninstallEntry(e) = [OwnedEntry[p] EXCEPT !.installed = FALSE]
  BY <1>1, <1>2 DEF UninstallEntry
<1>6. UninstallEntry(e) \in Entries
  <2>1. [OwnedEntry[p] EXCEPT !.installed = FALSE] \in Entries
    BY EntryOf
  <2> QED
    BY <1>5, <2>1
<1>7. ~UninstallEntry(e).installed
  BY <1>2, <1>5
<1>8. IsOwned(e)
  BY <1>3, <1>4 DEF IsOwned
<1>9. e # None
  BY EntriesAssumption
<1> QED
  BY <1>4, <1>6, <1>7, <1>8, <1>9 DEF LifecycleState

\* What install makes of the entry of a sound package, and what a restart makes of a row.
LEMMA InstalledEntry ==
  ASSUME NEW p \in Packages
  PROVE  /\ [OwnedEntry[p] EXCEPT !.installed = TRUE] \in Entries
         /\ p \in Sound => /\ InstallEntry(OwnedEntry[p]) \in Entries
                           /\ InstallEntry(OwnedEntry[p]).installed
<1> DEFINE m == Archive[p].manifest
<1>1. OwnedEntry[p] = [free |-> m.free, entitled |-> ~m.free, installed |-> FALSE,
                       min_app |-> SemVer(m.min_app), min_tier |-> m.min_tier]
  BY DEF OwnedEntry, MarkOwned, NewEntry
<1>2. m.free \in BOOLEAN
  BY PackagesAssumption
<1>3. [OwnedEntry[p] EXCEPT !.installed = TRUE] \in Entries
  BY EntryOf
<1>4. ASSUME p \in Sound PROVE InstallEntry(OwnedEntry[p]) = [OwnedEntry[p] EXCEPT !.installed = TRUE]
  <2>1. /\ TierRank[m.min_tier] <= TierRank[DeviceTier]
        /\ ~Newer(SemVer(m.min_app), SemVer(AppVersion))
    BY <1>4 DEF Sound
  <2> HIDE DEF m
  <2>2. Compatible(OwnedEntry[p])
    BY <1>1, <2>1 DEF Compatible
  <2>3. IsOwned(OwnedEntry[p])
    <3>1. OwnedEntry[p].free = m.free /\ OwnedEntry[p].entitled = ~m.free
      BY <1>1
    <3> QED
      BY <1>2, <3>1 DEF IsOwned
  <2>4. InstallEntry(OwnedEntry[p]) = [OwnedEntry[p] EXCEPT !.installed = OwnedEntry[p].installed \/ TRUE]
    BY <2>2, <2>3 DEF InstallEntry
  <2> QED
    BY <1>1, <2>4
<1>5. [OwnedEntry[p] EXCEPT !.installed = TRUE].installed
  BY <1>1
<1> QED
  BY <1>3, <1>4, <1>5

\* An accepted package may be in the store.
LEMMA AcceptedMay ==
  ASSUME NEW p \in Packages, Accepted(p), entitled \subseteq granted
  PROVE  p \in May(IdOf(p), granted)
<1>1. CASE p \in ForAnyone
  BY <1>1, GatesAreSound DEF ForAnyone, May
<1>2. CASE p \in ForBuyers /\ IdOf(p) \in entitled
  BY <1>2, GatesAreSound DEF ForBuyers, May
<1> QED
  BY <1>1, <1>2 DEF Accepted

\* The fields of a record of a command.
LEMMA TaskFields ==
  ASSUME NEW k \in TaskType, NEW pc \in {"idle", "extract", "register", "save", "remove", "forget",
                                        "read", "truncate", "write", "flag"}
  PROVE  /\ k.skill \in Skills \cup {None} /\ k.pkg \in Packages \cup {None}
         /\ k.todo \in SUBSET Nat /\ k.nonce \in Nonces \cup {None} /\ k.found \in UnlockType
         /\ k.alone \in BOOLEAN
         /\ [k EXCEPT !.pc = pc] \in TaskType /\ [k EXCEPT !.alone = FALSE] \in TaskType
BY DEF TaskType

\* No command at all.
LEMMA NoTaskFacts ==
  /\ NoTask \in TaskType /\ NoTask.pc = "idle" /\ NoTask.kind = "none" /\ NoTask.skill = None
  /\ NoTask.kind \notin SyncKinds
  /\ \A g : Knows(NoTask, g)
  /\ \A files, entry : Come(NoTask, files, entry)
BY DEF NoTask, TaskType, Locked, UnlockType, Knows, Come, InstallSteps, UninstallSteps, SyncKinds

-------------------------------------------------------------------------------
(* What every step of a command leaves alone.                                *)

\* A step of command t that turns its record into k and works on its own skill only.
LEMMA OwnSkill ==
  ASSUME SInv, NEW t \in Tasks, NEW k \in TaskType, process = "up", task' = [task EXCEPT ![t] = k],
         UNCHANGED <<process, granted>>,
         k.skill \in {task[t].skill, None}, k.kind \in {task[t].kind, "none"} \cup {"download"},
         k.alone => task[t].alone \/ k.skill = None,
         \A s \in Skills \ {task[t].skill} : dir'[s] = dir[s] /\ registry'[s] = registry[s],
         Knows(k, granted), Come(k, dir'[k.skill], registry'[k.skill])
  PROVE  TasksSound' /\ task' \in [Tasks -> TaskType]
<1>1. task \in [Tasks -> TaskType] /\ TasksKnow /\ TasksCome /\ OneSync /\ AloneIsAlone
  BY DEF SInv, StoreTypeOK, TasksSound
<1>2. /\ task' \in [Tasks -> TaskType] /\ task'[t] = k
      /\ \A u \in Tasks \ {t} : task'[u] = task[u]
  BY <1>1
<1>3. TasksKnow'
  BY <1>1, <1>2 DEF TasksKnow
<1>4. TasksCome'
  <2>1. SUFFICES ASSUME NEW u \in Tasks \ {t}
                 PROVE  Come(task[u], dir'[task[u].skill], registry'[task[u].skill])
    BY <1>2 DEF TasksCome
  <2>2. Come(task[u], dir[task[u].skill], registry[task[u].skill])
    BY <1>1 DEF TasksCome
  <2>3. Knows(task[u], granted)
    BY <1>1 DEF TasksKnow
  <2>4. CASE task[u].pc \in InstallSteps \cup UninstallSteps /\ task[u].alone
    <3>1. task[u].skill \in Skills
      BY <2>3, <2>4 DEF Knows
    <3>2. task[u].skill # task[t].skill
      BY <1>1, <2>4, <3>1, PackagesAssumption DEF AloneIsAlone
    <3>3. dir'[task[u].skill] = dir[task[u].skill] /\ registry'[task[u].skill] = registry[task[u].skill]
      BY <3>1, <3>2
    <3> QED
      BY <2>2, <3>3
  <2>5. CASE task[u].pc \notin InstallSteps \cup UninstallSteps \/ ~task[u].alone
    BY <2>5 DEF Come, InstallSteps, UninstallSteps
  <2> QED
    BY <2>4, <2>5
<1>5. OneSync'
  BY <1>1, <1>2 DEF OneSync, SyncKinds
<1>6. OffIsIdle'
  BY DEF OffIsIdle
<1>7. AloneIsAlone'
  <2>1. SUFFICES ASSUME NEW u \in Tasks, NEW v \in Tasks, u # v,
                        task'[u].skill = task'[v].skill, task'[u].skill # None, task'[u].alone
                 PROVE  FALSE
    BY DEF AloneIsAlone
  <2>2. \A x \in Tasks : task'[x].skill # None => task'[x].skill = task[x].skill
    BY <1>2
  <2>3. task'[u].alone => task[u].alone
    BY <1>2, <2>1
  <2> QED
    BY <1>1, <2>1, <2>2, <2>3 DEF AloneIsAlone
<1> QED
  BY <1>2, <1>3, <1>4, <1>5, <1>6, <1>7 DEF TasksSound

\* A command of skill s that begins on an idle record.
LEMMA Beginning ==
  ASSUME SInv, NEW t \in Tasks, NEW s \in Skills \cup {None}, NEW new \in TaskType,
         At(t, "idle"), Begin(t, s, new), new.skill = s, new.pc \notin {"write", "flag"},
         new.kind \in SyncKinds => MainThreadFree,
         UNCHANGED <<process, granted, dir>>,
         \A r \in Skills \ {s} : registry'[r] = registry[r],
         \A b \in BOOLEAN : /\ Knows([new EXCEPT !.alone = b], granted)
                            /\ Come([new EXCEPT !.alone = b], dir[s], registry'[s])
  PROVE  /\ TasksSound' /\ task' \in [Tasks -> TaskType]
         /\ \A u \in Tasks : task[u].pc \in {"write", "flag"} => task'[u].pc = task[u].pc
<1> DEFINE beside == {u \in Tasks : task[u].skill = s /\ s # None}
           first == [new EXCEPT !.alone = beside = {}]
<1>1. task \in [Tasks -> TaskType] /\ TasksKnow /\ TasksCome /\ OneSync /\ AloneIsAlone
  BY DEF SInv, StoreTypeOK, TasksSound
<1>2. task[t] = NoTask /\ process = "up"
  BY <1>1 DEF At, TasksKnow, Knows
<1>3. t \notin beside
  BY <1>2, NoTaskFacts
<1>4. task' = [u \in Tasks |-> IF u = t THEN first
                              ELSE IF u \in beside THEN [task[u] EXCEPT !.alone = FALSE]
                              ELSE task[u]]
  BY Zenon DEF Begin
<1>5. /\ first \in TaskType /\ first.skill = s /\ first.kind = new.kind /\ first.pc = new.pc
      /\ first.alone = (beside = {})
      /\ Knows(first, granted) /\ Come(first, dir[s], registry'[s])
  <2>1. \A b \in BOOLEAN : LET k == [new EXCEPT !.alone = b] IN
          k \in TaskType /\ k.skill = s /\ k.kind = new.kind /\ k.pc = new.pc /\ k.alone = b
    BY DEF TaskType
  <2>2. (beside = {}) \in BOOLEAN
    OBVIOUS
  <2> HIDE DEF beside
  <2> QED
    BY <2>1, <2>2
<1> HIDE DEF first, beside
<1>6. ASSUME NEW u \in beside
      PROVE  /\ u \in Tasks \ {t} /\ task'[u] = [task[u] EXCEPT !.alone = FALSE]
             /\ task'[u] \in TaskType /\ ~task'[u].alone
             /\ task'[u].pc = task[u].pc /\ task'[u].kind = task[u].kind
             /\ task'[u].skill = task[u].skill /\ task'[u].pkg = task[u].pkg
             /\ task'[u].pc # "idle"
  <2>1. u \in Tasks \ {t} /\ task[u] \in TaskType /\ task[u].skill # None
    BY <1>1, <1>3 DEF beside
  <2>2. task'[u] = [task[u] EXCEPT !.alone = FALSE]
    BY <1>4, <2>1
  <2>3. task[u].pc # "idle"
    BY <1>1, <2>1, NoTaskFacts DEF TasksKnow, Knows
  <2> QED
    BY <2>1, <2>2, <2>3 DEF TaskType
<1>7. ASSUME NEW u \in Tasks \ {t}, u \notin beside PROVE task'[u] = task[u]
  BY <1>4, <1>7
<1>8. task'[t] = first
  BY <1>4
<1>9. task' \in [Tasks -> TaskType]
  <2>1. \A u \in Tasks : task'[u] \in TaskType
    BY <1>1, <1>5, <1>6, <1>7, <1>8
  <2> QED
    BY <1>4, <2>1
<1>10. TasksKnow'
  <2>1. SUFFICES ASSUME NEW u \in Tasks PROVE Knows(task'[u], granted)
    BY DEF TasksKnow
  <2>2. Knows(task[u], granted)
    BY <1>1 DEF TasksKnow
  <2>3. CASE u = t
    BY <1>5, <1>8, <2>3
  <2>4. CASE u \in beside
    BY <1>6, <2>2, <2>4 DEF Knows
  <2>5. CASE u # t /\ u \notin beside
    BY <1>7, <2>2, <2>5
  <2> QED
    BY <2>3, <2>4, <2>5
<1>11. TasksCome'
  <2>1. SUFFICES ASSUME NEW u \in Tasks
                 PROVE  Come(task'[u], dir[task'[u].skill], registry'[task'[u].skill])
    BY DEF TasksCome
  <2>2. CASE u = t
    BY <1>5, <1>8, <2>2
  <2>3. CASE u \in beside
    BY <1>6, <2>3 DEF Come
  <2>4. CASE u # t /\ u \notin beside
    <3>1. task'[u] = task[u]
      BY <1>7, <2>4
    <3>2. CASE task[u].pc \in InstallSteps \cup UninstallSteps
      <4>1. task[u].skill \in Skills
        BY <1>1, <3>2 DEF TasksKnow, Knows
      <4>2. task[u].skill # s
        BY <2>4, <4>1, PackagesAssumption DEF beside
      <4>3. Come(task[u], dir[task[u].skill], registry[task[u].skill])
        BY <1>1 DEF TasksCome
      <4> QED
        BY <3>1, <4>1, <4>2, <4>3
    <3>3. CASE task[u].pc \notin InstallSteps \cup UninstallSteps
      BY <3>1, <3>3 DEF Come, InstallSteps, UninstallSteps
    <3> QED
      BY <3>2, <3>3
  <2> QED
    BY <2>2, <2>3, <2>4
<1>12. OneSync'
  <2>1. \A u \in Tasks \ {t} : task'[u].kind = task[u].kind
    BY <1>6, <1>7
  <2>2. new.kind \in SyncKinds => \A u \in Tasks : task[u].kind \notin SyncKinds
    BY DEF MainThreadFree
  <2> QED
    BY <1>1, <1>5, <1>8, <2>1, <2>2 DEF OneSync
<1>13. OffIsIdle'
  BY <1>2 DEF OffIsIdle
<1>14. AloneIsAlone'
  <2>1. SUFFICES ASSUME NEW u \in Tasks, NEW v \in Tasks, u # v,
                        task'[u].skill = task'[v].skill, task'[u].skill # None, task'[u].alone
                 PROVE  FALSE
    BY DEF AloneIsAlone
  <2>2. u \notin beside
    BY <1>6, <2>1
  <2>3. \A x \in Tasks \ {t} : task'[x].skill = task[x].skill
    BY <1>6, <1>7
  <2>4. CASE u = t
    <3>1. v \in beside
      BY <1>5, <1>8, <2>1, <2>3, <2>4 DEF beside
    <3> QED
      BY <1>5, <1>8, <2>1, <2>4, <3>1
  <2>5. CASE u # t /\ v = t
    <3>1. task[u].skill = s /\ s # None
      BY <1>5, <1>8, <2>1, <2>3, <2>5
    <3> QED
      BY <2>2, <3>1 DEF beside
  <2>6. CASE u # t /\ v # t
    BY <1>1, <1>7, <2>1, <2>2, <2>3, <2>6 DEF AloneIsAlone
  <2> QED
    BY <2>4, <2>5, <2>6
<1>15. ASSUME NEW u \in Tasks, task[u].pc \in {"write", "flag"}
       PROVE  task'[u].pc = task[u].pc
  BY <1>2, <1>6, <1>7, <1>15, NoTaskFacts
<1> QED
  BY <1>9, <1>10, <1>11, <1>12, <1>13, <1>14, <1>15 DEF TasksSound

\* A step that leaves the gate and its file alone and ends no command that will open it.
LEMMA GateUntouched ==
  ASSUME SInv, UNCHANGED <<process, unlock, unlocked, kept>>,
         \A u \in Tasks : task[u].pc \in {"write", "flag"} => task'[u].pc = task[u].pc
  PROVE  UnlockLasts'
BY DEF SInv, UnlockLasts

-------------------------------------------------------------------------------
(* The steps of the commands.                                                *)

\* An install begins with a package that passed the gates.
LEMMA BeginInstallStep ==
  ASSUME SInv, NEW t \in Tasks, NEW p \in Packages, NEW kind \in {"install", "download"},
         BeginInstall(t, p, kind), UNCHANGED storeVars
  PROVE  SInv'
<1> DEFINE s == IdOf(p)
           new == [NoTask EXCEPT !.kind = kind, !.pc = "extract", !.skill = s,
                                 !.pkg = p, !.todo = Extracted(Archive[p])]
<1>1. /\ At(t, "idle") /\ (kind = "install" => MainThreadFree) /\ Accepted(p) /\ Begin(t, s, new)
      /\ UNCHANGED <<row, dir, registry, entitled, granted, unlock, unlocked, kept>>
  BY Zenon DEF BeginInstall
<1>2. StoreTypeOK /\ HoldsOnlyAllowed
  BY DEF SInv
<1>3. s \in Skills
  BY PackagesAssumption DEF IdOf
<1>4. p \in May(s, granted)
  BY <1>1, <1>2, AcceptedMay DEF StoreTypeOK
<1>5. Extracted(Archive[p]) \in SUBSET Nat
  BY PackagesAssumption DEF Extracted
<1>6. Written(p, dir[s], Extracted(Archive[p]))
  BY DEF Written, Files
<1> HIDE DEF s
<1>7. /\ new \in TaskType /\ new.skill = s /\ new.pc = "extract" /\ new.kind = kind
      /\ new.pkg = p /\ new.todo = Extracted(Archive[p])
  BY <1>3, <1>5, NoTaskFacts DEF TaskType, NoTask
<1>8. ASSUME NEW b \in BOOLEAN
      PROVE  /\ Knows([new EXCEPT !.alone = b], granted)
             /\ Come([new EXCEPT !.alone = b], dir[s], registry'[s])
  <2> DEFINE k == [new EXCEPT !.alone = b]
  <2>1. /\ k.skill = s /\ k.pc = "extract" /\ k.kind = kind /\ k.pkg = p
        /\ k.todo = Extracted(Archive[p])
    BY <1>7 DEF TaskType
  <2> HIDE DEF k, new
  <2>2. Knows(k, granted)
    BY <1>3, <1>4, <2>1 DEF Knows, InstallSteps, UninstallSteps
  <2>3. Come(k, dir[s], registry'[s])
    BY <1>6, <2>1 DEF Come, UninstallSteps
  <2> QED
    BY <2>2, <2>3 DEF k
<1> HIDE DEF new
<1>9. kind \in SyncKinds => MainThreadFree
  BY <1>1 DEF SyncKinds
<1>10. UNCHANGED <<process, granted, dir>> /\ \A r \in Skills \ {s} : registry'[r] = registry[r]
  BY <1>1 DEF storeVars
<1>11. /\ TasksSound' /\ task' \in [Tasks -> TaskType]
       /\ \A u \in Tasks : task[u].pc \in {"write", "flag"} => task'[u].pc = task[u].pc
  BY <1>1, <1>3, <1>7, <1>8, <1>9, <1>10, Beginning
<1>12. StoreTypeOK'
  BY <1>1, <1>2, <1>11 DEF StoreTypeOK
<1>13. HoldsOnlyAllowed'
  BY <1>1, <1>2 DEF HoldsOnlyAllowed
<1>14. UnlockLasts'
  BY <1>1, <1>10, <1>11, GateUntouched
<1> QED
  BY <1>11, <1>12, <1>13, <1>14 DEF SInv

\* An uninstall begins with the registry.
LEMMA BeginUninstallStep ==
  ASSUME SInv, NEW t \in Tasks, NEW s \in Skills, BeginUninstall(t, s), UNCHANGED storeVars
  PROVE  SInv'
<1> DEFINE new == [NoTask EXCEPT !.kind = "uninstall", !.pc = "remove", !.skill = s]
<1>1. /\ At(t, "idle") /\ MainThreadFree /\ Begin(t, s, new)
      /\ registry' = [registry EXCEPT ![s] = IF @ = None THEN None ELSE UninstallEntry(@)]
      /\ UNCHANGED <<row, dir, entitled, granted, unlock, unlocked, kept>>
  BY Zenon DEF BeginUninstall
<1>2. StoreTypeOK /\ HoldsOnlyAllowed
  BY DEF SInv
<1>3. registry' \in [Skills -> Entries \cup {None}] /\ (registry'[s] = None \/ ~registry'[s].installed)
  <2>1. registry[s] \in Entries \cup {None} /\ registry \in [Skills -> Entries \cup {None}]
    BY <1>2 DEF StoreTypeOK
  <2>2. registry[s] # None => UninstallEntry(registry[s]) \in Entries
                              /\ ~UninstallEntry(registry[s]).installed
    BY <2>1, EntryFacts
  <2> QED
    BY <1>1, <2>1, <2>2
<1>4. /\ new \in TaskType /\ new.skill = s /\ new.pc = "remove" /\ new.kind = "uninstall"
  BY NoTaskFacts DEF TaskType, NoTask
<1>5. ASSUME NEW b \in BOOLEAN
      PROVE  /\ Knows([new EXCEPT !.alone = b], granted)
             /\ Come([new EXCEPT !.alone = b], dir[s], registry'[s])
  <2> DEFINE k == [new EXCEPT !.alone = b]
  <2>1. k.skill = s /\ k.pc = "remove" /\ k.kind = "uninstall"
    BY <1>4 DEF TaskType
  <2> HIDE DEF k, new
  <2>2. Knows(k, granted)
    BY <2>1 DEF Knows, InstallSteps, UninstallSteps
  <2>3. Come(k, dir[s], registry'[s])
    BY <1>3, <2>1 DEF Come, UninstallSteps
  <2> QED
    BY <2>2, <2>3 DEF k
<1> HIDE DEF new
<1>6. UNCHANGED <<process, granted, dir>> /\ \A r \in Skills \ {s} : registry'[r] = registry[r]
  BY <1>1, <1>2 DEF storeVars, StoreTypeOK
<1>7. /\ TasksSound' /\ task' \in [Tasks -> TaskType]
      /\ \A u \in Tasks : task[u].pc \in {"write", "flag"} => task'[u].pc = task[u].pc
  BY <1>1, <1>4, <1>5, <1>6, Beginning
<1>8. StoreTypeOK'
  BY <1>1, <1>2, <1>3, <1>7 DEF StoreTypeOK
<1>9. HoldsOnlyAllowed'
  BY <1>1, <1>2 DEF HoldsOnlyAllowed
<1>10. UnlockLasts'
  BY <1>1, <1>6, <1>7, GateUntouched
<1> QED
  BY <1>7, <1>8, <1>9, <1>10 DEF SInv

\* A redemption begins and touches no skill.
LEMMA BeginRedeemStep ==
  ASSUME SInv, NEW t \in Tasks, NEW n \in Nonces, BeginRedeem(t, n), UNCHANGED storeVars
  PROVE  SInv'
<1> DEFINE new == [NoTask EXCEPT !.kind = "redeem", !.pc = "read", !.nonce = n]
<1>1. /\ At(t, "idle") /\ MainThreadFree /\ Begin(t, None, new)
      /\ UNCHANGED <<row, dir, registry, entitled, granted, unlock, unlocked, kept>>
  BY Zenon DEF BeginRedeem
<1>2. StoreTypeOK /\ HoldsOnlyAllowed
  BY DEF SInv
<1>3. new \in TaskType /\ new.skill = None /\ new.pc = "read" /\ new.kind = "redeem"
  BY NoTaskFacts DEF TaskType, NoTask
<1>4. ASSUME NEW b \in BOOLEAN
      PROVE  /\ Knows([new EXCEPT !.alone = b], granted)
             /\ Come([new EXCEPT !.alone = b], dir[None], registry'[None])
  BY <1>3 DEF TaskType, Knows, Come, InstallSteps, UninstallSteps
<1> HIDE DEF new
<1>5. UNCHANGED <<process, granted, dir>> /\ \A r \in Skills \ {None} : registry'[r] = registry[r]
  BY <1>1 DEF storeVars
<1>6. /\ TasksSound' /\ task' \in [Tasks -> TaskType]
      /\ \A u \in Tasks : task[u].pc \in {"write", "flag"} => task'[u].pc = task[u].pc
  BY <1>1, <1>3, <1>4, <1>5, Beginning
<1>7. StoreTypeOK'
  BY <1>1, <1>2, <1>6 DEF StoreTypeOK
<1>8. HoldsOnlyAllowed'
  BY <1>1, <1>2 DEF HoldsOnlyAllowed
<1>9. UnlockLasts'
  BY <1>1, <1>5, <1>6, GateUntouched
<1> QED
  BY <1>6, <1>7, <1>8, <1>9 DEF SInv

\* A file of a package that may be there is written.
LEMMA ExtractFileStep ==
  ASSUME SInv, NEW t \in Tasks, ExtractFile(t), UNCHANGED storeVars
  PROVE  SInv'
<1> DEFINE p == task[t].pkg
           s == task[t].skill
           i == FirstOf(Archive[p], task[t].todo)
           f == Archive[p].entries[i].path
           k == [task[t] EXCEPT !.todo = task[t].todo \ {i},
                                !.pc = IF task[t].todo = {i} THEN "register" ELSE "extract"]
<1>1. /\ process = "up" /\ task[t].pc = "extract"
      /\ dir' = [dir EXCEPT ![s][f] = p]
      /\ task' = [task EXCEPT ![t].todo = @ \ {i},
                              ![t].pc = IF task[t].todo = {i} THEN "register" ELSE @]
      /\ UNCHANGED <<row, registry, entitled, granted, unlock, unlocked, kept>>
  BY Zenon DEF ExtractFile, At
<1>2. StoreTypeOK /\ HoldsOnlyAllowed /\ TasksSound
  BY DEF SInv
<1>3. task[t] \in TaskType /\ Knows(task[t], granted) /\ Come(task[t], dir[s], registry[s])
  BY <1>2 DEF StoreTypeOK, TasksSound, TasksKnow, TasksCome
<1>4. task[t].kind \in {"install", "download"} /\ s \in Skills /\ p \in May(s, granted) /\ p \in Packages
  BY <1>1, <1>3 DEF Knows, InstallSteps, May
<1> HIDE DEF i, f
<1>5. task' = [task EXCEPT ![t] = k]
  BY <1>1, <1>2 DEF StoreTypeOK
<1>6. /\ k \in TaskType /\ k.skill = s /\ k.pkg = p /\ k.kind = task[t].kind
      /\ k.alone = task[t].alone /\ k.todo = task[t].todo \ {i}
      /\ k.pc = IF task[t].todo = {i} THEN "register" ELSE "extract"
  BY <1>3 DEF TaskType
<1> HIDE DEF k
<1>7. /\ dir' \in [Skills -> [FileNames -> Packages \cup {None}]]
      /\ \A r \in Skills \ {s} : dir'[r] = dir[r]
      /\ \A g \in FileNames : dir'[s][g] = IF g = f THEN p ELSE dir[s][g]
  <2>1. dir \in [Skills -> [FileNames -> Packages \cup {None}]] /\ s \in Skills /\ p \in Packages
    BY <1>2, <1>4 DEF StoreTypeOK
  <2> HIDE DEF p, s
  <2>2. dir' = [dir EXCEPT ![s] = [dir[s] EXCEPT ![f] = p]]
    BY <1>1
  <2>3. dir[s] \in [FileNames -> Packages \cup {None}]
    BY <2>1
  <2>4. [dir[s] EXCEPT ![f] = p] \in [FileNames -> Packages \cup {None}]
    BY <2>1, <2>3
  <2> QED
    BY <2>1, <2>2, <2>3, <2>4
<1>8. Knows(k, granted)
  BY <1>4, <1>6 DEF Knows, InstallSteps, UninstallSteps
<1>9. Come(k, dir'[k.skill], registry'[k.skill])
  <2>1. SUFFICES ASSUME task[t].alone PROVE Written(p, dir'[s], task[t].todo \ {i})
    BY <1>6 DEF Come, Written, UninstallSteps
  <2>2. Written(p, dir[s], task[t].todo)
    BY <1>1, <1>3, <2>1 DEF Come
  <2>3. SUFFICES ASSUME NEW g \in Files[p]
        PROVE  dir'[s][g] = p \/ \E j \in task[t].todo \ {i} : Archive[p].entries[j].path = g
    BY DEF Written
  <2>4. g \in FileNames
    BY <1>4 DEF FileNames
  <2>5. dir'[s][g] = IF g = f THEN p ELSE dir[s][g]
    BY <1>7, <2>4
  <2>6. CASE g = f
    BY <2>5, <2>6
  <2>7. CASE g # f
    <3>1. dir[s][g] = p \/ \E j \in task[t].todo : Archive[p].entries[j].path = g
      BY <2>2 DEF Written
    <3>2. ASSUME NEW j \in task[t].todo, Archive[p].entries[j].path = g PROVE j # i
      BY <2>7, <3>2 DEF f
    <3> QED
      BY <2>5, <2>7, <3>1, <3>2
  <2> QED
    BY <2>6, <2>7
<1>10. UNCHANGED <<process, granted>>
  BY <1>1 DEF storeVars
<1>11. TasksSound' /\ task' \in [Tasks -> TaskType]
  BY <1>1, <1>5, <1>6, <1>7, <1>8, <1>9, <1>10, OwnSkill
<1>12. StoreTypeOK'
  BY <1>1, <1>2, <1>7, <1>11 DEF StoreTypeOK
<1>13. HoldsOnlyAllowed'
  <2>1. SUFFICES ASSUME NEW r \in Skills
                 PROVE  /\ row[r] \in May(r, granted) \cup {None}
                        /\ \A g \in FileNames : dir'[r][g] \in May(r, granted) \cup {None}
    BY <1>1 DEF HoldsOnlyAllowed
  <2>2. /\ row[r] \in May(r, granted) \cup {None}
        /\ \A g \in FileNames : dir[r][g] \in May(r, granted) \cup {None}
    BY <1>2 DEF HoldsOnlyAllowed
  <2>3. CASE r = s
    BY <1>4, <1>7, <2>2, <2>3
  <2>4. CASE r # s
    BY <1>7, <2>2, <2>4
  <2> QED
    BY <2>3, <2>4
<1>14. \A u \in Tasks : task[u].pc \in {"write", "flag"} => task'[u].pc = task[u].pc
  BY <1>1, <1>2, <1>5 DEF StoreTypeOK
<1>15. UnlockLasts'
  BY <1>1, <1>10, <1>14, GateUntouched
<1> QED
  BY <1>11, <1>12, <1>13, <1>15 DEF SInv

\* The registry entry of a sound package is installed.
LEMMA RegisterEntryStep ==
  ASSUME SInv, NEW t \in Tasks, RegisterEntry(t), UNCHANGED storeVars
  PROVE  SInv'
<1> DEFINE p == task[t].pkg
           s == task[t].skill
           k == [task[t] EXCEPT !.pc = "save"]
<1>1. /\ process = "up" /\ task[t].pc = "register"
      /\ registry' = [registry EXCEPT ![s] = InstallEntry(OwnedEntry[p])]
      /\ task' = [task EXCEPT ![t].pc = "save"]
      /\ UNCHANGED <<row, dir, entitled, granted, unlock, unlocked, kept>>
  BY Zenon DEF RegisterEntry, At, Goto
<1>2. StoreTypeOK /\ HoldsOnlyAllowed /\ TasksSound
  BY DEF SInv
<1>3. task[t] \in TaskType /\ Knows(task[t], granted) /\ Come(task[t], dir[s], registry[s])
  BY <1>2 DEF StoreTypeOK, TasksSound, TasksKnow, TasksCome
<1>4. /\ task[t].kind \in {"install", "download"} /\ s \in Skills /\ p \in May(s, granted)
      /\ p \in Packages /\ p \in Sound
  BY <1>1, <1>3 DEF Knows, InstallSteps, May
<1>5. InstallEntry(OwnedEntry[p]) \in Entries /\ InstallEntry(OwnedEntry[p]).installed
  BY <1>4, InstalledEntry
<1>6. task' = [task EXCEPT ![t] = k]
  BY <1>1, <1>2 DEF StoreTypeOK
<1>7. /\ k \in TaskType /\ k.skill = s /\ k.pkg = p /\ k.kind = task[t].kind
      /\ k.alone = task[t].alone /\ k.pc = "save"
  BY <1>3 DEF TaskType
<1> HIDE DEF k
<1>8. /\ registry' \in [Skills -> Entries \cup {None}] /\ registry'[s] = InstallEntry(OwnedEntry[p])
      /\ \A r \in Skills \ {s} : registry'[r] = registry[r]
  BY <1>1, <1>2, <1>4, <1>5 DEF StoreTypeOK
<1>9. Knows(k, granted)
  BY <1>4, <1>7 DEF Knows, InstallSteps, UninstallSteps
<1>10. Come(k, dir'[k.skill], registry'[k.skill])
  <2>1. task[t].alone => Written(p, dir[s], {})
    BY <1>1, <1>3 DEF Come
  <2>2. registry'[s] # None /\ registry'[s].installed
    BY <1>5, <1>8, EntryFacts
  <2> QED
    BY <1>1, <1>7, <2>1, <2>2 DEF Come, UninstallSteps
<1>11. UNCHANGED <<process, granted>> /\ \A r \in Skills \ {s} : dir'[r] = dir[r]
  BY <1>1 DEF storeVars
<1>12. TasksSound' /\ task' \in [Tasks -> TaskType]
  BY <1>1, <1>6, <1>7, <1>8, <1>9, <1>10, <1>11, OwnSkill
<1>13. StoreTypeOK'
  BY <1>1, <1>2, <1>8, <1>12 DEF StoreTypeOK
<1>14. HoldsOnlyAllowed'
  BY <1>1, <1>2 DEF HoldsOnlyAllowed
<1>15. \A u \in Tasks : task[u].pc \in {"write", "flag"} => task'[u].pc = task[u].pc
  BY <1>1, <1>2, <1>6 DEF StoreTypeOK
<1>16. UnlockLasts'
  BY <1>1, <1>11, <1>15, GateUntouched
<1> QED
  BY <1>12, <1>13, <1>14, <1>16 DEF SInv

\* A command that ends, or goes on with the gate, is not in the way of the others.
LEMMA Leaving ==
  ASSUME SInv, NEW t \in Tasks, process = "up", task[t].pc \notin {"write", "flag"},
         UNCHANGED <<process, granted, unlock, unlocked, kept>>,
         \/ task' = [task EXCEPT ![t] = NoTask]
         \/ task' = [task EXCEPT ![t] = [NoTask EXCEPT !.kind = "download", !.pc = "read"]],
         \A s \in Skills \ {task[t].skill} : dir'[s] = dir[s] /\ registry'[s] = registry[s]
  PROVE  TasksSound' /\ task' \in [Tasks -> TaskType] /\ UnlockLasts'
<1> DEFINE gate == [NoTask EXCEPT !.kind = "download", !.pc = "read"]
<1>1. PICK k \in {NoTask, gate} : task' = [task EXCEPT ![t] = k]
  OBVIOUS
<1>2. /\ gate \in TaskType /\ gate.skill = None /\ gate.kind = "download" /\ gate.pc = "read"
      /\ Knows(gate, granted) /\ Come(gate, dir'[gate.skill], registry'[gate.skill])
  BY NoTaskFacts DEF NoTask, TaskType, Knows, Come, InstallSteps, UninstallSteps
<1> HIDE DEF gate
<1>3. /\ k \in TaskType /\ k.skill = None /\ k.kind \in {"none", "download"}
      /\ Knows(k, granted) /\ Come(k, dir'[k.skill], registry'[k.skill])
  BY <1>1, <1>2, NoTaskFacts
<1>4. TasksSound' /\ task' \in [Tasks -> TaskType]
  BY <1>1, <1>3, OwnSkill
<1>5. \A u \in Tasks : task[u].pc \in {"write", "flag"} => task'[u].pc = task[u].pc
  BY <1>1 DEF SInv, StoreTypeOK
<1>6. UnlockLasts'
  BY <1>5, GateUntouched
<1> QED
  BY <1>4, <1>6

\* The row of an installed skill is saved.
LEMMA SaveRowStep ==
  ASSUME SInv, NEW t \in Tasks, SaveRow(t), UNCHANGED storeVars
  PROVE  SInv'
<1> DEFINE p == task[t].pkg
           s == task[t].skill
<1>1. /\ process = "up" /\ task[t].pc = "save"
      /\ row' = [row EXCEPT ![s] = p]
      /\ \/ task' = [task EXCEPT ![t] = NoTask]
         \/ task' = [task EXCEPT ![t] = [NoTask EXCEPT !.kind = "download", !.pc = "read"]]
      /\ UNCHANGED <<dir, registry, entitled, granted, unlock, unlocked, kept>>
  BY Zenon DEF SaveRow, At, End, Saved
<1>2. StoreTypeOK /\ HoldsOnlyAllowed /\ TasksSound
  BY DEF SInv
<1>3. Knows(task[t], granted)
  BY <1>2 DEF TasksSound, TasksKnow
<1>4. s \in Skills /\ p \in May(s, granted) /\ p \in Packages
  BY <1>1, <1>3 DEF Knows, InstallSteps, May
<1>5. UNCHANGED process
  BY DEF storeVars
<1>6. TasksSound' /\ task' \in [Tasks -> TaskType] /\ UnlockLasts'
  <2>1. task[t].pc \notin {"write", "flag"}
    BY <1>1
  <2> QED
    BY <1>1, <1>5, <2>1, Leaving
<1>7. StoreTypeOK'
  BY <1>1, <1>2, <1>4, <1>6 DEF StoreTypeOK
<1>8. HoldsOnlyAllowed'
  BY <1>1, <1>2, <1>4 DEF HoldsOnlyAllowed, StoreTypeOK
<1> QED
  BY <1>6, <1>7, <1>8 DEF SInv

\* A file is removed, or none is left.
LEMMA RemoveFileStep ==
  ASSUME SInv, NEW t \in Tasks, RemoveFile(t), UNCHANGED storeVars
  PROVE  SInv'
<1> DEFINE s == task[t].skill
           present == {f \in FileNames : dir[s][f] # None}
           k == [task[t] EXCEPT !.pc = IF present = {} THEN "forget" ELSE "remove"]
<1>1. /\ process = "up" /\ task[t].pc = "remove"
      /\ UNCHANGED <<row, registry, entitled, granted, unlock, unlocked, kept>>
  BY Zenon DEF RemoveFile, At
<1>2. \/ present = {} /\ task' = [task EXCEPT ![t].pc = "forget"] /\ dir' = dir
      \/ \E f \in present : dir' = [dir EXCEPT ![s][f] = None] /\ task' = task
  BY DEF RemoveFile, Goto
<1>3. StoreTypeOK /\ HoldsOnlyAllowed /\ TasksSound
  BY DEF SInv
<1>4. task[t] \in TaskType /\ Knows(task[t], granted) /\ Come(task[t], dir[s], registry[s])
  BY <1>3 DEF StoreTypeOK, TasksSound, TasksKnow, TasksCome
<1>5. task[t].kind = "uninstall" /\ s \in Skills
  BY <1>1, <1>4 DEF Knows, UninstallSteps
<1>6. task' = [task EXCEPT ![t] = k]
  <2>1. task = [task EXCEPT ![t] = [task[t] EXCEPT !.pc = "remove"]]
    BY <1>1, <1>3 DEF StoreTypeOK, TaskType
  <2>2. CASE present = {}
    BY <1>2, <2>2
  <2>3. CASE present # {}
    <3>1. k = [task[t] EXCEPT !.pc = "remove"] /\ task' = task
      BY <1>2, <2>3
    <3> QED
      BY <2>1, <3>1
  <2> QED
    BY <2>2, <2>3
<1>7. /\ k \in TaskType /\ k.skill = s /\ k.kind = task[t].kind /\ k.alone = task[t].alone
      /\ k.pc = IF present = {} THEN "forget" ELSE "remove"
  BY <1>4 DEF TaskType
<1> HIDE DEF k
<1>8. /\ dir' \in [Skills -> [FileNames -> Packages \cup {None}]]
      /\ \A r \in Skills \ {s} : dir'[r] = dir[r]
      /\ \A g \in FileNames : dir'[s][g] \in {dir[s][g], None}
  <2>1. dir \in [Skills -> [FileNames -> Packages \cup {None}]]
    BY <1>3 DEF StoreTypeOK
  <2>2. CASE dir' = dir
    BY <2>1, <2>2
  <2>3. ASSUME NEW f \in FileNames, dir' = [dir EXCEPT ![s][f] = None] PROVE <1>8!:
    <3>1. dir' = [dir EXCEPT ![s] = [dir[s] EXCEPT ![f] = None]]
      BY <2>3
    <3>2. dir[s] \in [FileNames -> Packages \cup {None}]
      BY <1>5, <2>1
    <3>3. [dir[s] EXCEPT ![f] = None] \in [FileNames -> Packages \cup {None}]
      BY <3>2
    <3> HIDE DEF s
    <3> QED
      BY <1>5, <2>1, <3>1, <3>2, <3>3
  <2> QED
    BY <1>2, <2>2, <2>3
<1>9. Knows(k, granted)
  BY <1>5, <1>7 DEF Knows, InstallSteps, UninstallSteps
<1>10. Come(k, dir'[k.skill], registry'[k.skill])
  <2>1. task[t].alone => registry[s] = None \/ ~registry[s].installed
    BY <1>1, <1>4 DEF Come, UninstallSteps
  <2>2. present = {} => \A f \in FileNames : dir'[s][f] = None
    BY <1>8
  <2> HIDE DEF present
  <2> QED
    BY <1>1, <1>7, <2>1, <2>2 DEF Come
<1>11. UNCHANGED <<process, granted>> /\ \A r \in Skills \ {s} : registry'[r] = registry[r]
  BY <1>1 DEF storeVars
<1>12. TasksSound' /\ task' \in [Tasks -> TaskType]
  BY <1>1, <1>6, <1>7, <1>8, <1>9, <1>10, <1>11, OwnSkill
<1>13. StoreTypeOK'
  BY <1>1, <1>3, <1>8, <1>12 DEF StoreTypeOK
<1>14. HoldsOnlyAllowed'
  <2>1. SUFFICES ASSUME NEW r \in Skills
                 PROVE  /\ row[r] \in May(r, granted) \cup {None}
                        /\ \A g \in FileNames : dir'[r][g] \in May(r, granted) \cup {None}
    BY <1>1 DEF HoldsOnlyAllowed
  <2>2. /\ row[r] \in May(r, granted) \cup {None}
        /\ \A g \in FileNames : dir[r][g] \in May(r, granted) \cup {None}
    BY <1>3 DEF HoldsOnlyAllowed
  <2>3. CASE r = s
    BY <1>8, <2>2, <2>3
  <2>4. CASE r # s
    BY <1>8, <2>2, <2>4
  <2> QED
    BY <2>3, <2>4
<1>15. \A u \in Tasks : task[u].pc \in {"write", "flag"} => task'[u].pc = task[u].pc
  BY <1>1, <1>3, <1>6 DEF StoreTypeOK
<1>16. UnlockLasts'
  BY <1>1, <1>11, <1>15, GateUntouched
<1> QED
  BY <1>12, <1>13, <1>14, <1>16 DEF SInv

\* The row of an uninstalled skill is removed.
LEMMA RemoveRowStep ==
  ASSUME SInv, NEW t \in Tasks, RemoveRow(t), UNCHANGED storeVars
  PROVE  SInv'
<1>1. /\ process = "up" /\ task[t].pc = "forget"
      /\ row' = [row EXCEPT ![task[t].skill] = None]
      /\ task' = [task EXCEPT ![t] = NoTask]
      /\ UNCHANGED <<dir, registry, entitled, granted, unlock, unlocked, kept>>
  BY Zenon DEF RemoveRow, At, End
<1>2. StoreTypeOK /\ HoldsOnlyAllowed
  BY DEF SInv
<1>3. UNCHANGED process /\ task[t].pc \notin {"write", "flag"}
  BY <1>1 DEF storeVars
<1>4. TasksSound' /\ task' \in [Tasks -> TaskType] /\ UnlockLasts'
  BY <1>1, <1>3, Leaving
<1>5. StoreTypeOK'
  BY <1>1, <1>2, <1>4 DEF StoreTypeOK
<1>6. HoldsOnlyAllowed'
  BY <1>1, <1>2 DEF HoldsOnlyAllowed, StoreTypeOK
<1> QED
  BY <1>4, <1>5, <1>6 DEF SInv

\* A command that fails leaves everything where it is.
LEMMA FailStep ==
  ASSUME SInv, NEW t \in Tasks, Fail(t), UNCHANGED storeVars
  PROVE  SInv'
<1>1. /\ process = "up" /\ task[t].pc \notin {"write", "flag"}
      /\ task' = [task EXCEPT ![t] = NoTask]
      /\ UNCHANGED <<row, dir, registry, entitled, granted, unlock, unlocked, kept>>
  BY DEF Fail, At, End
<1>2. StoreTypeOK /\ HoldsOnlyAllowed
  BY DEF SInv
<1>3. UNCHANGED process
  BY DEF storeVars
<1>4. TasksSound' /\ task' \in [Tasks -> TaskType] /\ UnlockLasts'
  BY <1>1, <1>3, Leaving
<1>5. StoreTypeOK'
  BY <1>1, <1>2, <1>4 DEF StoreTypeOK
<1>6. HoldsOnlyAllowed'
  BY <1>1, <1>2 DEF HoldsOnlyAllowed
<1> QED
  BY <1>4, <1>5, <1>6 DEF SInv

-------------------------------------------------------------------------------
(* The steps of the gate.                                                    *)

\* A step of the gate: it moves the program counter of t to pc and touches no skill.
LEMMA GateStep ==
  ASSUME SInv, NEW t \in Tasks, process = "up", UNCHANGED storeVars,
         NEW k \in TaskType, task' = [task EXCEPT ![t] = k],
         UNCHANGED <<row, dir, registry, entitled, granted>>,
         task[t].pc \in {"read", "truncate", "write", "flag"},
         \/ k = NoTask
         \/ /\ k.pc \in {"truncate", "write", "flag"} /\ k.skill = task[t].skill
            /\ k.kind = task[t].kind /\ k.alone = task[t].alone,
         unlock' \in UnlockType, unlocked' \in BOOLEAN, kept' \in BOOLEAN,
         UnlockLasts'
  PROVE  SInv'
<1>1. StoreTypeOK /\ HoldsOnlyAllowed
  BY DEF SInv
<1>2. Knows(k, granted) /\ Come(k, dir'[k.skill], registry'[k.skill])
  <2>1. CASE k = NoTask
    BY <2>1, NoTaskFacts
  <2>2. CASE k.pc \in {"truncate", "write", "flag"}
    BY <2>2 DEF Knows, Come, InstallSteps, UninstallSteps
  <2> QED
    BY <2>1, <2>2
<1>3. /\ k.skill \in {task[t].skill, None} /\ k.kind \in {task[t].kind, "none"} \cup {"download"}
      /\ k.alone => task[t].alone \/ k.skill = None
  BY NoTaskFacts
<1>4. /\ UNCHANGED <<process, granted>>
      /\ \A s \in Skills \ {task[t].skill} : dir'[s] = dir[s] /\ registry'[s] = registry[s]
  BY DEF storeVars
<1>5. TasksSound' /\ task' \in [Tasks -> TaskType]
  BY <1>2, <1>3, <1>4, OwnSkill
<1>6. StoreTypeOK'
  BY <1>1, <1>5 DEF StoreTypeOK
<1>7. HoldsOnlyAllowed'
  BY <1>1 DEF HoldsOnlyAllowed
<1> QED
  BY <1>5, <1>6, <1>7 DEF SInv

\* A state of the gate that was read is one that can be written.
LEMMA LockedFacts ==
  /\ Locked \in UnlockType
  /\ \A longer \in BOOLEAN : Torn(longer) \in UnlockType /\ Torn(longer).torn
BY DEF Locked, Torn, UnlockType

\* unlock.json is read.
LEMMA ReadUnlockStep ==
  ASSUME SInv, NEW t \in Tasks, ReadUnlock(t), UNCHANGED storeVars
  PROVE  SInv'
<1> DEFINE found == IF unlock.torn THEN Locked ELSE unlock
           k == [task[t] EXCEPT !.pc = "truncate", !.found = found]
<1>1. /\ process = "up" /\ task[t].pc = "read"
      /\ task' = [task EXCEPT ![t].pc = "truncate", ![t].found = found]
      /\ UNCHANGED <<row, dir, registry, entitled, granted, unlock, unlocked, kept>>
  BY Zenon DEF ReadUnlock, At
<1>2. StoreTypeOK
  BY DEF SInv
<1>3. task[t] \in TaskType /\ found \in UnlockType
  BY <1>2, LockedFacts DEF StoreTypeOK
<1> HIDE DEF found
<1>4. task' = [task EXCEPT ![t] = k]
  BY <1>1, <1>2 DEF StoreTypeOK
<1>5. /\ k \in TaskType /\ k.pc = "truncate" /\ k.skill = task[t].skill
      /\ k.kind = task[t].kind /\ k.alone = task[t].alone
  BY <1>3 DEF TaskType
<1> HIDE DEF k
<1>6. \A u \in Tasks : task[u].pc \in {"write", "flag"} => task'[u].pc = task[u].pc
  BY <1>1, <1>2, <1>4 DEF StoreTypeOK
<1>7. UnlockLasts'
  BY <1>1, <1>6, GateUntouched DEF storeVars
<1>8. unlock' \in UnlockType /\ unlocked' \in BOOLEAN /\ kept' \in BOOLEAN
  BY <1>1, <1>2 DEF StoreTypeOK
<1> QED
  BY <1>1, <1>4, <1>5, <1>7, <1>8, GateStep

\* The file is emptied, or that fails and the flag is set all the same.
LEMMA TruncateUnlockStep ==
  ASSUME SInv, NEW t \in Tasks, TruncateUnlock(t), UNCHANGED storeVars
  PROVE  SInv'
<1>1. /\ process = "up" /\ task[t].pc = "truncate"
      /\ UNCHANGED <<row, dir, registry, entitled, granted, unlocked, kept>>
  BY Zenon DEF TruncateUnlock, At
<1>2. PICK pc \in {"write", "flag"} :
        /\ task' = [task EXCEPT ![t].pc = pc]
        /\ \/ pc = "write" /\ unlock' = Torn(FALSE)
           \/ unlock' = unlock
  BY DEF TruncateUnlock, Goto
<1> DEFINE k == [task[t] EXCEPT !.pc = pc]
<1>3. StoreTypeOK /\ UnlockLasts
  BY DEF SInv
<1>4. task[t] \in TaskType
  BY <1>3 DEF StoreTypeOK
<1>5. task' = [task EXCEPT ![t] = k]
  BY <1>2, <1>3 DEF StoreTypeOK
<1>6. /\ k \in TaskType /\ k.pc = pc /\ k.skill = task[t].skill
      /\ k.kind = task[t].kind /\ k.alone = task[t].alone
  BY <1>2, <1>4 DEF TaskType
<1> HIDE DEF k
<1>7. \A u \in Tasks : task[u].pc \in {"write", "flag"} => task'[u].pc = task[u].pc
  BY <1>1, <1>3, <1>5 DEF StoreTypeOK
<1>8. UNCHANGED process /\ unlock' \in UnlockType
  BY <1>2, <1>3, LockedFacts DEF StoreTypeOK, storeVars
<1>9. UnlockLasts'
  <2>1. CASE unlock' = unlock
    BY <1>1, <1>3, <1>7, <1>8, <2>1 DEF UnlockLasts
  <2>2. CASE pc = "write"
    <3>1. task'[t].pc = "write"
      BY <1>3, <1>5, <1>6, <2>2 DEF StoreTypeOK
    <3> QED
      BY <1>1, <1>3, <1>7, <1>8, <3>1 DEF UnlockLasts
  <2> QED
    BY <1>2, <2>1, <2>2
<1>10. unlocked' \in BOOLEAN /\ kept' \in BOOLEAN
  BY <1>1, <1>3 DEF StoreTypeOK
<1> QED
  BY <1>1, <1>2, <1>5, <1>6, <1>8, <1>9, <1>10, GateStep

\* The record is in the file unless what it was written over is longer.
LEMMA OverwriteFacts ==
  ASSUME NEW text \in UnlockType, text.unlocked, unlock \in UnlockType
  PROVE  /\ Overwrite(text) \in UnlockType
         /\ text.longer \/ ~unlock.longer => Overwrite(text) = text
<1>1. CASE unlock.longer /\ ~text.longer
  <2>1. Torn(TRUE) \in UnlockType
    BY LockedFacts
  <2> QED
    BY <1>1, <2>1 DEF Overwrite
<1>2. CASE ~(unlock.longer /\ ~text.longer)
  <2>1. Overwrite(text) = text
    BY <1>2, Zenon DEF Overwrite
  <2> QED
    BY <2>1
<1> QED
  BY <1>1, <1>2

\* The file is written, or left torn; either way the flag comes next.
LEMMA WriteUnlockStep ==
  ASSUME SInv, NEW t \in Tasks, WriteUnlock(t), UNCHANGED storeVars
  PROVE  SInv'
<1> DEFINE k == [task[t] EXCEPT !.pc = "flag"]
           new == ApplyUnlock(task[t].found, task[t].nonce)
<1>1. /\ process = "up" /\ task[t].pc = "write"
      /\ task' = [task EXCEPT ![t].pc = "flag"]
      /\ UNCHANGED <<row, dir, registry, entitled, granted, unlocked>>
  BY Zenon DEF WriteUnlock, At, Goto
<1>2. \/ unlock' = Overwrite(new) /\ kept' = (new.longer \/ ~unlock.longer)
      \/ /\ unlock' = unlock \/ \E longer \in {unlock.longer, unlock.longer \/ new.longer} :
                                   unlock' = Torn(longer)
         /\ kept' = FALSE
  BY Zenon DEF WriteUnlock
<1>3. StoreTypeOK /\ UnlockLasts
  BY DEF SInv
<1>4. task[t] \in TaskType /\ unlock \in UnlockType
  BY <1>3 DEF StoreTypeOK
<1>5. new \in UnlockType /\ new.unlocked /\ ~new.torn
  BY <1>4 DEF ApplyUnlock, TaskType, UnlockType
<1> HIDE DEF new
<1>6. task' = [task EXCEPT ![t] = k]
  BY <1>1, <1>3 DEF StoreTypeOK
<1>7. /\ k \in TaskType /\ k.pc = "flag" /\ k.skill = task[t].skill
      /\ k.kind = task[t].kind /\ k.alone = task[t].alone
  BY <1>4 DEF TaskType
<1> HIDE DEF k
<1>8. task'[t].pc = "flag"
  BY <1>3, <1>6, <1>7 DEF StoreTypeOK
<1>9. UNCHANGED process
  BY DEF storeVars
<1>10. /\ kept' \in BOOLEAN /\ unlock' \in UnlockType
       /\ kept' => unlock'.unlocked /\ ~unlock'.torn
  <2>1. unlock.longer \in BOOLEAN /\ (unlock.longer \/ new.longer) \in BOOLEAN
    BY <1>4 DEF UnlockType
  <2>2. CASE unlock' = Overwrite(new) /\ kept' = (new.longer \/ ~unlock.longer)
    <3>1. kept' \in BOOLEAN
      BY <2>2
    <3>2. Overwrite(new) \in UnlockType
      BY <1>4, <1>5, OverwriteFacts
    <3>3. new.longer \/ ~unlock.longer => Overwrite(new).unlocked /\ ~Overwrite(new).torn
      BY <1>4, <1>5, OverwriteFacts
    <3> QED
      BY <2>2, <3>1, <3>2, <3>3, Zenon
  <2>3. CASE /\ unlock' = unlock \/ \E longer \in {unlock.longer, unlock.longer \/ new.longer} :
                                   unlock' = Torn(longer)
             /\ kept' = FALSE
    <3>1. unlock' \in UnlockType
      BY <1>4, <2>1, <2>3, LockedFacts
    <3> QED
      BY <2>3, <3>1
  <2> QED
    BY <1>2, <2>2, <2>3, Zenon
<1>11. UnlockLasts'
  BY <1>1, <1>8, <1>9, <1>10 DEF UnlockLasts
<1>12. unlocked' \in BOOLEAN
  BY <1>1, <1>3 DEF StoreTypeOK
<1> QED
  BY <1>1, <1>6, <1>7, <1>10, <1>11, <1>12, GateStep

\* The gate opens.
LEMMA SetFlagStep ==
  ASSUME SInv, NEW t \in Tasks, SetFlag(t), UNCHANGED storeVars
  PROVE  SInv'
<1>1. /\ process = "up" /\ task[t].pc = "flag" /\ unlocked' = TRUE
      /\ task' = [task EXCEPT ![t] = NoTask]
      /\ UNCHANGED <<row, dir, registry, entitled, granted, unlock, kept>>
  BY Zenon DEF SetFlag, At, End
<1>2. StoreTypeOK /\ UnlockLasts
  BY DEF SInv
<1>3. UNCHANGED process
  BY DEF storeVars
<1>4. UnlockLasts'
  BY <1>1, <1>2, <1>3 DEF UnlockLasts
<1>5. unlock' \in UnlockType /\ unlocked' \in BOOLEAN /\ kept' \in BOOLEAN
  BY <1>1, <1>2 DEF StoreTypeOK
<1> QED
  BY <1>1, <1>4, <1>5, NoTaskFacts, GateStep

-------------------------------------------------------------------------------
(* The steps of the client.                                                  *)

\* The server says what is owned; what was owned stays so for the packages in hand.
LEMMA CacheEntitlementsStep ==
  ASSUME SInv, NEW skills \in SUBSET Skills, CacheEntitlements(skills), UNCHANGED storeVars
  PROVE  SInv'
<1>1. /\ entitled' = skills /\ granted' = granted \cup skills
      /\ UNCHANGED <<row, dir, registry, unlock, unlocked, kept, task, process>>
  BY DEF CacheEntitlements, storeVars
<1>2. StoreTypeOK /\ HoldsOnlyAllowed /\ TasksSound /\ UnlockLasts
  BY DEF SInv
<1>3. \A s : May(s, granted) \subseteq May(s, granted')
  BY <1>1 DEF May
<1>4. StoreTypeOK'
  BY <1>1, <1>2 DEF StoreTypeOK
<1>5. HoldsOnlyAllowed'
  BY <1>1, <1>2, <1>3 DEF HoldsOnlyAllowed
<1>6. TasksKnow'
  <2>1. SUFFICES ASSUME NEW t \in Tasks PROVE Knows(task[t], granted')
    BY <1>1 DEF TasksKnow
  <2>2. Knows(task[t], granted)
    BY <1>2 DEF TasksSound, TasksKnow
  <2> QED
    BY <1>3, <2>2 DEF Knows
<1>7. TasksCome' /\ OneSync' /\ OffIsIdle' /\ AloneIsAlone' /\ UnlockLasts'
  BY <1>1, <1>2 DEF TasksSound, TasksCome, OneSync, OffIsIdle, AloneIsAlone, UnlockLasts
<1> QED
  BY <1>4, <1>5, <1>6, <1>7 DEF SInv, TasksSound

\* The database is opened while no command runs.
LEMMA MigrateStep ==
  ASSUME SInv, Migrate, UNCHANGED skillVars
  PROVE  SInv'
<1>1. UNCHANGED <<row, dir, registry, entitled, granted, unlock, unlocked, kept, task>>
  BY DEF skillVars
<1>2. process # "up" /\ process' # "up"
  BY DEF Migrate, StartProcess, RunStatement, BumpVersion, Succeeds
<1>3. StoreTypeOK' /\ HoldsOnlyAllowed'
  BY <1>1 DEF SInv, StoreTypeOK, HoldsOnlyAllowed
<1>4. TasksKnow' /\ TasksCome' /\ OneSync' /\ AloneIsAlone'
  BY <1>1 DEF SInv, TasksSound, TasksKnow, TasksCome, OneSync, AloneIsAlone
<1>5. OffIsIdle' /\ UnlockLasts'
  BY <1>1, <1>2 DEF SInv, TasksSound, OffIsIdle, UnlockLasts
<1> QED
  BY <1>3, <1>4, <1>5 DEF SInv, TasksSound

\* The registry is rebuilt from the rows and the gate from its file.
LEMMA SetupStep ==
  ASSUME SInv, Setup
  PROVE  SInv'
<1>1. /\ process = "migrating" /\ process' = "up"
      /\ registry' = [s \in Skills |-> IF row[s] = None THEN None
                                      ELSE [OwnedEntry[row[s]] EXCEPT !.installed = TRUE]]
      /\ unlocked' = (~unlock.torn /\ unlock.unlocked)
      /\ UNCHANGED <<row, dir, entitled, granted, unlock, kept, task>>
  BY DEF Setup, OpenStore, GateAtStart
<1>2. StoreTypeOK /\ HoldsOnlyAllowed /\ UnlockLasts /\ \A t \in Tasks : task[t] = NoTask
  BY <1>1 DEF SInv, TasksSound, OffIsIdle
<1>3. registry' \in [Skills -> Entries \cup {None}]
  <2>1. ASSUME NEW s \in Skills, row[s] # None
        PROVE  [OwnedEntry[row[s]] EXCEPT !.installed = TRUE] \in Entries
    <3>1. row[s] \in Packages
      BY <1>2, <2>1 DEF StoreTypeOK
    <3> QED
      BY <3>1, InstalledEntry
  <2> QED
    BY <1>1, <2>1
<1>4. unlock \in UnlockType
  BY <1>2 DEF StoreTypeOK
<1>5. (~unlock.torn /\ unlock.unlocked) \in BOOLEAN
  OBVIOUS
<1>6. StoreTypeOK'
  BY <1>1, <1>2, <1>3, <1>5 DEF StoreTypeOK
<1>7. HoldsOnlyAllowed'
  BY <1>1, <1>2 DEF HoldsOnlyAllowed
<1>8. TasksSound'
  <2>1. task' \in [Tasks -> TaskType] /\ \A t \in Tasks : task'[t] = NoTask
    BY <1>1, <1>2, <1>6 DEF StoreTypeOK
  <2> QED
    BY <2>1, NoTaskFacts DEF TasksSound, TasksKnow, TasksCome, OneSync, OffIsIdle, AloneIsAlone
<1>9. UnlockLasts'
  BY <1>1, <1>2, NoTaskFacts DEF UnlockLasts
<1> QED
  BY <1>6, <1>7, <1>8, <1>9 DEF SInv

\* A crash takes the commands, the registry and the flag, and an unlock it tore.
LEMMA CrashStep ==
  ASSUME SInv, Crash
  PROVE  SInv'
<1>1. /\ process' = "off" /\ task' = [t \in Tasks |-> NoTask]
      /\ registry' = [s \in Skills |-> None] /\ unlocked' = FALSE
      /\ kept' = (kept /\ \A t \in Tasks : task[t].pc # "write")
      /\ UNCHANGED <<row, dir, entitled, granted, unlock>>
  BY DEF Crash, StoreCrash
<1>2. StoreTypeOK /\ HoldsOnlyAllowed /\ UnlockLasts
  BY DEF SInv
<1>3. StoreTypeOK'
  BY <1>1, <1>2, NoTaskFacts DEF StoreTypeOK
<1>4. HoldsOnlyAllowed'
  BY <1>1, <1>2 DEF HoldsOnlyAllowed
<1>5. TasksSound'
  BY <1>1, NoTaskFacts DEF TasksSound, TasksKnow, TasksCome, OneSync, OffIsIdle, AloneIsAlone
<1>6. UnlockLasts'
  BY <1>1, <1>2 DEF UnlockLasts
<1> QED
  BY <1>3, <1>4, <1>5, <1>6 DEF SInv

\* A fresh install.
LEMMA InitSInv ==
  ASSUME SkillInit
  PROVE  SInv
<1>1. /\ process = "off" /\ row = [s \in Skills |-> None]
      /\ dir = [s \in Skills |-> [f \in FileNames |-> None]] /\ registry = [s \in Skills |-> None]
      /\ entitled = {} /\ granted = {} /\ unlock = Locked /\ unlocked = FALSE /\ kept = FALSE
      /\ task = [t \in Tasks |-> NoTask]
  BY DEF SkillInit, StoreInit
<1>2. StoreTypeOK
  BY <1>1, NoTaskFacts, LockedFacts DEF StoreTypeOK
<1>3. HoldsOnlyAllowed /\ UnlockLasts
  BY <1>1 DEF HoldsOnlyAllowed, UnlockLasts
<1>4. TasksSound
  BY <1>1, NoTaskFacts DEF TasksSound, TasksKnow, TasksCome, OneSync, OffIsIdle, AloneIsAlone
<1> QED
  BY <1>2, <1>3, <1>4 DEF SInv

\* Every step keeps the invariant.
LEMMA NextSInv ==
  ASSUME SInv, [SkillNext]_allVars
  PROVE  SInv'
<1>1. CASE UNCHANGED allVars
  BY <1>1 DEF allVars, storeVars, skillVars, SInv, StoreTypeOK, HoldsOnlyAllowed, TasksSound,
              TasksKnow, TasksCome, OneSync, OffIsIdle, AloneIsAlone, UnlockLasts
<1>2. CASE Migrate /\ UNCHANGED skillVars
  BY <1>2, MigrateStep
<1>3. CASE Setup
  BY <1>3, SetupStep
<1>4. CASE Crash
  BY <1>4, CrashStep
<1>5. ASSUME NEW t \in Tasks, TaskStep(t), UNCHANGED storeVars PROVE SInv'
  <2>1. CASE \E p \in Packages, kind \in {"install", "download"} : BeginInstall(t, p, kind)
    BY <1>5, <2>1, BeginInstallStep
  <2>2. CASE \E s \in Skills : BeginUninstall(t, s)
    BY <1>5, <2>2, BeginUninstallStep
  <2>3. CASE \E n \in Nonces : BeginRedeem(t, n)
    BY <1>5, <2>3, BeginRedeemStep
  <2>4. CASE ExtractFile(t) \/ RegisterEntry(t) \/ SaveRow(t)
    BY <1>5, <2>4, ExtractFileStep, RegisterEntryStep, SaveRowStep
  <2>5. CASE RemoveFile(t) \/ RemoveRow(t) \/ Fail(t)
    BY <1>5, <2>5, RemoveFileStep, RemoveRowStep, FailStep
  <2>6. CASE ReadUnlock(t) \/ TruncateUnlock(t) \/ WriteUnlock(t) \/ SetFlag(t)
    BY <1>5, <2>6, ReadUnlockStep, TruncateUnlockStep, WriteUnlockStep, SetFlagStep
  <2> QED
    BY <1>5, <2>1, <2>2, <2>3, <2>4, <2>5, <2>6 DEF TaskStep
<1>6. ASSUME NEW skills \in SUBSET Skills, CacheEntitlements(skills), UNCHANGED storeVars
      PROVE  SInv'
  BY <1>6, CacheEntitlementsStep
<1> QED
  BY <1>1, <1>2, <1>3, <1>4, <1>5, <1>6 DEF SkillNext

-------------------------------------------------------------------------------
(* What follows.                                                             *)

\* The invariant holds of every reachable state, for any skills and packages.
THEOREM SkillInvariance == SkillSpec => []SInv
<1>1. SkillInit => SInv
  BY InitSInv
<1>2. SInv /\ [SkillNext]_allVars => SInv'
  BY NextSInv
<1> QED
  BY <1>1, <1>2, PTL DEF SkillSpec

\* Whatever packages are offered, whatever fails, crashes or overlaps, the store holds
\* only packages that passed every gate of install_bytes, each under its own skill, the
\* registry lists only owned skills, and the main thread runs one command at a time.
THEOREM StoreTheorem == SkillSpec => []StoreIsSound
<1>1. SInv => StoreIsSound
  <2>1. SUFFICES ASSUME SInv PROVE SkillTypeOK /\ OnlyAllowed
    BY DEF StoreIsSound
  <2>2. StoreTypeOK /\ HoldsOnlyAllowed /\ OneSync
    BY <2>1 DEF SInv, TasksSound
  <2>3. ASSUME NEW s \in Skills, NEW p \in ({row[s]} \cup {dir[s][f] : f \in FileNames}) \ {None}
        PROVE  p \in May(s, granted)
    BY <2>2 DEF HoldsOnlyAllowed
  <2>4. \A s \in Skills : \A p \in ({row[s]} \cup {dir[s][f] : f \in FileNames}) \ {None} :
          <<s, p>> \in Filed
    BY <2>3 DEF May, Filed
  <2>5. ASSUME NEW s \in Skills, registry[s] # None
        PROVE  LifecycleState(registry[s]) # "not_owned"
    <3>1. registry[s] \in Entries
      BY <2>2, <2>5 DEF StoreTypeOK
    <3> QED
      BY <3>1, EntryFacts
  <2>6. Cardinality({t \in Tasks : task[t].kind \in SyncKinds}) <= 1
    <3> DEFINE sync == {t \in Tasks : task[t].kind \in SyncKinds}
    <3>1. CASE sync = {}
      BY <3>1, FS_EmptySet
    <3>2. CASE sync # {}
      <4>1. PICK t \in sync : TRUE
        BY <3>2
      <4>2. sync = {t}
        BY <2>2, <4>1 DEF OneSync
      <4>3. Cardinality({t}) = 1
        BY FS_Singleton
      <4> QED
        BY <4>2, <4>3
    <3> QED
      BY <3>1, <3>2
  <2>7. SkillTypeOK
    BY <2>2, <2>4, <2>5, <2>6 DEF SkillTypeOK, StoreTypeOK
  <2>8. OnlyAllowed
    BY <2>3 DEF OnlyAllowed, May
  <2> QED
    BY <2>7, <2>8
<1> QED
  BY <1>1, SkillInvariance, PTL

\* An unlock once written opens the gate in this session and after every restart, unless
\* a crash or an I/O error tore the file or a purchase wrote over the longer record of a
\* redemption it overlapped with: for any purchases, redemptions and uninstalls.
THEOREM UnlockTheorem == SkillSpec => []UnlockSurvives
<1>1. SInv => UnlockSurvives
  BY DEF SInv, UnlockLasts, UnlockSurvives
<1> QED
  BY <1>1, SkillInvariance, PTL

\* An install or uninstall of a skill that no other command of that skill overlapped ends
\* with directory, registry and row in agreement, whatever state it began in.
THEOREM WholeTheorem == SkillSpec => UndisturbedIsWhole
<1> DEFINE A == \A t \in Tasks : task[t].alone /\ (SaveRow(t) \/ RemoveRow(t)) => LeavesWhole(t)
<1>1. SInv => A
  <2>1. SUFFICES ASSUME SInv, NEW t \in Tasks, task[t].alone, SaveRow(t) \/ RemoveRow(t)
                 PROVE  LeavesWhole(t)
    OBVIOUS
  <2> DEFINE s == task[t].skill
             p == task[t].pkg
  <2>2. StoreTypeOK /\ Knows(task[t], granted) /\ Come(task[t], dir[s], registry[s])
    BY <2>1 DEF SInv, TasksSound, TasksKnow, TasksCome
  <2>3. CASE SaveRow(t)
    <3>1. /\ task[t].pc = "save" /\ row' = [row EXCEPT ![s] = p] /\ UNCHANGED <<dir, registry>>
      BY <2>3, Zenon DEF SaveRow, At, Saved
    <3>2. /\ task[t].kind \in {"install", "download"} /\ s \in Skills /\ p \in May(s, granted)
      BY <2>2, <3>1 DEF Knows, InstallSteps
    <3>3. Written(p, dir[s], {}) /\ registry[s] # None /\ registry[s].installed
      BY <2>1, <2>2, <3>1 DEF Come
    <3>4. registry[s] \in Entries
      BY <2>2, <3>2, <3>3 DEF StoreTypeOK
    <3>5. LifecycleState(registry[s]) = "installed_disabled"
      BY <3>3, <3>4, EntryFacts
    <3>6. row'[s] = p
      BY <2>2, <3>1, <3>2 DEF StoreTypeOK
    <3> QED
      BY <3>1, <3>2, <3>3, <3>5, <3>6 DEF LeavesWhole, Written
  <2>4. CASE RemoveRow(t)
    <3>1. task[t].pc = "forget" /\ row' = [row EXCEPT ![s] = None] /\ UNCHANGED <<dir, registry>>
      BY <2>4, Zenon DEF RemoveRow, At
    <3>2. task[t].kind = "uninstall" /\ s \in Skills
      BY <2>2, <3>1 DEF Knows, UninstallSteps
    <3>3. /\ registry[s] = None \/ ~registry[s].installed
          /\ \A f \in FileNames : dir[s][f] = None
      BY <2>1, <2>2, <3>1 DEF Come, UninstallSteps
    <3>4. registry[s] # None => LifecycleState(registry[s]) = "owned_not_installed"
      <4>1. registry[s] # None => registry[s] \in Entries
        BY <2>2, <3>2 DEF StoreTypeOK
      <4> QED
        BY <3>3, <4>1, EntryFacts
    <3>5. row'[s] = None
      BY <2>2, <3>1, <3>2 DEF StoreTypeOK
    <3> QED
      BY <3>1, <3>2, <3>3, <3>4, <3>5 DEF LeavesWhole
  <2> QED
    BY <2>1, <2>3, <2>4
<1>2. SInv => [A]_allVars
  BY <1>1
<1> HIDE DEF A
<1>3. SkillSpec => [][A]_allVars
  BY <1>2, SkillInvariance, PTL
<1> QED
  BY <1>3 DEF UndisturbedIsWhole, A

-------------------------------------------------------------------------------
(* What is retained.                                                         *)

\* How many numbers of I there are up to i.
Rank(I, i) == Cardinality({j \in I : j <= i})

\* A number of I up to j is ranked no higher than j, and below it when it is another.
LEMMA RankGrows ==
  ASSUME NEW I \in SUBSET Nat, IsFiniteSet(I), NEW i \in I, NEW j \in I, i < j
  PROVE  Rank(I, i) < Rank(I, j)
<1> DEFINE low == {x \in I : x <= i}
           high == {x \in I : x <= j}
<1>0. low \in SUBSET I /\ high \in SUBSET I
  OBVIOUS
<1>1. IsFiniteSet(low) /\ IsFiniteSet(high)
  BY <1>0, FS_Subset
<1>2. low \subseteq high /\ j \in high /\ j \notin low
  <2>1. i \in Nat /\ j \in Nat /\ \A x \in I : x \in Nat
    OBVIOUS
  <2>2. \A x \in I : x <= i => x <= j
    BY <2>1
  <2>3. j <= j /\ ~(j <= i)
    BY <2>1
  <2> QED
    BY <2>2, <2>3
<1>3. Cardinality(low) <= Cardinality(high)
  BY <1>1, <1>2, FS_Subset
<1>4. Cardinality(low) # Cardinality(high)
  BY <1>1, <1>2, FS_Subset
<1>5. Cardinality(low) \in Nat /\ Cardinality(high) \in Nat
  BY <1>1, FS_CardinalityType
<1> QED
  BY <1>3, <1>4, <1>5 DEF Rank

\* Nth counts through the indices, the lower first, and leaves none out.
LEMMA NthCounts ==
  ASSUME NEW n \in Nat, NEW I \in SUBSET (1..n)
  PROVE  /\ Cardinality(I) \in Nat /\ Cardinality(I) <= n
         /\ \A k \in 1..Cardinality(I) : Nth(I, k) \in I
         /\ \A j, k \in 1..Cardinality(I) : j < k => Nth(I, j) < Nth(I, k)
         /\ \A i \in I : \E k \in 1..Cardinality(I) : Nth(I, k) = i
<1> DEFINE c == Cardinality(I)
           rank == [i \in I |-> Rank(I, i)]
<1>1. I \in SUBSET Nat /\ IsFiniteSet(I) /\ c \in Nat /\ c <= n
  <2> DEFINE D == 1..n
  <2>1. 1 \in Int /\ n \in Int
    OBVIOUS
  <2>2. IsFiniteSet(D) /\ Cardinality(D) = IF 1 > n THEN 0 ELSE n - 1 + 1
    BY <2>1, FS_Interval
  <2>3. Cardinality(D) = n
    BY <2>2
  <2>4. I \in SUBSET D /\ I \in SUBSET Nat
    OBVIOUS
  <2> HIDE DEF D
  <2> QED
    BY <2>2, <2>3, <2>4, FS_Subset, FS_CardinalityType
<1>2. ASSUME NEW i \in I PROVE Rank(I, i) \in 1..c
  <2> DEFINE low == {j \in I : j <= i}
  <2>1. IsFiniteSet(low) /\ Cardinality(low) <= c
    BY <1>1, FS_Subset
  <2>2. i \in low
    BY <1>1
  <2>3. Cardinality(low) \in Nat /\ Cardinality(low) # 0
    BY <2>1, <2>2, FS_CardinalityType, FS_EmptySet
  <2> QED
    BY <1>1, <2>1, <2>3 DEF Rank
<1>3. ASSUME NEW i \in I, NEW j \in I, Rank(I, i) <= Rank(I, j) PROVE i <= j
  <2>1. i \in Nat /\ j \in Nat /\ Rank(I, i) \in Nat /\ Rank(I, j) \in Nat
    BY <1>1, <1>2
  <2>2. ~ (j < i)
    BY <1>1, <1>3, <2>1, RankGrows
  <2> QED
    BY <2>1, <2>2
<1>4. rank \in Injection(I, 1..c)
  <2>1. ASSUME NEW i \in I, NEW j \in I, Rank(I, i) = Rank(I, j) PROVE i = j
    <3>1. i \in Nat /\ j \in Nat /\ Rank(I, i) \in Nat /\ Rank(I, j) \in Nat
      BY <1>1, <1>2
    <3>2. i <= j /\ j <= i
      BY <1>3, <2>1, <3>1
    <3> QED
      BY <3>1, <3>2
  <2> QED
    BY <1>2, <2>1 DEF Injection, IsInjective
<1>5. IsFiniteSet(1..c) /\ Cardinality(1..c) = c
  <2>1. 1 \in Int /\ c \in Int
    BY <1>1
  <2>2. IsFiniteSet(1..c) /\ Cardinality(1..c) = IF 1 > c THEN 0 ELSE c - 1 + 1
    BY <2>1, FS_Interval
  <2> QED
    BY <2>2, <1>1
<1>6. rank \in Surjection(I, 1..c)
  BY <1>4, <1>5, FS_Injection
<1>7. ASSUME NEW k \in 1..c PROVE Nth(I, k) \in I /\ Rank(I, Nth(I, k)) = k
  <2>1. PICK i \in I : rank[i] = k
    BY <1>6 DEF Surjection
  <2>2. Rank(I, i) = k
    BY <2>1
  <2> QED
    BY <2>2 DEF Nth, Rank
<1> HIDE DEF c
<1>8. ASSUME NEW j \in 1..c, NEW k \in 1..c, j < k PROVE Nth(I, j) < Nth(I, k)
  <2> DEFINE x == Nth(I, j)
             y == Nth(I, k)
  <2>1. x \in I /\ y \in I /\ Rank(I, x) = j /\ Rank(I, y) = k
    BY <1>7
  <2> HIDE DEF x, y
  <2>2. x \in Nat /\ y \in Nat /\ j \in Nat /\ k \in Nat
    BY <1>1, <2>1
  <2>3. ~ (y <= x)
    <3>1. SUFFICES ASSUME y <= x PROVE FALSE
      OBVIOUS
    <3>2. Rank(I, y) <= Rank(I, x)
      <4>1. CASE y = x
        BY <2>1, <2>2, <4>1
      <4>2. CASE y < x
        <5>1. Rank(I, y) < Rank(I, x)
          BY <1>1, <2>1, <4>2, RankGrows
        <5> QED
          BY <2>1, <2>2, <5>1
      <4> QED
        BY <2>2, <3>1, <4>1, <4>2
    <3> QED
      BY <1>8, <2>1, <2>2, <3>2
  <2>4. x < y
    BY <2>2, <2>3
  <2> QED
    BY <2>4 DEF x, y
<1>9. ASSUME NEW i \in I PROVE \E k \in 1..c : Nth(I, k) = i
  <2> DEFINE k == Rank(I, i)
             x == Nth(I, k)
  <2>1. k \in 1..c
    BY <1>2
  <2>2. x \in I /\ Rank(I, x) = Rank(I, i)
    BY <1>7, <2>1
  <2>3. Rank(I, i) \in Nat
    BY <1>2
  <2> HIDE DEF x
  <2>4. Rank(I, i) <= Rank(I, x) /\ Rank(I, x) <= Rank(I, i)
    BY <2>2, <2>3
  <2>5. i <= x /\ x <= i
    BY <1>3, <2>2, <2>4
  <2>6. x \in Nat /\ i \in Nat
    BY <1>1, <2>2
  <2>7. x = i
    BY <2>5, <2>6
  <2> QED
    BY <2>1, <2>7 DEF x
<1> QED
  BY <1>1, <1>7, <1>8, <1>9 DEF c

-------------------------------------------------------------------------------
(* The window, key by key.                                                   *)

\* g inserts the keys of ins at every set of indices in D the way FoldLeft does.
Inserts(g, D, ins) ==
  g = [s \in D |-> IF s = {} THEN <<>> ELSE InsertSpki(g[s \ {Max(s)}], ins[Max(s)])]

\* The window after the keys of ins at the indices s.
WindowAt(ins) == CHOOSE g : Inserts(g, SUBSET DOMAIN ins, ins)

\* The window that the code ends with is the one after all keys.
LEMMA WindowIsLast ==
  ASSUME NEW ins
  PROVE  Window(ins) = WindowAt(ins)[DOMAIN ins]
BY DEF Window, FoldLeft, MapThenFoldSet, WindowAt, Inserts

\* Taking the greatest index out of a non-empty set of indices leaves a smaller set.
LEMMA RemoveMax ==
  ASSUME NEW n \in Nat, NEW s \in SUBSET (1..n), s # {}
  PROVE  /\ s \ {Max(s)} \in SUBSET (1..n)
         /\ Cardinality(s) \in Nat /\ Cardinality(s \ {Max(s)}) = Cardinality(s) - 1
         /\ Cardinality(s) > 0
<1>1. Max(s) \in s
  BY Extremes
<1>2. IsFiniteSet(s)
  <2>1. IsFiniteSet(1..n)
    BY FS_Interval
  <2> QED
    BY <2>1, FS_Subset
<1>3. Cardinality(s) \in Nat /\ Cardinality(s) # 0
  BY <1>2, FS_CardinalityType, FS_EmptySet
<1>4. Cardinality(s \ {Max(s)}) = Cardinality(s) - 1
  BY <1>1, <1>2, FS_RemoveElement
<1>5. Cardinality(s) > 0
  BY <1>3
<1>6. s \ {Max(s)} \in SUBSET (1..n)
  OBVIOUS
<1> QED
  BY <1>3, <1>4, <1>5, <1>6

\* The sets of at most k numbers of L.
UpTo(L, k) == {s \in SUBSET L : Cardinality(s) <= k}

\* There is a function that inserts the keys of all sets of at most k indices.
LEMMA SomeWindows ==
  ASSUME NEW n \in Nat, NEW ins
  PROVE  \A k \in Nat : \E g : Inserts(g, UpTo(1..n, k), ins)
<1> DEFINE Bad == {k \in Nat : ~ \E g : Inserts(g, UpTo(1..n, k), ins)}
           Less(s) == s \ {Max(s)}
<1> SUFFICES ASSUME Bad # {} PROVE FALSE
  OBVIOUS
<1>1. PICK k \in Bad : \A m \in Bad : k <= m
  <2>1. Bad \in SUBSET Nat
    OBVIOUS
  <2> HIDE DEF Bad
  <2> QED
    BY <2>1, LeastNat
<1>2. k \in Nat /\ ~ \E g : Inserts(g, UpTo(1..n, k), ins)
  OBVIOUS
<1>3. \E g : \A s \in UpTo(1..n, k) : s # {} =>
        g[Less(s)] = IF Less(s) = {} THEN <<>>
                     ELSE InsertSpki(g[Less(Less(s))], ins[Max(Less(s))])
  <2>1. CASE k = 0
    <3>1. ASSUME NEW s \in UpTo(1..n, k), s # {} PROVE FALSE
      <4>1. s \in SUBSET (1..n) /\ Cardinality(s) <= k
        BY DEF UpTo
      <4>2. Cardinality(s) > 0 /\ Cardinality(s) \in Nat
        BY <3>1, <4>1, RemoveMax
      <4> QED
        BY <2>1, <4>1, <4>2
    <3> QED
      BY <3>1
  <2>2. CASE k # 0
    <3>1. k - 1 \in Nat /\ k - 1 \notin Bad
      BY <1>1, <2>2
    <3>2. PICK g : Inserts(g, UpTo(1..n, k - 1), ins)
      BY <3>1
    <3>3. ASSUME NEW s \in UpTo(1..n, k), s # {} PROVE Less(s) \in UpTo(1..n, k - 1)
      <4>1. s \in SUBSET (1..n) /\ Cardinality(s) <= k
        BY DEF UpTo
      <4>2. /\ Less(s) \in SUBSET (1..n)
            /\ Cardinality(s) \in Nat /\ Cardinality(Less(s)) = Cardinality(s) - 1
        BY <3>3, <4>1, RemoveMax
      <4>3. Cardinality(Less(s)) <= k - 1
        BY <1>2, <4>1, <4>2
      <4> QED
        BY <4>2, <4>3 DEF UpTo
    <3> QED
      BY <3>2, <3>3 DEF Inserts
  <2> QED
    BY <2>1, <2>2
<1>4. PICK g : \A s \in UpTo(1..n, k) : s # {} =>
        g[Less(s)] = IF Less(s) = {} THEN <<>>
                     ELSE InsertSpki(g[Less(Less(s))], ins[Max(Less(s))])
  BY <1>3
<1> DEFINE h == [s \in UpTo(1..n, k) |-> IF s = {} THEN <<>> ELSE InsertSpki(g[Less(s)], ins[Max(s)])]
<1>5. ASSUME NEW s \in UpTo(1..n, k), s # {} PROVE Less(s) \in UpTo(1..n, k)
  <2>1. s \in SUBSET (1..n) /\ Cardinality(s) <= k
    BY DEF UpTo
  <2>2. /\ Less(s) \in SUBSET (1..n)
        /\ Cardinality(s) \in Nat /\ Cardinality(Less(s)) = Cardinality(s) - 1
    BY <1>5, <2>1, RemoveMax
  <2>3. Cardinality(Less(s)) <= k
    BY <1>2, <2>1, <2>2
  <2> QED
    BY <2>2, <2>3 DEF UpTo
<1>6. ASSUME NEW s \in UpTo(1..n, k), s # {} PROVE h[Less(s)] = g[Less(s)]
  <2> DEFINE r == Less(s)
  <2>1. r \in UpTo(1..n, k)
    BY <1>5, <1>6
  <2>2. g[r] = IF r = {} THEN <<>> ELSE InsertSpki(g[Less(r)], ins[Max(r)])
    BY <1>4, <1>6
  <2> HIDE DEF r, Less
  <2>3. h[r] = IF r = {} THEN <<>> ELSE InsertSpki(g[Less(r)], ins[Max(r)])
    BY <2>1
  <2> QED
    BY <2>2, <2>3 DEF r
<1>7. h = [s \in UpTo(1..n, k) |-> IF s = {} THEN <<>> ELSE InsertSpki(h[Less(s)], ins[Max(s)])]
  BY <1>6
<1> HIDE DEF h
<1>8. Inserts(h, UpTo(1..n, k), ins)
  BY <1>7 DEF Inserts
<1> QED
  BY <1>2, <1>8

\* The window after the first k keys, and one key more.
LEMMA WindowTurns ==
  ASSUME NEW n \in Nat, NEW ins, DOMAIN ins = 1..n
  PROVE  /\ WindowAt(ins)[1..0] = <<>>
         /\ \A k \in 1..n : WindowAt(ins)[1..k] = InsertSpki(WindowAt(ins)[1..(k - 1)], ins[k])
<1>1. UpTo(1..n, n) = SUBSET (1..n)
  <2>0. 1 \in Int /\ n \in Int
    OBVIOUS
  <2>3. Cardinality(1..n) = IF 1 > n THEN 0 ELSE n - 1 + 1
    BY <2>0, FS_Interval
  <2>1. IsFiniteSet(1..n) /\ Cardinality(1..n) = n
    BY <2>0, <2>3, FS_Interval
  <2>2. ASSUME NEW s \in SUBSET (1..n) PROVE Cardinality(s) <= n
    <3> DEFINE D == 1..n
    <3>1. IsFiniteSet(D) /\ Cardinality(D) = n /\ s \in SUBSET D
      BY <2>1
    <3> HIDE DEF D
    <3>2. Cardinality(s) <= Cardinality(D)
      BY <3>1, FS_Subset
    <3> QED
      BY <3>1, <3>2
  <2>4. UpTo(1..n, n) = {s \in SUBSET (1..n) : Cardinality(s) <= n}
    BY DEF UpTo
  <2> QED
    BY <2>2, <2>4
<1>2. \E g : Inserts(g, SUBSET (1..n), ins)
  <2>1. \E g : Inserts(g, UpTo(1..n, n), ins)
    BY SomeWindows
  <2> QED
    BY <1>1, <2>1, Zenon
<1>3. Inserts(WindowAt(ins), SUBSET (1..n), ins)
  BY <1>2 DEF WindowAt
<1>4. WindowAt(ins)[1..0] = <<>>
  <2>1. 1..0 = {} /\ {} \in SUBSET (1..n)
    OBVIOUS
  <2> QED
    BY <1>3, <2>1 DEF Inserts
<1>5. ASSUME NEW k \in 1..n
      PROVE  WindowAt(ins)[1..k] = InsertSpki(WindowAt(ins)[1..(k - 1)], ins[k])
  <2>1. 1..k \in SUBSET (1..n) /\ k \in 1..k /\ (1..k) \ {k} = 1..(k - 1)
    OBVIOUS
  <2>2. Max(1..k) \in 1..k /\ Max(1..k) >= k
    BY <2>1, Extremes
  <2>3. Max(1..k) = k
    BY <2>2
  <2> QED
    BY <1>3, <2>1, <2>3 DEF Inserts
<1> QED
  BY <1>4, <1>5

-------------------------------------------------------------------------------
(* The keys of the window, and where they come from.                         *)

\* Of the first k keys, the i-th is one of its algorithm and the last of its kid.
Current(i, k, ins) ==
  IsKeyOf(ins[i]) /\ \A j \in (i + 1)..k : IsKeyOf(ins[j]) => ins[j].kid # ins[i].kid

\* The window holds what is current among the first k keys, the older first; what it
\* lacks of it is older than all it holds, and then it is full.
Places(pos, w, k, ins) ==
  /\ w \in Seq(Keys)
  /\ pos \in [1..Len(w) -> 1..k]
  /\ \A a, b \in 1..Len(w) : a < b => pos[a] < pos[b]
  /\ \A a \in 1..Len(w) : w[a] = ins[pos[a]] /\ Current(pos[a], k, ins)
  /\ \A i \in 1..k : Current(i, k, ins) =>
       \/ \E a \in 1..Len(w) : pos[a] = i
       \/ TrustedSetSize > 0 /\ Len(w) = TrustedSetSize /\ \A a \in 1..Len(w) : i < pos[a]
  /\ TrustedSetSize > 0 => Len(w) <= TrustedSetSize

\* A key stays current unless the next one is of its kid.
LEMMA StaysCurrent ==
  ASSUME NEW ins, NEW k \in Nat, NEW i \in 1..k
  PROVE  Current(i, k + 1, ins) <=>
           Current(i, k, ins) /\ (IsKeyOf(ins[k + 1]) => ins[k + 1].kid # ins[i].kid)
<1>1. (i + 1)..(k + 1) = ((i + 1)..k) \cup {k + 1}
  OBVIOUS
<1> QED
  BY <1>1 DEF Current

\* The newest key is current when it is of its algorithm.
LEMMA NewestIsCurrent ==
  ASSUME NEW ins, NEW k \in Nat
  PROVE  Current(k, k, ins) <=> IsKeyOf(ins[k])
<1>1. (k + 1)..k = {}
  OBVIOUS
<1> QED
  BY <1>1 DEF Current

\* No two keys of a window are of one kid.
LEMMA KidsDiffer ==
  ASSUME NEW ins, NEW k \in Nat, NEW w, NEW pos, Places(pos, w, k, ins),
         NEW a \in 1..Len(w), NEW b \in 1..Len(w), a # b
  PROVE  w[a].kid # w[b].kid
<1>0. Len(w) \in Nat
  BY DEF Places
<1>1. ASSUME NEW c \in 1..Len(w), NEW d \in 1..Len(w), c < d PROVE w[c].kid # w[d].kid
  <2>1. /\ pos[c] \in 1..k /\ pos[d] \in 1..k /\ pos[c] < pos[d]
        /\ w[c] = ins[pos[c]] /\ w[d] = ins[pos[d]]
        /\ Current(pos[c], k, ins) /\ Current(pos[d], k, ins)
    BY <1>1 DEF Places
  <2>2. pos[d] \in (pos[c] + 1)..k
    BY <2>1
  <2> QED
    BY <2>1, <2>2 DEF Current
<1>2. a < b \/ b < a
  BY <1>0
<1> QED
  BY <1>1, <1>2

\* A window whose keys of one kid are out, and with the next key added: all its keys and
\* their places.
Added(c, all, apos, w, k, ins) ==
  /\ all = Append(Retained(w, {i \in 1..Len(w) : w[i].kid # ins[k + 1].kid}), ins[k + 1])
  /\ c \in Nat /\ c <= Len(w) /\ c >= Len(w) - 1
  /\ all \in Seq(Keys) /\ Len(all) = c + 1
  /\ \A a \in 1..(c + 1) :
       /\ apos[a] \in 1..(k + 1) /\ all[a] = ins[apos[a]]
       /\ Current(apos[a], k + 1, ins)
  /\ \A a, b \in 1..(c + 1) : a < b => apos[a] < apos[b]
  /\ \A i \in 1..(k + 1) : Current(i, k + 1, ins) =>
       \/ \E a \in 1..(c + 1) : apos[a] = i
       \/ /\ TrustedSetSize > 0 /\ Len(w) = TrustedSetSize
          /\ \A a \in 1..(c + 1) : i < apos[a]

\* Before the oldest roll off, a window with a key added has its places like any other.
LEMMA KeyIsAdded ==
  ASSUME NEW ins, NEW k \in Nat, NEW w, NEW pos, Places(pos, w, k, ins),
         IsKeyOf(ins[k + 1]), ins[k + 1] \in Keys
  PROVE  \E c, all, apos : Added(c, all, apos, w, k, ins)
<1> DEFINE n == Len(w)
           key == ins[k + 1]
           I == {i \in 1..n : w[i].kid # key.kid}
           c == Cardinality(I)
           left == Retained(w, I)
           all == Append(left, key)
           apos == [a \in 1..(c + 1) |-> IF a <= c THEN pos[Nth(I, a)] ELSE k + 1]
<1>1. n \in Nat /\ I \in SUBSET (1..n) /\ w \in Seq(Keys)
  BY DEF Places
<1>2. /\ c \in Nat /\ c <= n
      /\ \A a \in 1..c : Nth(I, a) \in I
      /\ \A a, b \in 1..c : a < b => Nth(I, a) < Nth(I, b)
      /\ \A i \in I : \E a \in 1..c : Nth(I, a) = i
  BY <1>1, NthCounts
<1>3. c >= n - 1
  <2>1. CASE I = 1..n
    <3>1. 1 \in Int /\ n \in Int
      BY <1>1
    <3>2. c = IF 1 > n THEN 0 ELSE n - 1 + 1
      BY <2>1, <3>1, FS_Interval
    <3> HIDE DEF c, n, I
    <3> QED
      BY <1>1, <3>2
  <2>2. CASE I # 1..n
    <3> DEFINE D == 1..n
    <3>1. PICK b \in D : b \notin I
      BY <1>1, <2>2
    <3>2. \A a \in D : a # b => a \in I
      <4>1. ASSUME NEW a \in D, a # b PROVE a \in I
        <5>1. w[b].kid = key.kid
          BY <3>1
        <5>2. w[a].kid # w[b].kid
          BY <4>1, KidsDiffer
        <5> QED
          BY <5>1, <5>2
      <4> QED
        BY <4>1
    <3>3. I = D \ {b}
      BY <1>1, <3>1, <3>2
    <3>4. IsFiniteSet(D) /\ Cardinality(D) = n
      <4>1. 1 \in Int /\ n \in Int
        BY <1>1
      <4>2. IsFiniteSet(D) /\ Cardinality(D) = IF 1 > n THEN 0 ELSE n - 1 + 1
        BY <4>1, FS_Interval
      <4> QED
        BY <4>2, <1>1
    <3> HIDE DEF D
    <3>5. Cardinality(I) = Cardinality(D) - 1
      BY <3>1, <3>3, <3>4, FS_RemoveElement
    <3> QED
      BY <1>1, <3>4, <3>5
  <2> QED
    BY <2>1, <2>2
<1>4. left \in Seq(Keys) /\ Len(left) = c /\ \A a \in 1..c : left[a] = w[Nth(I, a)]
  <2>1. left = [a \in 1..c |-> w[Nth(I, a)]]
    BY DEF Retained
  <2>2. \A a \in 1..c : w[Nth(I, a)] \in Keys
    BY <1>1, <1>2
  <2> HIDE DEF c, left
  <2> QED
    BY <1>2, <2>1, <2>2
<1> HIDE DEF c, left
<1>5. /\ all \in Seq(Keys) /\ Len(all) = c + 1
      /\ \A a \in 1..c : all[a] = w[Nth(I, a)]
      /\ all[c + 1] = key
  BY <1>2, <1>4
<1> HIDE DEF c, n, left, all
<1>6. ASSUME NEW a \in 1..c
      PROVE  /\ Nth(I, a) \in 1..n /\ w[Nth(I, a)].kid # key.kid
             /\ a \in 1..(c + 1) /\ apos[a] = pos[Nth(I, a)] /\ apos[a] \in 1..k
             /\ all[a] = ins[apos[a]] /\ Current(apos[a], k, ins)
  <2>1. Nth(I, a) \in I
    BY <1>2
  <2>2. Nth(I, a) \in 1..n /\ w[Nth(I, a)].kid # key.kid
    BY <1>1, <2>1
  <2>3. a \in 1..(c + 1) /\ a <= c
    BY <1>2
  <2>4. apos[a] = pos[Nth(I, a)]
    BY <2>3
  <2>5. /\ pos[Nth(I, a)] \in 1..k /\ w[Nth(I, a)] = ins[pos[Nth(I, a)]]
        /\ Current(pos[Nth(I, a)], k, ins)
    BY <2>2 DEF Places, n
  <2>6. all[a] = w[Nth(I, a)]
    BY <1>5
  <2> QED
    BY <2>2, <2>3, <2>4, <2>5, <2>6
<1>7. apos[c + 1] = k + 1 /\ c + 1 \in 1..(c + 1)
  BY <1>2
<1>8. \A a \in 1..(c + 1) : a \in 1..c \/ a = c + 1
  BY <1>2
<1> HIDE DEF apos
<1>9. ASSUME NEW a \in 1..(c + 1)
      PROVE  /\ apos[a] \in 1..(k + 1) /\ all[a] = ins[apos[a]]
             /\ Current(apos[a], k + 1, ins)
  <2>1. CASE a \in 1..c
    <3>1. apos[a] \in 1..k /\ Current(apos[a], k, ins) /\ all[a] = ins[apos[a]]
      BY <1>6, <2>1
    <3>2. all[a] = w[Nth(I, a)] /\ w[Nth(I, a)].kid # key.kid
      BY <1>5, <1>6, <2>1
    <3>3. Current(apos[a], k + 1, ins)
      BY <3>1, <3>2, StaysCurrent
    <3>4. apos[a] \in 1..(k + 1)
      BY <3>1
    <3> QED
      BY <3>1, <3>3, <3>4
  <2>2. CASE a = c + 1
    <3>1. Current(k + 1, k + 1, ins)
      BY NewestIsCurrent
    <3> QED
      BY <1>5, <1>7, <2>2, <3>1
  <2> QED
    BY <1>8, <2>1, <2>2
<1>10. ASSUME NEW a \in 1..(c + 1), NEW b \in 1..(c + 1), a < b PROVE apos[a] < apos[b]
  <2>1. a \in 1..c
    BY <1>2, <1>8, <1>10
  <2>2. CASE b \in 1..c
    <3>1. Nth(I, a) < Nth(I, b)
      BY <1>2, <1>10, <2>1, <2>2
    <3>2. pos[Nth(I, a)] < pos[Nth(I, b)]
      BY <1>6, <2>1, <2>2, <3>1 DEF Places, n
    <3>3. apos[a] = pos[Nth(I, a)]
      BY <1>6, <2>1
    <3>4. apos[b] = pos[Nth(I, b)]
      BY <1>6, <2>2
    <3> QED
      BY <3>2, <3>3, <3>4
  <2>3. CASE b = c + 1
    <3>1. apos[a] \in 1..k
      BY <1>6, <2>1
    <3>2. apos[b] = k + 1
      BY <1>7, <2>3
    <3> QED
      BY <3>1, <3>2
  <2> QED
    BY <1>8, <2>2, <2>3
<1>11. ASSUME NEW i \in 1..(k + 1), Current(i, k + 1, ins)
       PROVE  \/ \E a \in 1..(c + 1) : apos[a] = i
              \/ /\ TrustedSetSize > 0 /\ Len(w) = TrustedSetSize
                 /\ \A a \in 1..(c + 1) : i < apos[a]
  <2>1. CASE i = k + 1
    BY <1>7, <2>1
  <2>2. CASE i # k + 1
    <3>1. i \in 1..k
      BY <2>2
    <3>2. Current(i, k, ins) /\ key.kid # ins[i].kid
      BY <1>11, <3>1, StaysCurrent
    <3>3. CASE \E b \in 1..n : pos[b] = i
      <4>1. PICK b \in 1..n : pos[b] = i
        BY <3>3
      <4>2. w[b] = ins[i]
        BY <4>1 DEF Places, n
      <4>3. b \in I
        BY <3>2, <4>1, <4>2 DEF n
      <4>4. PICK a \in 1..c : Nth(I, a) = b
        BY <1>2, <4>3
      <4> QED
        BY <1>6, <4>1, <4>4
    <3>4. CASE ~ \E b \in 1..n : pos[b] = i
      <4>1. TrustedSetSize > 0 /\ n = TrustedSetSize /\ \A b \in 1..n : i < pos[b]
        BY <3>1, <3>2, <3>4 DEF Places, n
      <4>2. ASSUME NEW a \in 1..(c + 1) PROVE i < apos[a]
        <5>1. CASE a \in 1..c
          BY <1>6, <4>1, <5>1
        <5>2. CASE a = c + 1
          BY <1>7, <3>1, <5>2
        <5> QED
          BY <1>8, <5>1, <5>2
      <4> QED
        BY <4>1, <4>2 DEF n
    <3> QED
      BY <3>3, <3>4
  <2> QED
    BY <2>1, <2>2
<1> QED
  <2>1. /\ all = Append(Retained(w, {i \in 1..Len(w) : w[i].kid # ins[k + 1].kid}), ins[k + 1])
        /\ c <= Len(w) /\ c >= Len(w) - 1
    BY <1>2, <1>3 DEF all, left, I, key, n
  <2>2. Added(c, all, apos, w, k, ins)
    BY <2>1, <1>2, <1>5, <1>9, <1>10, <1>11 DEF Added
  <2> QED
    BY <2>2

\* A key that is inserted takes its place in the window.
LEMMA InsertPlaces ==
  ASSUME NEW ins, NEW k \in Nat, NEW w, NEW pos, Places(pos, w, k, ins), ins[k + 1] \in Keys
  PROVE  \E p : Places(p, InsertSpki(w, ins[k + 1]), k + 1, ins)
<1> DEFINE key == ins[k + 1]
           n == Len(w)
           T == TrustedSetSize
<1>1. CASE ~IsKeyOf(key)
  <2>1. InsertSpki(w, key) = w
    BY <1>1 DEF InsertSpki
  <2>2. \A i \in 1..k : Current(i, k + 1, ins) <=> Current(i, k, ins)
    BY <1>1, StaysCurrent
  <2>3. ~Current(k + 1, k + 1, ins)
    BY <1>1, NewestIsCurrent
  <2>4. 1..(k + 1) = (1..k) \cup {k + 1}
    OBVIOUS
  <2>5. Places(pos, w, k + 1, ins)
    <3>1. pos \in [1..n -> 1..k]
      BY DEF Places
    <3>2. pos \in [1..n -> 1..(k + 1)] /\ \A a \in 1..n : pos[a] \in 1..k
      BY <2>4, <3>1
    <3>3. \A a \in 1..n : w[a] = ins[pos[a]] /\ Current(pos[a], k + 1, ins)
      BY <2>2, <3>2 DEF Places
    <3>4. ASSUME NEW i \in 1..(k + 1), Current(i, k + 1, ins)
          PROVE  i \in 1..k /\ Current(i, k, ins)
      BY <2>2, <2>3, <2>4, <3>4
    <3> QED
      BY <3>2, <3>3, <3>4 DEF Places
  <2> QED
    BY <2>1, <2>5
<1>2. CASE IsKeyOf(key)
  <2>1. PICK c, all, apos : Added(c, all, apos, w, k, ins)
    BY <1>2, KeyIsAdded
  <2>3. /\ T \in Nat /\ n \in Nat /\ (T > 0 => n <= T)
        /\ c \in Nat /\ c <= n /\ c >= n - 1 /\ all \in Seq(Keys) /\ Len(all) = c + 1
    BY <2>1, WindowAssumption DEF Places, Added
  <2> DEFINE d == IF T > 0 /\ c + 1 > T THEN c + 1 - T ELSE 0
             r == IF T > 0 /\ c + 1 > T THEN SubSeq(all, d + 1, c + 1) ELSE all
             p == [a \in 1..(c + 1 - d) |-> apos[a + d]]
  <2>2. InsertSpki(w, key) = r
    <3>1. r = IF T > 0 /\ Len(all) > T THEN SubSeq(all, Len(all) - T + 1, Len(all)) ELSE all
      BY <2>3
    <3>2. InsertSpki(w, key) = Insert(w, key)
      BY <1>2 DEF InsertSpki
    <3>3. all = Append(Retained(w, {i \in 1..Len(w) : w[i].kid # key.kid}), key)
      BY <2>1 DEF Added
    <3> HIDE DEF r, d
    <3> QED
      BY <3>1, <3>2, <3>3 DEF Insert
  <2>4. d = IF T > 0 /\ c + 1 > T THEN c + 1 - T ELSE 0
    OBVIOUS
  <2>5. r = IF T > 0 /\ c + 1 > T THEN SubSeq(all, d + 1, c + 1) ELSE all
    OBVIOUS
  <2> HIDE DEF d, r, n, T, key
  <2>6. d \in Nat /\ d <= c /\ (T > 0 => c + 1 - d <= T) /\ (T > 0 /\ n = T => c + 1 - d = T)
        /\ (d > 0 => T > 0 /\ c + 1 - d = T)
    BY <2>3, <2>4
  <2>7. /\ r \in Seq(Keys) /\ Len(r) = c + 1 - d
        /\ \A a \in 1..(c + 1 - d) : r[a] = all[a + d]
    <3>1. CASE T > 0 /\ c + 1 > T
      <4>1. r = SubSeq(all, d + 1, c + 1)
        BY <2>5, <3>1
      <4>2. d + 1 \in 1..Len(all) /\ c + 1 \in 1..Len(all)
        BY <2>3, <2>6
      <4> QED
        BY <2>3, <2>6, <4>1, <4>2
    <3>2. CASE ~ (T > 0 /\ c + 1 > T)
      <4>1. r = all /\ d = 0
        BY <2>4, <2>5, <3>2
      <4> QED
        BY <2>3, <4>1
    <3> QED
      BY <3>1, <3>2
  <2>8. ASSUME NEW a \in 1..(c + 1 - d) PROVE a + d \in 1..(c + 1) /\ p[a] = apos[a + d]
    BY <2>3, <2>6
  <2> HIDE DEF p
  <2>9. p \in [1..(c + 1 - d) -> 1..(k + 1)]
    <3>1. \A a \in 1..(c + 1 - d) : apos[a + d] \in 1..(k + 1)
      BY <2>1, <2>8 DEF Added
    <3> QED
      BY <3>1 DEF p
  <2>10. ASSUME NEW a \in 1..(c + 1 - d), NEW b \in 1..(c + 1 - d), a < b PROVE p[a] < p[b]
    <3>1. a + d < b + d
      BY <2>3, <2>6, <2>10
    <3>2. apos[a + d] < apos[b + d]
      BY <2>1, <2>8, <3>1 DEF Added
    <3> QED
      BY <2>8, <3>2
  <2>11. ASSUME NEW a \in 1..(c + 1 - d)
         PROVE  r[a] = ins[p[a]] /\ Current(p[a], k + 1, ins)
    BY <2>1, <2>7, <2>8 DEF Added
  <2>12. ASSUME NEW i \in 1..(k + 1), Current(i, k + 1, ins)
         PROVE  \/ \E a \in 1..(c + 1 - d) : p[a] = i
                \/ T > 0 /\ c + 1 - d = T /\ \A a \in 1..(c + 1 - d) : i < p[a]
    <3>1. CASE \E a \in 1..(c + 1) : apos[a] = i
      <4>1. PICK a \in 1..(c + 1) : apos[a] = i
        BY <3>1
      <4>2. CASE a > d
        <5>1. a - d \in 1..(c + 1 - d) /\ (a - d) + d = a
          BY <2>3, <2>6, <4>2
        <5>2. p[a - d] = i
          BY <2>8, <4>1, <5>1
        <5> QED
          BY <5>1, <5>2
      <4>3. CASE ~ (a > d)
        <5>1. T > 0 /\ c + 1 - d = T
          BY <2>6, <4>3
        <5>2. ASSUME NEW b \in 1..(c + 1 - d) PROVE i < p[b]
          <6>1. b + d \in 1..(c + 1) /\ a < b + d
            BY <2>3, <2>6, <2>8, <4>3
          <6> QED
            BY <2>1, <2>8, <4>1, <6>1 DEF Added
        <5> QED
          BY <5>1, <5>2
      <4> QED
        BY <4>2, <4>3
    <3>2. CASE ~ \E a \in 1..(c + 1) : apos[a] = i
      <4>1. T > 0 /\ n = T /\ \A a \in 1..(c + 1) : i < apos[a]
        BY <2>1, <2>12, <3>2 DEF Added, n, T
      <4>2. \A b \in 1..(c + 1 - d) : i < p[b]
        BY <2>8, <4>1
      <4> QED
        BY <2>6, <4>1, <4>2
    <3> QED
      BY <3>1, <3>2
  <2>13. Places(p, r, k + 1, ins)
    BY <2>6, <2>7, <2>9, <2>10, <2>11, <2>12 DEF Places, T
  <2> QED
    BY <2>2, <2>13 DEF key
<1> QED
  BY <1>1, <1>2

\* Every window holds what is current among the keys so far, unless it is full.
LEMMA WindowPlaces ==
  ASSUME NEW n \in Nat, NEW ins \in [1..n -> Keys]
  PROVE  \E p : Places(p, Window(ins), n, ins)
<1> DEFINE W(k) == WindowAt(ins)[1..k]
           Bad == {k \in 0..n : ~ \E p : Places(p, W(k), k, ins)}
<1>0. /\ W(0) = <<>>
      /\ \A k \in 1..n : W(k) = InsertSpki(W(k - 1), ins[k])
  BY WindowTurns
<1>1. Window(ins) = W(n)
  <2>1. DOMAIN ins = 1..n
    OBVIOUS
  <2> QED
    BY <2>1, WindowIsLast
<1> HIDE DEF W
<1>2. SUFFICES ASSUME Bad # {} PROVE FALSE
  <2>1. n \in 0..n /\ n \notin Bad
    BY <1>2
  <2> QED
    BY <1>1, <2>1
<1>3. PICK k \in Bad : \A m \in Bad : k <= m
  <2>1. Bad \in SUBSET Nat
    OBVIOUS
  <2> HIDE DEF Bad
  <2> QED
    BY <2>1, <1>2, LeastNat
<1>4. k \in 0..n /\ ~ \E p : Places(p, W(k), k, ins)
  OBVIOUS
<1>5. CASE k = 0
  <2>1. W(k) \in Seq(Keys) /\ Len(W(k)) = 0 /\ 1..0 = {}
    <3>1. W(k) = <<>>
      BY <1>0, <1>5
    <3> QED
      BY <3>1
  <2>2. <<>> \in [1..0 -> 1..0]
    OBVIOUS
  <2>3. Places(<<>>, W(k), k, ins)
    BY <1>5, <2>1, <2>2, WindowAssumption DEF Places
  <2> QED
    BY <1>4, <2>3
<1>6. CASE k # 0
  <2>1. k - 1 \in 0..n /\ k - 1 \in Nat /\ k \in 1..n /\ (k - 1) + 1 = k
    BY <1>4, <1>6
  <2>2. k - 1 \notin Bad
    <3>1. ~ (k <= k - 1)
      BY <1>4
    <3> HIDE DEF Bad
    <3> QED
      BY <1>3, <3>1
  <2>3. PICK pos : Places(pos, W(k - 1), k - 1, ins)
    BY <2>1, <2>2
  <2>4. \E p : Places(p, InsertSpki(W(k - 1), ins[(k - 1) + 1]), (k - 1) + 1, ins)
    <3>1. ins[(k - 1) + 1] \in Keys
      BY <2>1
    <3> QED
      BY <2>1, <2>3, <3>1, InsertPlaces
  <2> QED
    BY <1>0, <1>4, <2>1, <2>4
<1> QED
  BY <1>5, <1>6

-------------------------------------------------------------------------------
(* Who is still in the window.                                               *)

\* The kids that came after the i-th key.
Since(i, n, ins) == {ins[j].kid : j \in {j \in (i + 1)..n : IsKeyOf(ins[j])}}

\* A kid that came is that of a key that is still current.
LEMMA SomeCurrent ==
  ASSUME NEW n \in Nat, NEW ins, NEW i \in 1..n, IsKeyOf(ins[i])
  PROVE  \E l \in i..n : Current(l, n, ins) /\ ins[l].kid = ins[i].kid
<1> DEFINE S == {l \in i..n : IsKeyOf(ins[l]) /\ ins[l].kid = ins[i].kid}
<1>1. S \in SUBSET (1..n) /\ i \in S
  OBVIOUS
<1>2. PICK l \in S : \A m \in S : l >= m
  <2> HIDE DEF S
  <2> QED
    BY <1>1, Extremes
<1>3. l \in i..n /\ IsKeyOf(ins[l]) /\ ins[l].kid = ins[i].kid
  OBVIOUS
<1>4. ASSUME NEW j \in (l + 1)..n, IsKeyOf(ins[j]) PROVE ins[j].kid # ins[l].kid
  <2>1. j \notin S
    <3>1. ~ (l >= j)
      BY <1>3
    <3> HIDE DEF S
    <3> QED
      BY <1>2, <3>1
  <2>2. j \in i..n
    BY <1>3
  <2> QED
    BY <1>3, <1>4, <2>1, <2>2
<1> QED
  BY <1>3, <1>4 DEF Current

\* As many kids came after a key of the window as there are keys after it.
LEMMA AfterIsFew ==
  ASSUME NEW n \in Nat, NEW ins, NEW w, NEW pos, Places(pos, w, n, ins),
         NEW a \in 1..Len(w)
  PROVE  TrustedSetSize > 0 => Cardinality(Since(pos[a], n, ins)) < TrustedSetSize
<1> DEFINE L == Len(w)
           D == (a + 1)..L
           K == {w[b].kid : b \in D}
           S == Since(pos[a], n, ins)
<1>1. L \in Nat /\ a \in 1..L /\ pos[a] \in 1..n
  BY DEF Places
<1>2. S \in SUBSET K
  <2>1. ASSUME NEW kid \in S PROVE kid \in K
    <3>1. PICK j \in (pos[a] + 1)..n : IsKeyOf(ins[j]) /\ kid = ins[j].kid
      BY DEF Since
    <3>2. j \in 1..n
      BY <1>1
    <3>3. PICK l \in j..n : Current(l, n, ins) /\ ins[l].kid = ins[j].kid
      BY <3>1, <3>2, SomeCurrent
    <3>4. l \in 1..n /\ l > pos[a]
      BY <1>1, <3>2
    <3>5. PICK b \in 1..L : pos[b] = l
      <4>1. ~ \A b \in 1..L : l < pos[b]
        BY <1>1, <3>4
      <4> QED
        BY <3>3, <3>4, <4>1 DEF Places
    <3>6. b \in D
      <4>1. ~ (b <= a)
        <5>1. SUFFICES ASSUME b <= a PROVE FALSE
          OBVIOUS
        <5>2. b = a \/ b < a
          BY <1>1, <5>1
        <5>3. pos[b] <= pos[a]
          BY <1>1, <3>4, <3>5, <5>2 DEF Places
        <5> QED
          BY <1>1, <3>4, <3>5, <5>3
      <4> QED
        BY <1>1, <4>1
    <3>7. w[b].kid = kid
      BY <3>1, <3>3, <3>5 DEF Places
    <3> QED
      BY <3>6, <3>7
  <2> QED
    BY <2>1
<1>3. IsFiniteSet(D) /\ Cardinality(D) = L - a
  <2>1. a + 1 \in Int /\ L \in Int
    BY <1>1
  <2>2. IsFiniteSet(D) /\ Cardinality(D) = IF a + 1 > L THEN 0 ELSE L - (a + 1) + 1
    BY <2>1, FS_Interval
  <2>3. (IF a + 1 > L THEN 0 ELSE L - (a + 1) + 1) = L - a
    BY <1>1
  <2> QED
    BY <2>2, <2>3
<1>4. [b \in D |-> w[b].kid] \in Surjection(D, K)
  BY DEF Surjection
<1> HIDE DEF D, K, S, L
<1>5. IsFiniteSet(K) /\ Cardinality(K) <= L - a
  BY <1>3, <1>4, FS_Surjection
<1>6. Cardinality(S) <= Cardinality(K) /\ Cardinality(S) \in Nat /\ Cardinality(K) \in Nat
  BY <1>2, <1>5, FS_Subset, FS_CardinalityType
<1>7. TrustedSetSize > 0 => L <= TrustedSetSize
  BY DEF Places, L
<1> QED
  BY <1>1, <1>5, <1>6, <1>7, WindowAssumption DEF S

\* After a key that has rolled off a full window of other kids came.
LEMMA RolledOffIsMany ==
  ASSUME NEW n \in Nat, NEW ins, NEW w, NEW pos, Places(pos, w, n, ins),
         NEW i \in 1..n, Current(i, n, ins), \A a \in 1..Len(w) : pos[a] # i
  PROVE  TrustedSetSize > 0 /\ ~ (Cardinality(Since(i, n, ins)) < TrustedSetSize)
<1> DEFINE L == Len(w)
           D == 1..L
           S == Since(i, n, ins)
           f == [b \in D |-> w[b].kid]
<1>1. TrustedSetSize > 0 /\ L = TrustedSetSize /\ \A b \in D : i < pos[b]
  BY DEF Places
<1>2. L \in Nat
  BY DEF Places
<1>3. ASSUME NEW b \in D PROVE w[b].kid \in S
  <2>1. /\ pos[b] \in 1..n /\ w[b] = ins[pos[b]] /\ IsKeyOf(ins[pos[b]]) /\ i < pos[b]
    BY <1>1 DEF Places, Current
  <2>2. pos[b] \in (i + 1)..n
    BY <2>1
  <2> QED
    BY <2>1, <2>2 DEF Since
<1>4. f \in Injection(D, S)
  <2>1. ASSUME NEW b \in D, NEW c \in D, f[b] = f[c] PROVE b = c
    BY <2>1, KidsDiffer
  <2>2. f \in [D -> S]
    BY <1>3
  <2> HIDE DEF D, S, f
  <2> QED
    BY <2>1, <2>2 DEF Injection, IsInjective
<1>5. IsFiniteSet(S)
  <2> DEFINE J == {j \in (i + 1)..n : IsKeyOf(ins[j])}
             I == (i + 1)..n
  <2>1. IsFiniteSet(I)
    <3>1. i + 1 \in Int /\ n \in Int
      OBVIOUS
    <3> QED
      BY <3>1, FS_Interval
  <2>2. J \in SUBSET I
    OBVIOUS
  <2>3. [j \in J |-> ins[j].kid] \in Surjection(J, S)
    BY DEF Surjection, Since
  <2> HIDE DEF I, J, S
  <2>4. IsFiniteSet(J)
    BY <2>1, <2>2, FS_Subset
  <2> QED
    BY <2>3, <2>4, FS_Surjection
<1>6. Cardinality(D) = L
  <2>1. 1 \in Int /\ L \in Int
    BY <1>2
  <2>2. Cardinality(D) = IF 1 > L THEN 0 ELSE L - 1 + 1
    BY <2>1, FS_Interval
  <2>3. (IF 1 > L THEN 0 ELSE L - 1 + 1) = L
    BY <1>2
  <2> QED
    BY <2>2, <2>3
<1>7. Cardinality(S) \in Nat
  BY <1>5, FS_CardinalityType
<1> HIDE DEF D, S, f, L
<1>8. Cardinality(D) <= Cardinality(S)
  BY <1>4, <1>5, FS_Injection
<1> QED
  BY <1>1, <1>2, <1>6, <1>7, <1>8 DEF S

\* The keys of the window: the last of their kid, and fewer than a window of kids since.
LEMMA InWindow ==
  ASSUME NEW n \in Nat, NEW ins \in [1..n -> Keys], NEW kid, NEW key
  PROVE  (\E a \in 1..Len(Window(ins)) : Window(ins)[a] = key /\ key.kid = kid)
           <=> (\E i \in 1..n : /\ IsKeyOf(ins[i]) /\ ins[i] = key /\ key.kid = kid
                                /\ kid \notin Since(i, n, ins)
                                /\ \/ TrustedSetSize = 0
                                   \/ Cardinality(Since(i, n, ins)) < TrustedSetSize)
<1> DEFINE w == Window(ins)
<1>1. PICK pos : Places(pos, w, n, ins)
  BY WindowPlaces
<1> HIDE DEF w
<1>2. ASSUME NEW i \in 1..n
      PROVE  Current(i, n, ins) <=> IsKeyOf(ins[i]) /\ ins[i].kid \notin Since(i, n, ins)
  BY DEF Current, Since
<1>3. ASSUME NEW a \in 1..Len(w), w[a] = key, key.kid = kid
      PROVE  \E i \in 1..n : /\ IsKeyOf(ins[i]) /\ ins[i] = key /\ key.kid = kid
                             /\ kid \notin Since(i, n, ins)
                             /\ \/ TrustedSetSize = 0
                                \/ Cardinality(Since(i, n, ins)) < TrustedSetSize
  <2>1. pos[a] \in 1..n /\ w[a] = ins[pos[a]] /\ Current(pos[a], n, ins)
    BY <1>1 DEF Places
  <2>2. TrustedSetSize > 0 => Cardinality(Since(pos[a], n, ins)) < TrustedSetSize
    BY <1>1, AfterIsFew
  <2>3. TrustedSetSize > 0 \/ TrustedSetSize = 0
    BY WindowAssumption
  <2> QED
    BY <1>2, <1>3, <2>1, <2>2, <2>3
<1>4. ASSUME NEW i \in 1..n, IsKeyOf(ins[i]), ins[i] = key, key.kid = kid,
             kid \notin Since(i, n, ins),
             TrustedSetSize = 0 \/ Cardinality(Since(i, n, ins)) < TrustedSetSize
      PROVE  \E a \in 1..Len(w) : w[a] = key /\ key.kid = kid
  <2>1. Current(i, n, ins)
    BY <1>2, <1>4
  <2>2. PICK a \in 1..Len(w) : pos[a] = i
    <3>1. SUFFICES ASSUME \A a \in 1..Len(w) : pos[a] # i PROVE FALSE
      OBVIOUS
    <3>2. TrustedSetSize > 0 /\ ~ (Cardinality(Since(i, n, ins)) < TrustedSetSize)
      BY <1>1, <2>1, <3>1, RolledOffIsMany
    <3> QED
      BY <1>4, <3>2
  <2>3. w[a] = ins[i]
    BY <1>1, <2>2 DEF Places
  <2> QED
    BY <1>4, <2>3
<1> QED
  BY <1>3, <1>4 DEF w

-------------------------------------------------------------------------------
(* The gates of a token.                                                     *)

\* Where the window has a kid.
OfKid(w, kid) == {i \in 1..Len(w) : w[i].kid = kid}
Sought(w, kid) == IF OfKid(w, kid) # {} THEN Min(OfKid(w, kid)) ELSE 0
Selects(at, w, kid) ==
  /\ at # 0 => at \in 1..Len(w) /\ w[at].kid = kid
  /\ \A a \in 1..Len(w) : w[a].kid = kid => at = a

\* The key that a token is held against is the one key of its kid.
LEMMA SelectedKey ==
  ASSUME NEW n \in Nat, NEW ins \in [1..n -> Keys], NEW kid
  PROVE  Selects(Sought(Window(ins), kid), Window(ins), kid)
<1> DEFINE w == Window(ins)
           I == OfKid(w, kid)
           at == Sought(w, kid)
<1>1. PICK pos : Places(pos, w, n, ins)
  BY WindowPlaces
<1>2. /\ \A i : i \in I <=> i \in 1..Len(w) /\ w[i].kid = kid
      /\ at = IF I # {} THEN Min(I) ELSE 0
  BY DEF OfKid, Sought
<1> HIDE DEF w, I, at
<1>3. Len(w) \in Nat
  BY <1>1 DEF Places
<1>4. I # {} => at \in I
  <2>1. I \in SUBSET (1..Len(w))
    BY <1>2
  <2>2. I # {} => Min(I) \in I
    BY <1>3, <2>1, Extremes
  <2>3. I # {} => at = Min(I)
    BY <1>2
  <2> QED
    BY <2>2, <2>3
<1>5. at # 0 => at \in 1..Len(w) /\ w[at].kid = kid
  <2>1. at # 0 => at \in I
    BY <1>2, <1>4
  <2> QED
    BY <1>2, <2>1
<1>6. ASSUME NEW a \in 1..Len(w), w[a].kid = kid PROVE at = a
  <2>1. a \in I
    BY <1>2, <1>6
  <2>2. at \in 1..Len(w) /\ w[at].kid = kid
    BY <1>2, <1>4, <2>1
  <2> QED
    BY <1>1, <1>6, <2>2, KidsDiffer
<1>7. Selects(at, w, kid)
  BY <1>5, <1>6 DEF Selects
<1> QED
  BY <1>7 DEF w, at

\* A signature is taken when the key made it over just the bytes of the token, and is of
\* the algorithm that the header names.
LEMMA SignatureIsTaken ==
  ASSUME NEW token \in Tokens, NEW key \in Keys
  PROVE  SignatureError(token, key) = "ok" <=>
           /\ key.alg = token.header.alg
           /\ token.signature = [formed |-> TRUE, by |-> key.material,
                                 over |-> <<token.header, token.payload>>]
<1> DEFINE s == token.signature
<1>1. /\ s.formed \in BOOLEAN /\ s = [formed |-> s.formed, by |-> s.by, over |-> s.over]
      /\ key.alg \notin {"absent", "none"}
  BY LicenseAssumption
<1>2. SignatureError(token, key) = "ok" <=>
        /\ token.header.alg \notin {"absent", "none"} /\ token.header.alg = key.alg
        /\ s.formed /\ s.by = key.material /\ s.over = <<token.header, token.payload>>
  BY <1>1 DEF SignatureError, SigningInput
<1> HIDE DEF s
<1>3. s = [formed |-> TRUE, by |-> key.material, over |-> <<token.header, token.payload>>]
        <=> s.formed /\ s.by = key.material /\ s.over = <<token.header, token.payload>>
  BY <1>1
<1> QED
  BY <1>1, <1>2, <1>3 DEF s

\* Nothing is misjudged, whatever keys came in whatever order.
LEMMA NothingMisjudged == Misjudged = {}
<1> SUFFICES ASSUME NEW ins \in SeqOf(Keys, MaxInserts), NEW token \in Tokens
             PROVE  (VerifyLicense(token, Window(ins)) = "ok")
                      <=> (/\ HeaderError(token) = "ok" /\ ClaimsError(token.payload) = "ok"
                           /\ Honoured(token, ins))
  BY DEF Misjudged
<1>1. PICK n \in Nat : ins \in [1..n -> Keys]
  BY WindowAssumption DEF SeqOf
<1>2. Len(ins) = n
  BY <1>1
<1> DEFINE w == Window(ins)
           kid == token.header.kid
           at == SelectInSeq(w, LAMBDA k : k.kid = kid)
<1>3. \A a \in 1..Len(w) : w[a] \in Keys /\ IsKeyOf(w[a])
  <2>1. PICK pos : Places(pos, w, n, ins)
    BY <1>1, WindowPlaces
  <2> HIDE DEF w
  <2> QED
    BY <2>1 DEF Places, Current
<1>4. /\ at # 0 => at \in 1..Len(w) /\ w[at].kid = kid
      /\ \A a \in 1..Len(w) : w[a].kid = kid => at = a
  <2>1. at = Sought(w, kid)
    BY Zenon DEF SelectInSeq, OfKid, Sought
  <2>2. Selects(Sought(Window(ins), kid), Window(ins), kid)
    BY <1>1, SelectedKey
  <2>3. Selects(at, w, kid)
    BY <2>1, <2>2
  <2> HIDE DEF at, w, kid
  <2> QED
    BY <2>3 DEF Selects
<1>5. VerifyLicense(token, w) = "ok" <=>
        /\ HeaderError(token) = "ok" /\ at # 0
        /\ SignatureError(token, w[at]) = "ok" /\ ClaimsError(token.payload) = "ok"
  <2>1. VerifyLicense(token, w) =
          IF HeaderError(token) # "ok" THEN HeaderError(token)
          ELSE IF at = 0 THEN "unknown_kid"
          ELSE IF SignatureError(token, w[at]) # "ok" THEN SignatureError(token, w[at])
          ELSE ClaimsError(token.payload)
    BY DEF VerifyLicense
  <2> HIDE DEF at, w
  <2> QED
    BY <2>1
<1>6. ASSUME NEW key \in Keys
      PROVE  (\E a \in 1..Len(w) : w[a] = key /\ key.kid = kid) <=>
               \E i \in 1..n : /\ IsKeyOf(ins[i]) /\ ins[i] = key /\ key.kid = kid
                               /\ kid \notin Since(i, n, ins)
                               /\ \/ TrustedSetSize = 0
                                  \/ Cardinality(Since(i, n, ins)) < TrustedSetSize
  BY <1>1, InWindow
<1> DEFINE Fits(key) == /\ key.alg = token.header.alg
                        /\ token.signature = [formed |-> TRUE, by |-> key.material,
                                              over |-> <<token.header, token.payload>>]
<1> HIDE DEF at, w
<1>7. (at # 0 /\ SignatureError(token, w[at]) = "ok") <=>
        \E a \in 1..Len(w) : w[a].kid = kid /\ Fits(w[a])
  <2>1. ASSUME NEW a \in 1..Len(w) PROVE SignatureError(token, w[a]) = "ok" <=> Fits(w[a])
    BY <1>3, SignatureIsTaken
  <2>2. ~ (0 \in 1..Len(w))
    OBVIOUS
  <2> HIDE DEF Fits
  <2> QED
    BY <1>4, <2>1, <2>2
<1>8. Honoured(token, ins) <=>
        \E i \in 1..n : /\ IsKeyOf(ins[i]) /\ ins[i].kid = kid /\ Fits(ins[i])
                        /\ kid \notin Since(i, n, ins)
                        /\ \/ TrustedSetSize = 0
                           \/ Cardinality(Since(i, n, ins)) < TrustedSetSize
  BY <1>2 DEF Honoured, Since, IsKeyOf
<1>9. (\E a \in 1..Len(w) : w[a].kid = kid /\ Fits(w[a])) <=>
        \E i \in 1..n : /\ IsKeyOf(ins[i]) /\ ins[i].kid = kid /\ Fits(ins[i])
                        /\ kid \notin Since(i, n, ins)
                        /\ \/ TrustedSetSize = 0
                           \/ Cardinality(Since(i, n, ins)) < TrustedSetSize
  <2> HIDE DEF Fits
  <2>1. \A i \in 1..n : ins[i] \in Keys
    BY <1>1
  <2> QED
    BY <1>3, <1>6, <2>1
<1> QED
  BY <1>5, <1>7, <1>8, <1>9, Zenon DEF w

-------------------------------------------------------------------------------
(* The order of versions.                                                    *)

Numbers == [1..3 -> Nat]

\* The order that is derived is that of the parts, major first.
LEMMA NewerIsBelow ==
  ASSUME NEW v \in Numbers, NEW w \in Numbers
  PROVE  Newer(w, v) <=> Below(v, w)
<1> DEFINE a(i) == w[i] > v[i] /\ \A j \in 1..(i - 1) : w[j] = v[j]
<1>1. /\ v[1] \in Nat /\ v[2] \in Nat /\ v[3] \in Nat
      /\ w[1] \in Nat /\ w[2] \in Nat /\ w[3] \in Nat
  BY DEF Numbers
<1>2. Newer(w, v) <=> a(1) \/ a(2) \/ a(3)
  <2>1. 1..3 = {1, 2, 3}
    OBVIOUS
  <2> QED
    BY <2>1 DEF Newer
<1>3. a(1) <=> v[1] < w[1]
  <2>1. 1..(1 - 1) = {}
    OBVIOUS
  <2> QED
    BY <1>1, <2>1
<1>4. a(2) <=> v[1] = w[1] /\ v[2] < w[2]
  <2>1. 1..(2 - 1) = {1}
    OBVIOUS
  <2> QED
    BY <1>1, <2>1
<1>5. a(3) <=> v[1] = w[1] /\ v[2] = w[2] /\ v[3] < w[3]
  <2>1. 1..(3 - 1) = {1, 2}
    OBVIOUS
  <2> QED
    BY <1>1, <2>1
<1> HIDE DEF a
<1> QED
  BY <1>2, <1>3, <1>4, <1>5 DEF Below

\* It is a strict order in which any two versions compare.
LEMMA BelowOrders ==
  ASSUME NEW u \in Numbers, NEW v \in Numbers, NEW w \in Numbers
  PROVE  /\ ~Below(v, v) /\ (Below(v, w) => ~Below(w, v))
         /\ Below(u, v) /\ Below(v, w) => Below(u, w)
         /\ Below(u, v) /\ ~Below(w, v) => Below(u, w)
<1>1. /\ u[1] \in Nat /\ u[2] \in Nat /\ u[3] \in Nat
      /\ v[1] \in Nat /\ v[2] \in Nat /\ v[3] \in Nat
      /\ w[1] \in Nat /\ w[2] \in Nat /\ w[3] \in Nat
  BY DEF Numbers
<1> QED
  BY <1>1 DEF Below

\* What parses is three numbers.
LEMMA SemVerNumbers ==
  ASSUME NEW text, IsVersion(text)
  PROVE  SemVer(text) \in Numbers
<1>1. \A i \in 1..3 : (IF i <= Len(text) THEN text[i] ELSE 0) \in Nat
  BY DEF IsVersion
<1> QED
  BY <1>1 DEF SemVer, Numbers

\* So is every version.
LEMMA VersionNumbers ==
  ASSUME NEW v \in Versions
  PROVE  v \in Numbers
<1>1. PICK text \in VersionTexts : IsVersion(text) /\ v = SemVer(text)
  BY DEF Versions
<1> QED
  BY <1>1, SemVerNumbers

\* Of finitely many versions one is the newest.
LEMMA SomeNewest ==
  ASSUME NEW L \in SUBSET Numbers, IsFiniteSet(L)
  PROVE  \A S \in SUBSET L : S # {} => \E v \in S : \A w \in S : ~Newer(w, v)
<1> DEFINE Bad == {S \in SUBSET L : S # {} /\ ~ \E v \in S : \A w \in S : ~Below(v, w)}
<1>1. ASSUME Bad # {} PROVE FALSE
  <2> DEFINE Sizes == {Cardinality(S) : S \in Bad}
  <2>1. ASSUME NEW S \in Bad PROVE IsFiniteSet(S) /\ Cardinality(S) \in Nat
    <3>1. S \in SUBSET L
      OBVIOUS
    <3> QED
      BY <3>1, FS_Subset, FS_CardinalityType
  <2>2. Sizes \in SUBSET Nat /\ Sizes # {}
    BY <1>1, <2>1
  <2>3. PICK c \in Sizes : \A m \in Sizes : c <= m
    <3> HIDE DEF Sizes
    <3> QED
      BY <2>2, LeastNat
  <2>4. PICK S \in Bad : c = Cardinality(S)
    BY <2>3
  <2>5. S \in SUBSET L /\ S # {} /\ ~ \E v \in S : \A w \in S : ~Below(v, w)
    BY <2>4
  <2>6. PICK x \in S : TRUE
    BY <2>5
  <2> DEFINE T == S \ {x}
  <2>7. Cardinality(T) = c - 1 /\ c \in Nat /\ T \in SUBSET L
    BY <2>1, <2>4, <2>5, FS_RemoveElement
  <2>8. T \notin Bad
    <3>1. ASSUME T \in Bad PROVE FALSE
      <4>1. Cardinality(T) \in Sizes
        BY <3>1
      <4> HIDE DEF Sizes, T, Bad
      <4>2. c <= c - 1
        BY <2>3, <2>7, <4>1
      <4> QED
        BY <2>7, <4>2
    <3> QED
      BY <3>1
  <2>9. \A v \in S : v \in Numbers
    BY <2>5
  <2>10. CASE T = {}
    <3>1. S = {x}
      BY <2>6, <2>10
    <3>2. \A w \in S : ~Below(x, w)
      BY <2>9, <3>1, BelowOrders
    <3> QED
      BY <2>5, <2>6, <3>2
  <2>11. CASE T # {}
    <3>1. PICK m \in T : \A w \in T : ~Below(m, w)
      BY <2>7, <2>8, <2>11
    <3>2. m \in S /\ m \in Numbers /\ x \in Numbers
      BY <2>9
    <3>3. CASE Below(m, x)
      <4>1. ASSUME NEW w \in S PROVE ~Below(x, w)
        <5>1. w \in T \/ w = x
          OBVIOUS
        <5> HIDE DEF T
        <5> QED
          BY <2>9, <3>1, <3>2, <3>3, <5>1, BelowOrders
      <4> QED
        BY <2>5, <2>6, <4>1
    <3>4. CASE ~Below(m, x)
      <4>1. ASSUME NEW w \in S PROVE ~Below(m, w)
        BY <3>1, <3>4
      <4> QED
        BY <2>5, <3>2, <4>1
    <3> QED
      BY <3>3, <3>4
  <2> QED
    BY <2>10, <2>11
<1>2. ASSUME NEW S \in SUBSET L, S # {} PROVE \E v \in S : \A w \in S : ~Newer(w, v)
  <2>1. PICK v \in S : \A w \in S : ~Below(v, w)
    BY <1>1, <1>2
  <2>2. \A w \in S : ~Newer(w, v)
    BY <2>1, NewerIsBelow
  <2> QED
    BY <2>2
<1> QED
  BY <1>2

-------------------------------------------------------------------------------
(* Saving and loading.                                                       *)

SavedTemplate(agent) ==
  [i \in 1..Len(agent) |->
     [skill |-> agent[i][1], pin |-> [op |-> "at_least", base |-> SemVer(agent[i][2])]]]

\* A template names the skills of the agent in its order.
LEMMA SavedAgent ==
  ASSUME NEW agent \in Agents
  PROVE  /\ Len(agent) \in Nat
         /\ \A i \in 1..Len(agent) : agent[i][1] \in SkillNames /\ agent[i][2] \in VersionTexts
         /\ \A i, j \in 1..Len(agent) : agent[i][1] = agent[j][1] => i = j
         /\ TemplateSave(agent).ok = Readable(agent)
         /\ Readable(agent) => TemplateSave(agent).template = SavedTemplate(agent)
         /\ Len(SavedTemplate(agent)) = Len(agent)
<1>1. agent \in SeqOf(SkillNames \X VersionTexts, MaxMembers)
      /\ \A i, j \in 1..Len(agent) : agent[i][1] = agent[j][1] => i = j
  BY DEF Agents
<1>2. PICK n \in Nat : agent \in [1..n -> SkillNames \X VersionTexts]
  BY <1>1 DEF SeqOf
<1>3. Len(agent) = n
  BY <1>2
<1>4. \A i \in 1..n : agent[i][1] \in SkillNames /\ agent[i][2] \in VersionTexts
  BY <1>2
<1>5. Len(SavedTemplate(agent)) = n
  BY <1>3 DEF SavedTemplate
<1>6. TemplateSave(agent).ok = Readable(agent)
  BY DEF TemplateSave, Readable
<1>7. ASSUME Readable(agent) PROVE TemplateSave(agent).template = SavedTemplate(agent)
  <2> DEFINE enabled == [i \in 1..Len(agent) |-> <<agent[i][1], SemVer(agent[i][2])>>]
  <2>1. TemplateSave(agent).template = SaveAsTemplate(enabled)
    BY <1>7 DEF TemplateSave, Readable
  <2>2. Len(enabled) = n
    BY <1>3
  <2>3. \A i \in 1..n : enabled[i][1] = agent[i][1] /\ enabled[i][2] = SemVer(agent[i][2])
    BY <1>3
  <2> HIDE DEF enabled
  <2>4. SaveAsTemplate(enabled) = SavedTemplate(agent)
    BY <1>3, <2>2, <2>3 DEF SaveAsTemplate, SavedTemplate
  <2> QED
    BY <2>1, <2>4
<1> QED
  BY <1>1, <1>3, <1>4, <1>5, <1>6, <1>7

\* A member resolves unless its skill is gone or older than it was.
LEMMA ResolvesUnlessOld ==
  ASSUME NEW name, NEW text, IsVersion(text), NEW rows \in Rows
  PROVE  Resolves([skill |-> name, pin |-> [op |-> "at_least", base |-> SemVer(text)]],
                  InstalledVersions(rows)) <=> ~Old(<<name, text>>, rows)
<1> DEFINE installed == InstalledVersions(rows)
           pin == [op |-> "at_least", base |-> SemVer(text)]
<1>1. /\ name \in DOMAIN installed <=> name \in DOMAIN rows /\ IsVersion(rows[name])
      /\ name \in DOMAIN installed => installed[name] = SemVer(rows[name])
  BY DEF InstalledVersions
<1>2. Matches(pin, installed[name]) <=> ~Newer(SemVer(text), installed[name])
  BY DEF Matches
<1>3. ASSUME IsVersion(rows[name])
      PROVE  Newer(SemVer(text), SemVer(rows[name])) <=> Below(SemVer(rows[name]), SemVer(text))
  BY <1>3, SemVerNumbers, NewerIsBelow
<1> HIDE DEF installed, pin
<1> QED
  BY <1>1, <1>2, <1>3 DEF Resolves, Old, installed, pin

\* A saved agent comes back, or the first skill that does not resolve is named.
LEMMA AgentComesBack ==
  ASSUME NEW agent \in Agents, Readable(agent), NEW rows \in Rows
  PROVE  ComesBack(agent, rows)
<1> DEFINE n == Len(agent)
           t == SavedTemplate(agent)
           installed == InstalledVersions(rows)
           I == {i \in 1..Len(t) : ~Resolves(t[i], installed)}
           failed == SelectInSeq(t, LAMBDA ref : ~Resolves(ref, installed))
           old == {i \in 1..n : Old(agent[i], rows)}
           result == LoadTemplate(t, installed)
<1>1. /\ n \in Nat /\ TemplateSave(agent).template = t /\ Len(t) = n
      /\ \A i \in 1..n : agent[i][1] \in SkillNames /\ agent[i][2] \in VersionTexts
  BY SavedAgent
<1>2. ASSUME NEW i \in 1..n
      PROVE  /\ t[i].skill = agent[i][1]
             /\ ~Resolves(t[i], installed) <=> Old(agent[i], rows)
  <2>1. t[i] = [skill |-> agent[i][1], pin |-> [op |-> "at_least", base |-> SemVer(agent[i][2])]]
    BY DEF SavedTemplate
  <2>2. IsVersion(agent[i][2])
    BY DEF Readable
  <2>3. Old(<<agent[i][1], agent[i][2]>>, rows) <=> Old(agent[i], rows)
    BY DEF Old
  <2>4. Resolves(t[i], installed) <=> ~Old(<<agent[i][1], agent[i][2]>>, rows)
    BY <2>1, <2>2, ResolvesUnlessOld
  <2> QED
    BY <2>1, <2>3, <2>4
<1>3. failed = IF I # {} THEN Min(I) ELSE 0
  BY Zenon DEF SelectInSeq
<1>4. /\ failed # 0 => result = [ok |-> FALSE, skills |-> <<>>, missing |-> {t[failed].skill}]
      /\ failed = 0 => result = [ok |-> TRUE, missing |-> {},
                                 skills |-> [i \in 1..Len(t) |-> <<t[i].skill, installed[t[i].skill]>>]]
  <2>1. result = IF failed # 0
                   THEN [ok |-> FALSE, skills |-> <<>>, missing |-> {t[failed].skill}]
                   ELSE [ok |-> TRUE, missing |-> {},
                         skills |-> [i \in 1..Len(t) |-> <<t[i].skill, installed[t[i].skill]>>]]
    BY DEF LoadTemplate
  <2> HIDE DEF result, failed, t, installed
  <2> QED
    BY <2>1
<1> HIDE DEF t, installed, failed, result
<1>5. I = old
  BY <1>1, <1>2
<1>6. old # {} => Min(old) \in old /\ \A i \in old : Min(old) <= i
  <2>1. old \in SUBSET (1..n)
    OBVIOUS
  <2> HIDE DEF old
  <2> QED
    BY <1>1, <2>1, Extremes
<1> HIDE DEF I
<1>7. CASE old = {}
  <2>1. failed = 0
    BY <1>3, <1>5, <1>7
  <2>2. ASSUME NEW i \in 1..n
        PROVE  <<t[i].skill, installed[t[i].skill]>> = <<agent[i][1], SemVer(rows[agent[i][1]])>>
    <3>1. ~Old(agent[i], rows)
      BY <1>7
    <3>2. agent[i][1] \in DOMAIN rows /\ IsVersion(rows[agent[i][1]])
      BY <3>1 DEF Old
    <3>3. installed[agent[i][1]] = SemVer(rows[agent[i][1]])
      BY <3>2 DEF installed, InstalledVersions
    <3> QED
      BY <1>2, <3>3
  <2>3. result.ok /\ result.skills = [i \in 1..n |-> <<agent[i][1], SemVer(rows[agent[i][1]])>>]
    BY <1>1, <1>4, <2>1, <2>2
  <2> QED
    BY <1>1, <1>7, <2>3 DEF ComesBack, result, installed, old
<1>8. CASE old # {}
  <2>1. failed \in old /\ failed # 0 /\ \A i \in old : failed <= i
    <3>1. failed = Min(old)
      BY <1>3, <1>5, <1>8
    <3>2. failed \in 1..n
      BY <1>6, <1>8, <3>1
    <3> QED
      BY <1>6, <1>8, <3>1, <3>2
  <2>2. ~result.ok /\ result.missing = {agent[failed][1]}
    BY <1>2, <1>4, <2>1
  <2> QED
    BY <1>1, <1>8, <2>1, <2>2 DEF ComesBack, result, installed, old
<1> QED
  BY <1>7, <1>8

-------------------------------------------------------------------------------
(* Updates.                                                                  *)

\* What is on offer for a skill has a newest version.
LEMMA LatestIsNewest ==
  ASSUME NEW available \in SUBSET (SkillNames \X Versions), IsFiniteSet(available),
         NEW s, Offered(s, available) # {}
  PROVE  /\ Latest(s, available) \in Offered(s, available)
         /\ Latest(s, available) \in Numbers
         /\ \A w \in Offered(s, available) :
              w \in Numbers /\ ~Below(Latest(s, available), w)
<1> DEFINE S == Offered(s, available)
           of == {x \in available : x[1] = s}
<1>1. S \in SUBSET Numbers
  <2>1. ASSUME NEW v \in S PROVE v \in Numbers
    <3>1. PICK x \in available : v = x[2]
      BY DEF Offered
    <3>2. x \in SkillNames \X Versions
      OBVIOUS
    <3>3. v \in Versions
      BY <3>1, <3>2
    <3> QED
      BY <3>3, VersionNumbers
  <2> QED
    BY <2>1
<1>2. IsFiniteSet(S)
  <2>1. of \in SUBSET available
    OBVIOUS
  <2>2. [x \in of |-> x[2]] \in Surjection(of, S)
    BY DEF Surjection, Offered
  <2> HIDE DEF of, S
  <2> QED
    BY <2>1, <2>2, FS_Subset, FS_Surjection
<1> HIDE DEF S
<1>3. \E v \in S : \A w \in S : ~Newer(w, v)
  <2>1. S \in SUBSET S /\ S # {}
    BY DEF S
  <2> QED
    BY <1>1, <1>2, <2>1, SomeNewest
<1>4. Latest(s, available) \in S /\ \A w \in S : ~Newer(w, Latest(s, available))
  <2> HIDE <1>1, <1>2
  <2>1. Latest(s, available) = CHOOSE v \in S : \A w \in S : ~Newer(w, v)
    BY DEF Latest, S
  <2> QED
    BY <1>3, <2>1
<1>5. \A w \in S : ~Below(Latest(s, available), w)
  BY <1>1, <1>4, NewerIsBelow
<1> QED
  BY <1>1, <1>4, <1>5 DEF S

\* The members of the agent that a newer version of is on offer.
Behind(agent, available) ==
  {i \in 1..Len(agent) :
     /\ Offered(agent[i][1], available) # {}
     /\ Newer(Latest(agent[i][1], available), SemVer(agent[i][2]))}

\* What is reported of a member.
UpdateOf(member, available) ==
  [skill |-> member[1], from |-> SemVer(member[2]), to |-> Latest(member[1], available),
   breaking |-> Latest(member[1], available)[1] > SemVer(member[2])[1]]

\* What is reported, and what should be.
Reported(updates) == {updates[j] : j \in 1..Len(updates)}
Due(agent, available) == {UpdateOf(agent[i], available) : i \in Behind(agent, available)}

\* An update is reported of every member that is behind, and of no other.
LEMMA UpdatesAreOfBehind ==
  ASSUME NEW agent \in Agents, NEW available,
         NEW updates, updates = CheckUpdates(SavedTemplate(agent), available)
  PROVE  Reported(updates) = Due(agent, available)
<1> DEFINE n == Len(agent)
           t == SavedTemplate(agent)
           I == Behind(agent, available)
           c == Cardinality(I)
           news == Retained(t, I)
           Update(ref) == [skill |-> ref.skill, from |-> ref.pin.base,
                           to |-> Latest(ref.skill, available),
                           breaking |-> Latest(ref.skill, available)[1] > ref.pin.base[1]]
<1>1. n \in Nat /\ Len(t) = n
  BY SavedAgent
<1>2. ASSUME NEW i \in 1..n
      PROVE  /\ t[i].skill = agent[i][1] /\ t[i].pin.base = SemVer(agent[i][2])
             /\ Update(t[i]) = UpdateOf(agent[i], available)
  <2>1. t[i] = [skill |-> agent[i][1], pin |-> [op |-> "at_least", base |-> SemVer(agent[i][2])]]
    BY DEF SavedTemplate
  <2> QED
    BY <2>1 DEF UpdateOf
<1>3. I = {i \in 1..Len(t) : Offered(t[i].skill, available) # {}
                               /\ Newer(Latest(t[i].skill, available), t[i].pin.base)}
  BY <1>1, <1>2 DEF Behind
<1>4. updates = [j \in 1..Len(news) |-> Update(news[j])]
  BY <1>3 DEF CheckUpdates
<1>5. /\ c \in Nat /\ \A k \in 1..c : Nth(I, k) \in I
      /\ \A i \in I : \E k \in 1..c : Nth(I, k) = i
  <2>1. I \in SUBSET (1..n)
    BY DEF Behind
  <2> HIDE DEF I, n
  <2> QED
    BY <1>1, <2>1, NthCounts
<1>6. Len(news) = c /\ \A k \in 1..c : news[k] = t[Nth(I, k)]
  <2>1. news = [k \in 1..c |-> t[Nth(I, k)]]
    BY DEF Retained
  <2> HIDE DEF news, c, I, t
  <2> QED
    BY <1>5, <2>1
<1>7. I \in SUBSET (1..n)
  BY DEF Behind
<1>8. /\ Len(updates) = c
      /\ \A k \in 1..c : updates[k] = UpdateOf(agent[Nth(I, k)], available)
  <2> HIDE DEF news, c, I, t, n
  <2>1. \A k \in 1..c : Update(news[k]) = UpdateOf(agent[Nth(I, k)], available)
    <3>1. ASSUME NEW k \in 1..c PROVE Update(news[k]) = UpdateOf(agent[Nth(I, k)], available)
      <4>1. Nth(I, k) \in 1..n /\ news[k] = t[Nth(I, k)]
        BY <1>5, <1>6, <1>7
      <4> HIDE DEF Update
      <4> QED
        BY <1>2, <4>1
    <3> QED
      BY <3>1
  <2> HIDE DEF Update
  <2> QED
    BY <1>4, <1>5, <1>6, <2>1
<1> HIDE DEF I, c, news, t, n
<1> QED
  BY <1>5, <1>8 DEF I, Reported, Due

\* No update is reported that the agent could not adopt, and the newest always is.
LEMMA UpdatesMayBeAdopted ==
  ASSUME NEW agent \in Agents, Readable(agent),
         NEW available \in SUBSET (SkillNames \X Versions), IsFiniteSet(available)
  PROVE  MayBeAdopted(agent, available)
<1> DEFINE t == SavedTemplate(agent)
           updates == CheckUpdates(t, available)
<1>1. /\ TemplateSave(agent).template = t /\ Len(t) = Len(agent)
      /\ \A i, j \in 1..Len(agent) : agent[i][1] = agent[j][1] => i = j
  BY SavedAgent
<1>2. Reported(updates) = Due(agent, available)
  BY UpdatesAreOfBehind
<1> HIDE DEF t, updates
<1> SUFFICES ASSUME NEW i \in 1..Len(agent)
             PROVE  Adoptable(t[i].pin, ReportedFor(t[i].skill, updates),
                              NewerOffers(agent[i], available))
  BY <1>1 DEF MayBeAdopted, updates
<1> DEFINE s == agent[i][1]
           from == SemVer(agent[i][2])
           to == Latest(s, available)
           mine == ReportedFor(t[i].skill, updates)
           newer == NewerOffers(agent[i], available)
<1>3. t[i].skill = s /\ t[i].pin = [op |-> "at_least", base |-> from]
  BY DEF SavedTemplate, t
<1>4. \A u : u \in mine <=> u \in Reported(updates) /\ u.skill = s
  BY <1>3 DEF Reported, ReportedFor
<1>5. from \in Numbers
  BY SemVerNumbers DEF Readable
<1>6. ASSUME NEW u \in mine
      PROVE  i \in Behind(agent, available) /\ u = UpdateOf(agent[i], available)
  <2>1. u \in Reported(updates) /\ u.skill = s
    BY <1>4
  <2>2. PICK k \in Behind(agent, available) : u = UpdateOf(agent[k], available)
    BY <1>2, <2>1 DEF Due
  <2>3. k \in 1..Len(agent) /\ agent[k][1] = s
    BY <2>1, <2>2 DEF UpdateOf, Behind
  <2>4. k = i
    BY <1>1, <2>3
  <2> QED
    BY <2>2, <2>4
<1>7. ASSUME i \in Behind(agent, available) PROVE UpdateOf(agent[i], available) \in mine
  <2>1. UpdateOf(agent[i], available) \in Reported(updates)
    BY <1>2, <1>7 DEF Due
  <2>2. UpdateOf(agent[i], available).skill = s
    BY DEF UpdateOf
  <2> HIDE DEF mine, s
  <2> QED
    BY <1>4, <2>1, <2>2
<1>8. ASSUME NEW x \in available
      PROVE  /\ x = <<x[1], x[2]>> /\ (x[1] = s => x[2] \in Offered(s, available))
  <2>1. x \in SkillNames \X Versions
    OBVIOUS
  <2> QED
    BY <2>1 DEF Offered
<1>9. ASSUME NEW w \in Offered(s, available) PROVE <<s, w>> \in available
  <2>1. PICK x \in available : x[1] = s /\ x[2] = w
    BY DEF Offered
  <2> QED
    BY <1>8, <2>1
<1> HIDE DEF mine, s, from, to
<1>10. newer = {x \in available : x[1] = s /\ Below(from, x[2])}
  BY DEF NewerOffers, s, from
<1> HIDE DEF newer
<1>11. ASSUME NEW x \in newer
       PROVE  /\ Offered(s, available) # {} /\ to \in Numbers /\ x[2] \in Numbers
              /\ ~Below(to, x[2]) /\ Below(from, to) /\ i \in Behind(agent, available)
  <2>1. x \in available /\ x[1] = s /\ Below(from, x[2]) /\ x[2] \in Offered(s, available)
    BY <1>8, <1>10
  <2>2. to \in Numbers /\ x[2] \in Numbers /\ ~Below(to, x[2])
    BY <2>1, LatestIsNewest DEF to
  <2>3. Below(from, to)
    BY <1>5, <2>1, <2>2, BelowOrders
  <2>4. Newer(to, from)
    BY <1>5, <2>2, <2>3, NewerIsBelow
  <2>5. i \in Behind(agent, available)
    BY <2>1, <2>4 DEF Behind, s, from, to
  <2> QED
    BY <2>1, <2>2, <2>3, <2>5
<1>12. ASSUME i \in Behind(agent, available)
       PROVE  /\ to \in Numbers /\ Below(from, to) /\ <<s, to>> \in newer
              /\ \A x \in newer : ~Below(to, x[2])
  <2>1. Offered(s, available) # {} /\ Newer(to, from)
    BY <1>12 DEF Behind, s, from, to
  <2>2. to \in Offered(s, available) /\ to \in Numbers
    BY <2>1, LatestIsNewest DEF to
  <2>3. Below(from, to)
    BY <1>5, <2>1, <2>2, NewerIsBelow
  <2>4. <<s, to>> \in newer
    BY <1>9, <1>10, <2>2, <2>3
  <2> QED
    BY <1>11, <2>2, <2>3, <2>4
<1>13. mine = {} <=> newer = {}
  <2>1. ASSUME NEW u \in mine PROVE newer # {}
    BY <1>6, <1>12
  <2>2. ASSUME NEW x \in newer PROVE mine # {}
    BY <1>7, <1>11
  <2> QED
    BY <2>1, <2>2
<1>14. ASSUME NEW u \in mine
       PROVE  /\ <<u.skill, u.to>> \in newer /\ \A x \in newer : ~Below(u.to, x[2])
              /\ Matches(t[i].pin, u.to)
              /\ (~u.breaking /\ u.from[1] > 0 =>
                    Matches([op |-> "caret", base |-> u.from], u.to))
  <2>1. i \in Behind(agent, available) /\ u = UpdateOf(agent[i], available)
    BY <1>6
  <2>2. u.skill = s /\ u.to = to /\ u.from = from /\ u.breaking = (to[1] > from[1])
    BY <2>1 DEF UpdateOf, s, from, to
  <2>3. to \in Numbers /\ Below(from, to) /\ <<s, to>> \in newer
        /\ \A x \in newer : ~Below(to, x[2])
    BY <1>12, <2>1
  <2>4. ~Newer(from, to)
    BY <1>5, <2>3, NewerIsBelow, BelowOrders
  <2>5. Matches(t[i].pin, to)
    BY <1>3, <2>4 DEF Matches
  <2>6. ASSUME ~u.breaking, u.from[1] > 0
        PROVE  Matches([op |-> "caret", base |-> u.from], u.to)
    <3>1. /\ from[1] \in Nat /\ from[2] \in Nat /\ from[3] \in Nat
          /\ to[1] \in Nat /\ to[2] \in Nat /\ to[3] \in Nat
      BY <1>5, <2>3 DEF Numbers
    <3>2. ~ (to[1] > from[1]) /\ from[1] > 0
      BY <2>2, <2>6
    <3> DEFINE ceiling == CaretCeiling(from)
    <3>3. ceiling = <<from[1] + 1, 0, 0>>
      BY <3>2 DEF CaretCeiling
    <3>4. ceiling[1] > to[1] /\ 1 \in 1..3 /\ 1..(1 - 1) = {}
      BY <3>1, <3>2, <3>3
    <3> HIDE DEF ceiling
    <3>5. Newer(ceiling, to)
      BY <3>4 DEF Newer
    <3> QED
      BY <2>2, <2>4, <3>5 DEF Matches, ceiling
  <2> QED
    BY <2>2, <2>3, <2>5, <2>6
<1> QED
  BY <1>13, <1>14 DEF Adoptable, mine, newer

\* No agent is unfaithful.
LEMMA NoneUnfaithful == Unfaithful = {}
BY SavedAgent, AgentComesBack, UpdatesMayBeAdopted DEF Unfaithful

-------------------------------------------------------------------------------
(* What the client decides offline.                                          *)

\* For any window, keys and tokens: a license is taken exactly when a key of its kid and
\* algorithm signed it, the kid has named no other key since, fewer than a window of
\* other kids have come after it, and its header and claims are those of a perpetual
\* license.
THEOREM LicenseTheorem == SkillSpec => []LicenseHonoursWindow
<1>1. LicenseHonoursWindow
  BY NothingMisjudged DEF LicenseHonoursWindow
<1> QED
  BY <1>1, PTL

\* For any agents, rows and versions on offer: a saved agent comes back whole unless a
\* skill of it is gone or older than it was, the first of which is named, and what it is
\* offered it can adopt.
THEOREM TemplatesTheorem == SkillSpec => []TemplatesComeBack
<1>1. TemplatesComeBack
  BY NoneUnfaithful DEF TemplatesComeBack
<1> QED
  BY <1>1, PTL
===============================================================================
