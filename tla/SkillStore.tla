------------------------------ MODULE SkillStore ------------------------------
(***************************************************************************)
(* Installed skills: the installer (hpskill.rs), its lifecycle registry    *)
(* (skill_manager.rs), the rows of installed_skills and the entitlement    *)
(* cache (store.rs), and the unlock gate of the cooking assistant          *)
(* (unlock.rs), with the commands of main.rs that drive them.  What is in  *)
(* a package and which gate refuses it is SkillPackage.                    *)
(*                                                                         *)
(* A skill is in three places: its directory, the registry in memory and   *)
(* the row.  skill_download_install is asynchronous and runs beside        *)
(* everything else; the other commands run on the main thread, one at a    *)
(* time.  The locks of the registry and of the store are held for one step *)
(* each.  Any step may fail or be the last one before a crash; a restart   *)
(* rebuilds the registry from the rows and the gate from unlock.json.      *)
(***************************************************************************)
EXTENDS StoreMigrations, SkillPackage

CONSTANTS
  Skills,
  Packages,
  Archive,          \* what is in each package
  CookingAssistant, \* the one skill with an unlock gate
  Nonces,           \* of the valid unlock codes
  Tasks,            \* names for commands in flight
  None

ASSUME PackagesAssumption ==
  /\ CookingAssistant \in Skills
  /\ \A p \in Packages : /\ Archive[p].manifest.id \in Skills
                         /\ Archive[p].manifest.free \in BOOLEAN
                         /\ Len(Archive[p].entries) \in Nat
  /\ None \notin Skills \cup Nonces \cup Packages

VARIABLES
  row,        \* installed_skills: the package of each row
  dir,        \* the directory of each skill: which package each file is of
  registry,   \* the lifecycle registry
  entitled,   \* skills the entitlement cache lists as owned
  granted,    \* skills it has ever listed
  unlock,     \* unlock.json
  unlocked,   \* the gate in memory
  kept,       \* whether an unlock has been written that no failure, crash or overlapping
              \* write has spoiled since; only the properties read it
  task        \* the commands in flight

skillVars == <<row, dir, registry, entitled, granted, unlock, unlocked, kept, task>>
allVars == <<storeVars, skillVars>>

\* torn: what is in the file does not parse; longer: it is longer than a record without
\* a nonce is.
UnlockType ==
  [unlocked : BOOLEAN, nonce : Nonces \cup {None}, torn : BOOLEAN, longer : BOOLEAN]
Locked == [unlocked |-> FALSE, nonce |-> None, torn |-> FALSE, longer |-> FALSE]
Torn(longer) == [Locked EXCEPT !.torn = TRUE, !.longer = longer]

IdOf(p) == Archive[p].manifest.id
Files == [p \in Packages |-> {Archive[p].entries[i].path : i \in Extracted(Archive[p])}]
FileNames == UNION {Files[p] : p \in Packages}

\* todo: entries to extract; found: the unlock state read; alone: whether no other
\* command of the same skill ran beside this one.
TaskType ==
  [kind : {"none", "download", "install", "uninstall", "redeem"},
   pc : {"idle", "extract", "register", "save", "remove", "forget", "read", "truncate",
         "write", "flag"},
   skill : Skills \cup {None}, pkg : Packages \cup {None}, todo : SUBSET Nat,
   nonce : Nonces \cup {None}, found : UnlockType, alone : BOOLEAN]
SyncKinds == {"install", "uninstall", "redeem"}
NoTask == [kind |-> "none", pc |-> "idle", skill |-> None, pkg |-> None, todo |-> {},
           nonce |-> None, found |-> Locked, alone |-> TRUE]

\* Which package is filed under which skill.
Filed == {<<IdOf(p), p>> : p \in Packages}

\* Files and rows are of the skill they are filed under, no skill that is not owned is
\* in the registry, and the main thread runs one command at a time.
SkillTypeOK ==
  /\ \A s \in Skills : \A p \in ({row[s]} \cup {dir[s][f] : f \in FileNames}) \ {None} :
       <<s, p>> \in Filed
  /\ \A s \in Skills : registry[s] # None => LifecycleState(registry[s]) # "not_owned"
  /\ entitled \subseteq granted /\ granted \subseteq Skills
  /\ unlock \in UnlockType /\ unlocked \in BOOLEAN /\ kept \in BOOLEAN
  /\ task \in [Tasks -> TaskType]
  /\ Cardinality({t \in Tasks : task[t].kind \in SyncKinds}) <= 1

SkillInit ==
  /\ StoreInit
  /\ row = [s \in Skills |-> None] /\ dir = [s \in Skills |-> [f \in FileNames |-> None]]
  /\ registry = [s \in Skills |-> None]
  /\ entitled = {} /\ granted = {}
  /\ unlock = Locked /\ unlocked = FALSE /\ kept = FALSE
  /\ task = [t \in Tasks |-> NoTask]

At(t, pc) == process = "up" /\ task[t].pc = pc
Goto(t, pc) == task' = [task EXCEPT ![t].pc = pc]
End(t) == task' = [task EXCEPT ![t] = NoTask]

MainThreadFree == \A t \in Tasks : task[t].kind \notin SyncKinds

\* A command of skill s begins; it and the others of that skill are no longer alone.
Begin(t, s, new) ==
  LET beside == {u \in Tasks : task[u].skill = s /\ s # None} IN
    task' = [u \in Tasks |-> IF u = t THEN [new EXCEPT !.alone = beside = {}]
                             ELSE IF u \in beside THEN [task[u] EXCEPT !.alone = FALSE]
                             ELSE task[u]]

\* The packages anyone may install, and those whose buyer may.
ForAnyone == {p \in Packages : InstallError(Archive[p], FALSE) = "ok"}
ForBuyers == {p \in Packages : InstallError(Archive[p], TRUE) = "ok"}

(* A definition whose name begins with Mutant is the next one with a plausible
   bug.  No specification uses it: it shows which property the bug breaks.     *)

\* Ownership is not asked for.
MutantAccepted(p) == p \in ForBuyers

\* The gates before the first write: the archive and its signature, the manifest,
\* ownership, the host.
Accepted(p) == p \in ForAnyone \/ (p \in ForBuyers /\ IdOf(p) \in entitled)

\* The entry of a package that has passed the gates, before it is installed.
OwnedEntry == [p \in Packages |-> MarkOwned(NewEntry(Archive[p].manifest))]

\* What the registry can hold.
Entries == {[OwnedEntry[p] EXCEPT !.installed = b] : p \in Packages, b \in BOOLEAN}
ASSUME EntriesAssumption == None \notin Entries

\* install_bytes with the bytes of p in hand, from a file or from a download.
BeginInstall(t, p, kind) ==
  /\ At(t, "idle")
  /\ kind = "install" => MainThreadFree
  /\ Accepted(p)
  /\ Begin(t, IdOf(p), [NoTask EXCEPT !.kind = kind, !.pc = "extract", !.skill = IdOf(p),
                                      !.pkg = p, !.todo = Extracted(Archive[p])])
  /\ UNCHANGED <<row, dir, registry, entitled, granted, unlock, unlocked, kept>>

ExtractFile(t) ==
  LET p == task[t].pkg  i == FirstOf(Archive[p], task[t].todo) IN
    /\ At(t, "extract")
    /\ dir' = [dir EXCEPT ![task[t].skill][Archive[p].entries[i].path] = p]
    /\ task' = [task EXCEPT ![t].todo = @ \ {i},
                            ![t].pc = IF task[t].todo = {i} THEN "register" ELSE @]
    /\ UNCHANGED <<row, registry, entitled, granted, unlock, unlocked, kept>>

\* A new entry replaces the old one, so that the install never finds it installed.
RegisterEntry(t) ==
  /\ At(t, "register")
  /\ registry' = [registry EXCEPT ![task[t].skill] = InstallEntry(OwnedEntry[task[t].pkg])]
  /\ Goto(t, "save")
  /\ UNCHANGED <<row, dir, entitled, granted, unlock, unlocked, kept>>

\* An existing row is left as it is.
MutantSaved(s, p) == IF row[s] = None THEN p ELSE row[s]

\* save_installed_skill is an upsert.
Saved(s, p) == p

\* A bought cooking assistant opens its gate, once it is installed.
SaveRow(t) ==
  LET s == task[t].skill IN
    /\ At(t, "save")
    /\ row' = [row EXCEPT ![s] = Saved(s, task[t].pkg)]
    /\ IF s = CookingAssistant /\ task[t].kind = "download"
         THEN task' = [task EXCEPT ![t] = [NoTask EXCEPT !.kind = "download", !.pc = "read"]]
         ELSE End(t)
    /\ UNCHANGED <<dir, registry, entitled, granted, unlock, unlocked, kept>>

\* A skill the registry does not know as installed is removed all the same.
BeginUninstall(t, s) ==
  /\ At(t, "idle") /\ MainThreadFree
  /\ registry' = [registry EXCEPT ![s] = IF @ = None THEN None ELSE UninstallEntry(@)]
  /\ Begin(t, s, [NoTask EXCEPT !.kind = "uninstall", !.pc = "remove", !.skill = s])
  /\ UNCHANGED <<row, dir, entitled, granted, unlock, unlocked, kept>>

\* remove_dir_all, entry by entry.
RemoveFile(t) ==
  LET s == task[t].skill
      present == {f \in FileNames : dir[s][f] # None}
  IN  /\ At(t, "remove")
      /\ \/ present = {} /\ Goto(t, "forget") /\ UNCHANGED dir
         \/ \E f \in present : dir' = [dir EXCEPT ![s][f] = None] /\ UNCHANGED task
      /\ UNCHANGED <<row, registry, entitled, granted, unlock, unlocked, kept>>

RemoveRow(t) ==
  /\ At(t, "forget")
  /\ row' = [row EXCEPT ![task[t].skill] = None]
  /\ End(t)
  /\ UNCHANGED <<dir, registry, entitled, granted, unlock, unlocked, kept>>

\* An I/O or database error ends the command where it is.
Fail(t) ==
  /\ \E pc \in {"extract", "register", "save", "remove", "forget"} : At(t, pc)
  /\ End(t)
  /\ UNCHANGED <<row, dir, registry, entitled, granted, unlock, unlocked, kept>>

\* unlock_redeem with a valid code; any other code changes nothing.
BeginRedeem(t, n) ==
  /\ At(t, "idle") /\ MainThreadFree
  /\ Begin(t, None, [NoTask EXCEPT !.kind = "redeem", !.pc = "read", !.nonce = n])
  /\ UNCHANGED <<row, dir, registry, entitled, granted, unlock, unlocked, kept>>

\* A missing file and one that does not parse are a locked state.
ReadUnlock(t) ==
  /\ At(t, "read")
  /\ task' = [task EXCEPT ![t].pc = "truncate",
                          ![t].found = IF unlock.torn THEN Locked ELSE unlock]
  /\ UNCHANGED <<row, dir, registry, entitled, granted, unlock, unlocked, kept>>

\* fs::write truncates the file first; its failure is ignored.
TruncateUnlock(t) ==
  /\ At(t, "truncate")
  /\ \/ unlock' = Torn(FALSE) /\ Goto(t, "write")
     \/ unlock' = unlock /\ Goto(t, "flag")
  /\ UNCHANGED <<row, dir, registry, entitled, granted, unlocked, kept>>

\* apply_unlock keeps the nonce it read where it brings none.
ApplyUnlock(found, nonce) ==
  LET n == IF nonce = None THEN found.nonce ELSE nonce IN
    [unlocked |-> TRUE, nonce |-> n, torn |-> FALSE, longer |-> n # None]

\* A record is written from the start of the file over what another command has
\* written since the truncation: the tail of a longer record stays behind it.
Overwrite(text) == IF unlock.longer /\ ~text.longer THEN Torn(TRUE) ELSE text

\* The write may fail with nothing or only the beginning of the record written.
WriteUnlock(t) ==
  LET text == ApplyUnlock(task[t].found, task[t].nonce) IN
    /\ At(t, "write")
    /\ \/ unlock' = Overwrite(text) /\ kept' = (text.longer \/ ~unlock.longer)
       \/ /\ \/ unlock' = unlock
             \/ \E longer \in {unlock.longer, unlock.longer \/ text.longer} :
                  unlock' = Torn(longer)
          /\ kept' = FALSE
    /\ Goto(t, "flag")
    /\ UNCHANGED <<row, dir, registry, entitled, granted, unlocked>>

SetFlag(t) ==
  /\ At(t, "flag")
  /\ unlocked' = TRUE
  /\ End(t)
  /\ UNCHANGED <<row, dir, registry, entitled, granted, unlock, kept>>

\* cache_entitlements replaces all rows in one transaction.
CacheEntitlements(skills) ==
  /\ process = "up" /\ entitled # skills
  /\ entitled' = skills /\ granted' = granted \cup skills
  /\ UNCHANGED <<row, dir, registry, unlock, unlocked, kept, task>>

\* The gate opens only for a redeemed code.
MutantGateAtStart == ~unlock.torn /\ unlock.nonce # None

\* is_cooking_assistant_unlocked
GateAtStart == ~unlock.torn /\ unlock.unlocked

\* SkillInstaller::new takes every row to be owned and installed.
Setup ==
  /\ OpenStore
  /\ registry' = [s \in Skills |-> IF row[s] = None THEN None
                                  ELSE [OwnedEntry[row[s]] EXCEPT !.installed = TRUE]]
  /\ unlocked' = GateAtStart
  /\ UNCHANGED <<row, dir, entitled, granted, unlock, kept, task>>

\* An unlock is lost that a crash catches between truncation and write.
Crash ==
  /\ StoreCrash
  /\ task' = [t \in Tasks |-> NoTask]
  /\ registry' = [s \in Skills |-> None] /\ unlocked' = FALSE
  /\ kept' = (kept /\ \A t \in Tasks : task[t].pc # "write")
  /\ UNCHANGED <<row, dir, entitled, granted, unlock>>

TaskStep(t) ==
  \/ \E p \in Packages, kind \in {"install", "download"} : BeginInstall(t, p, kind)
  \/ \E s \in Skills : BeginUninstall(t, s)
  \/ \E n \in Nonces : BeginRedeem(t, n)
  \/ ExtractFile(t) \/ RegisterEntry(t) \/ SaveRow(t) \/ RemoveFile(t) \/ RemoveRow(t)
  \/ Fail(t) \/ ReadUnlock(t) \/ TruncateUnlock(t) \/ WriteUnlock(t) \/ SetFlag(t)

SkillNext ==
  \/ (Migrate /\ UNCHANGED skillVars) \/ Setup \/ Crash
  \/ /\ \/ \E t \in Tasks : TaskStep(t)
        \/ \E skills \in SUBSET Skills : CacheEntitlements(skills)
     /\ UNCHANGED storeVars

\* The user starts the client again, and its setup runs on.
SkillFairness == WF_allVars(Migrate /\ UNCHANGED skillVars) /\ WF_allVars(Setup)

SkillSpec == SkillInit /\ [][SkillNext]_allVars /\ SkillFairness

-------------------------------------------------------------------------------
(* Properties *)

Genuine(archive) ==
  \E i \in 1..Len(KeySpec) : LET m == archive.manifest IN
    /\ m.signature # NoSignature /\ m.signing_key_id = KeySpec[i].kid
    /\ m.signature.by = KeySpec[i].key
    /\ \A f \in DOMAIN m \ {"signature", "signing_key_id"} : m.signature.over[f] = m[f]

Harmless(archive) ==
  \A i \in 1..Len(archive.entries) : LET e == archive.entries[i] IN
    e.kind # "directory" =>
      e.safe /\ e.kind # "other" /\ (e.kind \in {"svg", "strings"} => e.content)

\* As the owner of a pinned key signed it, with no file that could leave its directory
\* or run, and for this host.
Sound ==
  {p \in Packages :
     /\ Genuine(Archive[p]) /\ Harmless(Archive[p]) /\ Archive[p].manifest.valid
     /\ TierRank[Archive[p].manifest.min_tier] <= TierRank[DeviceTier]
     /\ ~Newer(SemVer(Archive[p].manifest.min_app), SemVer(AppVersion))}

Free == {p \in Packages : Archive[p].manifest.free}

\* "Nothing is trusted, extracted, registered, or persisted unless the manifest
\* signature verifies", nothing unsound and nothing the user did not own: whatever
\* failed or crashed before, no file and no row is of a package a gate refuses.
OnlyAllowed ==
  \A s \in Skills : \A p \in ({row[s]} \cup {dir[s][f] : f \in FileNames}) \ {None} :
    p \in Sound /\ (p \in Free \/ s \in granted)

\* The store holds only what may be there, filed where it belongs.
StoreIsSound == SkillTypeOK /\ OnlyAllowed

\* An install and an uninstall that ran alone leave the directory, the registry and the
\* row in agreement, whatever mess of crashed, failed or overlapping ones they found.
LeavesWhole(t) ==
  LET s == task[t].skill  p == task[t].pkg IN
    IF task[t].kind = "uninstall"
    THEN /\ row'[s] = None /\ \A f \in FileNames : dir'[s][f] = None
         /\ registry'[s] # None => LifecycleState(registry'[s]) = "owned_not_installed"
    ELSE /\ row'[s] = p /\ \A f \in Files[p] : dir'[s][f] = p
         /\ registry'[s] # None /\ LifecycleState(registry'[s]) = "installed_disabled"
UndisturbedIsWhole ==
  [][\A t \in Tasks : task[t].alone /\ (SaveRow(t) \/ RemoveRow(t)) => LeavesWhole(t)]_allVars

\* An unlock that was written opens the gate in this session and after every restart,
\* whatever purchases, redemptions, uninstalls and refreshed entitlements come after it,
\* unless a crash or an I/O error tore the file, or a purchase wrote its record over the
\* longer one of a redemption that overlapped with it: the file then holds the one and
\* the tail of the other.
UnlockSurvives ==
  kept /\ process = "up" => unlocked \/ \E t \in Tasks : task[t].pc = "flag"
===============================================================================
