------------------------------- MODULE Templates -------------------------------
(***************************************************************************)
(* Saved agents (templates.rs, and the template commands of main.rs over   *)
(* the store): a template pins each skill of an agent to a range of        *)
(* versions, is loaded against the rows of installed skills, and is told   *)
(* of newer versions.  Layout and presets are carried along and left out.  *)
(*   pin   [op, base]            ref  [skill, pin]                         *)
(* A version in a row is the numbers between its dots, or no version.      *)
(***************************************************************************)
EXTENDS SkillPackage, Subsequences

CONSTANTS
  SkillNames,   \* skills a template may name
  VersionTexts, \* what a row may hold as its version, parsed or not
  MaxMembers    \* bound: skills of an agent

\* from_str: one to three numbers.
IsVersion(text) == Len(text) \in 1..3 /\ \A i \in 1..Len(text) : text[i] \in Nat
Versions == {SemVer(text) : text \in {x \in VersionTexts : IsVersion(x)}}

\* The next breaking version: the left-most part that is not zero, plus one.
CaretCeiling(base) ==
  IF base[1] > 0 THEN <<base[1] + 1, 0, 0>>
  ELSE IF base[2] > 0 THEN <<0, base[2] + 1, 0>>
  ELSE <<0, 0, base[3] + 1>>

(* A definition whose name begins with Mutant is the next one with a plausible
   bug.  No specification uses it: it shows which property the bug breaks. *)

\* At least means the same major version.
MutantMatches(pin, v) ==
  CASE pin.op = "exact" -> v = pin.base
    [] OTHER -> ~Newer(pin.base, v) /\ Newer(CaretCeiling(pin.base), v)

Matches(pin, v) ==
  CASE pin.op = "exact" -> v = pin.base
    [] pin.op = "at_least" -> ~Newer(pin.base, v)
    [] pin.op = "caret" -> ~Newer(pin.base, v) /\ Newer(CaretCeiling(pin.base), v)

\* save_as_template: every skill is pinned at least at the version it runs.
SaveAsTemplate(enabled) ==
  [i \in 1..Len(enabled) |->
     [skill |-> enabled[i][1], pin |-> [op |-> "at_least", base |-> enabled[i][2]]]]

\* template_save refuses a list with a version that does not parse.
TemplateSave(refs) ==
  IF \E i \in 1..Len(refs) : ~IsVersion(refs[i][2]) THEN [ok |-> FALSE, template |-> <<>>]
  ELSE [ok |-> TRUE, template |-> SaveAsTemplate([i \in 1..Len(refs) |->
                                                   <<refs[i][1], SemVer(refs[i][2])>>])]

\* template_load: a row whose version does not parse counts as not installed.
InstalledVersions(rows) ==
  [s \in {s \in DOMAIN rows : IsVersion(rows[s])} |-> SemVer(rows[s])]

Resolves(ref, installed) ==
  ref.skill \in DOMAIN installed /\ Matches(ref.pin, installed[ref.skill])

\* The first member that does not resolve is reported, missing and too old alike.
LoadTemplate(template, installed) ==
  LET failed == SelectInSeq(template, LAMBDA ref : ~Resolves(ref, installed)) IN
    IF failed # 0
      THEN [ok |-> FALSE, skills |-> <<>>, missing |-> {template[failed].skill}]
      ELSE [ok |-> TRUE, missing |-> {},
            skills |-> [i \in 1..Len(template) |->
                          <<template[i].skill, installed[template[i].skill]>>]]

Offered(s, available) == {offer[2] : offer \in {x \in available : x[1] = s}}
Latest(s, available) ==
  CHOOSE v \in Offered(s, available) : \A w \in Offered(s, available) : ~Newer(w, v)

\* check_updates: the newest version on offer, where it is newer than the pin.
CheckUpdates(template, available) ==
  LET Behind(ref) == Offered(ref.skill, available) # {}
                       /\ Newer(Latest(ref.skill, available), ref.pin.base)
      Update(ref) == [skill |-> ref.skill, from |-> ref.pin.base,
                      to |-> Latest(ref.skill, available),
                      breaking |-> Latest(ref.skill, available)[1] > ref.pin.base[1]]
      news == Retained(template, {i \in 1..Len(template) : Behind(template[i])})
  IN [i \in 1..Len(news) |-> Update(news[i])]

-------------------------------------------------------------------------------
(* What a template should do.                                                *)

Agents == {e \in SeqOf(SkillNames \X VersionTexts, MaxMembers) :
             \A i, j \in 1..Len(e) : e[i][1] = e[j][1] => i = j}
Rows == UNION {[names -> VersionTexts] : names \in SUBSET SkillNames}
Readable(agent) == \A i \in 1..Len(agent) : IsVersion(agent[i][2])

\* Major before minor before patch.
Below(v, w) ==
  \/ v[1] < w[1]
  \/ v[1] = w[1] /\ v[2] < w[2]
  \/ v[1] = w[1] /\ v[2] = w[2] /\ v[3] < w[3]
Old(member, rows) ==
  \/ member[1] \notin DOMAIN rows
  \/ ~IsVersion(rows[member[1]])
  \/ Below(SemVer(rows[member[1]]), SemVer(member[2]))

\* A saved agent comes back whole and in its order, at the versions installed, unless
\* one of its skills is gone or older than it was, and then the first such skill is
\* named.
ComesBack(agent, rows) ==
  LET result == LoadTemplate(TemplateSave(agent).template, InstalledVersions(rows))
      old == {i \in 1..Len(agent) : Old(agent[i], rows)}
  IN /\ result.ok <=> old = {}
     /\ result.ok => result.skills = [i \in 1..Len(agent) |->
                                        <<agent[i][1], SemVer(rows[agent[i][1]])>>]
     /\ ~result.ok => \E i \in old : (\A j \in old : i <= j) /\ result.missing = {agent[i][1]}

ReportedFor(skill, updates) ==
  {updates[j] : j \in {j \in 1..Len(updates) : updates[j].skill = skill}}
NewerOffers(member, available) ==
  {x \in available : x[1] = member[1] /\ Below(SemVer(member[2]), x[2])}

\* An update that is reported is the newest on offer and may be adopted, and one that
\* is not breaking, of a released skill, is within the caret range of the old version.
Adoptable(pin, mine, newer) ==
  /\ mine = {} <=> newer = {}
  /\ \A u \in mine :
       /\ <<u.skill, u.to>> \in newer /\ \A x \in newer : ~Below(u.to, x[2])
       /\ Matches(pin, u.to)
       /\ ~u.breaking /\ u.from[1] > 0 => Matches([op |-> "caret", base |-> u.from], u.to)

MayBeAdopted(agent, available) ==
  LET template == TemplateSave(agent).template
      updates == CheckUpdates(template, available)
  IN \A i \in 1..Len(template) :
       Adoptable(template[i].pin, ReportedFor(template[i].skill, updates),
                 NewerOffers(agent[i], available))

\* Agents whose template is refused or taken wrongly, does not come back, or is offered
\* an update it cannot adopt.
Unfaithful ==
  {agent \in Agents :
     \/ TemplateSave(agent).ok # Readable(agent)
     \/ /\ Readable(agent)
        /\ \/ \E rows \in Rows : ~ComesBack(agent, rows)
           \/ \E available \in SUBSET (SkillNames \X Versions) :
                IsFiniteSet(available) /\ ~MayBeAdopted(agent, available)}
================================================================================
