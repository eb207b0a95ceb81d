---------------------------- MODULE RefreshTokens ----------------------------
(***************************************************************************)
(* The rotating refresh tokens of one user (RefreshTokenService).  rotate  *)
(* is a snapshot transaction: it reads the rows when it begins, decides on *)
(* what it read, and at its end either commits or, when a row it claims    *)
(* was written in between or when it throws, rolls back everything.        *)
(* Logout and password reset are plain updateMulti calls, which visit the  *)
(* rows one by one in the order they were inserted.                        *)
(*                                                                         *)
(* Rows are numbered in the order of their time-ordered ids.               *)
(***************************************************************************)
EXTENDS Integers, FiniteSets, FiniteSetsExt

CONSTANTS
  Families,   \* one per login
  Requests,   \* rotate calls in flight
  MaxRows,    \* bound of the model on refresh_tokens rows
  None

ASSUME RowsAssumption == MaxRows \in Nat /\ None \notin Families

Ids == 1..MaxRows

VARIABLES
  row,        \* refresh_tokens: the rows, NoRow where there is none yet
  rotation,   \* the rotate calls in flight: what each decided on its snapshot
  sweep,      \* where the updateMulti on each family stands, 0 when none runs
  loggedOut   \* families whose logout (or password reset) has returned

vars == <<row, rotation, sweep, loggedOut>>

NoRow == [family |-> None, prev |-> 0, used |-> "no", revoked |-> FALSE]
Idle  == [pc |-> "idle", family |-> None, prev |-> 0, claims |-> FALSE]

\* used: whether used_at is null, within the retry grace, or older.
RowType == [family : Families \cup {None}, prev : 0..MaxRows, used : {"no", "recent", "old"},
            revoked : BOOLEAN]

\* A rotation mints a child of prev in family, after claiming prev if it claims.
RotationType == [pc : {"idle", "rotating", "reuse"}, family : Families \cup {None},
                 prev : 0..MaxRows, claims : BOOLEAN]

TypeOK ==
  /\ row \in [Ids -> RowType]
  /\ rotation \in [Requests -> RotationType]
  /\ sweep \in [Families -> 0..MaxRows + 1]
  /\ loggedOut \subseteq Families

Init ==
  /\ row = [i \in Ids |-> NoRow]
  /\ rotation = [p \in Requests |-> Idle]
  /\ sweep = [f \in Families |-> 0]
  /\ loggedOut = {}

RowsOf(f) == {i \in Ids : row[i].family = f}
LiveRows(f) == {i \in RowsOf(f) : ~row[i].revoked}
Free == {i \in Ids : row[i].family = None}

\* The rows firstTip chooses from.
Tips(f) == {i \in LiveRows(f) : row[i].used = "no"}

(* A definition whose name begins with Mutant is the next one with a plausible
   bug.  No specification uses it: it shows which property the bug breaks.     *)

\* Only a child that is not used itself counts as a dropped response.
MutantRetryOnce(t) ==
  /\ row[t].used = "recent"
  /\ \E i \in Ids : row[i].family # None /\ row[i].prev = t /\ ~row[i].revoked /\ row[i].used = "no"

\* A used token within the grace window and with a live child: a dropped response.
Retry(t) ==
  /\ row[t].used = "recent"
  /\ \E i \in Ids : row[i].family # None /\ row[i].prev = t /\ ~row[i].revoked

\* mint inserts the row with the next id.
Mint(rows, f, prev) ==
  row' = [rows EXCEPT ![Min(Free)] = [NoRow EXCEPT !.family = f, !.prev = prev]]

Finish(p) == rotation' = [rotation EXCEPT ![p] = Idle]

\* issueNewFamily
Login(f) ==
  /\ RowsOf(f) = {} /\ Free # {}
  /\ Mint(row, f, 0)
  /\ UNCHANGED <<rotation, sweep, loggedOut>>

\* The snapshot, and all rotate decides on it: an unused token is claimed; a retry
\* claims the tip of the family, and without a tip branches off the presented row;
\* any other use is reuse.
BeginRotate(p, t) ==
  LET f == row[t].family IN
    /\ rotation[p].pc = "idle"
    /\ t \in LiveRows(f) /\ f # None
    /\ UNCHANGED <<row, sweep, loggedOut>>
    /\ \/ /\ row[t].used = "no"
          /\ rotation' = [rotation EXCEPT ![p] =
               [pc |-> "rotating", family |-> f, prev |-> t, claims |-> TRUE]]
       \/ /\ Retry(t)
          /\ rotation' = [rotation EXCEPT ![p] =
               [pc |-> "rotating", family |-> f, claims |-> Tips(f) # {},
                prev |-> IF Tips(f) # {} THEN Max(Tips(f)) ELSE t]]
       \/ /\ row[t].used # "no" /\ ~Retry(t)
          /\ rotation' = [rotation EXCEPT ![p] = [Idle EXCEPT !.pc = "reuse", !.family = f]]

\* The claim does not ask whether used_at is still null.
MutantClaimsUsed(r) == r.claims => r.prev \in LiveRows(r.family)

\* The rotation does not conflict with a revocation.
MutantClaimsRevoked(r) == r.claims => row[r.prev].used = "no"

\* The claimed row has not been written since the snapshot.
Claimable(r) == r.claims => r.prev \in Tips(r.family)

CommitRotate(p) ==
  LET r == rotation[p] IN
    /\ r.pc = "rotating" /\ Free # {}
    /\ Claimable(r)
    /\ Mint(IF r.claims THEN [row EXCEPT ![r.prev].used = "recent"] ELSE row, r.family, r.prev)
    /\ Finish(p)
    /\ UNCHANGED <<sweep, loggedOut>>

\* revokeFamily runs in the transaction that the exception thrown next rolls back,
\* so the rows stay as they are.
ReportReuse(p) ==
  /\ rotation[p].pc = "reuse"
  /\ Finish(p)
  /\ UNCHANGED <<row, sweep, loggedOut>>

\* A write conflict, an expired token, an account no longer active, a crash; all of
\* them leave a reuse, too, as ReportReuse leaves it.
AbortRotate(p) ==
  /\ rotation[p].pc = "rotating"
  /\ Finish(p)
  /\ UNCHANGED <<row, sweep, loggedOut>>

\* revokeFamilyOf and, for every family, revokeAllForUser.
BeginSweep(f) ==
  /\ RowsOf(f) # {} /\ sweep[f] = 0
  /\ sweep' = [sweep EXCEPT ![f] = 1]
  /\ UNCHANGED <<row, rotation, loggedOut>>

SweepRow(f) ==
  LET ahead == {i \in RowsOf(f) : i >= sweep[f]} IN
    /\ sweep[f] # 0 /\ ahead # {}
    /\ row' = [row EXCEPT ![Min(ahead)].revoked = TRUE]
    /\ sweep' = [sweep EXCEPT ![f] = Min(ahead) + 1]
    /\ UNCHANGED <<rotation, loggedOut>>

EndSweep(f) ==
  /\ sweep[f] # 0
  /\ \A i \in RowsOf(f) : i < sweep[f]
  /\ sweep' = [sweep EXCEPT ![f] = 0]
  /\ loggedOut' = loggedOut \cup {f}
  /\ UNCHANGED <<row, rotation>>

\* The grace window of a used token ends.
GraceEnds(t) ==
  /\ row[t].used = "recent"
  /\ row' = [row EXCEPT ![t].used = "old"]
  /\ UNCHANGED <<rotation, sweep, loggedOut>>

Next ==
  \/ \E f \in Families : Login(f) \/ BeginSweep(f) \/ SweepRow(f) \/ EndSweep(f)
  \/ \E p \in Requests :
       (\E t \in Ids : BeginRotate(p, t)) \/ CommitRotate(p) \/ ReportReuse(p) \/ AbortRotate(p)
  \/ \E t \in Ids : GraceEnds(t)

Spec == Init /\ [][Next]_vars

-------------------------------------------------------------------------------
(* Properties *)

\* A family is a single chain, whatever rotations, retries and logouts overlap: it
\* never has two tokens that can both be rotated, so neither a race of two submits nor
\* the branch of a retry without a tip forks a session.
OneTip == \A f \in Families : Cardinality(Tips(f)) <= 1

\* Logout and password reset invalidate "every outstanding session", the child a
\* rotation mints while they run included.
LogoutIsFinal == \A f \in loggedOut : LiveRows(f) = {}

\* "Presenting a token whose row already has used_at normally means theft: the whole
\* family is revoked and re-login is forced" (RefreshTokenService).
ReuseRevokesFamily ==
  [][ \A p \in Requests :
        ReportReuse(p) => \A i \in RowsOf(rotation[p].family) : row'[i].revoked ]_vars
===============================================================================
