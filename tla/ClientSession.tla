---------------------------- MODULE ClientSession ----------------------------
(***************************************************************************)
(* The client's session (session.rs), its device identity (device.rs) and  *)
(* the commands of main.rs that use them, composed with the server's       *)
(* refresh tokens (RefreshTokens).  Commands are asynchronous tasks: the   *)
(* store is locked for one statement at a time and never across a request, *)
(* so between a read, the answer of the server and the write that follows  *)
(* any other command may run.  An answer may be lost, or arrive after the  *)
(* command has given up on it.  A crash ends every command; the two rows   *)
(* auth_session and device_identity survive it.                            *)
(*                                                                         *)
(* A command is one of Requests: it has at most one rotation in flight.    *)
(* A family stands for the login that began it and for its account.        *)
(***************************************************************************)
EXTENDS RefreshTokens

CONSTANT DeviceFamilies   \* families of accounts without an email, the others have one

ASSUME DeviceFamiliesAssumption == DeviceFamilies \subseteq Families

VARIABLES
  session,    \* the row of auth_session, NoSession while there is none
  identity,   \* the row of device_identity, NoIdentity while there is none
  command     \* the commands in flight

server == <<row, rotation, sweep, loggedOut>>
sessionVars == <<row, rotation, sweep, loggedOut, session, identity, command>>

\* token: the refresh token, by its row at the server; family: whose access token it
\* is; emailOf: the family the email came from; near: the access token is about to
\* expire.
SessionType == [token : 0..MaxRows, family : Families \cup {None},
                emailOf : Families \cup {None}, near : BOOLEAN]
NoSession == [token |-> 0, family |-> None, emailOf |-> None, near |-> FALSE]

\* key: the install id and signing key, by number; code: whose recovery code it keeps;
\* device: at whose account the device is registered.
IdentityType == [key : 0..1, code : Families \cup {None}, device : Families \cup {None}]
NoIdentity == [key |-> 0, code |-> None, device |-> None]

\* holds: the session a command has read, or the one an answer has brought.
CommandType ==
  [kind : {"none", "bearer", "login", "ensure", "logout"},
   pc : {"idle", "start", "current", "mint", "issued", "code", "bearer", "rotate",
         "rotated", "device", "mark", "revoke", "clear"},
   holds : SessionType, registered : BOOLEAN]
NoCommand == [kind |-> "none", pc |-> "idle", holds |-> NoSession, registered |-> FALSE]

SessionTypeOK ==
  /\ session \in SessionType /\ identity \in IdentityType
  /\ command \in [Requests -> CommandType]
  /\ session = NoSession \/ row[session.token].family = session.family

SessionInit ==
  /\ Init
  /\ session = NoSession /\ identity = NoIdentity
  /\ command = [c \in Requests |-> NoCommand]

At(c, pc) == command[c].pc = pc
Goto(c, pc) == command' = [command EXCEPT ![c].pc = pc]
End(c) == command' = [command EXCEPT ![c] = NoCommand]

\* What an answer of the server for row t of family f is stored as.
Issued(t, f, emailOf) == [token |-> t, family |-> f, emailOf |-> emailOf, near |-> FALSE]
EmailOf(f) == IF f \in DeviceFamilies THEN None ELSE f

\* ensure_identity, under one lock: the identity is minted once.
EnsuredIdentity == IF identity = NoIdentity THEN [NoIdentity EXCEPT !.key = 1] ELSE identity

\* device_ensure asks for the bearer only to register the device.
ToBearer(c) ==
  IF command[c].registered THEN End(c)
  ELSE command' = [command EXCEPT ![c].pc = "bearer", ![c].holds = NoSession]

\* With the bearer an ensure registers the device; the other requests change nothing here.
WithBearer(c, s) ==
  IF command[c].kind # "ensure" THEN End(c)
  ELSE command' = [command EXCEPT ![c].pc = "device",
                                  ![c].holds = [NoSession EXCEPT !.family = s.family]]

\* A command begins: an order, a license or an entitlement request asks for the bearer.
Begin(c, kind) ==
  /\ At(c, "idle") /\ rotation[c].pc = "idle"
  /\ command' = [command EXCEPT ![c] = [NoCommand EXCEPT !.kind = kind,
       !.pc = CASE kind = "bearer" -> "bearer" [] kind = "login" -> "mint" [] OTHER -> "start"]]
  /\ UNCHANGED <<server, session, identity>>

\* device_ensure reads the identity first, and remembers whether it was registered.
EnsureIdentity(c) ==
  /\ At(c, "start") /\ command[c].kind = "ensure"
  /\ identity' = EnsuredIdentity
  /\ command' = [command EXCEPT ![c].pc = "current",
                                ![c].registered = EnsuredIdentity.device # None]
  /\ UNCHANGED <<server, session>>

\* ensure_device_session does nothing where there is a session; a registered device is
\* then done.
CheckCurrent(c) ==
  /\ At(c, "current")
  /\ IF session = NoSession THEN Goto(c, "mint") ELSE ToBearer(c)
  /\ UNCHANGED <<server, session, identity>>

\* auth_register, auth_login and the device-only auth_register_device: the server
\* begins a family, and the answer arrives or is lost.
Issue(c, f) ==
  /\ At(c, "mint")
  /\ (command[c].kind = "ensure") = (f \in DeviceFamilies)
  /\ Login(f)
  /\ \/ command' = [command EXCEPT ![c].pc = "issued",
                                   ![c].holds = Issued(Min(Free), f, EmailOf(f))]
     \/ End(c)
  /\ UNCHANGED <<session, identity>>

\* The request failed: the command ends with the error.
FailIssue(c) ==
  /\ At(c, "mint")
  /\ End(c)
  /\ UNCHANGED <<server, session, identity>>

\* persist
Persist(c) ==
  /\ At(c, "issued")
  /\ session' = command[c].holds
  /\ IF command[c].kind = "ensure" THEN Goto(c, "code") ELSE End(c)
  /\ UNCHANGED <<server, identity>>

\* The recovery code of a device-only account goes beside the identity.
SaveRecoveryCode(c) ==
  /\ At(c, "code")
  /\ identity' = [EnsuredIdentity EXCEPT !.code = command[c].holds.family]
  /\ ToBearer(c)
  /\ UNCHANGED <<server, session>>

\* needs_refresh; a token without an expiry is never refreshed, and the server sends none.
NeedsRefresh(s) == s.near

\* bearer, up to the request: no session, one that needs no refresh, or a rotation.
ReadBearer(c) ==
  /\ At(c, "bearer")
  /\ \/ session = NoSession /\ End(c)
     \/ session # NoSession /\ ~NeedsRefresh(session) /\ WithBearer(c, session)
     \/ /\ session # NoSession /\ NeedsRefresh(session)
        /\ command' = [command EXCEPT ![c].pc = "rotate", ![c].holds = session]
  /\ UNCHANGED <<server, session, identity>>

\* The server takes up the rotation of a command that waits for it.
ServeRotate(c) ==
  /\ At(c, "rotate")
  /\ BeginRotate(c, command[c].holds.token)
  /\ UNCHANGED <<session, identity, command>>

\* The answer reaches the command, unless it gave up.
CommitAndAnswer(c) ==
  /\ CommitRotate(c)
  /\ command' = IF At(c, "rotate")
       THEN [command EXCEPT ![c].pc = "rotated",
              ![c].holds = Issued(Min(Free), rotation[c].family, @.emailOf)]
       ELSE command
  /\ UNCHANGED <<session, identity>>

\* A refused or failed refresh, and one the server never answers: the command goes on
\* with the stale access token, whatever becomes of the request.
FailRotate(c) ==
  /\ At(c, "rotate")
  /\ WithBearer(c, command[c].holds)
  /\ UNCHANGED <<server, session, identity>>

RefuseRotate(c) ==
  /\ ReportReuse(c) \/ AbortRotate(c)
  /\ IF At(c, "rotate") THEN WithBearer(c, command[c].holds) ELSE UNCHANGED command
  /\ UNCHANGED <<session, identity>>

(* A definition whose name begins with Mutant is the next one with a plausible
   bug.  No specification uses it: it shows which property the bug breaks.     *)

\* The email is read again when the answer is there.
MutantRefreshed(c) == [command[c].holds EXCEPT !.emailOf = session.emailOf]

\* save_tokens keeps the email of the session the refresh began with.
Refreshed(c) == command[c].holds

SaveTokens(c) ==
  /\ At(c, "rotated")
  /\ session' = Refreshed(c)
  /\ WithBearer(c, command[c].holds)
  /\ UNCHANGED <<server, identity>>

\* device_register at the server, then mark_registered; a failure is ignored.
RegisterDevice(c) ==
  /\ At(c, "device")
  /\ Goto(c, "mark") \/ End(c)
  /\ UNCHANGED <<server, session, identity>>

\* The whole row is written anew.
MutantMarked(id, f) == [NoIdentity EXCEPT !.key = id.key, !.device = f]

\* save_device_identity does not touch the recovery code.
Marked(id, f) == [id EXCEPT !.device = f]

MarkRegistered(c) ==
  /\ At(c, "mark")
  /\ identity' = IF identity = NoIdentity THEN identity
                 ELSE Marked(identity, command[c].holds.family)
  /\ End(c)
  /\ UNCHANGED <<server, session>>

\* logout: revoke at the server if there is a session, then clear in any case.
BeginLogout(c) ==
  /\ At(c, "start") /\ command[c].kind = "logout"
  /\ command' = [command EXCEPT ![c].pc = IF session = NoSession THEN "clear" ELSE "revoke",
                                ![c].holds = session]
  /\ UNCHANGED <<server, session, identity>>

ServeLogout(c) ==
  /\ At(c, "revoke")
  /\ BeginSweep(row[command[c].holds.token].family)
  /\ command' = [command EXCEPT ![c].pc = "clear", ![c].holds = NoSession]
  /\ UNCHANGED <<session, identity>>

\* The answer is there, or will never be.
ClearSession(c) ==
  /\ At(c, "revoke") \/ At(c, "clear")
  /\ session' = NoSession
  /\ End(c)
  /\ UNCHANGED <<server, identity>>

\* The access token comes within REFRESH_SKEW_MS of its expiry.
AccessNearsExpiry ==
  /\ session # NoSession /\ ~session.near
  /\ session' = [session EXCEPT !.near = TRUE]
  /\ UNCHANGED <<server, identity, command>>

ClientCrash ==
  /\ command' = [c \in Requests |-> NoCommand]
  /\ UNCHANGED <<server, session, identity>>

\* What the server does on its own.
ServerStep ==
  /\ \/ \E f \in Families : SweepRow(f) \/ EndSweep(f)
     \/ \E t \in Ids : GraceEnds(t)
  /\ UNCHANGED <<session, identity, command>>

CommandStep(c) ==
  \/ \E kind \in {"bearer", "login", "ensure", "logout"} : Begin(c, kind)
  \/ EnsureIdentity(c) \/ CheckCurrent(c) \/ (\E f \in Families : Issue(c, f)) \/ FailIssue(c) \/ Persist(c)
  \/ SaveRecoveryCode(c) \/ ReadBearer(c) \/ ServeRotate(c) \/ CommitAndAnswer(c)
  \/ FailRotate(c) \/ RefuseRotate(c) \/ SaveTokens(c) \/ RegisterDevice(c)
  \/ MarkRegistered(c) \/ BeginLogout(c) \/ ServeLogout(c) \/ ClearSession(c)

SessionNext ==
  (\E c \in Requests : CommandStep(c)) \/ AccessNearsExpiry \/ ClientCrash \/ ServerStep

SessionSpec == SessionInit /\ [][SessionNext]_sessionVars

-------------------------------------------------------------------------------
(* Properties *)

\* Whatever the install and the server do to each other's answers, no family gets two
\* tokens that can be rotated, in states that keep their shape.
ChainsAreSound == TypeOK /\ SessionTypeOK /\ OneTip

\* Whatever refreshes, logins and logouts overlap, the tokens and the email of the
\* stored session are those of one account: the client never shows one account and
\* acts as another.
OneAccountInSession == session.emailOf = IF session = NoSession THEN None
                                         ELSE EmailOf(session.family)

\* A lost or overtaken answer does not sign the client out: as long as the grace of the
\* token it keeps has not ended and nobody revoked the family, the server accepts it.
KeptTokenIsAccepted ==
  LET t == session.token IN
    session = NoSession \/ session.family \in loggedOut \/ sweep[session.family] # 0
    \/ row[t].used = "old" \/ t \in Tips(session.family) \/ Retry(t)

\* The install keeps its key, and its only step-up factor, for good: neither a
\* registration that ends late nor a second device_ensure loses them.
IdentityIsKept ==
  [][ /\ identity # NoIdentity => identity'.key = identity.key
      /\ identity.code # None => identity'.code # None ]_sessionVars

\* ensure_device_session: "repeated calls (e.g. every `device_ensure` invocation) never
\* mint a second account for the same install".
NeverASecondAccount ==
  [][ \A c \in Requests :
        At(c, "issued") /\ command[c].kind = "ensure" /\ session' = command[c].holds
          => session = NoSession ]_sessionVars
===============================================================================
