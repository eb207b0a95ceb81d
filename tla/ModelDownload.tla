---------------------------- MODULE ModelDownload ----------------------------
(***************************************************************************)
(* The model download manager (downloader.rs): start and cancel commands,  *)
(* the spawned driver that resumes a part file by HTTP range or by the     *)
(* parts of a delta manifest, verifies it and renames it to its final      *)
(* path.  The two files survive a crash of the client, the status and the  *)
(* driver do not.  The server may publish other content under the same     *)
(* address at any time, ignore a range, send less or more for a part than  *)
(* the manifest says, fail, deliver damaged bytes, or never answer.        *)
(*                                                                         *)
(* A file is a sequence of blocks; a block remembers of which content, and *)
(* as which block of it, the server sent it, and whether it arrived intact.*)
(***************************************************************************)
EXTENDS Subsequences

CONSTANTS
  Models,     \* a model id and version each: the key of both file names
  Contents,   \* the byte strings a server may publish
  SizeOf,     \* length of each content, in blocks
  Trusted,    \* contents whose digest carries a signature of a trusted key
  Requests,   \* arguments of model_download_start
  Drivers,    \* names for spawned driver tasks
  None

ASSUME SizeAssumption == SizeOf \in [Contents -> Nat \ {0}]
ASSUME RequestAssumption ==
  \A r \in Requests :
    /\ r.model \in Models /\ r.want \in Contents /\ r.total \in Nat \cup {None}
    /\ r.parts \in Seq([offset : Nat, size : Nat])
ASSUME NoneAssumption == None \notin Drivers /\ None \notin Requests

VARIABLES
  part,       \* the .part file of each model
  dest,       \* the final file of each model, empty while there is none
  served,     \* what the server publishes for each model at the moment
  phase,      \* status.phase
  cancel,     \* the cancel flag each driver was given
  current,    \* the driver whose flag the manager holds
  driver,     \* the run_download tasks
  astray      \* models whose part file has a body in it that is not the part its
              \* manifest describes; only the properties read it

vars == <<part, dest, served, phase, cancel, current, driver, astray>>

Block == [of : Contents, at : Nat \ {0}, intact : BOOLEAN]
Segment == [from : Nat, to : Nat]
Phases == {"idle", "downloading", "verifying", "complete", "failed", "cancelled"}

\* todo: the byte ranges still to fetch; from, next, to: the answer being streamed.
DriverType ==
  [pc : {"idle", "begin", "fetch", "sent", "check", "await", "verify", "promote",
          "done"},
   req : Requests \cup {None}, todo : Seq(Segment), of : Contents \cup {None},
   next : Nat, to : Nat, result : Phases]

Resting == [pc |-> "idle", req |-> None, todo |-> <<>>, of |-> None,
            next |-> 0, to |-> 0, result |-> "idle"]

\* Nothing longer than what a server publishes is ever on disk.
DownloadTypeOK ==
  /\ part \in [Models -> Seq(Block)] /\ dest \in [Models -> Seq(Block)]
  /\ \A m \in Models : \A i \in DOMAIN part[m] : part[m][i].at <= SizeOf[part[m][i].of]
  /\ served \in [Models -> Contents]
  /\ phase \in Phases
  /\ cancel \in [Drivers -> BOOLEAN] /\ current \in Drivers \cup {None}
  /\ driver \in [Drivers -> DriverType]
  /\ astray \subseteq Models

Init ==
  /\ part = [m \in Models |-> <<>>] /\ dest = [m \in Models |-> <<>>]
  /\ served \in [Models -> Contents]
  /\ phase = "idle"
  /\ cancel = [d \in Drivers |-> FALSE] /\ current = None
  /\ driver = [d \in Drivers |-> Resting]
  /\ astray = {}

\* The file a server that publishes c stands for.
Whole(c) == [i \in 1..SizeOf[c] |-> [of |-> c, at |-> i, intact |-> TRUE]]

EndOf(p) == p.offset + p.size

\* total_bytes, or the sum of the parts, which is where the last one ends.
TotalOf(r) ==
  IF r.total = None /\ r.parts # <<>> THEN EndOf(r.parts[Len(r.parts)]) ELSE r.total

\* The parts are contiguous from zero and cover the total.
ValidParts(parts, total) ==
  /\ \A i \in DOMAIN parts : parts[i].offset = IF i = 1 THEN 0 ELSE EndOf(parts[i - 1])
  /\ EndOf(parts[Len(parts)]) = total

(* A definition whose name begins with Mutant is the next one with a plausible
   bug.  No specification uses it: it shows which property the bug breaks.     *)

\* A half-written part is kept and fetched again behind itself.
MutantPartResumeBoundary(parts, have) == have

\* The last part boundary a file of this length has reached.
PartResumeBoundary(parts, have) ==
  LET reached == {i \in DOMAIN parts : \A j \in 1..i : EndOf(parts[j]) <= have}
  IN  IF reached = {} THEN 0 ELSE EndOf(parts[CHOOSE i \in reached : \A j \in reached : j <= i])

PartsToFetch(parts, have) ==
  Retained(parts, {i \in 1..Len(parts) : EndOf(parts[i]) > have})

ResumeDecision(local, total) ==
  CASE local = 0 \/ total = 0                        -> "fresh"
    [] local > 0 /\ total = None                     -> "resume"
    [] local > 0 /\ total # None /\ local = total    -> "complete"
    [] local > 0 /\ total # None /\ local < total    -> "resume"
    [] OTHER                                         -> "restart"

\* Only the digest is compared.
MutantVerified(file, r) == file = Whole(r.want)

\* The bytes hash to args.sha256, and a trusted key has signed that digest.
Verified(file, r) == file = Whole(r.want) /\ r.want \in Trusted

Active == {"downloading", "verifying"}
Running == {d \in Drivers : driver[d].pc # "idle"}
DriverIs(d, pc) == driver[d].pc = pc

Goto(d, pc) == driver' = [driver EXCEPT ![d].pc = pc]
Done(d, result) == driver' = [driver EXCEPT ![d].pc = "done", ![d].result = result]

\* The name a spawned driver gets; which one makes no difference.
FreeName == CHOOSE d \in Drivers : d \notin Running

\* Verifying a download does not count as one in flight.
MutantMayStart == phase # "downloading"

MayStart == phase \notin Active

\* start: a bad manifest is refused at once; while a download is in flight its
\* status is returned and nothing happens.
Start(r) ==
  /\ r.parts # <<>> => ValidParts(r.parts, TotalOf(r))
  /\ MayStart
  /\ \E d \in Drivers \ Running :
       /\ d = FreeName
       /\ driver' = [driver EXCEPT ![d] = [Resting EXCEPT !.pc = "begin", !.req = r]]
       /\ cancel' = [cancel EXCEPT ![d] = FALSE]
       /\ current' = d
  /\ phase' = "downloading"
  /\ UNCHANGED <<part, dest, served, astray>>

Cancel ==
  /\ current # None /\ ~cancel[current]
  /\ cancel' = [cancel EXCEPT ![current] = TRUE]
  /\ UNCHANGED <<part, dest, served, phase, current, driver, astray>>

\* run_download trusts a final file that is there.
FindDest(d) ==
  /\ DriverIs(d, "begin") /\ dest[driver[d].req.model] # <<>>
  /\ Done(d, "complete")
  /\ UNCHANGED <<part, dest, served, phase, cancel, current, astray>>

\* download_delta: cut back to a part boundary, then fetch the parts that are missing.
BeginDelta(d) ==
  LET r == driver[d].req
      boundary == PartResumeBoundary(r.parts, Len(part[r.model]))
      missing == PartsToFetch(r.parts, boundary)
  IN  /\ DriverIs(d, "begin") /\ dest[r.model] = <<>> /\ r.parts # <<>>
      /\ part' = [part EXCEPT ![r.model] = SubSeq(@, 1, boundary)]
      /\ driver' = [driver EXCEPT ![d].pc = "fetch", ![d].todo =
           [i \in DOMAIN missing |-> [from |-> missing[i].offset, to |-> EndOf(missing[i])]]]
      /\ astray' = IF boundary = 0 THEN astray \ {r.model} ELSE astray
      /\ UNCHANGED <<dest, served, phase, cancel, current>>

\* download_blob: decide from the length of the part file alone.
BeginBlob(d) ==
  LET r == driver[d].req
      decision == ResumeDecision(Len(part[r.model]), r.total)
  IN  /\ DriverIs(d, "begin") /\ dest[r.model] = <<>> /\ r.parts = <<>>
      /\ part' = [part EXCEPT ![r.model] = IF decision = "restart" THEN <<>> ELSE @]
      /\ driver' = [driver EXCEPT ![d].pc = "fetch", ![d].todo =
           CASE decision = "complete" -> <<>>
             [] decision = "resume"   -> <<[from |-> Len(part[r.model]), to |-> 0]>>
             [] OTHER                 -> <<[from |-> 0, to |-> 0]>>]
      /\ UNCHANGED <<dest, served, phase, cancel, current, astray>>

Stream(d, from, to) ==
  driver' = [driver EXCEPT ![d].pc = "check", ![d].of = served[driver[d].req.model],
                           ![d].next = from + 1, ![d].to = to]

\* The request goes out; a delta reads the flag before each part.
Send(d) ==
  /\ DriverIs(d, "fetch") /\ driver[d].todo # <<>>
  /\ driver[d].req.parts # <<>> => ~cancel[d]
  /\ Goto(d, "sent")
  /\ UNCHANGED <<part, dest, served, phase, cancel, current, astray>>

\* The server answers with what it publishes now: a body for a part of a delta, which
\* goes behind the part file, the rest of the blob (206), or the whole blob (200), with
\* which the part file begins anew.  The body of a part need not be the part that was
\* asked for: neither its length nor its digest is compared with the manifest.
Answer(d) ==
  LET r == driver[d].req
      size == SizeOf[served[r.model]]
      seg == Head(driver[d].todo)
  IN  /\ DriverIs(d, "sent")
      /\ \/ /\ r.parts # <<>>
            /\ \E from \in 0..size : \E to \in from..size :
                 /\ Stream(d, from, to)
                 /\ astray' = IF from = seg.from /\ to = seg.to
                              THEN astray ELSE astray \cup {r.model}
            /\ UNCHANGED part
         \/ /\ r.parts = <<>> /\ 0 < seg.from /\ seg.from < size
            /\ Stream(d, seg.from, size)
            /\ UNCHANGED <<part, astray>>
         \/ /\ r.parts = <<>>
            /\ Stream(d, 0, size)
            /\ part' = [part EXCEPT ![r.model] = <<>>]
            /\ astray' = astray \ {r.model}
      /\ UNCHANGED <<dest, served, phase, cancel, current>>

\* The flag is read before each part and before each chunk.
ObserveCancel(d) ==
  /\ cancel[d]
  /\ \/ DriverIs(d, "check")
     \/ DriverIs(d, "fetch") /\ driver[d].todo # <<>> /\ driver[d].req.parts # <<>>
  /\ Done(d, "cancelled")
  /\ UNCHANGED <<part, dest, served, phase, cancel, current, astray>>

AwaitChunk(d) ==
  /\ DriverIs(d, "check") /\ ~cancel[d]
  /\ Goto(d, "await")
  /\ UNCHANGED <<part, dest, served, phase, cancel, current, astray>>

MoreToCome(d) == driver[d].next <= driver[d].to

\* A chunk is appended whatever happened to the flag while it was awaited.
AppendChunk(d) ==
  LET m == driver[d].req.model IN
    /\ DriverIs(d, "await") /\ MoreToCome(d)
    /\ \E intact \in BOOLEAN :
         part' = [part EXCEPT ![m] =
           Append(@, [of |-> driver[d].of, at |-> driver[d].next, intact |-> intact])]
    /\ driver' = [driver EXCEPT ![d].pc = "check", ![d].next = @ + 1]
    /\ UNCHANGED <<dest, served, phase, cancel, current, astray>>

EndOfAnswer(d) ==
  /\ DriverIs(d, "await") /\ ~MoreToCome(d)
  /\ driver' = [driver EXCEPT ![d].pc = "fetch", ![d].todo = Tail(@)]
  /\ UNCHANGED <<part, dest, served, phase, cancel, current, astray>>

BeginVerify(d) ==
  /\ DriverIs(d, "fetch") /\ driver[d].todo = <<>>
  /\ phase' = "verifying"
  /\ Goto(d, "verify")
  /\ UNCHANGED <<part, dest, served, cancel, current, astray>>

\* A part file that fails stays where it is.
Verify(d) ==
  /\ DriverIs(d, "verify")
  /\ IF Verified(part[driver[d].req.model], driver[d].req)
       THEN Goto(d, "promote") ELSE Done(d, "failed")
  /\ UNCHANGED <<part, dest, served, phase, cancel, current, astray>>

Promote(d) ==
  LET m == driver[d].req.model IN
    /\ DriverIs(d, "promote")
    /\ dest' = [dest EXCEPT ![m] = part[m]]
    /\ part' = [part EXCEPT ![m] = <<>>]
    /\ Done(d, "complete")
    /\ UNCHANGED <<served, phase, cancel, current, astray>>

\* A network or status error, a disallowed address, an I/O error.
Fail(d) ==
  /\ driver[d].pc \in {"begin", "fetch", "sent", "await", "verify", "promote"}
  /\ Done(d, "failed")
  /\ UNCHANGED <<part, dest, served, phase, cancel, current, astray>>

\* A cancelled download keeps the phase it had.
MutantOutcome(d) == IF driver[d].result = "cancelled" THEN phase ELSE driver[d].result

Outcome(d) == driver[d].result

Finish(d) ==
  /\ DriverIs(d, "done")
  /\ phase' = Outcome(d)
  /\ driver' = [driver EXCEPT ![d] = Resting]
  /\ UNCHANGED <<part, dest, served, cancel, current, astray>>

\* The client dies; what is on disk stays.
Crash ==
  /\ phase' = "idle" /\ current' = None
  /\ cancel' = [d \in Drivers |-> FALSE]
  /\ driver' = [d \in Drivers |-> Resting]
  /\ UNCHANGED <<part, dest, served, astray>>

\* The server publishes other bytes under the same model id and version.
Republish(m, c) ==
  /\ served' = [served EXCEPT ![m] = c]
  /\ UNCHANGED <<part, dest, phase, cancel, current, driver, astray>>

\* What the driver does by itself, and what the server does to it; any step may fail.
Local(d) ==
  \/ FindDest(d) \/ BeginDelta(d) \/ BeginBlob(d) \/ Send(d) \/ ObserveCancel(d)
  \/ AwaitChunk(d) \/ BeginVerify(d) \/ Verify(d) \/ Promote(d) \/ Finish(d)
Remote(d) == Answer(d) \/ AppendChunk(d) \/ EndOfAnswer(d)
Step(d) == Local(d) \/ Remote(d) \/ Fail(d)

Next ==
  \/ \E r \in Requests : Start(r)
  \/ Cancel
  \/ \E d \in Drivers : Step(d)
  \/ Crash
  \/ \E m \in Models, c \in Contents : Republish(m, c)

\* The runtime polls the task.  Nothing makes the server answer: the HTTP client is
\* built without a timeout, so an awaited answer or chunk may never come or fail.
Fairness == \A d \in Drivers : WF_vars(Local(d))

Spec == Init /\ [][Next]_vars
FairSpec == Spec /\ Fairness

-------------------------------------------------------------------------------
(* Properties *)

\* Whatever was interrupted, resumed by range or by part, cut back or republished
\* before, the block at position i of a part file is one the server sent as block i,
\* as long as every part that was fetched is the one the manifest describes: a resumed
\* download neither repeats nor skips bytes of its own accord.  (The body of one part
\* that is shorter or longer displaces all that comes behind it, and that is found only
\* when the whole file is verified.)
BlocksInPlace == \A m \in Models \ astray : \A i \in DOMAIN part[m] : part[m][i].at = i

\* The status is Downloading or Verifying exactly while one driver runs, so two
\* drivers never append to one part file, and a status that no driver will ever end
\* cannot lock the command out.
OneDriver == Cardinality(Running) = IF phase \in Active THEN 1 ELSE 0

\* "A corrupt, truncated, or swapped model can never be loaded": the final files
\* implement ModelStore, crashes and damaged, replaced or unsigned bytes included.
Store == INSTANCE ModelStore WITH
  stored <- dest, Published <- {Whole(c) : c \in Trusted}, Missing <- <<>>
ImplementsModelStore == Store!Spec

\* A driver at the mercy of the server.
Awaiting(d) == driver[d].pc \in {"sent", "await"}

\* As long as every answer and every chunk that is awaited comes or fails sometime, a
\* download that was started ends, so that another one can be started.  (If one never
\* does, the status stays Downloading until the client is restarted: the cancel flag
\* is read only between chunks.)
DriverFinishes ==
  (\A d \in Drivers : []<>~Awaiting(d)) => (phase \in Active ~> phase \notin Active)
===============================================================================
