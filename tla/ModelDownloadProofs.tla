-------------------------- MODULE ModelDownloadProofs --------------------------
(***************************************************************************)
(* At most one driver runs, exactly while the status says so; every block  *)
(* of a part file is in its place unless a fetched part was not the one    *)
(* its manifest describes; and whatever crashes, cancels and               *)
(* republications happen, a file under a final name is signed and stays:   *)
(* for any models, contents and requests.                                  *)
(***************************************************************************)
EXTENDS ModelDownload, FiniteSetTheorems, SequenceTheorems,
        WellFoundedInduction, TLAPS

\* A record with the fields of DriverType, whatever they hold.
IsDriver(r) ==
  r = [pc |-> r.pc, req |-> r.req, todo |-> r.todo, of |-> r.of, next |-> r.next,
       to |-> r.to, result |-> r.result]

Shape ==
  /\ driver = [d \in Drivers |-> driver[d]] /\ \A d \in Drivers : IsDriver(driver[d])
  /\ part = [m \in Models |-> part[m]]
  /\ dest = [m \in Models |-> dest[m]]

Working == {"fetch", "sent", "check", "await", "verify", "promote"}
Ends == {"complete", "failed", "cancelled"}

\* A driver past FindDest works on a model without a final file, and what it is about
\* to rename has been verified.
SoundDriver(r) ==
  /\ r.pc # "idle" => r.req \in Requests
  /\ r.pc \in Working => dest[r.req.model] = <<>>
  /\ r.pc = "promote" => Verified(part[r.req.model], r.req)
  /\ r.pc = "done" => r.result \in Ends

Alone(d) == \A e \in Drivers \ {d} : driver[e].pc = "idle"
OnlyOne ==
  \/ phase \notin Active /\ \A d \in Drivers : driver[d].pc = "idle"
  \/ phase \in Active /\ \E d \in Drivers : driver[d].pc # "idle" /\ Alone(d)

ModelInv == Shape /\ (\A d \in Drivers : SoundDriver(driver[d])) /\ OnlyOne

-------------------------------------------------------------------------------
(* What a driver fetches, and where it puts it.                               *)

\* A part file no block of which is behind the end of its content.
Bounded(p) == p \in Seq(Block) /\ \A i \in DOMAIN p : p[i].at <= SizeOf[p[i].of]

\* A part file whose blocks are those the server sent, each in its place.
InPlace(p) == Bounded(p) /\ \A i \in DOMAIN p : p[i].at = i

\* The ranges of todo join up, the first one at the offset `at`.
Joined(todo, at) ==
  /\ todo \in Seq(Segment)
  /\ \A i \in DOMAIN todo :
       todo[i].from <= todo[i].to /\ todo[i].from = IF i = 1 THEN at ELSE todo[i - 1].to

\* What is known of a driver r whatever bodies it was sent.
Going(r) ==
  /\ r.pc # "idle" => /\ r.req \in Requests
                      /\ r.req.parts # <<>> => ValidParts(r.req.parts, TotalOf(r.req))
  /\ r.pc \in {"fetch", "sent"} /\ r.req.parts = <<>> => r.todo = <<>> \/ Len(r.todo) = 1
  /\ r.pc \in {"sent", "check", "await"} => r.todo # <<>>
  /\ r.pc \in {"check", "await"} =>
       /\ r.of \in Contents /\ 0 < r.next /\ r.to <= SizeOf[r.of]
       /\ r.req.parts = <<>> => Tail(r.todo) = <<>>

\* What the driver r has still to fetch begins where its part file p ends, or p is to
\* be fetched anew.
Lined(r, p) ==
  /\ r.pc \in {"fetch", "sent"} =>
       IF r.req.parts # <<>> THEN Joined(r.todo, Len(p))
       ELSE r.todo = <<>> \/ (Len(r.todo) = 1 /\ r.todo[1].from \in {0, Len(p)})
  /\ r.pc \in {"check", "await"} =>
       /\ r.next = Len(p) + 1 /\ r.next <= r.to + 1
       /\ r.req.parts # <<>> => Joined(Tail(r.todo), r.to)

PlaceInv ==
  /\ DownloadTypeOK
  /\ \A m \in Models : Bounded(part[m])
  /\ \A m \in Models \ astray : InPlace(part[m])
  /\ \A d \in Drivers : driver[d].pc # "idle" =>
       /\ Going(driver[d])
       /\ driver[d].req.model \notin astray => Lined(driver[d], part[driver[d].req.model])

-------------------------------------------------------------------------------
(* Records of drivers.                                                       *)

LEMMA FieldSet ==
  ASSUME NEW r, IsDriver(r), NEW x
  PROVE  /\ IsDriver([r EXCEPT !.pc = x]) /\ IsDriver([r EXCEPT !.todo = x])
         /\ IsDriver([r EXCEPT !.of = x]) /\ IsDriver([r EXCEPT !.next = x])
         /\ IsDriver([r EXCEPT !.to = x]) /\ IsDriver([r EXCEPT !.result = x])
         /\ IsDriver([r EXCEPT !.req = x])
  BY DEF IsDriver

LEMMA DoneRecord ==
  ASSUME NEW r, IsDriver(r), NEW result
  PROVE  LET s == [r EXCEPT !.pc = "done", !.result = result] IN
         IsDriver(s) /\ s.req = r.req /\ s.pc = "done" /\ s.result = result
<1>1. IsDriver([r EXCEPT !.pc = "done"])
  BY FieldSet
<1>2. IsDriver([r EXCEPT !.pc = "done", !.result = result])
  BY <1>1, FieldSet
<1> QED  BY <1>2 DEF IsDriver

LEMMA GotoRecord ==
  ASSUME NEW r, IsDriver(r), NEW pc
  PROVE  LET s == [r EXCEPT !.pc = pc] IN IsDriver(s) /\ s.req = r.req /\ s.pc = pc
<1>1. IsDriver([r EXCEPT !.pc = pc])
  BY FieldSet
<1> QED  BY <1>1 DEF IsDriver

LEMMA BeginRecord ==
  ASSUME NEW r, IsDriver(r), NEW req
  PROVE  LET s == [r EXCEPT !.pc = "begin", !.req = req] IN
         IsDriver(s) /\ s.req = req /\ s.pc = "begin"
<1>1. IsDriver([r EXCEPT !.pc = "begin"])
  BY FieldSet
<1>2. IsDriver([r EXCEPT !.pc = "begin", !.req = req])
  BY <1>1, FieldSet
<1> QED  BY <1>2 DEF IsDriver

LEMMA FetchRecord ==
  ASSUME NEW r, IsDriver(r), NEW todo
  PROVE  LET s == [r EXCEPT !.pc = "fetch", !.todo = todo] IN
         IsDriver(s) /\ s.req = r.req /\ s.pc = "fetch"
<1>1. IsDriver([r EXCEPT !.pc = "fetch"])
  BY FieldSet
<1>2. IsDriver([r EXCEPT !.pc = "fetch", !.todo = todo])
  BY <1>1, FieldSet
<1> QED  BY <1>2 DEF IsDriver

LEMMA StreamUpdate ==
  ASSUME Shape, NEW d \in Drivers, NEW of, NEW next, NEW to
  PROVE  [driver EXCEPT ![d].pc = "check", ![d].of = of, ![d].next = next, ![d].to = to]
           = [driver EXCEPT ![d] = [driver[d] EXCEPT !.pc = "check", !.of = of, !.next = next,
                                                     !.to = to]]
<1> DEFINE two(f) == [f EXCEPT ![d].pc = "check", ![d].of = of]
           pair == [driver[d] EXCEPT !.pc = "check", !.of = of]
<1>1. two(driver) = [driver EXCEPT ![d] = pair]
  BY DEF Shape
<1>2. QED  BY <1>1 DEF Shape

LEMMA NextRecord ==
  ASSUME NEW r, IsDriver(r), NEW next
  PROVE  LET s == [r EXCEPT !.pc = "check", !.next = next] IN
         IsDriver(s) /\ s.req = r.req /\ s.pc = "check"
<1>1. IsDriver([r EXCEPT !.pc = "check"])
  BY FieldSet
<1>2. IsDriver([r EXCEPT !.pc = "check", !.next = next])
  BY <1>1, FieldSet
<1> QED  BY <1>2 DEF IsDriver

-------------------------------------------------------------------------------
(* The steps.                                                                *)

\* While a driver runs the others rest.
LEMMA OthersRest ==
  ASSUME ModelInv, NEW d \in Drivers, driver[d].pc # "idle"
  PROVE  phase \in Active /\ Alone(d) /\ SoundDriver(driver[d]) /\ IsDriver(driver[d])
  BY DEF ModelInv, OnlyOne, Alone, Shape

\* A step of a running driver that neither starts nor ends it.
LEMMA StepKeeps ==
  ASSUME ModelInv, NEW d \in Drivers, driver[d].pc # "idle",
         NEW r, driver' = [driver EXCEPT ![d] = r], IsDriver(r), r.req = driver[d].req,
         r.pc # "idle", phase' \in Active,
         part' = [m \in Models |-> part'[m]], dest' = [m \in Models |-> dest'[m]],
         r.pc \in Working => dest'[r.req.model] = <<>>,
         r.pc = "promote" => Verified(part'[r.req.model], r.req),
         r.pc = "done" => r.result \in Ends
  PROVE  ModelInv'
<1>1. Alone(d) /\ SoundDriver(driver[d]) /\ Shape
  BY OthersRest DEF ModelInv
<1>2. driver'[d] = r /\ \A e \in Drivers \ {d} : driver'[e] = driver[e]
  BY <1>1 DEF Shape
<1>3. Shape'
  <2>1. driver' = [e \in Drivers |-> driver'[e]]
    BY <1>1 DEF Shape
  <2>2. \A e \in Drivers : IsDriver(driver'[e])
    BY <1>1, <1>2 DEF Shape
  <2> QED  BY <2>1, <2>2 DEF Shape
<1>4. Alone(d)'
  BY <1>1, <1>2 DEF Alone
<1>5. OnlyOne'
  BY <1>2, <1>4 DEF OnlyOne
<1>6. ASSUME NEW e \in Drivers PROVE SoundDriver(driver[e])'
  <2>1. CASE e = d
    BY <1>1, <1>2, <2>1 DEF SoundDriver
  <2>2. CASE e # d
    BY <1>4, <2>2 DEF SoundDriver, Alone, Working
  <2> QED  BY <2>1, <2>2
<1> QED  BY <1>3, <1>5, <1>6 DEF ModelInv

LEMMA DoneKeeps ==
  ASSUME ModelInv, NEW d \in Drivers, driver[d].pc # "idle", NEW result \in Ends,
         Done(d, result), UNCHANGED phase,
         part' = [m \in Models |-> part'[m]], dest' = [m \in Models |-> dest'[m]]
  PROVE  ModelInv'
<1> DEFINE r == [driver[d] EXCEPT !.pc = "done", !.result = result]
<1>1. IsDriver(driver[d]) /\ phase \in Active /\ Shape
  BY OthersRest DEF ModelInv
<1>2. IsDriver(r) /\ r.req = driver[d].req /\ r.pc = "done" /\ r.result = result
  BY <1>1, DoneRecord
<1>3. driver' = [driver EXCEPT ![d] = r]
  BY <1>1 DEF Done, Shape
<1> HIDE DEF r
<1> QED  BY <1>1, <1>2, <1>3, StepKeeps DEF Working

LEMMA GotoKeeps ==
  ASSUME ModelInv, NEW d \in Drivers, driver[d].pc \in Working, NEW pc \in Working,
         Goto(d, pc), phase' \in Active, UNCHANGED <<part, dest>>,
         pc = "promote" => Verified(part[driver[d].req.model], driver[d].req)
  PROVE  ModelInv'
<1> DEFINE r == [driver[d] EXCEPT !.pc = pc]
<1>1. IsDriver(driver[d]) /\ SoundDriver(driver[d]) /\ Shape /\ driver[d].pc # "idle"
  BY OthersRest DEF ModelInv, Working
<1>2. IsDriver(r) /\ r.req = driver[d].req /\ r.pc = pc
  BY <1>1, GotoRecord
<1>3. driver' = [driver EXCEPT ![d] = r]
  BY <1>1 DEF Goto, Shape
<1>4. dest[driver[d].req.model] = <<>>
  BY <1>1 DEF SoundDriver
<1>5. part' = [m \in Models |-> part'[m]] /\ dest' = [m \in Models |-> dest'[m]]
  BY <1>1 DEF Shape
<1> HIDE DEF r
<1> QED  BY <1>1, <1>2, <1>3, <1>4, <1>5, StepKeeps DEF Working

\* A driver that goes on fetching: the part file may change, the final file does not.
LEMMA FetchKeeps ==
  ASSUME ModelInv, NEW d \in Drivers, driver[d].pc \in Working \cup {"begin"},
         driver[d].pc = "begin" => dest[driver[d].req.model] = <<>>,
         NEW r, driver' = [driver EXCEPT ![d] = r], IsDriver(r), r.req = driver[d].req,
         r.pc \in {"fetch", "check"}, UNCHANGED <<phase, dest>>,
         part' = [m \in Models |-> part'[m]]
  PROVE  ModelInv'
<1>1. SoundDriver(driver[d]) /\ Shape /\ driver[d].pc # "idle" /\ phase' \in Active
  BY OthersRest DEF ModelInv, Working
<1>2. dest[driver[d].req.model] = <<>>
  BY <1>1 DEF SoundDriver
<1>3. dest' = [m \in Models |-> dest'[m]]
  BY <1>1 DEF Shape
<1> QED  BY <1>1, <1>2, <1>3, StepKeeps

LEMMA RecordOf ==
  ASSUME ModelInv, NEW d \in Drivers
  PROVE  Shape /\ IsDriver(driver[d])
  BY DEF ModelInv, Shape

LEMMA DeltaKeeps == ASSUME ModelInv, NEW d \in Drivers, BeginDelta(d) PROVE ModelInv'
<1> DEFINE missing == PartsToFetch(driver[d].req.parts,
                        PartResumeBoundary(driver[d].req.parts, Len(part[driver[d].req.model])))
           todo == [i \in DOMAIN missing |-> [from |-> missing[i].offset, to |-> EndOf(missing[i])]]
           r == [driver[d] EXCEPT !.pc = "fetch", !.todo = todo]
<1>1. driver' = [driver EXCEPT ![d].pc = "fetch", ![d].todo = todo]
  BY DEF BeginDelta
<1>2. driver[d].pc = "begin" /\ dest[driver[d].req.model] = <<>> /\ UNCHANGED <<phase, dest>>
  BY DEF BeginDelta, DriverIs
<1>3. part' = [m \in Models |-> part'[m]]
  BY RecordOf DEF BeginDelta, Shape
<1> HIDE DEF todo
<1>4. IsDriver(r) /\ r.req = driver[d].req /\ r.pc = "fetch"
  BY RecordOf, FetchRecord
<1>5. driver' = [driver EXCEPT ![d] = r]
  BY <1>1, RecordOf DEF Shape
<1> HIDE DEF r
<1> QED  BY <1>2, <1>3, <1>4, <1>5, FetchKeeps

LEMMA BlobKeeps == ASSUME ModelInv, NEW d \in Drivers, BeginBlob(d) PROVE ModelInv'
<1> DEFINE have == Len(part[driver[d].req.model])
           decision == ResumeDecision(have, driver[d].req.total)
           todo == CASE decision = "complete" -> <<>>
                     [] decision = "resume"   -> <<[from |-> have, to |-> 0]>>
                     [] OTHER                 -> <<[from |-> 0, to |-> 0]>>
           r == [driver[d] EXCEPT !.pc = "fetch", !.todo = todo]
<1>1. driver' = [driver EXCEPT ![d].pc = "fetch", ![d].todo = todo]
  BY DEF BeginBlob
<1>2. driver[d].pc = "begin" /\ dest[driver[d].req.model] = <<>> /\ UNCHANGED <<phase, dest>>
  BY DEF BeginBlob, DriverIs
<1>3. part' = [m \in Models |-> part'[m]]
  BY RecordOf DEF BeginBlob, Shape
<1> HIDE DEF todo
<1>4. IsDriver(r) /\ r.req = driver[d].req /\ r.pc = "fetch"
  BY RecordOf, FetchRecord
<1>5. driver' = [driver EXCEPT ![d] = r]
  BY <1>1, RecordOf DEF Shape
<1> HIDE DEF r
<1> QED  BY <1>2, <1>3, <1>4, <1>5, FetchKeeps

LEMMA AnswerKeeps == ASSUME ModelInv, NEW d \in Drivers, Answer(d) PROVE ModelInv'
<1>1. driver[d].pc = "sent" /\ UNCHANGED <<phase, dest>>
  BY DEF Answer, DriverIs
<1>2. PICK from, to : Stream(d, from, to)
  BY DEF Answer
<1>3. part' = [m \in Models |-> part'[m]]
  BY RecordOf DEF Answer, Shape
<1> DEFINE of == served[driver[d].req.model]
           next == from + 1
           r == [driver[d] EXCEPT !.pc = "check", !.of = of, !.next = next, !.to = to]
<1>4. IsDriver(r) /\ r.req = driver[d].req /\ r.pc = "check"
  <2> HIDE DEF of, next
  <2>1. IsDriver(driver[d])
    BY RecordOf
  <2> DEFINE q == driver[d]
  <2>2. IsDriver(q)
    BY <2>1
  <2> HIDE DEF q
  <2>3. IsDriver([q EXCEPT !.pc = "check"])
    BY <2>2, FieldSet
  <2>4. IsDriver([q EXCEPT !.pc = "check", !.of = of])
    BY <2>3, FieldSet
  <2>5. IsDriver([q EXCEPT !.pc = "check", !.of = of, !.next = next])
    BY <2>4, FieldSet
  <2>6. IsDriver([q EXCEPT !.pc = "check", !.of = of, !.next = next, !.to = to])
    BY <2>5, FieldSet
  <2>7. LET s == [q EXCEPT !.pc = "check", !.of = of, !.next = next, !.to = to] IN
        IsDriver(s) /\ s.req = q.req /\ s.pc = "check"
    BY <2>6 DEF IsDriver
  <2> QED  BY <2>7 DEF q
<1>5. driver' = [driver EXCEPT ![d] = r]
  <2>1. driver' = [driver EXCEPT ![d].pc = "check", ![d].of = of, ![d].next = next, ![d].to = to]
    BY <1>2 DEF Stream
  <2>2. Shape
    BY RecordOf
  <2> HIDE DEF of, next
  <2>3. [driver EXCEPT ![d].pc = "check", ![d].of = of, ![d].next = next, ![d].to = to]
          = [driver EXCEPT ![d] = r]
    BY <2>2, StreamUpdate
  <2> QED  BY <2>1, <2>3
<1> HIDE DEF r
<1> QED  BY <1>1, <1>3, <1>4, <1>5, FetchKeeps DEF Working

LEMMA AppendKeeps == ASSUME ModelInv, NEW d \in Drivers, AppendChunk(d) PROVE ModelInv'
<1>1. driver[d].pc = "await" /\ UNCHANGED <<phase, dest>>
  BY DEF AppendChunk, DriverIs
<1>2. part' = [m \in Models |-> part'[m]]
  BY RecordOf DEF AppendChunk, Shape
<1> DEFINE next == driver[d].next + 1
           r == [driver[d] EXCEPT !.pc = "check", !.next = next]
<1>3. driver' = [driver EXCEPT ![d].pc = "check", ![d].next = next]
  BY RecordOf DEF AppendChunk, Shape, IsDriver
<1> HIDE DEF next
<1>4. IsDriver(r) /\ r.req = driver[d].req /\ r.pc = "check"
  BY RecordOf, NextRecord
<1>5. driver' = [driver EXCEPT ![d] = r]
  BY <1>3, RecordOf DEF Shape
<1> HIDE DEF r
<1> QED  BY <1>1, <1>2, <1>4, <1>5, FetchKeeps DEF Working

LEMMA EndOfAnswerKeeps == ASSUME ModelInv, NEW d \in Drivers, EndOfAnswer(d) PROVE ModelInv'
<1>1. driver[d].pc = "await" /\ UNCHANGED <<phase, dest>>
  BY DEF EndOfAnswer, DriverIs
<1>2. part' = [m \in Models |-> part'[m]]
  BY RecordOf DEF EndOfAnswer, Shape
<1> DEFINE todo == Tail(driver[d].todo)
           r == [driver[d] EXCEPT !.pc = "fetch", !.todo = todo]
<1>3. driver' = [driver EXCEPT ![d].pc = "fetch", ![d].todo = todo]
  BY RecordOf DEF EndOfAnswer, Shape, IsDriver
<1> HIDE DEF todo
<1>4. IsDriver(r) /\ r.req = driver[d].req /\ r.pc = "fetch"
  BY RecordOf, FetchRecord
<1>5. driver' = [driver EXCEPT ![d] = r]
  BY <1>3, RecordOf DEF Shape
<1> HIDE DEF r
<1> QED  BY <1>1, <1>2, <1>4, <1>5, FetchKeeps DEF Working

\* The rename fills a final file that was missing: nobody else works on the model.
LEMMA PromoteKeeps == ASSUME ModelInv, NEW d \in Drivers, Promote(d) PROVE ModelInv'
<1>1. driver[d].pc = "promote" /\ UNCHANGED phase /\ Done(d, "complete") /\ Shape
  BY DEF Promote, DriverIs, ModelInv
<1>2. part' = [m \in Models |-> part'[m]] /\ dest' = [m \in Models |-> dest'[m]]
  BY <1>1 DEF Promote, Shape
<1> QED  BY <1>1, <1>2, DoneKeeps DEF Ends

\* The driver is gone, and the status is final.
LEMMA FinishKeeps == ASSUME ModelInv, NEW d \in Drivers, Finish(d) PROVE ModelInv'
<1>1. driver[d].pc = "done" /\ Alone(d) /\ SoundDriver(driver[d]) /\ Shape
  BY OthersRest DEF Finish, DriverIs, ModelInv
<1>2. phase' \notin Active
  BY <1>1 DEF Finish, Outcome, SoundDriver, Ends, Active
<1>3. driver'[d] = Resting /\ \A e \in Drivers \ {d} : driver'[e] = driver[e]
  BY <1>1 DEF Finish, Shape
<1>4. Resting.pc = "idle" /\ IsDriver(Resting)
  BY DEF Resting, IsDriver
<1> HIDE DEF Resting
<1>5. \A e \in Drivers : driver'[e].pc = "idle" /\ IsDriver(driver'[e])
  BY <1>1, <1>3, <1>4 DEF Alone, Shape
<1>6. Shape'
  BY <1>1, <1>5 DEF Shape, Finish
<1> QED  BY <1>2, <1>5, <1>6 DEF ModelInv, OnlyOne, SoundDriver, Working

LEMMA StartKeeps == ASSUME ModelInv, NEW r \in Requests, Start(r) PROVE ModelInv'
<1>1. PICK d \in Drivers : driver' = [driver EXCEPT ![d] = [Resting EXCEPT !.pc = "begin", !.req = r]]
  BY DEF Start
<1>2. phase \notin Active /\ phase' \in Active /\ Shape /\ UNCHANGED <<part, dest>>
  BY DEF Start, MayStart, Active, ModelInv
<1>3. \A e \in Drivers : driver[e].pc = "idle"
  BY <1>2 DEF ModelInv, OnlyOne
<1> DEFINE new == [Resting EXCEPT !.pc = "begin", !.req = r]
<1>4. new.pc = "begin" /\ new.req = r /\ IsDriver(new)
  <2>1. IsDriver(Resting)
    BY DEF Resting, IsDriver
  <2> QED  BY <2>1, BeginRecord
<1> HIDE DEF new
<1>5. driver'[d] = new /\ \A e \in Drivers \ {d} : driver'[e] = driver[e]
  BY <1>1, <1>2 DEF Shape, new
<1>6. Shape'
  <2>1. driver' = [e \in Drivers |-> driver'[e]]
    BY <1>1, <1>2 DEF Shape
  <2>2. \A e \in Drivers : IsDriver(driver'[e])
    BY <1>2, <1>4, <1>5 DEF Shape
  <2> QED  BY <1>2, <2>1, <2>2 DEF Shape
<1>7. \A e \in Drivers : SoundDriver(driver[e])'
  BY <1>3, <1>4, <1>5 DEF SoundDriver, Working
<1>8. OnlyOne'
  BY <1>2, <1>3, <1>4, <1>5 DEF OnlyOne, Alone
<1> QED  BY <1>6, <1>7, <1>8 DEF ModelInv

LEMMA CrashKeeps == ASSUME ModelInv, Crash PROVE ModelInv'
<1>1. Resting.pc = "idle" /\ IsDriver(Resting)
  BY DEF Resting, IsDriver
<1> HIDE DEF Resting
<1>2. \A e \in Drivers : driver'[e] = Resting
  BY DEF Crash
<1>3. Shape'
  BY <1>1, <1>2 DEF Crash, Shape, ModelInv
<1>4. phase' \notin Active
  BY DEF Crash, Active
<1> QED  BY <1>1, <1>2, <1>3, <1>4 DEF ModelInv, OnlyOne, SoundDriver, Working

\* What the driver, the status and the files do not notice.
LEMMA OutsideKeeps ==
  ASSUME ModelInv, UNCHANGED <<driver, phase, part, dest>>
  PROVE  ModelInv'
  BY DEF ModelInv, Shape, SoundDriver, OnlyOne, Alone

LEMMA ModelInvInit == Init => ModelInv
<1> SUFFICES ASSUME Init PROVE ModelInv
  OBVIOUS
<1>1. Resting.pc = "idle" /\ IsDriver(Resting)
  BY DEF Resting, IsDriver
<1> HIDE DEF Resting
<1>2. phase \notin Active
  BY DEF Init, Active
<1> QED  BY <1>1, <1>2 DEF Init, ModelInv, Shape, SoundDriver, OnlyOne, Working

LEMMA DriverStepKeeps == ASSUME ModelInv, NEW d \in Drivers, Step(d) PROVE ModelInv'
<1>1. Shape
  BY DEF ModelInv
<1>2. part = [m \in Models |-> part[m]] /\ dest = [m \in Models |-> dest[m]]
  BY <1>1 DEF Shape
<1>3. CASE FindDest(d)
  BY <1>2, <1>3, DoneKeeps DEF FindDest, DriverIs, Ends
<1>4. CASE BeginDelta(d) \/ BeginBlob(d)
  BY <1>4, DeltaKeeps, BlobKeeps
<1>5. CASE Answer(d)
  BY <1>5, AnswerKeeps
<1>6. CASE ObserveCancel(d)
  BY <1>2, <1>6, DoneKeeps DEF ObserveCancel, DriverIs, Ends
<1>7. CASE AwaitChunk(d)
  BY <1>7, GotoKeeps, OthersRest DEF AwaitChunk, DriverIs, Working
<1>8. CASE AppendChunk(d)
  BY <1>8, AppendKeeps
<1>9. CASE EndOfAnswer(d)
  BY <1>9, EndOfAnswerKeeps
<1>10. CASE BeginVerify(d)
  BY <1>10, GotoKeeps DEF BeginVerify, DriverIs, Working, Active
<1>11. CASE Verify(d)
  <2>1. CASE Verified(part[driver[d].req.model], driver[d].req)
    BY <1>11, <2>1, GotoKeeps, OthersRest DEF Verify, DriverIs, Working
  <2>2. CASE ~Verified(part[driver[d].req.model], driver[d].req)
    BY <1>2, <1>11, <2>2, DoneKeeps DEF Verify, DriverIs, Ends
  <2> QED  BY <2>1, <2>2
<1>12. CASE Promote(d)
  BY <1>12, PromoteKeeps
<1>13. CASE Fail(d)
  BY <1>2, <1>13, DoneKeeps DEF Fail, Ends
<1>14. CASE Finish(d)
  BY <1>14, FinishKeeps
<1>15. CASE Send(d)
  BY <1>15, GotoKeeps, OthersRest DEF Send, DriverIs, Working
<1> QED
  BY <1>3, <1>4, <1>5, <1>6, <1>7, <1>8, <1>9, <1>10, <1>11, <1>12, <1>13, <1>14, <1>15
     DEF Step, Local, Remote

LEMMA ModelNextKeeps == ModelInv /\ [Next]_vars => ModelInv'
<1> SUFFICES ASSUME ModelInv, [Next]_vars PROVE ModelInv'
  OBVIOUS
<1>1. CASE \E r \in Requests : Start(r)
  BY <1>1, StartKeeps
<1>2. CASE Cancel
  BY <1>2, OutsideKeeps DEF Cancel
<1>3. CASE \E d \in Drivers : Step(d)
  BY <1>3, DriverStepKeeps
<1>4. CASE Crash
  BY <1>4, CrashKeeps
<1>5. CASE \E m \in Models, c \in Contents : Republish(m, c)
  BY <1>5, OutsideKeeps DEF Republish
<1>6. CASE UNCHANGED vars
  BY <1>6, OutsideKeeps DEF vars
<1> QED  BY <1>1, <1>2, <1>3, <1>4, <1>5, <1>6 DEF Next

LEMMA ModelInvAlways == Spec => []ModelInv
  BY ModelInvInit, ModelNextKeeps, PTL DEF Spec

-------------------------------------------------------------------------------
(* The ranges of a delta manifest.                                           *)

\* A set of numbers has a least one.
LEMMA LeastNat ==
  ASSUME NEW S \in SUBSET Nat, S # {}
  PROVE  \E n \in S : \A m \in S : n <= m
<1>1. PICK x \in S : \A y \in S : ~ (<<y, x>> \in OpToRel(<, Nat))
  BY NatLessThanWellFounded, WFMin
<1>2. ASSUME NEW y \in S PROVE x <= y
  <2>1. SUFFICES ASSUME y < x PROVE FALSE
    OBVIOUS
  <2>2. <<y, x>> \in Nat \X Nat /\ <<y, x>>[1] < <<y, x>>[2]
    BY <2>1
  <2>3. <<y, x>> \in OpToRel(<, Nat)
    BY <2>2 DEF OpToRel
  <2> QED  BY <1>1, <2>3
<1> QED  BY <1>2

Part == [offset : Nat, size : Nat]

LEMMA EndsAreNat ==
  ASSUME NEW parts \in Seq(Part)
  PROVE  /\ Len(parts) \in Nat /\ DOMAIN parts = 1..Len(parts)
         /\ \A i \in 1..Len(parts) : /\ parts[i] \in Part /\ EndOf(parts[i]) \in Nat
                                    /\ parts[i].offset <= EndOf(parts[i])
<1>1. Len(parts) \in Nat /\ DOMAIN parts = 1..Len(parts)
  OBVIOUS
<1>2. ASSUME NEW i \in 1..Len(parts)
      PROVE  parts[i] \in Part /\ EndOf(parts[i]) \in Nat /\ parts[i].offset <= EndOf(parts[i])
  <2>1. parts[i] \in Part
    BY <1>1
  <2> QED  BY <2>1 DEF EndOf, Part
<1> QED  BY <1>1, <1>2

\* The parts of a valid manifest end one after the other.
LEMMA EndsGrow ==
  ASSUME NEW parts \in Seq(Part), NEW total, ValidParts(parts, total),
         NEW i \in DOMAIN parts, NEW j \in DOMAIN parts, i <= j
  PROVE  EndOf(parts[i]) <= EndOf(parts[j])
<1> DEFINE bad == {k \in DOMAIN parts : i <= k /\ EndOf(parts[i]) > EndOf(parts[k])}
<1>a. Len(parts) \in Nat /\ DOMAIN parts = 1..Len(parts)
      /\ \A k \in 1..Len(parts) : EndOf(parts[k]) \in Nat
  BY EndsAreNat
<1>0. DOMAIN parts \in SUBSET Nat /\ \A k \in DOMAIN parts : EndOf(parts[k]) \in Nat
  BY <1>a
<1>1. SUFFICES ASSUME bad # {} PROVE FALSE
  BY <1>0
<1>2. bad \in SUBSET Nat
  OBVIOUS
<1>3. PICK k \in bad : \A l \in bad : k <= l
  BY <1>1, <1>2, LeastNat
<1>4. k \in DOMAIN parts /\ i < k /\ k - 1 \in DOMAIN parts /\ k - 1 \notin bad
  <2>1. k \in DOMAIN parts /\ i <= k /\ EndOf(parts[i]) > EndOf(parts[k])
    BY <1>3
  <2>2. i # k
    BY <1>0, <2>1
  <2>3. i < k /\ k - 1 \in DOMAIN parts
    BY <1>a, <2>1, <2>2
  <2>4. ~(k <= k - 1)
    BY <1>0, <2>1
  <2> QED  BY <1>3, <2>1, <2>3, <2>4
<1>5. parts[k].offset = EndOf(parts[k - 1])
  <2>1. parts[k].offset = IF k = 1 THEN 0 ELSE EndOf(parts[k - 1])
    BY <1>4 DEF ValidParts
  <2>2. k # 1
    BY <1>a, <1>4
  <2> QED  BY <2>1, <2>2
<1>6. EndOf(parts[k]) >= EndOf(parts[k - 1])
  <2>1. parts[k].offset <= EndOf(parts[k])
    BY <1>a, <1>4, EndsAreNat
  <2> QED  BY <1>5, <2>1
<1>7. EndOf(parts[i]) <= EndOf(parts[k - 1])
  BY <1>0, <1>4
<1> QED  BY <1>0, <1>3, <1>4, <1>6, <1>7

\* A part file is cut back to the end of a part k, or to nothing, and what is then
\* missing are the parts after k: the first of them begins where the file ends.
LEMMA CutIsABoundary ==
  ASSUME NEW parts \in Seq(Part), NEW total, ValidParts(parts, total), parts # <<>>,
         NEW have \in Nat, NEW b, b = PartResumeBoundary(parts, have)
  PROVE  /\ b \in Nat /\ b <= have
         /\ \E k \in 0..Len(parts) :
              /\ {i \in 1..Len(parts) : EndOf(parts[i]) > b} = (k + 1)..Len(parts)
              /\ k < Len(parts) => parts[k + 1].offset = b
<1> DEFINE n == Len(parts)
           over == {i \in 1..n : EndOf(parts[i]) > have}
           reached == {i \in DOMAIN parts : \A j \in 1..i : EndOf(parts[j]) <= have}
<1>0. n \in Nat /\ n > 0 /\ DOMAIN parts = 1..n /\ \A i \in 1..n : EndOf(parts[i]) \in Nat
  BY EndsAreNat
<1>1. \E k \in 0..n : /\ \A i \in 1..n : i <= k => EndOf(parts[i]) <= have
                      /\ k < n => EndOf(parts[k + 1]) > have
  <2>1. CASE over = {}
    BY <1>0, <2>1
  <2>2. CASE over # {}
    <3>0. over \in SUBSET Nat
      OBVIOUS
    <3>1. PICK u \in over : \A v \in over : u <= v
      BY <2>2, <3>0, LeastNat
    <3>2. u - 1 \in 0..n /\ (u - 1) + 1 = u
      OBVIOUS
    <3>3. \A i \in 1..n : i <= u - 1 => EndOf(parts[i]) <= have
      BY <1>0, <3>1
    <3> QED  BY <3>1, <3>2, <3>3
  <2> QED  BY <2>1, <2>2
<1>2. PICK k \in 0..n : /\ \A i \in 1..n : i <= k => EndOf(parts[i]) <= have
                        /\ k < n => EndOf(parts[k + 1]) > have
  BY <1>1
<1>3. reached = 1..k
  <2>1. ASSUME NEW i \in reached PROVE i \in 1..k
    <3>1. i \in 1..n /\ \A j \in 1..i : EndOf(parts[j]) <= have
      BY <1>0
    <3>2. SUFFICES ASSUME i > k PROVE FALSE
      BY <3>1
    <3>3. k + 1 \in 1..i /\ k < n
      BY <1>0, <3>1, <3>2
    <3> QED  BY <1>0, <1>2, <3>1, <3>3
  <2>2. ASSUME NEW i \in 1..k PROVE i \in reached
    <3>1. i \in 1..n /\ \A j \in 1..i : j \in 1..n /\ j <= k
      BY <1>0
    <3> QED  BY <1>0, <1>2, <3>1
  <2> QED  BY <2>1, <2>2
<1>4. b = IF k = 0 THEN 0 ELSE EndOf(parts[k])
  <2>1. CASE k = 0
    <3>1. reached = {}
      BY <1>3, <2>1
    <3> QED  BY <2>1, <3>1 DEF PartResumeBoundary
  <2>2. CASE k > 0
    <3>1. k \in reached
      BY <1>3, <2>2
    <3>2. (CHOOSE i \in reached : \A j \in reached : j <= i) = k
      <4>1. k \in reached /\ \A j \in reached : j <= k
        BY <1>3, <2>2
      <4>2. \A i \in reached : (\A j \in reached : j <= i) => i = k
        BY <1>3, <4>1
      <4> QED  BY <4>1, <4>2
    <3>3. reached # {} /\ k # 0
      BY <2>2, <3>1
    <3>4. b = IF reached = {} THEN 0
              ELSE EndOf(parts[CHOOSE i \in reached : \A j \in reached : j <= i])
      BY DEF PartResumeBoundary
    <3> HIDE DEF reached
    <3> QED  BY <3>2, <3>3, <3>4
  <2> QED  BY <2>1, <2>2
<1>5. b \in Nat /\ b <= have
  BY <1>0, <1>2, <1>4
<1>6. {i \in 1..n : EndOf(parts[i]) > b} = (k + 1)..n
  <2>1. ASSUME NEW i \in 1..n, i <= k PROVE EndOf(parts[i]) <= b
    <3>1. k \in DOMAIN parts /\ i \in DOMAIN parts /\ k # 0
      BY <1>0, <2>1
    <3> QED  BY <1>4, <2>1, <3>1, EndsGrow
  <2>2. ASSUME NEW i \in 1..n, i > k PROVE EndOf(parts[i]) > b
    <3>1. k < n /\ k + 1 \in DOMAIN parts /\ i \in DOMAIN parts /\ k + 1 <= i
      BY <1>0, <2>2
    <3>2. EndOf(parts[k + 1]) <= EndOf(parts[i])
      BY <3>1, EndsGrow
    <3>3. EndOf(parts[k + 1]) > have /\ EndOf(parts[k + 1]) \in Nat /\ EndOf(parts[i]) \in Nat
      BY <1>0, <1>2, <3>1
    <3> QED  BY <1>5, <3>2, <3>3
  <2>3. \A i \in 1..n : EndOf(parts[i]) > b <=> i > k
    BY <1>0, <1>5, <2>1, <2>2
  <2> QED  BY <1>0, <2>3
<1>7. k < n => parts[k + 1].offset = b
  BY <1>0, <1>4 DEF ValidParts
<1> QED  BY <1>5, <1>6, <1>7

\* The numbers of an interval, in their order.
LEMMA NthOfInterval ==
  ASSUME NEW k \in Nat, NEW n \in Nat, k <= n
  PROVE  /\ Cardinality((k + 1)..n) = n - k
         /\ \A j \in 1..(n - k) : Nth((k + 1)..n, j) = k + j
<1>1. Cardinality((k + 1)..n) = n - k
  <2>1. k + 1 \in Int /\ n \in Int
    OBVIOUS
  <2>2. Cardinality((k + 1)..n) = IF k + 1 > n THEN 0 ELSE n - (k + 1) + 1
    BY <2>1, FS_Interval
  <2> QED  BY <2>2
<1>2. ASSUME NEW i \in (k + 1)..n PROVE Cardinality({x \in (k + 1)..n : x <= i}) = i - k
  <2>1. {x \in (k + 1)..n : x <= i} = (k + 1)..i
    OBVIOUS
  <2>2. k + 1 \in Int /\ i \in Int /\ ~(k + 1 > i)
    OBVIOUS
  <2>3. Cardinality((k + 1)..i) = i - (k + 1) + 1
    BY <2>2, FS_Interval
  <2>4. i - (k + 1) + 1 = i - k
    OBVIOUS
  <2> QED  BY <2>1, <2>3, <2>4
<1>3. ASSUME NEW j \in 1..(n - k) PROVE Nth((k + 1)..n, j) = k + j
  <2>1. k + j \in (k + 1)..n /\ (k + j) - k = j
    OBVIOUS
  <2>2. \A i \in (k + 1)..n : Cardinality({x \in (k + 1)..n : x <= i}) = j => i = k + j
    BY <1>2
  <2> QED  BY <1>2, <2>1, <2>2 DEF Nth
<1> QED  BY <1>1, <1>3

\* The ranges that download_delta fetches join up behind what it keeps.
LEMMA MissingJoins ==
  ASSUME NEW parts \in Seq(Part), NEW total, ValidParts(parts, total), parts # <<>>,
         NEW have \in Nat, NEW b, b = PartResumeBoundary(parts, have),
         NEW missing, missing = PartsToFetch(parts, b)
  PROVE  /\ b \in Nat /\ b <= have
         /\ Joined([i \in DOMAIN missing |->
                      [from |-> missing[i].offset, to |-> EndOf(missing[i])]], b)
<1> DEFINE n == Len(parts)
           todo == [i \in DOMAIN missing |->
                      [from |-> missing[i].offset, to |-> EndOf(missing[i])]]
<1>1. b \in Nat /\ b <= have
  BY CutIsABoundary
<1>2. PICK k \in 0..n : /\ {i \in 1..n : EndOf(parts[i]) > b} = (k + 1)..n
                        /\ k < n => parts[k + 1].offset = b
  BY CutIsABoundary
<1>3. n \in Nat /\ DOMAIN parts = 1..n /\ \A i \in 1..n : parts[i] \in Part
  OBVIOUS
<1>4. missing = [j \in 1..(n - k) |-> parts[k + j]]
  <2> DEFINE I == (k + 1)..n
  <2>1. missing = [j \in 1..Cardinality(I) |-> parts[Nth(I, j)]]
    BY <1>2 DEF PartsToFetch, Retained
  <2>2. Cardinality(I) = n - k /\ \A j \in 1..(n - k) : Nth(I, j) = k + j
    BY <1>3, NthOfInterval
  <2> HIDE DEF I
  <2> QED  BY <2>1, <2>2
<1>5. todo = [j \in 1..(n - k) |-> [from |-> parts[k + j].offset, to |-> EndOf(parts[k + j])]]
  BY <1>4
<1>6. ASSUME NEW j \in 1..(n - k)
      PROVE  /\ todo[j] \in Segment /\ todo[j].from <= todo[j].to
             /\ todo[j].from = IF j = 1 THEN b ELSE todo[j - 1].to
  <2>1. k + j \in 1..n /\ parts[k + j] \in Part
    BY <1>3
  <2>2. todo[j] = [from |-> parts[k + j].offset, to |-> EndOf(parts[k + j])]
    BY <1>5
  <2>3. todo[j] \in Segment /\ todo[j].from <= todo[j].to
    BY <2>1, <2>2 DEF Part, Segment, EndOf
  <2>4. CASE j = 1
    <3>1. k < n /\ k + j = k + 1
      BY <1>3, <2>1, <2>4
    <3>2. todo[j].from = b
      BY <1>2, <2>2, <3>1
    <3> HIDE DEF todo
    <3> QED  BY <2>3, <2>4, <3>2
  <2>5. CASE j # 1
    <3>1. j - 1 \in 1..(n - k) /\ k + (j - 1) = (k + j) - 1 /\ k + j # 1
      BY <2>5
    <3>2. todo[j - 1].to = EndOf(parts[(k + j) - 1])
      BY <1>5, <3>1
    <3>3. parts[k + j].offset = EndOf(parts[(k + j) - 1])
      BY <1>3, <2>1, <3>1 DEF ValidParts
    <3> QED  BY <2>2, <2>3, <2>5, <3>2, <3>3
  <2> QED  BY <2>3, <2>4, <2>5
<1>7. DOMAIN todo = 1..(n - k)
  BY <1>5
<1> HIDE DEF todo
<1>8. todo \in Seq(Segment)
  <2>1. n - k \in Nat
    BY <1>3
  <2>2. todo = [j \in 1..(n - k) |-> todo[j]]
    BY <1>5
  <2>3. \A j \in 1..(n - k) : todo[j] \in Segment
    BY <1>6
  <2> QED  BY <2>1, <2>2, <2>3
<1>9. Joined(todo, b)
  BY <1>6, <1>7, <1>8 DEF Joined
<1> QED  BY <1>1, <1>9 DEF todo

-------------------------------------------------------------------------------
(* Every block lands in its place.                                           *)

Pcs == {"idle", "begin", "fetch", "sent", "check", "await", "verify", "promote", "done"}

LEMMA TypedDone ==
  ASSUME NEW r \in DriverType, NEW result \in Ends
  PROVE  LET s == [r EXCEPT !.pc = "done", !.result = result] IN
         s \in DriverType /\ s.req = r.req /\ s.pc = "done"
  BY DEF DriverType, Phases, Ends

LEMMA TypedBegin ==
  ASSUME NEW r \in DriverType, NEW q \in Requests
  PROVE  LET s == [r EXCEPT !.pc = "begin", !.req = q] IN
         s \in DriverType /\ s.pc = "begin" /\ s.req = q
  BY DEF DriverType

LEMMA TypedGoto ==
  ASSUME NEW r \in DriverType, NEW pc \in Pcs
  PROVE  LET s == [r EXCEPT !.pc = pc] IN
         /\ s \in DriverType /\ s.req = r.req /\ s.pc = pc /\ s.todo = r.todo
         /\ s.of = r.of /\ s.next = r.next /\ s.to = r.to
  BY DEF DriverType, Pcs

LEMMA TypedFetch ==
  ASSUME NEW r \in DriverType, NEW todo \in Seq(Segment)
  PROVE  LET s == [r EXCEPT !.pc = "fetch", !.todo = todo] IN
         s \in DriverType /\ s.req = r.req /\ s.pc = "fetch" /\ s.todo = todo
  BY DEF DriverType

LEMMA TypedNext ==
  ASSUME NEW r \in DriverType, NEW next \in Nat
  PROVE  LET s == [r EXCEPT !.pc = "check", !.next = next] IN
         /\ s \in DriverType /\ s.req = r.req /\ s.pc = "check" /\ s.todo = r.todo
         /\ s.of = r.of /\ s.next = next /\ s.to = r.to
  BY DEF DriverType

\* What is known of the driver that runs and of the file it works on.
LEMMA WorkingDriver ==
  ASSUME PlaceInv, NEW d \in Drivers, driver[d].pc # "idle"
  PROVE  /\ driver[d] \in DriverType /\ driver[d].req \in Requests
         /\ driver[d].req.model \in Models /\ driver[d].req.parts \in Seq(Part)
         /\ Bounded(part[driver[d].req.model]) /\ Going(driver[d])
         /\ driver[d].req.model \notin astray =>
              /\ InPlace(part[driver[d].req.model])
              /\ Lined(driver[d], part[driver[d].req.model])
<1>1. driver[d] \in DriverType
  BY DEF PlaceInv, DownloadTypeOK
<1>2. /\ Going(driver[d])
      /\ driver[d].req.model \notin astray => Lined(driver[d], part[driver[d].req.model])
  BY DEF PlaceInv
<1>3. driver[d].req \in Requests
  BY <1>2 DEF Going
<1>4. driver[d].req.model \in Models /\ driver[d].req.parts \in Seq(Part)
  BY <1>3, RequestAssumption DEF Part
<1> QED  BY <1>1, <1>2, <1>3, <1>4 DEF PlaceInv

\* The step of a running driver that makes its record r and its part file p.
LEMMA PlaceStep ==
  ASSUME PlaceInv, ModelInv, NEW d \in Drivers, driver[d].pc # "idle",
         NEW r \in DriverType, driver' = [driver EXCEPT ![d] = r],
         NEW p, Bounded(p), part' = [part EXCEPT ![driver[d].req.model] = p],
         r.pc # "idle" => r.req = driver[d].req /\ Going(r),
         astray' \subseteq Models,
         \A k \in Models \ {driver[d].req.model} : k \in astray => k \in astray',
         driver[d].req.model \notin astray' =>
           InPlace(p) /\ (r.pc # "idle" => Lined(r, p)),
         dest' \in [Models -> Seq(Block)], phase' \in Phases,
         UNCHANGED <<served, cancel, current>>
  PROVE  PlaceInv'
<1> DEFINE m == driver[d].req.model
<1>1. m \in Models
  BY WorkingDriver
<1>2. DownloadTypeOK
  BY DEF PlaceInv
<1>3. \A e \in Drivers \ {d} : driver[e].pc = "idle"
  BY OthersRest DEF Alone
<1>4. /\ driver' \in [Drivers -> DriverType] /\ driver'[d] = r
      /\ \A e \in Drivers \ {d} : driver'[e] = driver[e]
  BY <1>2 DEF DownloadTypeOK
<1>5. p \in Seq(Block)
  BY DEF Bounded
<1>6. /\ part' \in [Models -> Seq(Block)] /\ part'[m] = p
      /\ \A k \in Models \ {m} : part'[k] = part[k]
  BY <1>1, <1>2, <1>5 DEF DownloadTypeOK
<1>7. ASSUME NEW k \in Models PROVE Bounded(part'[k])
  <2>1. Bounded(part[k])
    BY DEF PlaceInv
  <2> QED  BY <1>6, <2>1
<1>8. ASSUME NEW k \in Models, k \notin astray' PROVE InPlace(part'[k])
  <2>1. CASE k = m
    BY <1>6, <1>8, <2>1
  <2>2. CASE k # m
    <3>1. k \notin astray
      BY <1>8, <2>2
    <3>2. InPlace(part[k])
      BY <3>1 DEF PlaceInv
    <3> QED  BY <1>6, <2>2, <3>2
  <2> QED  BY <2>1, <2>2
<1>9. \A k \in Models : \A i \in DOMAIN part'[k] : part'[k][i].at <= SizeOf[part'[k][i].of]
  BY <1>7 DEF Bounded
<1>10. DownloadTypeOK'
  BY <1>2, <1>4, <1>6, <1>9 DEF DownloadTypeOK
<1>11. ASSUME NEW e \in Drivers, driver'[e].pc # "idle"
       PROVE  /\ Going(driver'[e])
              /\ driver'[e].req.model \notin astray' =>
                   Lined(driver'[e], part'[driver'[e].req.model])
  <2>1. e = d
    BY <1>3, <1>4, <1>11
  <2>2. driver'[e] = r /\ r.pc # "idle"
    BY <1>4, <1>11, <2>1
  <2>3. part'[driver'[e].req.model] = p /\ driver'[e].req.model = m
    BY <1>6, <2>2
  <2> QED  BY <2>2, <2>3
<1> QED  BY <1>7, <1>8, <1>10, <1>11 DEF PlaceInv

\* A driver that is done, whatever it leaves in the files.
LEMMA PlaceDone ==
  ASSUME PlaceInv, ModelInv, NEW d \in Drivers, driver[d].pc # "idle",
         NEW result \in Ends, Done(d, result),
         NEW p, Bounded(p), part' = [part EXCEPT ![driver[d].req.model] = p],
         driver[d].req.model \notin astray => InPlace(p),
         dest' \in [Models -> Seq(Block)], UNCHANGED <<phase, served, cancel, current, astray>>
  PROVE  PlaceInv'
<1> DEFINE r == [driver[d] EXCEPT !.pc = "done", !.result = result]
<1>1. driver[d] \in DriverType /\ Going(driver[d])
  BY WorkingDriver
<1>2. r \in DriverType /\ r.req = driver[d].req /\ r.pc = "done"
  BY <1>1, TypedDone
<1>3. driver' = [driver EXCEPT ![d] = r]
  BY RecordOf DEF Done, Shape
<1> HIDE DEF r
<1>4. Going(r)
  BY <1>1, <1>2 DEF Going
<1>5. Lined(r, p)
  BY <1>2 DEF Lined
<1>6. phase' \in Phases /\ astray' \subseteq Models
  BY DEF PlaceInv, DownloadTypeOK
<1> QED  BY <1>2, <1>3, <1>4, <1>5, <1>6, PlaceStep

\* A driver that changes no file.
LEMMA PlaceStill ==
  ASSUME PlaceInv, ModelInv, NEW d \in Drivers, driver[d].pc # "idle",
         NEW r \in DriverType, driver' = [driver EXCEPT ![d] = r],
         r.pc # "idle" => r.req = driver[d].req /\ Going(r),
         driver[d].req.model \notin astray /\ r.pc # "idle" =>
           Lined(r, part[driver[d].req.model]),
         phase' \in Phases, UNCHANGED <<part, dest, served, cancel, current, astray>>
  PROVE  PlaceInv'
<1> DEFINE m == driver[d].req.model
<1>1. Bounded(part[m]) /\ (m \notin astray => InPlace(part[m]))
  BY WorkingDriver
<1>2. part' = [part EXCEPT ![m] = part[m]]
  BY RecordOf DEF Shape
<1>3. dest' \in [Models -> Seq(Block)] /\ astray' \subseteq Models
  BY DEF PlaceInv, DownloadTypeOK
<1> QED  BY <1>1, <1>2, <1>3, PlaceStep

LEMMA PlaceGone ==
  ASSUME PlaceInv, ModelInv, NEW d \in Drivers, driver[d].pc # "idle",
         NEW result \in Ends, Done(d, result),
         UNCHANGED <<part, dest, phase, served, cancel, current, astray>>
  PROVE  PlaceInv'
<1> DEFINE m == driver[d].req.model
<1>1. Bounded(part[m]) /\ (m \notin astray => InPlace(part[m]))
  BY WorkingDriver
<1>2. part' = [part EXCEPT ![m] = part[m]]
  BY RecordOf DEF Shape
<1>3. dest' \in [Models -> Seq(Block)]
  BY DEF PlaceInv, DownloadTypeOK
<1> QED  BY <1>1, <1>2, <1>3, PlaceDone

LEMMA PlaceGoto ==
  ASSUME PlaceInv, ModelInv, NEW d \in Drivers, driver[d].pc # "idle",
         NEW pc \in Pcs, Goto(d, pc), pc \in {"sent", "await", "verify", "promote"},
         pc = "sent" => driver[d].pc = "fetch" /\ driver[d].todo # <<>>,
         pc = "await" => driver[d].pc = "check",
         phase' \in Phases, UNCHANGED <<part, dest, served, cancel, current, astray>>
  PROVE  PlaceInv'
<1> DEFINE r == [driver[d] EXCEPT !.pc = pc]
           p == part[driver[d].req.model]
<1>1. /\ driver[d] \in DriverType /\ Going(driver[d])
      /\ driver[d].req.model \notin astray => Lined(driver[d], p)
  BY WorkingDriver
<1>2. /\ r \in DriverType /\ r.req = driver[d].req /\ r.pc = pc /\ r.todo = driver[d].todo
      /\ r.of = driver[d].of /\ r.next = driver[d].next /\ r.to = driver[d].to
  BY <1>1, TypedGoto
<1>3. driver' = [driver EXCEPT ![d] = r]
  BY RecordOf DEF Goto, Shape
<1> HIDE DEF r
<1>4. Going(r)
  BY <1>1, <1>2 DEF Going
<1>5. driver[d].req.model \notin astray => Lined(r, p)
  BY <1>1, <1>2 DEF Lined
<1> QED  BY <1>2, <1>3, <1>4, <1>5, PlaceStill

\* A file cut short stays in place.
LEMMA CutInPlace ==
  ASSUME NEW p, Bounded(p), NEW b \in Nat, b <= Len(p)
  PROVE  /\ Bounded(SubSeq(p, 1, b)) /\ Len(SubSeq(p, 1, b)) = b
         /\ InPlace(p) => InPlace(SubSeq(p, 1, b))
<1>1. p \in Seq(Block) /\ Len(p) \in Nat /\ DOMAIN p = 1..Len(p)
  BY DEF Bounded
<1>2. SubSeq(p, 1, b) = [i \in 1..b |-> p[i]]
  BY <1>1
<1>3. \A i \in 1..b : i \in DOMAIN p /\ p[i] \in Block
  BY <1>1
<1> DEFINE q == [i \in 1..b |-> p[i]]
<1>4. q \in Seq(Block) /\ Len(q) = b
  BY <1>3
<1>5. DOMAIN q = 1..b /\ \A i \in 1..b : q[i] = p[i]
  OBVIOUS
<1> HIDE DEF q
<1>6. Bounded(q)
  BY <1>3, <1>4, <1>5 DEF Bounded
<1>7. InPlace(p) => InPlace(q)
  BY <1>3, <1>5, <1>6 DEF InPlace
<1> QED  BY <1>2, <1>4, <1>6, <1>7 DEF q

\* A block behind the last one.
LEMMA AppendInPlace ==
  ASSUME NEW p, Bounded(p), NEW of \in Contents, NEW intact \in BOOLEAN,
         NEW at \in Nat \ {0}, at <= SizeOf[of]
  PROVE  LET q == Append(p, [of |-> of, at |-> at, intact |-> intact]) IN
         /\ Bounded(q) /\ Len(q) = Len(p) + 1
         /\ InPlace(p) /\ at = Len(p) + 1 => InPlace(q)
<1> DEFINE block == [of |-> of, at |-> at, intact |-> intact]
           q == Append(p, block)
<1>1. p \in Seq(Block) /\ Len(p) \in Nat /\ DOMAIN p = 1..Len(p)
  BY DEF Bounded
<1>2. block \in Block /\ block.at = at /\ block.of = of
  BY DEF Block
<1> HIDE DEF block
<1>3. q \in Seq(Block) /\ Len(q) = Len(p) + 1
  BY <1>1, <1>2
<1>4. /\ DOMAIN q = 1..(Len(p) + 1) /\ q[Len(p) + 1] = block
      /\ \A i \in 1..Len(p) : q[i] = p[i]
  BY <1>1, <1>2, <1>3
<1> HIDE DEF q
<1>5. ASSUME NEW i \in 1..(Len(p) + 1) PROVE q[i].at <= SizeOf[q[i].of]
  <2>1. CASE i = Len(p) + 1
    BY <1>2, <1>4, <2>1
  <2>2. CASE i # Len(p) + 1
    <3>1. i \in 1..Len(p)
      BY <1>1, <2>2
    <3> QED  BY <1>1, <1>4, <3>1 DEF Bounded
  <2> QED  BY <2>1, <2>2
<1>6. Bounded(q)
  BY <1>3, <1>4, <1>5 DEF Bounded
<1>7. ASSUME InPlace(p), at = Len(p) + 1 PROVE InPlace(q)
  <2>1. ASSUME NEW i \in 1..(Len(p) + 1) PROVE q[i].at = i
    <3>1. CASE i = Len(p) + 1
      BY <1>2, <1>4, <1>7, <3>1
    <3>2. CASE i # Len(p) + 1
      <4>1. i \in 1..Len(p)
        BY <1>1, <3>2
      <4> QED  BY <1>1, <1>4, <1>7, <4>1 DEF InPlace
    <3> QED  BY <3>1, <3>2
  <2> QED  BY <1>4, <1>6, <2>1 DEF InPlace
<1> QED  BY <1>3, <1>6, <1>7 DEF q, block

LEMMA OneLeft ==
  ASSUME NEW s \in Seq(Segment), Len(s) = 1
  PROVE  Head(s) = s[1] /\ Tail(s) = <<>>
<1>1. Tail(s) \in Seq(Segment) /\ Len(Tail(s)) = 0
  OBVIOUS
<1>2. Tail(s) = <<>>
  BY <1>1, EmptySeq
<1> QED  BY <1>2

\* What is left to fetch still joins up when its head has been fetched.
LEMMA TailJoins ==
  ASSUME NEW todo, NEW at, Joined(todo, at), todo # <<>>
  PROVE  /\ Joined(Tail(todo), Head(todo).to)
         /\ Head(todo).from = at /\ Head(todo).from <= Head(todo).to
         /\ Head(todo) \in Segment
<1>1. todo \in Seq(Segment) /\ Len(todo) \in Nat /\ Len(todo) > 0 /\ DOMAIN todo = 1..Len(todo)
  BY DEF Joined
<1>2. Head(todo) = todo[1] /\ todo[1] \in Segment
  BY <1>1
<1>3. Tail(todo) \in Seq(Segment) /\ Len(Tail(todo)) = Len(todo) - 1
  BY <1>1
<1>4. \A i \in 1..(Len(todo) - 1) : Tail(todo)[i] = todo[i + 1]
  BY <1>1
<1> DEFINE rest == Tail(todo)
<1>5. DOMAIN rest = 1..(Len(todo) - 1)
  BY <1>1, <1>3
<1> HIDE DEF rest
<1>6. ASSUME NEW i \in DOMAIN rest
      PROVE  rest[i].from <= rest[i].to
             /\ rest[i].from = IF i = 1 THEN todo[1].to ELSE rest[i - 1].to
  <2>1. i \in 1..(Len(todo) - 1) /\ i + 1 \in DOMAIN todo /\ rest[i] = todo[i + 1]
    BY <1>1, <1>4, <1>5 DEF rest
  <2>2. todo[i + 1].from <= todo[i + 1].to /\ todo[i + 1].from = todo[i].to
    BY <2>1 DEF Joined
  <2>3. CASE i = 1
    BY <2>1, <2>2, <2>3
  <2>4. CASE i # 1
    <3>1. i - 1 \in 1..(Len(todo) - 1) /\ (i - 1) + 1 = i
      BY <2>1, <2>4
    <3>2. rest[i - 1] = todo[i]
      BY <1>4, <3>1 DEF rest
    <3> QED  BY <2>1, <2>2, <2>4, <3>2
  <2> QED  BY <2>3, <2>4
<1>7. Joined(rest, todo[1].to)
  BY <1>3, <1>6 DEF Joined, rest
<1>8. todo[1].from = at /\ todo[1].from <= todo[1].to
  BY <1>1 DEF Joined
<1> QED  BY <1>2, <1>7, <1>8 DEF rest

LEMMA EmptyInPlace == Bounded(<<>>) /\ InPlace(<<>>)
  BY DEF Bounded, InPlace

\* download_delta cuts back to a boundary and fetches what begins there.
LEMMA DeltaPlaces == ASSUME PlaceInv, ModelInv, NEW d \in Drivers, BeginDelta(d) PROVE PlaceInv'
<1> DEFINE q == driver[d].req
           p == part[q.model]
           b == PartResumeBoundary(q.parts, Len(p))
           missing == PartsToFetch(q.parts, b)
           todo == [i \in DOMAIN missing |-> [from |-> missing[i].offset, to |-> EndOf(missing[i])]]
           r == [driver[d] EXCEPT !.pc = "fetch", !.todo = todo]
<1>1. /\ driver[d].pc = "begin" /\ q.parts # <<>>
      /\ part' = [part EXCEPT ![q.model] = SubSeq(@, 1, b)]
      /\ driver' = [driver EXCEPT ![d].pc = "fetch", ![d].todo = todo]
      /\ astray' = IF b = 0 THEN astray \ {q.model} ELSE astray
      /\ UNCHANGED <<dest, served, phase, cancel, current>>
  BY DEF BeginDelta, DriverIs
<1>2. /\ driver[d] \in DriverType /\ q \in Requests /\ q.model \in Models
      /\ q.parts \in Seq(Part) /\ Bounded(p) /\ Going(driver[d])
      /\ q.model \notin astray => InPlace(p)
  BY <1>1, WorkingDriver
<1>3. ValidParts(q.parts, TotalOf(q))
  BY <1>1, <1>2 DEF Going
<1>4. Len(p) \in Nat
  BY <1>2 DEF Bounded
<1> HIDE DEF q
<1>5. b \in Nat /\ b <= Len(p) /\ Joined(todo, b)
  <2> HIDE DEF p
  <2> QED  BY <1>1, <1>2, <1>3, <1>4, MissingJoins
<1> DEFINE file == SubSeq(p, 1, b)
<1>6. /\ Bounded(file) /\ Len(file) = b
      /\ InPlace(p) => InPlace(file)
  BY <1>2, <1>5, CutInPlace
<1>7. part' = [part EXCEPT ![q.model] = file]
  BY <1>1, <1>2 DEF PlaceInv, DownloadTypeOK
<1> HIDE DEF todo, b, p, file
<1>8. r \in DriverType /\ r.req = driver[d].req /\ r.pc = "fetch" /\ r.todo = todo
  BY <1>2, <1>5, TypedFetch DEF Joined
<1>9. driver' = [driver EXCEPT ![d] = r]
  BY <1>1, RecordOf DEF Shape
<1> HIDE DEF r
<1>10. Going(r) /\ Lined(r, file)
  BY <1>1, <1>2, <1>3, <1>5, <1>6, <1>8 DEF Going, Lined, q
<1>11. dest' \in [Models -> Seq(Block)] /\ phase' \in Phases /\ astray \subseteq Models
  BY <1>1 DEF PlaceInv, DownloadTypeOK
<1>12. ASSUME q.model \notin astray' PROVE InPlace(file)
  <2>1. CASE b = 0
    <3>1. file \in Seq(Block) /\ Len(file) = 0
      BY <1>6, <2>1 DEF Bounded
    <3>2. file = <<>>
      BY <3>1, EmptySeq
    <3> QED  BY <3>2, EmptyInPlace
  <2>2. CASE b # 0
    BY <1>1, <1>2, <1>6, <1>12, <2>2
  <2> QED  BY <2>1, <2>2
<1>13. astray' \subseteq Models /\ \A k \in Models \ {q.model} : k \in astray => k \in astray'
  BY <1>1, <1>11
<1> QED  BY <1>1, <1>6, <1>7, <1>8, <1>9, <1>10, <1>11, <1>12, <1>13, PlaceStep DEF q

\* download_blob goes on where the file ends, or begins anew.
LEMMA BlobPlaces == ASSUME PlaceInv, ModelInv, NEW d \in Drivers, BeginBlob(d) PROVE PlaceInv'
<1> DEFINE q == driver[d].req
           p == part[q.model]
           decision == ResumeDecision(Len(p), q.total)
           file == IF decision = "restart" THEN <<>> ELSE p
           todo == CASE decision = "complete" -> <<>>
                     [] decision = "resume"   -> <<[from |-> Len(p), to |-> 0]>>
                     [] OTHER                 -> <<[from |-> 0, to |-> 0]>>
           r == [driver[d] EXCEPT !.pc = "fetch", !.todo = todo]
<1>1. /\ driver[d].pc = "begin" /\ q.parts = <<>>
      /\ part' = [part EXCEPT ![q.model] = IF decision = "restart" THEN <<>> ELSE @]
      /\ driver' = [driver EXCEPT ![d].pc = "fetch", ![d].todo = todo]
      /\ UNCHANGED <<dest, served, phase, cancel, current, astray>>
  BY DEF BeginBlob, DriverIs
<1>2. /\ driver[d] \in DriverType /\ q \in Requests /\ q.model \in Models
      /\ Bounded(p) /\ Going(driver[d])
      /\ q.model \notin astray => InPlace(p)
  BY <1>1, WorkingDriver
<1>3. part' = [part EXCEPT ![q.model] = file]
  BY <1>1, <1>2 DEF PlaceInv, DownloadTypeOK
<1>4. Len(p) \in Nat
  BY <1>2 DEF Bounded
<1> HIDE DEF q, p, decision
<1>5. Bounded(file) /\ (q.model \notin astray => InPlace(file))
  BY <1>2, EmptyInPlace
<1>6. /\ todo \in Seq(Segment)
      /\ todo = <<>> \/ (Len(todo) = 1 /\ todo[1].from \in {0, Len(file)})
  <2>1. CASE decision = "complete"
    BY <2>1
  <2>2. CASE decision = "resume"
    <3>1. todo = <<[from |-> Len(p), to |-> 0]>> /\ file = p
      BY <2>2
    <3>2. [from |-> Len(p), to |-> 0] \in Segment
      BY <1>4 DEF Segment
    <3> HIDE DEF todo, file
    <3> QED  BY <3>1, <3>2
  <2>3. CASE decision # "complete" /\ decision # "resume"
    <3>1. todo = <<[from |-> 0, to |-> 0]>>
      BY <2>3
    <3>2. [from |-> 0, to |-> 0] \in Segment
      BY DEF Segment
    <3> HIDE DEF todo, file
    <3> QED  BY <3>1, <3>2
  <2> QED  BY <2>1, <2>2, <2>3
<1> HIDE DEF todo, file
<1>7. r \in DriverType /\ r.req = driver[d].req /\ r.pc = "fetch" /\ r.todo = todo
  BY <1>2, <1>6, TypedFetch
<1>8. driver' = [driver EXCEPT ![d] = r]
  BY <1>1, RecordOf DEF Shape
<1> HIDE DEF r
<1>9. Going(r) /\ Lined(r, file)
  BY <1>1, <1>2, <1>6, <1>7 DEF Going, Lined, q
<1>10. dest' \in [Models -> Seq(Block)] /\ phase' \in Phases /\ astray' \subseteq Models
  BY <1>1 DEF PlaceInv, DownloadTypeOK
<1> QED  BY <1>1, <1>3, <1>5, <1>7, <1>8, <1>9, <1>10, PlaceStep DEF q

\* An answer that is streamed to a file: what an answer of either kind amounts to.
LEMMA StreamPlaces ==
  ASSUME PlaceInv, ModelInv, NEW d \in Drivers, driver[d].pc = "sent",
         UNCHANGED <<dest, served, phase, cancel, current>>,
         NEW q, q = driver[d].req, NEW c, c = served[q.model],
         NEW from \in Nat, NEW to \in Nat, Stream(d, from, to), from <= to, to <= SizeOf[c],
         NEW file, part' = [part EXCEPT ![q.model] = file], Bounded(file),
         q.parts = <<>> => Tail(driver[d].todo) = <<>>,
         astray' \subseteq Models,
         \A k \in Models \ {q.model} : k \in astray => k \in astray',
         q.model \notin astray' =>
           /\ InPlace(file) /\ from = Len(file)
           /\ q.parts # <<>> => Joined(Tail(driver[d].todo), to)
  PROVE  PlaceInv'
<1>1. /\ driver[d] \in DriverType /\ q \in Requests /\ q.model \in Models /\ Going(driver[d])
  BY WorkingDriver
<1>2. c \in Contents
  BY <1>1 DEF PlaceInv, DownloadTypeOK
<1>3. dest' \in [Models -> Seq(Block)] /\ phase' \in Phases
  BY DEF PlaceInv, DownloadTypeOK
<1> DEFINE next == from + 1
           r == [driver[d] EXCEPT !.pc = "check", !.of = c, !.next = next, !.to = to]
<1>4. driver' = [driver EXCEPT ![d].pc = "check", ![d].of = c, ![d].next = next, ![d].to = to]
  BY DEF Stream
<1>5. next \in Nat /\ 0 < next /\ next <= to + 1 /\ next = from + 1
  OBVIOUS
<1> HIDE DEF next
<1>6. driver' = [driver EXCEPT ![d] = r]
  BY <1>4, RecordOf, StreamUpdate
<1>7. /\ r \in DriverType /\ r.req = driver[d].req /\ r.pc = "check" /\ r.todo = driver[d].todo
      /\ r.of = c /\ r.next = next /\ r.to = to
  <2> DEFINE x == driver[d]
  <2>1. x \in DriverType
    BY <1>1
  <2> HIDE DEF x
  <2>2. LET s == [x EXCEPT !.pc = "check", !.of = c, !.next = next, !.to = to] IN
        /\ s \in DriverType /\ s.req = x.req /\ s.pc = "check" /\ s.todo = x.todo
        /\ s.of = c /\ s.next = next /\ s.to = to
    BY <1>2, <1>5, <2>1 DEF DriverType
  <2> QED  BY <2>2 DEF x
<1> HIDE DEF r
<1>8. Going(r)
  BY <1>1, <1>2, <1>5, <1>7 DEF Going
<1>9. ASSUME q.model \notin astray' PROVE Lined(r, file)
  BY <1>5, <1>7, <1>9 DEF Lined
<1> QED  BY <1>3, <1>6, <1>7, <1>8, <1>9, PlaceStep

\* The answer begins where the file ends, or the file begins anew with it, or it is a
\* part other than the one that was asked for.
LEMMA AnswerPlaces == ASSUME PlaceInv, ModelInv, NEW d \in Drivers, Answer(d) PROVE PlaceInv'
<1>0. PICK q, c, p, todo : /\ q = driver[d].req /\ c = served[q.model]
                           /\ p = part[q.model] /\ todo = driver[d].todo
  OBVIOUS
<1> DEFINE size == SizeOf[c]
           seg == Head(todo)
<1>1. driver[d].pc = "sent" /\ UNCHANGED <<dest, served, phase, cancel, current>>
  BY DEF Answer, DriverIs
<1>2. /\ driver[d] \in DriverType /\ q \in Requests /\ q.model \in Models
      /\ Bounded(p) /\ Going(driver[d])
      /\ q.model \notin astray => InPlace(p) /\ Lined(driver[d], p)
  BY <1>0, <1>1, WorkingDriver
<1>3. c \in Contents /\ size \in Nat /\ size > 0
  BY <1>0, <1>2, SizeAssumption DEF PlaceInv, DownloadTypeOK
<1>4. /\ part = [part EXCEPT ![q.model] = p] /\ astray \subseteq Models
  BY <1>0, RecordOf DEF Shape, PlaceInv, DownloadTypeOK
<1>5. todo # <<>> /\ todo \in Seq(Segment) /\ seg \in Segment
  <2>1. todo # <<>> /\ todo \in Seq(Segment)
    BY <1>0, <1>1, <1>2 DEF Going, DriverType
  <2> QED  BY <2>1
<1>6. \/ /\ q.parts # <<>> /\ UNCHANGED part
         /\ \E from \in 0..size : \E to \in from..size :
              /\ Stream(d, from, to)
              /\ astray' = IF from = seg.from /\ to = seg.to
                           THEN astray ELSE astray \cup {q.model}
      \/ /\ q.parts = <<>> /\ 0 < seg.from /\ seg.from < size
         /\ Stream(d, seg.from, size) /\ UNCHANGED <<part, astray>>
      \/ /\ q.parts = <<>> /\ Stream(d, 0, size)
         /\ part' = [part EXCEPT ![q.model] = <<>>] /\ astray' = astray \ {q.model}
  BY <1>0 DEF Answer
<1>7. ASSUME q.parts = <<>> PROVE Len(todo) = 1 /\ seg = todo[1] /\ Tail(todo) = <<>>
  <2>1. Len(todo) = 1
    BY <1>0, <1>1, <1>2, <1>5, <1>7 DEF Going
  <2> QED  BY <1>5, <2>1, OneLeft
<1>8. CASE q.parts # <<>>
  <2>0. PICK from \in 0..size : \E to \in from..size :
          /\ Stream(d, from, to)
          /\ astray' = IF from = seg.from /\ to = seg.to
                       THEN astray ELSE astray \cup {q.model}
    BY <1>6, <1>8
  <2>1. PICK to \in from..size :
          /\ Stream(d, from, to)
          /\ astray' = IF from = seg.from /\ to = seg.to
                       THEN astray ELSE astray \cup {q.model}
    BY <2>0
  <2>2. from \in Nat /\ to \in Nat /\ from <= to /\ to <= size
    BY <1>3
  <2>3. ASSUME q.model \notin astray'
        PROVE  InPlace(p) /\ from = Len(p) /\ Joined(Tail(todo), to)
    <3>1. q.model \notin astray /\ from = seg.from /\ to = seg.to
      BY <2>1, <2>3
    <3>2. Joined(todo, Len(p))
      BY <1>0, <1>1, <1>2, <1>8, <3>1 DEF Lined
    <3> QED  BY <1>2, <1>5, <3>1, <3>2, TailJoins
  <2>4. /\ astray' \subseteq Models /\ \A k \in Models \ {q.model} : k \in astray => k \in astray'
    BY <1>2, <1>4, <2>1
  <2>5. part' = [part EXCEPT ![q.model] = p]
    BY <1>4, <1>6, <1>8
  <2> HIDE DEF seg
  <2> QED  BY <1>0, <1>1, <1>2, <1>8, <2>1, <2>2, <2>3, <2>4, <2>5, StreamPlaces
<1>9. CASE q.parts = <<>> /\ 0 < seg.from /\ seg.from < size
           /\ Stream(d, seg.from, size) /\ UNCHANGED <<part, astray>>
  <2>1. seg.from \in Nat
    BY <1>5, <1>7, <1>9 DEF Segment
  <2>2. ASSUME q.model \notin astray PROVE InPlace(p) /\ seg.from = Len(p)
    BY <1>0, <1>1, <1>2, <1>5, <1>7, <1>9, <2>2 DEF Lined
  <2>3. part' = [part EXCEPT ![q.model] = p] /\ Tail(todo) = <<>>
    BY <1>4, <1>7, <1>9
  <2> DEFINE from == seg.from
  <2>4. /\ from \in Nat /\ Stream(d, from, size) /\ from <= size /\ size <= SizeOf[c]
        /\ q.model \notin astray => InPlace(p) /\ from = Len(p)
    BY <1>3, <1>9, <2>1, <2>2
  <2>5. /\ q.parts = <<>> /\ UNCHANGED astray
    BY <1>9
  <2> HIDE DEF from, seg, size
  <2> QED  BY <1>0, <1>1, <1>2, <1>3, <1>4, <2>3, <2>4, <2>5, StreamPlaces
<1>10. CASE q.parts = <<>> /\ Stream(d, 0, size)
            /\ part' = [part EXCEPT ![q.model] = <<>>] /\ astray' = astray \ {q.model}
  <2>1. PICK file : file = <<>>
    OBVIOUS
  <2>2. /\ Bounded(file) /\ InPlace(file) /\ 0 = Len(file)
        /\ part' = [part EXCEPT ![q.model] = file]
    BY <1>10, <2>1, EmptyInPlace
  <2>3. /\ 0 \in Nat /\ 0 <= size /\ size <= size /\ Tail(todo) = <<>>
        /\ astray' \subseteq Models /\ \A k \in Models \ {q.model} : k \in astray => k \in astray'
    BY <1>3, <1>4, <1>7, <1>10
  <2> HIDE DEF seg
  <2> QED  BY <1>0, <1>1, <1>3, <1>10, <2>2, <2>3, StreamPlaces
<1> QED  BY <1>6, <1>8, <1>9, <1>10

\* A chunk is the block behind the last one.
LEMMA AppendPlaces == ASSUME PlaceInv, ModelInv, NEW d \in Drivers, AppendChunk(d) PROVE PlaceInv'
<1> DEFINE q == driver[d].req
           p == part[q.model]
           next == driver[d].next + 1
           r == [driver[d] EXCEPT !.pc = "check", !.next = next]
<1>1. /\ driver[d].pc = "await" /\ driver[d].next <= driver[d].to
      /\ UNCHANGED <<dest, served, phase, cancel, current, astray>>
  BY DEF AppendChunk, DriverIs, MoreToCome
<1>2. PICK intact \in BOOLEAN :
        part' = [part EXCEPT ![q.model] =
          Append(@, [of |-> driver[d].of, at |-> driver[d].next, intact |-> intact])]
  BY DEF AppendChunk
<1>3. /\ driver[d] \in DriverType /\ q \in Requests /\ q.model \in Models
      /\ Bounded(p) /\ Going(driver[d])
      /\ q.model \notin astray => InPlace(p) /\ Lined(driver[d], p)
  BY <1>1, WorkingDriver
<1>4. /\ driver[d].of \in Contents /\ 0 < driver[d].next
      /\ driver[d].to <= SizeOf[driver[d].of]
  BY <1>1, <1>3 DEF Going
<1>5. Len(p) \in Nat /\ driver[d].next \in Nat /\ driver[d].to \in Nat /\ next \in Nat
      /\ SizeOf[driver[d].of] \in Nat
  BY <1>3, <1>4, SizeAssumption DEF Bounded, DriverType
<1> DEFINE at == driver[d].next
           file == Append(p, [of |-> driver[d].of, at |-> at, intact |-> intact])
<1>6. part' = [part EXCEPT ![q.model] = file]
  BY <1>2, <1>3 DEF PlaceInv, DownloadTypeOK
<1>7. at \in Nat \ {0} /\ at <= SizeOf[driver[d].of] /\ next = at + 1 /\ at <= driver[d].to
  BY <1>1, <1>4, <1>5
<1>8. /\ Bounded(file) /\ Len(file) = Len(p) + 1
      /\ InPlace(p) /\ at = Len(p) + 1 => InPlace(file)
  <2> HIDE DEF p, at
  <2> QED  BY <1>3, <1>4, <1>7, AppendInPlace
<1>9. driver' = [driver EXCEPT ![d].pc = "check", ![d].next = next]
  BY RecordOf DEF AppendChunk, Shape, IsDriver
<1>10. driver' = [driver EXCEPT ![d] = r]
  <2> HIDE DEF next
  <2> QED  BY <1>9, RecordOf DEF Shape
<1>11. /\ r \in DriverType /\ r.req = driver[d].req /\ r.pc = "check" /\ r.todo = driver[d].todo
       /\ r.of = driver[d].of /\ r.next = next /\ r.to = driver[d].to
  <2> HIDE DEF next
  <2> QED  BY <1>3, <1>5, TypedNext
<1> HIDE DEF r, file
<1>12. Going(r)
  BY <1>1, <1>3, <1>4, <1>5, <1>11 DEF Going
<1>13. ASSUME q.model \notin astray PROVE InPlace(file) /\ Lined(r, file)
  <2>1. Lined(driver[d], p) /\ at = Len(p) + 1 /\ InPlace(p)
    BY <1>1, <1>3, <1>13 DEF Lined
  <2>2. r.next = Len(file) + 1 /\ r.next <= r.to + 1
    BY <1>5, <1>7, <1>8, <1>11, <2>1
  <2> HIDE DEF p, next, at
  <2> QED  BY <1>1, <1>8, <1>11, <2>1, <2>2 DEF Lined
<1>14. dest' \in [Models -> Seq(Block)] /\ phase' \in Phases /\ astray' \subseteq Models
  BY <1>1 DEF PlaceInv, DownloadTypeOK
<1> HIDE DEF p, next, at
<1> QED  BY <1>1, <1>6, <1>8, <1>10, <1>11, <1>12, <1>13, <1>14, PlaceStep

\* An answer that has been written to its end leaves the ranges behind it.
LEMMA EndPlaces == ASSUME PlaceInv, ModelInv, NEW d \in Drivers, EndOfAnswer(d) PROVE PlaceInv'
<1> DEFINE q == driver[d].req
           p == part[q.model]
           todo == Tail(driver[d].todo)
           r == [driver[d] EXCEPT !.pc = "fetch", !.todo = todo]
<1>1. /\ driver[d].pc = "await" /\ ~(driver[d].next <= driver[d].to)
      /\ UNCHANGED <<part, dest, served, phase, cancel, current, astray>>
  BY DEF EndOfAnswer, DriverIs, MoreToCome
<1>2. /\ driver[d] \in DriverType /\ Bounded(p) /\ Going(driver[d])
      /\ q.model \notin astray => Lined(driver[d], p)
  BY <1>1, WorkingDriver
<1>3. driver[d].todo # <<>> /\ (q.parts = <<>> => todo = <<>>)
  BY <1>1, <1>2 DEF Going
<1>4. Len(p) \in Nat /\ driver[d].next \in Nat /\ driver[d].to \in Nat
      /\ driver[d].todo \in Seq(Segment)
  BY <1>2 DEF Bounded, DriverType
<1>5. ASSUME q.model \notin astray
      PROVE  driver[d].to = Len(p) /\ (q.parts # <<>> => Joined(todo, driver[d].to))
  <2>1. /\ driver[d].next = Len(p) + 1 /\ driver[d].next <= driver[d].to + 1
        /\ q.parts # <<>> => Joined(todo, driver[d].to)
    BY <1>1, <1>2, <1>5 DEF Lined
  <2> QED  BY <1>1, <1>4, <2>1
<1>6. todo \in Seq(Segment)
  BY <1>3, <1>4
<1>7. driver' = [driver EXCEPT ![d].pc = "fetch", ![d].todo = todo]
  BY RecordOf DEF EndOfAnswer, Shape, IsDriver
<1> HIDE DEF todo, p
<1>8. driver' = [driver EXCEPT ![d] = r]
  BY <1>7, RecordOf DEF Shape
<1>9. r \in DriverType /\ r.req = driver[d].req /\ r.pc = "fetch" /\ r.todo = todo
  BY <1>2, <1>6, TypedFetch
<1> HIDE DEF r
<1>10. Going(r)
  BY <1>1, <1>2, <1>3, <1>9 DEF Going
<1>11. ASSUME q.model \notin astray PROVE Lined(r, p)
  BY <1>3, <1>5, <1>9, <1>11 DEF Lined
<1>12. phase' \in Phases
  BY <1>1 DEF PlaceInv, DownloadTypeOK
<1> QED  BY <1>1, <1>8, <1>9, <1>10, <1>11, <1>12, PlaceStill DEF p

LEMMA PromotePlaces == ASSUME PlaceInv, ModelInv, NEW d \in Drivers, Promote(d) PROVE PlaceInv'
<1> DEFINE m == driver[d].req.model
<1>1. /\ driver[d].pc = "promote" /\ Done(d, "complete")
      /\ dest' = [dest EXCEPT ![m] = part[m]] /\ part' = [part EXCEPT ![m] = <<>>]
      /\ UNCHANGED <<served, phase, cancel, current, astray>>
  BY DEF Promote, DriverIs
<1>2. dest' \in [Models -> Seq(Block)]
  BY <1>1, WorkingDriver DEF PlaceInv, DownloadTypeOK, Bounded
<1>3. "complete" \in Ends
  BY DEF Ends
<1> QED  BY <1>1, <1>2, <1>3, EmptyInPlace, PlaceDone

LEMMA RestingType == Resting \in DriverType /\ Resting.pc = "idle"
  BY DEF Resting, DriverType, Phases

LEMMA FinishPlaces == ASSUME PlaceInv, ModelInv, NEW d \in Drivers, Finish(d) PROVE PlaceInv'
<1>1. /\ driver[d].pc = "done" /\ phase' = driver[d].result
      /\ driver' = [driver EXCEPT ![d] = Resting]
      /\ UNCHANGED <<part, dest, served, cancel, current, astray>>
  BY DEF Finish, DriverIs, Outcome
<1>2. phase' \in Phases
  BY <1>1, WorkingDriver DEF DriverType
<1> HIDE DEF Resting
<1> QED  BY <1>1, <1>2, RestingType, PlaceStill

LEMMA StartPlaces == ASSUME PlaceInv, ModelInv, NEW q \in Requests, Start(q) PROVE PlaceInv'
<1>1. PICK d \in Drivers :
        /\ driver' = [driver EXCEPT ![d] = [Resting EXCEPT !.pc = "begin", !.req = q]]
        /\ cancel' = [cancel EXCEPT ![d] = FALSE] /\ current' = d
  BY DEF Start
<1>2. /\ q.parts # <<>> => ValidParts(q.parts, TotalOf(q))
      /\ phase \notin Active /\ phase' = "downloading"
      /\ UNCHANGED <<part, dest, served, astray>>
  BY DEF Start, MayStart
<1> DEFINE r == [Resting EXCEPT !.pc = "begin", !.req = q]
<1>3. r \in DriverType /\ r.pc = "begin" /\ r.req = q
  <2> HIDE DEF Resting
  <2> QED  BY RestingType, TypedBegin
<1>4. driver' = [driver EXCEPT ![d] = r]
  BY <1>1
<1> HIDE DEF r
<1>5. DownloadTypeOK
  BY DEF PlaceInv
<1>6. /\ driver' \in [Drivers -> DriverType] /\ driver'[d] = r
      /\ \A e \in Drivers \ {d} : driver'[e] = driver[e]
  BY <1>3, <1>4, <1>5 DEF DownloadTypeOK
<1>7. \A e \in Drivers : driver[e].pc = "idle"
  BY <1>2 DEF ModelInv, OnlyOne
<1>8. cancel' \in [Drivers -> BOOLEAN] /\ current' \in Drivers \cup {None} /\ phase' \in Phases
  BY <1>1, <1>2, <1>5 DEF DownloadTypeOK, Phases
<1>9. DownloadTypeOK'
  BY <1>2, <1>5, <1>6, <1>8 DEF DownloadTypeOK
<1>10. Going(r) /\ \A p : Lined(r, p)
  BY <1>2, <1>3 DEF Going, Lined
<1>11. \A e \in Drivers : driver'[e].pc # "idle" =>
         Going(driver'[e]) /\ Lined(driver'[e], part'[driver'[e].req.model])
  BY <1>6, <1>7, <1>10
<1>12. (\A m \in Models : Bounded(part'[m])) /\ (\A m \in Models \ astray' : InPlace(part'[m]))
  BY <1>2 DEF PlaceInv
<1> QED  BY <1>9, <1>11, <1>12 DEF PlaceInv

LEMMA CrashPlaces == ASSUME PlaceInv, Crash PROVE PlaceInv'
<1>1. /\ phase' = "idle" /\ current' = None /\ cancel' = [d \in Drivers |-> FALSE]
      /\ driver' = [d \in Drivers |-> Resting] /\ UNCHANGED <<part, dest, served, astray>>
  BY DEF Crash
<1>2. \A d \in Drivers : driver'[d] = Resting
  BY <1>1
<1> HIDE DEF Resting
<1>3. DownloadTypeOK'
  BY <1>1, RestingType DEF PlaceInv, DownloadTypeOK, Phases
<1>4. (\A m \in Models : Bounded(part'[m])) /\ (\A m \in Models \ astray' : InPlace(part'[m]))
  BY <1>1 DEF PlaceInv
<1> QED  BY <1>2, <1>3, <1>4, RestingType DEF PlaceInv

\* What leaves the drivers and the files alone.
LEMMA OutsidePlaces ==
  ASSUME PlaceInv, UNCHANGED <<driver, part, dest, astray>>, phase' \in Phases,
         served' \in [Models -> Contents], cancel' \in [Drivers -> BOOLEAN],
         current' \in Drivers \cup {None}
  PROVE  PlaceInv'
<1>1. DownloadTypeOK'
  BY DEF PlaceInv, DownloadTypeOK
<1> QED  BY <1>1 DEF PlaceInv

LEMMA DriverPlaces == ASSUME PlaceInv, ModelInv, NEW d \in Drivers, Step(d) PROVE PlaceInv'
<1>0. phase \in Phases
  BY DEF PlaceInv, DownloadTypeOK
<1>1. CASE FindDest(d)
  <2>1. driver[d].pc = "begin" /\ Done(d, "complete") /\ "complete" \in Ends
        /\ UNCHANGED <<part, dest, served, phase, cancel, current, astray>>
    BY <1>1 DEF FindDest, DriverIs, Ends
  <2> QED  BY <2>1, PlaceGone
<1>2. CASE BeginDelta(d) \/ BeginBlob(d)
  BY <1>2, DeltaPlaces, BlobPlaces
<1>3. CASE Answer(d)
  BY <1>3, AnswerPlaces
<1>4. CASE ObserveCancel(d)
  <2>1. driver[d].pc # "idle" /\ Done(d, "cancelled") /\ "cancelled" \in Ends
        /\ UNCHANGED <<part, dest, served, phase, cancel, current, astray>>
    BY <1>4 DEF ObserveCancel, DriverIs, Ends
  <2> QED  BY <2>1, PlaceGone
<1>5. CASE AwaitChunk(d)
  <2>1. driver[d].pc = "check" /\ Goto(d, "await") /\ "await" \in Pcs
        /\ UNCHANGED <<part, dest, served, phase, cancel, current, astray>>
    BY <1>5 DEF AwaitChunk, DriverIs, Pcs
  <2> QED  BY <1>0, <2>1, PlaceGoto
<1>6. CASE AppendChunk(d) \/ EndOfAnswer(d)
  BY <1>6, AppendPlaces, EndPlaces
<1>7. CASE BeginVerify(d)
  <2>1. driver[d].pc = "fetch" /\ Goto(d, "verify") /\ "verify" \in Pcs /\ phase' \in Phases
        /\ UNCHANGED <<part, dest, served, cancel, current, astray>>
    BY <1>7 DEF BeginVerify, DriverIs, Pcs, Phases
  <2> QED  BY <2>1, PlaceGoto
<1>8. CASE Verify(d)
  <2>1. driver[d].pc = "verify" /\ UNCHANGED <<part, dest, served, phase, cancel, current, astray>>
        /\ "promote" \in Pcs /\ "failed" \in Ends
    BY <1>8 DEF Verify, DriverIs, Pcs, Ends
  <2>2. Goto(d, "promote") \/ Done(d, "failed")
    BY <1>8 DEF Verify
  <2>3. CASE Goto(d, "promote")
    BY <1>0, <2>1, <2>3, PlaceGoto
  <2>4. CASE Done(d, "failed")
    BY <2>1, <2>4, PlaceGone
  <2> QED  BY <2>2, <2>3, <2>4
<1>9. CASE Promote(d)
  BY <1>9, PromotePlaces
<1>10. CASE Fail(d)
  <2>1. driver[d].pc # "idle" /\ Done(d, "failed") /\ "failed" \in Ends
        /\ UNCHANGED <<part, dest, served, phase, cancel, current, astray>>
    BY <1>10 DEF Fail, Ends
  <2> QED  BY <2>1, PlaceGone
<1>11. CASE Finish(d)
  BY <1>11, FinishPlaces
<1>12. CASE Send(d)
  <2>1. driver[d].pc = "fetch" /\ driver[d].todo # <<>> /\ Goto(d, "sent") /\ "sent" \in Pcs
        /\ UNCHANGED <<part, dest, served, phase, cancel, current, astray>>
    BY <1>12 DEF Send, DriverIs, Pcs
  <2> QED  BY <1>0, <2>1, PlaceGoto
<1> QED
  BY <1>1, <1>2, <1>3, <1>4, <1>5, <1>6, <1>7, <1>8, <1>9, <1>10, <1>11, <1>12
     DEF Step, Local, Remote

LEMMA PlaceNext == PlaceInv /\ ModelInv /\ [Next]_vars => PlaceInv'
<1> SUFFICES ASSUME PlaceInv, ModelInv, [Next]_vars PROVE PlaceInv'
  OBVIOUS
<1>0. DownloadTypeOK
  BY DEF PlaceInv
<1>1. CASE \E r \in Requests : Start(r)
  BY <1>1, StartPlaces
<1>2. CASE Cancel
  <2>1. cancel' \in [Drivers -> BOOLEAN]
    BY <1>0, <1>2 DEF Cancel, DownloadTypeOK
  <2> QED  BY <1>0, <1>2, <2>1, OutsidePlaces DEF Cancel, DownloadTypeOK
<1>3. CASE \E d \in Drivers : Step(d)
  BY <1>3, DriverPlaces
<1>4. CASE Crash
  BY <1>4, CrashPlaces
<1>5. CASE \E m \in Models, c \in Contents : Republish(m, c)
  <2>1. served' \in [Models -> Contents]
    BY <1>0, <1>5 DEF Republish, DownloadTypeOK
  <2> QED  BY <1>0, <1>5, <2>1, OutsidePlaces DEF Republish, DownloadTypeOK
<1>6. CASE UNCHANGED vars
  BY <1>0, <1>6, OutsidePlaces DEF vars, DownloadTypeOK
<1> QED  BY <1>1, <1>2, <1>3, <1>4, <1>5, <1>6 DEF Next

LEMMA PlaceInit == Init => PlaceInv
<1> SUFFICES ASSUME Init PROVE PlaceInv
  OBVIOUS
<1>1. \A d \in Drivers : driver[d] = Resting
  BY DEF Init
<1> HIDE DEF Resting
<1>2. DownloadTypeOK
  <2>1. part \in [Models -> Seq(Block)] /\ dest \in [Models -> Seq(Block)]
    BY DEF Init
  <2>2. \A m \in Models : \A i \in DOMAIN part[m] : part[m][i].at <= SizeOf[part[m][i].of]
    BY DEF Init
  <2>3. driver \in [Drivers -> DriverType]
    BY RestingType DEF Init
  <2> QED  BY <2>1, <2>2, <2>3 DEF Init, DownloadTypeOK, Phases
<1> QED  BY <1>1, <1>2, EmptyInPlace, RestingType DEF Init, PlaceInv

LEMMA PlaceInvAlways == Spec => []PlaceInv
<1>1. PlaceInv /\ ModelInv /\ [Next]_vars => PlaceInv'
  BY PlaceNext
<1> QED  BY <1>1, PlaceInit, ModelInvAlways, PTL DEF Spec

-------------------------------------------------------------------------------
(* The theorems.                                                             *)

\* Never two drivers on one part file, and never a status that nobody will end,
\* whatever starts, cancels and crashes come (start, finish).
THEOREM OneDriverTheorem == Spec => []OneDriver
<1>1. ModelInv => OneDriver
  <2> SUFFICES ASSUME ModelInv PROVE OneDriver
    OBVIOUS
  <2>1. CASE phase \notin Active
    <3>1. Running = {}
      BY <2>1 DEF ModelInv, OnlyOne, Running
    <3> QED  BY <2>1, <3>1, FS_EmptySet DEF OneDriver
  <2>2. CASE phase \in Active
    <3>1. PICK d \in Drivers : Running = {d}
      BY <2>2 DEF ModelInv, OnlyOne, Alone, Running
    <3> QED  BY <2>2, <3>1, FS_Singleton DEF OneDriver
  <2> QED  BY <2>1, <2>2
<1> QED  BY <1>1, ModelInvAlways, PTL

\* The final files implement ModelStore: a file under a final name is one a trusted
\* key has signed, from its rename on and for good (verify_and_promote).
THEOREM StoreTheorem == Spec => ImplementsModelStore
<1>1. Init => Store!Init
  BY DEF Init, Store!Init
<1>2. ModelInv /\ [Next]_vars => [Store!Next]_dest
  <2> SUFFICES ASSUME ModelInv, [Next]_vars, dest' # dest PROVE Store!Next
    OBVIOUS
  <2>1. PICK d \in Drivers : Promote(d)
    BY DEF Next, vars, Start, Cancel, Step, Local, Remote, Crash, Republish, FindDest, BeginDelta,
           BeginBlob, Send, Answer, ObserveCancel, AwaitChunk, AppendChunk, EndOfAnswer, BeginVerify, Verify,
           Fail, Finish
  <2> DEFINE q == driver[d].req
  <2>2. /\ q \in Requests /\ dest[q.model] = <<>> /\ Verified(part[q.model], q)
        /\ dest' = [dest EXCEPT ![q.model] = part[q.model]]
    BY <2>1, OthersRest DEF Promote, DriverIs, SoundDriver, Working
  <2>3. q.model \in Models /\ part[q.model] \in {Whole(c) : c \in Trusted}
    BY <2>2, RequestAssumption DEF Verified
  <2> HIDE DEF q
  <2> QED  BY <2>2, <2>3 DEF Store!Next, Store!Store
<1> QED
  BY <1>1, <1>2, ModelInvAlways, PTL DEF Spec, ImplementsModelStore, Store!Spec

\* The state has the declared shape, and nothing longer than what a server publishes
\* is ever on disk (stream_chunks).
THEOREM DownloadTypeTheorem == Spec => []DownloadTypeOK
<1>1. PlaceInv => DownloadTypeOK
  BY DEF PlaceInv
<1> QED  BY <1>1, PlaceInvAlways, PTL

\* A resumed download neither repeats nor skips bytes of its own accord, whatever sizes,
\* manifests, crashes, cancels and republications there are (resume_decision,
\* parts_to_fetch, part_resume_boundary): a block is out of its place only in a part file
\* into which a body went that is not the part its manifest describes.
THEOREM BlocksTheorem == Spec => []BlocksInPlace
<1>1. PlaceInv => BlocksInPlace
  BY DEF PlaceInv, InPlace, BlocksInPlace
<1> QED  BY <1>1, PlaceInvAlways, PTL
===============================================================================
