-------------------------- MODULE ChatTurns_proofs --------------------------
(***************************************************************************)
(* Proofs about ChatTurns, for any number of Turns, pending requests,      *)
(* retries, resumes, stops and faults.                                     *)
(*                                                                         *)
(* The inductive invariant is built in layers, each resting on the ones    *)
(* before it: where the threads are (Shape, ThreadInv), who executes and   *)
(* how often the provider was given an input (FenceInv), what was          *)
(* published (LedgerInv), who has the Session (LockInv, QueueInv,          *)
(* ClaimInv, ClosedInv).                                                   *)
(***************************************************************************)
EXTENDS ChatTurns, WellFoundedInduction, TLAPS

\* The points at which a worker has taken the execution fence of its Turn.
Executing == {"check", "call", "provider", "backoff", "commit", "finalize", "failed", "stale"}

\* The records of the state.
SessionRec == [status : {"ready", "busy", "stale", "resuming", "resume_failed", "closed"},
               active : Turns \cup {None}]
TurnRec == [status : Statuses \cup {"absent"}, route : {"submit", "queue", None},
            sealed : BOOLEAN, recovered : BOOLEAN]
LogRec == [user : Nat, queued : BOOLEAN, answers : Nat, failures : Nat,
           stops : Nat, stopAsked : BOOLEAN, retries : 0..MaxRetries]
FenceRec == [by : Workers \cup {None, "recovery"}, record : BOOLEAN, here : BOOLEAN]
RunRec == [pc : RunPoints, turn : Turns \cup {None}, tool : BOOLEAN]
StopRec == [pc : {"idle", "capture", "signal", "wait", "publish"},
            on : Workers \cup {None}, active : BOOLEAN]
DoneRec == [by : Workers \cup {None}, set : BOOLEAN]
HoldsRec == [calls : SUBSET Turns, runs : SUBSET Workers]
LockPoints == {"free", "resume", "ensure", "fail", "event", "start", "close"}
AlockRec == [by : Workers \cup {None, "resume", "close"}, at : LockPoints,
             accepted : Turns \cup {None}, victim : Turns \cup {None}, preserve : BOOLEAN]
ResumeRec == [calls : 0..MaxResumes, waiting : BOOLEAN]

DiskShape == /\ session \in SessionRec /\ turn \in [Turns -> TurnRec] /\ log \in [Turns -> LogRec]
             /\ order \in Seq(Turns) /\ runs \in [Turns -> Nat]
ThreadShape == /\ run \in [Workers -> RunRec] /\ stop \in [Turns -> StopRec]
               /\ calls \in [Turns -> {"idle", "prepare", "start", "wake"}]
MemoryShape == /\ fence \in [Turns -> FenceRec] /\ done \in [Turns -> DoneRec]
               /\ cancelled \subseteq Turns /\ wake \in BOOLEAN /\ adapter \in {"none", "sick", "up"}
               /\ holds \in HoldsRec /\ alock \in AlockRec /\ resume \in ResumeRec
               /\ faults \in 0..MaxFaults
Shape == DiskShape /\ ThreadShape /\ MemoryShape

\* A worker past the fence is the one the fence names; until the provider is called,
\* and while a retry waits, the input was given once for each recorded retry; then
\* it was given once more.
ExecutesAlone(w) ==
  LET t == run[w].turn IN
  /\ fence[t].by = w
  /\ turn[t].status \notin {"absent", "queued"}
  /\ run[w].pc \in {"check", "call", "backoff"} => runs[t] = log[t].retries
  /\ run[w].pc = "provider" => runs[t] = log[t].retries + 1
  /\ run[w].pc \in {"commit", "finalize"} => runs[t] >= 1
  /\ run[w].pc \in {"check", "call", "provider", "backoff", "commit"} =>
       turn[t].status \notin {"completing", "completed"}
  /\ run[w].pc = "finalize" => turn[t].status \in {"completing", "completed"}

\* The status of a Turn tells whether the provider was given it.
RunsTold(t) ==
  /\ turn[t].status \in {"absent", "queued"} => runs[t] = 0 /\ log[t].retries = 0
  /\ turn[t].status \in {"completing", "completed"} => runs[t] >= 1

FenceInv ==
  /\ \A w \in Workers : run[w].pc \in Executing => ExecutesAlone(w)
  /\ \A t \in Turns : RunsTold(t)

\* What a Turn has published, by its status; a stop that is about to publish its
\* outcome is the first to do so.
Ledger(t) ==
  /\ log[t].user <= 1 /\ log[t].answers <= 1 /\ log[t].stops <= 1
  /\ turn[t].status \notin {"completing", "completed"} => log[t].answers = 0
  /\ turn[t].status \notin Failures => log[t].failures = 0
  /\ turn[t].status # "interrupted" => log[t].stops = 0
  /\ turn[t].status = "completed" => log[t].answers = 1
  /\ stop[t].pc = "publish" => turn[t].status = "interrupted" /\ log[t].stops = 0
  /\ log[t].stopAsked => turn[t].status \in {"interrupting", "interrupted", "failed"}

\* Whoever is about to publish a failure has recorded one: a worker, the queue worker
\* after a preparation that failed, a preparation that failed the Turn it took over.
LedgerInv ==
  /\ \A t \in Turns : Ledger(t)
  /\ \A w \in Workers : run[w].pc \in {"failed", "forget", "forgetActive"} =>
                            turn[run[w].turn].status \in Failures
  /\ alock.at = "event" => turn[alock.victim].status \in Failures

-----------------------------------------------------------------------------
(* What the model's updates do to one record.                                *)

Input(r, i, b) == [r EXCEPT !.user = i, !.queued = b]

\* What a write of the input leaves alone.
SameOutcome(n, r) == /\ n.answers = r.answers /\ n.failures = r.failures /\ n.stops = r.stops
                     /\ n.retries = r.retries

\* The input is in the transcript, and its event says so.
LEMMA InputRecord ==
  ASSUME NEW r \in LogRec, NEW i \in Nat, NEW b \in BOOLEAN
  PROVE  LET n == Input(r, i, b) IN
         /\ n \in LogRec /\ n.user = i /\ n.queued = b
         /\ SameOutcome(n, r) /\ n.stopAsked = r.stopAsked
BY DEF LogRec, Input, SameOutcome

\* An answer is published once.
LEMMA AnsweredRecord ==
  ASSUME NEW r \in LogRec
  PROVE  LET n == Answered(r) IN
         /\ n \in LogRec
         /\ r.answers # 0 => n = r
         /\ r.answers = 0 => n.answers = 1
         /\ n.user = r.user /\ n.queued = r.queued /\ n.failures = r.failures
         /\ n.stops = r.stops /\ n.retries = r.retries /\ n.stopAsked = r.stopAsked
BY DEF LogRec, Answered

Stopping(r, i, b) == [r EXCEPT !.stopAsked = TRUE, !.user = i, !.queued = b]

\* The request to stop, with the input a prepared acceptance had not published.
LEMMA StopRecord ==
  ASSUME NEW r \in LogRec, NEW i \in Nat, NEW b \in BOOLEAN
  PROVE  LET n == Stopping(r, i, b) IN
         /\ n \in LogRec /\ n.user = i /\ n.queued = b /\ n.stopAsked
         /\ SameOutcome(n, r)
<1> DEFINE m == [r EXCEPT !.stopAsked = TRUE]
<1>1. Stopping(r, i, b) = Input(m, i, b)
  BY DEF LogRec, Stopping, Input
<1>2. m \in LogRec /\ m.stopAsked
  BY DEF LogRec
<1>3. SameOutcome(m, r)
  BY DEF LogRec, SameOutcome
<1> HIDE DEF m
<1>4. /\ Input(m, i, b) \in LogRec /\ Input(m, i, b).user = i /\ Input(m, i, b).queued = b
      /\ SameOutcome(Input(m, i, b), m) /\ Input(m, i, b).stopAsked = m.stopAsked
  BY <1>2, InputRecord
<1> QED BY <1>1, <1>2, <1>3, <1>4 DEF SameOutcome

-----------------------------------------------------------------------------
(* What the model's updates do to the state, field by field.                 *)

\* The Turns other than t keep their files, and t keeps its route.
OthersKept(t) == \A u \in Turns \ {t} : turn'[u] = turn[u]

\* A status that is written alone.
LEMMA StatusWrite ==
  ASSUME turn \in [Turns -> TurnRec], NEW t \in Turns, NEW s \in Statuses, SetStatus(t, s)
  PROVE  /\ turn' \in [Turns -> TurnRec] /\ OthersKept(t)
         /\ turn'[t].status = s /\ turn'[t].route = turn[t].route
         /\ turn'[t].sealed = turn[t].sealed /\ turn'[t].recovered = turn[t].recovered
BY DEF TurnRec, SetStatus, OthersKept

\* A failure that is written to the Turn file.
LEMMA FailedWrite ==
  ASSUME turn \in [Turns -> TurnRec], NEW t \in Turns, NEW s \in Statuses, NEW r \in BOOLEAN,
         turn' = Failed(t, s, r)
  PROVE  /\ turn' \in [Turns -> TurnRec] /\ OthersKept(t)
         /\ turn'[t].status = s /\ turn'[t].route = turn[t].route
         /\ turn'[t].sealed = turn[t].sealed /\ turn'[t].recovered = r
BY DEF TurnRec, Failed, OthersKept

\* begin_turn_interrupt writes the status and finishes the acceptance.
LEMMA StoppedWrite ==
  ASSUME turn \in [Turns -> TurnRec], NEW t \in Turns,
         StopBegin(t)
  PROVE  /\ turn' \in [Turns -> TurnRec] /\ OthersKept(t)
         /\ turn'[t].status = "interrupting" /\ turn'[t].route = turn[t].route
         /\ turn'[t].sealed /\ turn'[t].recovered = turn[t].recovered
<1>1. turn' = [turn EXCEPT ![t].status = "interrupting", ![t].sealed = TRUE]
  BY Zenon DEF StopBegin
<1> QED BY <1>1 DEF TurnRec, Statuses, OthersKept

\* An acceptance of a new Turn, and of one that is on file.
LEMMA AcceptedTurnWrite ==
  ASSUME Shape, NEW t \in Turns, NEW k \in 1..5, Accept(t, k)
  PROVE  /\ turn' \in [Turns -> TurnRec] /\ OthersKept(t)
         /\ turn[t].status = "absent" =>
              turn'[t].status = "queued" /\ turn'[t].route = "submit" /\ ~turn'[t].recovered
         /\ turn[t].status # "absent" =>
              /\ turn'[t].status = turn[t].status /\ turn'[t].route = turn[t].route
              /\ turn'[t].recovered = turn[t].recovered
              /\ turn[t].sealed => turn'[t].sealed
<1> DEFINE new == [Absent EXCEPT !.status = "queued", !.route = "submit", !.sealed = (k = 5)]
           old == [turn[t] EXCEPT !.sealed = turn[t].sealed \/ k = 5]
<1>1. turn \in [Turns -> TurnRec] /\ turn[t] \in TurnRec /\ Status(t) = turn[t].status
  BY ConstantsDistinct DEF Shape, DiskShape, Workers, Status
<1>2. turn' = [turn EXCEPT ![t] = IF Status(t) = "absent" THEN new ELSE old]
  BY DEF Accept
<1>3. new \in TurnRec
  BY DEF Statuses, TurnRec, Absent
<1>4. new.status = "queued" /\ new.route = "submit" /\ ~new.recovered
  BY DEF Absent
<1>6. old \in TurnRec
  BY <1>1 DEF TurnRec
<1>7. /\ old.status = turn[t].status /\ old.route = turn[t].route
      /\ old.recovered = turn[t].recovered /\ (turn[t].sealed => old.sealed)
  BY <1>1 DEF TurnRec
<1> HIDE DEF new, old
<1> QED BY <1>1, <1>2, <1>3, <1>4, <1>6, <1>7 DEF OthersKept

\* create_queued_turn puts a sealed Turn on file.
LEMMA QueuedTurnWrite ==
  ASSUME turn \in [Turns -> TurnRec], NEW t \in Turns, NEW k \in 1..3, CreateQueued(t, k)
  PROVE  /\ turn' \in [Turns -> TurnRec] /\ OthersKept(t)
         /\ turn'[t].status = "queued" /\ turn'[t].route = "queue" /\ turn'[t].sealed
<1> DEFINE new == [Absent EXCEPT !.status = "queued", !.route = "queue", !.sealed = TRUE]
<1>1. turn' = [turn EXCEPT ![t] = new]
  BY DEF CreateQueued
<1>2. new \in TurnRec
  BY DEF Statuses, TurnRec, Absent
<1>3. new.status = "queued" /\ new.route = "queue" /\ new.sealed
  BY DEF Absent
<1> HIDE DEF new
<1> QED BY <1>1, <1>2, <1>3 DEF OthersKept

\* The other Turns' logs are as they were, and nobody asked to stop t.
LogsKept(t) == \A u \in Turns \ {t} : log'[u] = log[u]

\* The report of a stop.
LEMMA StopReportWrite ==
  ASSUME log \in [Turns -> LogRec], NEW t \in Turns, log' = [log EXCEPT ![t].stops = @ + 1]
  PROVE  /\ log' \in [Turns -> LogRec] /\ LogsKept(t)
         /\ log'[t].stops = log[t].stops + 1 /\ log'[t].user = log[t].user
         /\ log'[t].answers = log[t].answers /\ log'[t].failures = log[t].failures
         /\ log'[t].retries = log[t].retries /\ log'[t].stopAsked = log[t].stopAsked
BY DEF LogRec, LogsKept

\* The report of a failure.
LEMMA FailureWrite ==
  ASSUME log \in [Turns -> LogRec], NEW t \in Turns, log' = ReportFailure(t)
  PROVE  /\ log' \in [Turns -> LogRec] /\ LogsKept(t)
         /\ log'[t].failures = log[t].failures + 1 /\ log'[t].user = log[t].user
         /\ log'[t].answers = log[t].answers /\ log'[t].stops = log[t].stops
         /\ log'[t].retries = log[t].retries /\ log'[t].stopAsked = log[t].stopAsked
BY DEF LogRec, LogsKept, ReportFailure

\* The record of a retry.
LEMMA RetryWrite ==
  ASSUME log \in [Turns -> LogRec], NEW t \in Turns, log' = [log EXCEPT ![t].retries = @ + 1],
         log[t].retries < MaxRetries
  PROVE  /\ log' \in [Turns -> LogRec] /\ LogsKept(t)
         /\ log'[t].retries = log[t].retries + 1 /\ log'[t].user = log[t].user
         /\ log'[t].answers = log[t].answers /\ log'[t].failures = log[t].failures
         /\ log'[t].stops = log[t].stops /\ log'[t].stopAsked = log[t].stopAsked
BY ConstantsDistinct DEF LogRec, LogsKept

\* The answer of a completed Turn.
LEMMA AnswerWrite ==
  ASSUME log \in [Turns -> LogRec], NEW t \in Turns, log' = Answer(t)
  PROVE  /\ log' \in [Turns -> LogRec] /\ LogsKept(t)
         /\ log[t].answers # 0 => log' = log
         /\ log[t].answers = 0 => log'[t].answers = 1
         /\ log'[t].user = log[t].user /\ log'[t].failures = log[t].failures
         /\ log'[t].stops = log[t].stops /\ log'[t].retries = log[t].retries
         /\ log'[t].stopAsked = log[t].stopAsked
<1>1. log' = [log EXCEPT ![t] = Answered(log[t])] /\ log[t] \in LogRec
  BY DEF Answer
<1>2. log[t].answers # 0 => log' = log
  BY <1>1, AnsweredRecord
<1> QED BY <1>1, <1>2, AnsweredRecord DEF LogsKept

\* What the three publications of an input have in common.
InputWritten(t) ==
  /\ log' \in [Turns -> LogRec] /\ LogsKept(t)
  /\ log'[t].user \in {1, log[t].user}
  /\ SameOutcome(log'[t], log[t])

\* The user's message and its event.
LEMMA InputWrite ==
  ASSUME log \in [Turns -> LogRec], NEW t \in Turns, NEW i \in Nat, NEW b \in BOOLEAN,
         i \in {1, log[t].user}, log' = [log EXCEPT ![t] = Input(log[t], i, b)]
  PROVE  InputWritten(t) /\ log'[t].stopAsked = log[t].stopAsked
<1> DEFINE new == Input(log[t], i, b)
<1>1. log' = [log EXCEPT ![t] = new]
  OBVIOUS
<1>2. log[t] \in LogRec
  OBVIOUS
<1>3. /\ new \in LogRec /\ new.user = i /\ new.queued = b
      /\ SameOutcome(new, log[t]) /\ new.stopAsked = log[t].stopAsked
  BY <1>2, InputRecord
<1> HIDE DEF new
<1> QED BY <1>1, <1>3 DEF LogsKept, InputWritten

\* _recover_queued_turn_input.
LEMMA RecoveredInputWrite ==
  ASSUME log \in [Turns -> LogRec], NEW t \in Turns, log' = RecoverInput(t)
  PROVE  InputWritten(t) /\ log'[t].stopAsked = log[t].stopAsked
<1>1. PICK i \in Nat : i = IF log[t].user = 0 THEN 1 ELSE log[t].user
  BY DEF LogRec
<1>2. log' = [log EXCEPT ![t] = Input(log[t], i, TRUE)]
  BY <1>1 DEF RecoverInput, Input
<1> QED BY <1>1, <1>2, InputWrite

\* The input that accept_managed_turn publishes.
LEMMA AcceptedInputWrite ==
  ASSUME log \in [Turns -> LogRec], NEW t \in Turns, NEW k \in 1..5, Accept(t, k)
  PROVE  InputWritten(t) /\ log'[t].stopAsked = log[t].stopAsked
<1>1. PICK i \in Nat : i = IF k >= 3 /\ log[t].user = 0 THEN 1 ELSE log[t].user
  BY DEF LogRec
<1>2. PICK b \in BOOLEAN : b = (log[t].queued \/ k >= 4)
  OBVIOUS
<1>3. log' = [log EXCEPT ![t] = Input(log[t], i, b)]
  BY <1>1, <1>2 DEF Accept, Input
<1> QED BY <1>1, <1>2, <1>3, InputWrite

\* The input that create_queued_turn publishes.
LEMMA QueuedInputWrite ==
  ASSUME log \in [Turns -> LogRec], NEW t \in Turns, NEW k \in 1..3, CreateQueued(t, k)
  PROVE  InputWritten(t) /\ log'[t].stopAsked = log[t].stopAsked
<1>1. PICK i \in Nat : i = IF k >= 2 THEN 1 ELSE log[t].user
  BY DEF LogRec
<1>2. PICK b \in BOOLEAN : b = (k = 3)
  OBVIOUS
<1>3. log' = [log EXCEPT ![t] = Input(log[t], i, b)]
  BY <1>1, <1>2 DEF CreateQueued, Input
<1> QED BY <1>1, <1>2, <1>3, InputWrite

\* The input that a stop publishes for a prepared acceptance.
LEMMA StoppedInputWrite ==
  ASSUME log \in [Turns -> LogRec], NEW t \in Turns, StopBegin(t)
  PROVE  InputWritten(t) /\ log'[t].stopAsked
<1>1. PICK i \in Nat : i = IF turn[t].sealed THEN log[t].user ELSE 1
  BY DEF LogRec
<1>2. PICK b \in BOOLEAN : b = (log[t].queued \/ ~turn[t].sealed)
  OBVIOUS
<1> DEFINE new == Stopping(log[t], i, b)
<1>3. log' = [log EXCEPT ![t] = new]
  BY <1>1, <1>2 DEF StopBegin, Stopping
<1>4. log[t] \in LogRec
  OBVIOUS
<1>5. /\ new \in LogRec /\ new.user = i /\ new.queued = b /\ new.stopAsked
      /\ SameOutcome(new, log[t])
  BY <1>4, StopRecord
<1> HIDE DEF new
<1> QED BY <1>1, <1>3, <1>5 DEF LogsKept, InputWritten

\* A thread goes on to its next point.
LEMMA Goes ==
  ASSUME run \in [Workers -> RunRec], NEW w \in Workers, NEW pc \in RunPoints, Goto(w, pc)
  PROVE  /\ run' \in [Workers -> RunRec] /\ \A v \in Workers \ {w} : run'[v] = run[v]
         /\ run'[w].pc = pc /\ run'[w].turn = run[w].turn /\ run'[w].tool = run[w].tool
BY DEF RunRec, Goto


\* A thread goes to a point with a Turn.
LEMMA GoesTo ==
  ASSUME run \in [Workers -> RunRec], NEW w \in Workers, NEW pc \in RunPoints,
         NEW t \in Turns \cup {None}, run' = [run EXCEPT ![w] = Thread(pc, t)]
  PROVE  /\ run' \in [Workers -> RunRec] /\ \A v \in Workers \ {w} : run'[v] = run[v]
         /\ run'[w].pc = pc /\ run'[w].turn = t /\ ~run'[w].tool
BY DEF RunRec, Thread

\* A worker goes on, and what the provider did is forgotten or not.
LEMMA GoesOn ==
  ASSUME run \in [Workers -> RunRec], NEW w \in Workers, NEW pc \in RunPoints, NEW b \in BOOLEAN,
         run' = [run EXCEPT ![w].pc = pc, ![w].tool = b]
  PROVE  /\ run' \in [Workers -> RunRec] /\ \A v \in Workers \ {w} : run'[v] = run[v]
         /\ run'[w].pc = pc /\ run'[w].turn = run[w].turn /\ run'[w].tool = b
BY DEF RunRec

\* The acknowledgement of a worker changes what a stop waits for, not where it is.
LEMMA AcknowledgedWrite ==
  ASSUME stop \in [Turns -> StopRec], NEW w, NEW t \in Turns, stop' = Acknowledged(w, t)
  PROVE  /\ stop' \in [Turns -> StopRec] /\ \A u \in Turns : stop'[u].pc = stop[u].pc
BY DEF StopRec, Acknowledged

\* The end of _run_turn gives back what the worker had, and nothing of another.
LEMMA EndRunWrite ==
  ASSUME Shape, NEW w \in Workers, run[w].turn \in Turns, EndRun(w)
  PROVE  /\ run' \in [Workers -> RunRec] /\ \A v \in Workers \ {w} : run'[v] = run[v]
         /\ run'[w].pc = (IF w = Queue THEN "loop" ELSE "idle") /\ run'[w].turn = None /\ ~run'[w].tool
         /\ fence' \in [Turns -> FenceRec]
         /\ \A u \in Turns : fence'[u].by = IF u = run[w].turn /\ fence[u].by = w
                                             THEN None ELSE fence[u].by
         /\ done' \in [Turns -> DoneRec]
         /\ stop' \in [Turns -> StopRec] /\ \A u \in Turns : stop'[u].pc = stop[u].pc
         /\ holds' \in HoldsRec /\ holds'.runs \subseteq holds.runs /\ holds'.calls = holds.calls
<1>1. PICK t \in Turns : t = run[w].turn
  OBVIOUS
<1>2. /\ run \in [Workers -> RunRec] /\ fence \in [Turns -> FenceRec] /\ done \in [Turns -> DoneRec]
      /\ stop \in [Turns -> StopRec] /\ holds \in HoldsRec
  BY DEF Shape, ThreadShape, MemoryShape
<1>3. /\ run' \in [Workers -> RunRec] /\ \A v \in Workers \ {w} : run'[v] = run[v]
      /\ run'[w].pc = (IF w = Queue THEN "loop" ELSE "idle") /\ run'[w].turn = None /\ ~run'[w].tool
  <2>1. PICK pc \in RunPoints : pc = IF w = Queue THEN "loop" ELSE "idle"
    BY DEF RunPoints
  <2>2. run' = [run EXCEPT ![w] = Thread(pc, None)]
    BY <2>1 DEF EndRun, Idle
  <2>3. None \in Turns \cup {None}
    OBVIOUS
  <2> QED BY <1>2, <2>1, <2>2, <2>3, GoesTo
<1>4. fence' = IF fence[t].by = w THEN [fence EXCEPT ![t].by = None] ELSE fence
  BY <1>1 DEF EndRun
<1>5. fence' \in [Turns -> FenceRec]
  BY <1>2, <1>4 DEF FenceRec
<1>6. \A u \in Turns : fence'[u].by = IF u = t /\ fence[u].by = w THEN None ELSE fence[u].by
  BY <1>2, <1>4 DEF FenceRec
<1>7. done' \in [Turns -> DoneRec]
  <2>1. done' = [done EXCEPT ![t] = IF done[t].by = w THEN NoEvent ELSE done[t]]
    BY <1>1 DEF EndRun
  <2>2. NoEvent \in DoneRec
    BY DEF NoEvent, DoneRec
  <2> HIDE DEF NoEvent
  <2> QED BY <1>2, <2>1, <2>2
<1>8. stop' \in [Turns -> StopRec] /\ \A u \in Turns : stop'[u].pc = stop[u].pc
  BY <1>1, <1>2, AcknowledgedWrite DEF EndRun
<1>9. holds' \in HoldsRec /\ holds'.runs \subseteq holds.runs /\ holds'.calls = holds.calls
  BY <1>2 DEF EndRun, HoldsRec
<1> QED BY <1>1, <1>3, <1>5, <1>6, <1>7, <1>8, <1>9

\* release_active_turn.
LEMMA ReleaseWrite ==
  ASSUME session \in SessionRec, NEW t \in Turns, ReleaseActive(t)
  PROVE  /\ session' \in SessionRec /\ run[Queue].pc # "claimed"
         /\ session.active # t => session' = session
         /\ session.active = t => session'.active = None /\ session'.status = "ready"
BY DEF SessionRec, ReleaseActive, SetSession, SessionFree, At

\* The threads whose adapter object is the current one.
LEMMA HoldsCallsWrite ==
  ASSUME NEW h \in HoldsRec, NEW c \in SUBSET Turns
  PROVE  [h EXCEPT !.calls = c] \in HoldsRec
BY DEF HoldsRec

\* The workers among them.
LEMMA HoldsRunsWrite ==
  ASSUME NEW h \in HoldsRec, NEW r \in SUBSET Workers
  PROVE  [h EXCEPT !.runs = r] \in HoldsRec /\ [h EXCEPT !.runs = r].runs = r
BY DEF HoldsRec


-----------------------------------------------------------------------------
(* The actors, and the shape of the state.                                   *)

Client(t) ==
  \/ Submit(t) \/ (\E k \in 1..4 : SubmitCut(t, k)) \/ (\E k \in 1..3 : CreateQueued(t, k))
  \/ RetryQueued(t) \/ StartWorker(t) \/ WakeQueue(t)
Worker(w) ==
  \/ StartTurn(w) \/ Check(w, "check", "call") \/ CallProvider(w) \/ ToolRuns(w) \/ PlanRetry(w)
  \/ Retry(w) \/ Check(w, "provider", "commit") \/ CommitAnswer(w)
  \/ (\E k \in 1..3 : FinalizeTurn(w, k)) \/ (\E s \in Failures : ProviderFails(w, s))
  \/ PublishFailure(w) \/ MarkStale(w) \/ WorkerDies(w)
Stopper(t) ==
  \/ StopBegin(t) \/ StopFinalizes(t) \/ StopCapture(t) \/ StopSignal(t) \/ StopUnconfirmed(t)
  \/ StopMark(t) \/ StopPublish(t)
Recovery(t) == RecoverLost(t) \/ (\E k \in 1..3 : RecoverFail(t, k)) \/ RecoverComplete(t)
Preparer == PrepareStep \/ PrepareCut
Service == PollQueue \/ Close \/ CloseAdapter \/ AdapterLost \/ Restart

\* Every step is one of these actors'.
LEMMA NextCases ==
  ASSUME Next
  PROVE  \/ \E t \in Turns : Client(t) \/ Stopper(t) \/ Recovery(t)
         \/ \E w \in Workers : Worker(w)
         \/ QueueStep \/ Preparer \/ Service
<1>1. 3 \in 1..3 /\ \A k \in 1..2 : k \in 1..3
  OBVIOUS
<1> QED
  BY <1>1 DEF Next, CallStep, RunStep, StopStep, RecoverStep, Client, Worker, Stopper, Recovery,
              Preparer, Service

\* A thread that works on a Turn has one, and a Turn's own thread only runs it; what
\* the provider did matters while its answer or a retry is waited for.
ThreadInv ==
  /\ \A w \in Workers : run[w].pc \notin {"idle", "loop", "scan", "retire"} => run[w].turn \in Turns
  /\ \A w \in Workers : run[w].tool => run[w].pc \in {"provider", "backoff"}
  /\ \A t \in Turns : run[t].pc \in Executing \cup {"idle", "fence"}
  /\ alock.by = Queue => run[Queue].pc \in {"adapt", "prepareActive"}
  /\ alock.at = "event" => alock.victim \in Turns

\* The callers of submit_turn and enqueue_turn keep the shape.
LEMMA ClientShape ==
  ASSUME Shape, NEW t \in Turns, Client(t)
  PROVE  Shape'
<1>1. /\ session \in SessionRec /\ turn \in [Turns -> TurnRec] /\ log \in [Turns -> LogRec]
      /\ order \in Seq(Turns) /\ runs \in [Turns -> Nat]
      /\ run \in [Workers -> RunRec] /\ stop \in [Turns -> StopRec]
      /\ calls \in [Turns -> {"idle", "prepare", "start", "wake"}]
      /\ fence \in [Turns -> FenceRec] /\ done \in [Turns -> DoneRec]
      /\ cancelled \subseteq Turns /\ wake \in BOOLEAN /\ adapter \in {"none", "sick", "up"}
      /\ holds \in HoldsRec /\ alock \in AlockRec /\ resume \in ResumeRec
      /\ faults \in 0..MaxFaults
  BY DEF Shape, DiskShape, ThreadShape, MemoryShape
<1>2. ASSUME NEW k \in 1..5, Accept(t, k)
      PROVE  /\ turn' \in [Turns -> TurnRec] /\ log' \in [Turns -> LogRec]
             /\ session' \in SessionRec /\ order' \in Seq(Turns)
  <2>1. turn' \in [Turns -> TurnRec]
    BY <1>2, AcceptedTurnWrite
  <2>2. log' \in [Turns -> LogRec]
    BY <1>1, <1>2, AcceptedInputWrite DEF InputWritten
  <2>3. session' \in SessionRec
    BY <1>1, <1>2 DEF Accept, SetSession, SessionRec
  <2>4. order' \in Seq(Turns)
    BY <1>1, <1>2 DEF Accept
  <2> QED BY <2>1, <2>2, <2>3, <2>4
<1>3. CASE Submit(t)
  <2>1. Accept(t, 5) /\ 5 \in 1..5
    BY <1>3 DEF Submit
  <2>2. /\ turn' \in [Turns -> TurnRec] /\ log' \in [Turns -> LogRec]
        /\ session' \in SessionRec /\ order' \in Seq(Turns)
    BY <1>2, <2>1
  <2>3. calls' \in [Turns -> {"idle", "prepare", "start", "wake"}]
    BY <1>1, <1>3 DEF Submit
  <2>4. adapter' \in {"none", "sick", "up"} /\ alock' \in AlockRec /\ resume' \in ResumeRec
    <3>1. \/ UNCHANGED <<adapter, alock, resume>>
          \/ /\ adapter' = "none" /\ UNCHANGED resume
             /\ alock' = [Unlocked EXCEPT !.by = t, !.at = "fail", !.accepted = t]
      BY <1>3 DEF Submit, link
    <3>2. [Unlocked EXCEPT !.by = t, !.at = "fail", !.accepted = t] \in AlockRec
      BY DEF Unlocked, AlockRec, Workers, LockPoints
    <3> QED BY <1>1, <3>1, <3>2
  <2>5. holds' \in HoldsRec
    <3>1. holds' = holds \/ holds' = [holds EXCEPT !.calls = @ \cup {t}] \/ holds' = NoHolder
      BY <1>3 DEF Submit
    <3>2. NoHolder \in HoldsRec
      BY DEF HoldsRec, NoHolder
    <3>3. [holds EXCEPT !.calls = @ \cup {t}] \in HoldsRec
      BY <1>1, HoldsCallsWrite DEF HoldsRec
    <3> QED BY <1>1, <3>1, <3>2, <3>3
  <2>6. UNCHANGED <<runs, fence, run, stop, done, cancelled, wake, faults>>
    BY <1>3 DEF Submit
  <2> QED
    BY <1>1, <2>2, <2>3, <2>4, <2>5, <2>6 DEF Shape, DiskShape, ThreadShape, MemoryShape
<1>4. ASSUME NEW k \in 1..4, SubmitCut(t, k) PROVE Shape'
  <2>1. Accept(t, k) /\ k \in 1..5
    BY <1>4 DEF SubmitCut
  <2>2. /\ turn' \in [Turns -> TurnRec] /\ log' \in [Turns -> LogRec]
        /\ session' \in SessionRec /\ order' \in Seq(Turns)
    BY <1>2, <2>1
  <2>3. faults' \in 0..MaxFaults
    BY <1>1, <1>4, ConstantsDistinct DEF SubmitCut, Fault
  <2>4. UNCHANGED <<runs, fence, run, calls, stop, done, cancelled, wake, holds, adapter, alock, resume>>
    BY <1>4 DEF SubmitCut, threads, memory, link
  <2> QED
    BY <1>1, <2>2, <2>3, <2>4 DEF Shape, DiskShape, ThreadShape, MemoryShape
<1>5. ASSUME NEW k \in 1..3, CreateQueued(t, k) PROVE Shape'
  <2>1. turn' \in [Turns -> TurnRec]
    BY <1>1, <1>5, QueuedTurnWrite
  <2>2. log' \in [Turns -> LogRec]
    BY <1>1, <1>5, QueuedInputWrite DEF InputWritten
  <2>3. order' \in Seq(Turns) /\ calls' \in [Turns -> {"idle", "prepare", "start", "wake"}]
    <3>1. order' = Append(order, t) /\ calls' \in {calls, [calls EXCEPT ![t] = "wake"]}
      BY <1>5 DEF CreateQueued
    <3>2. order' \in Seq(Turns)
      BY <1>1, <3>1
    <3>3. calls' \in [Turns -> {"idle", "prepare", "start", "wake"}]
      BY <1>1, <3>1
    <3> QED BY <3>2, <3>3
  <2>4. faults' \in 0..MaxFaults
    BY <1>1, <1>5, ConstantsDistinct DEF CreateQueued, Fault
  <2>5. UNCHANGED <<session, runs, fence, run, stop, done, cancelled, wake, holds, adapter, alock, resume>>
    BY <1>5 DEF CreateQueued, memory, link
  <2> QED
    BY <1>1, <2>1, <2>2, <2>3, <2>4, <2>5 DEF Shape, DiskShape, ThreadShape, MemoryShape
<1>6. CASE RetryQueued(t)
  <2>1. log' \in [Turns -> LogRec]
    BY <1>1, <1>6, RecoveredInputWrite DEF InputWritten, RetryQueued
  <2>2. calls' \in [Turns -> {"idle", "prepare", "start", "wake"}]
    BY <1>1, <1>6 DEF RetryQueued
  <2>3. UNCHANGED <<session, turn, order, runs, fence, run, stop, done, cancelled, wake, holds,
                    adapter, alock, resume, faults>>
    BY <1>6 DEF RetryQueued, memory, link
  <2> QED
    BY <1>1, <2>1, <2>2, <2>3 DEF Shape, DiskShape, ThreadShape, MemoryShape
<1>7. CASE StartWorker(t)
  <2>1. run' \in [Workers -> RunRec] /\ done' \in [Turns -> DoneRec]
    <3>1. t \in Workers /\ "fence" \in RunPoints
      BY DEF Workers, RunPoints
    <3>2. Thread("fence", t) \in RunRec /\ [by |-> t, set |-> FALSE] \in DoneRec
      BY <3>1 DEF RunRec, DoneRec, Thread
    <3> QED BY <1>1, <1>7, <3>1, <3>2 DEF StartWorker
  <2>2. calls' \in [Turns -> {"idle", "prepare", "start", "wake"}]
    BY <1>1, <1>7 DEF StartWorker
  <2>3. holds' \in HoldsRec
    <3>1. \/ holds' = [calls |-> holds.calls \ {t}, runs |-> holds.runs \cup (holds.calls \cap {t})]
          \/ holds' = [holds EXCEPT !.calls = @ \ {t}]
      BY <1>7 DEF StartWorker
    <3>2. t \in Workers
      BY DEF Workers
    <3>3. [holds EXCEPT !.calls = @ \ {t}] \in HoldsRec
      BY <1>1, HoldsCallsWrite DEF HoldsRec
    <3>4. [calls |-> holds.calls \ {t}, runs |-> holds.runs \cup (holds.calls \cap {t})] \in HoldsRec
      BY <1>1, <3>2 DEF HoldsRec
    <3> QED BY <3>1, <3>3, <3>4
  <2>4. UNCHANGED <<session, turn, log, order, runs, fence, stop, cancelled, wake, adapter, alock, resume,
                    faults>>
    BY <1>7 DEF StartWorker, disk, link
  <2> QED
    BY <1>1, <2>1, <2>2, <2>3, <2>4 DEF Shape, DiskShape, ThreadShape, MemoryShape
<1>8. CASE WakeQueue(t)
  <2>1. calls' \in [Turns -> {"idle", "prepare", "start", "wake"}]
    BY <1>1, <1>8 DEF WakeQueue
  <2>2. run' \in [Workers -> RunRec] /\ wake' \in BOOLEAN
    <3>1. Queue \in Workers /\ Thread("loop", None) \in RunRec
      BY DEF Workers, RunRec, RunPoints, Thread
    <3> QED BY <1>1, <1>8, <3>1 DEF WakeQueue, Wake
  <2>3. UNCHANGED <<session, turn, log, order, runs, fence, stop, done, cancelled, holds, adapter,
                    alock, resume, faults>>
    BY <1>8 DEF WakeQueue, disk, link
  <2> QED
    BY <1>1, <2>1, <2>2, <2>3 DEF Shape, DiskShape, ThreadShape, MemoryShape
<1> QED
  BY <1>3, <1>4, <1>5, <1>6, <1>7, <1>8 DEF Client

\* So do the workers,
LEMMA WorkerShape ==
  ASSUME Shape, ThreadInv, NEW w \in Workers, Worker(w)
  PROVE  Shape'
<1> USE DEF Shape, DiskShape, ThreadShape, MemoryShape
<1>1. run[w].pc \notin {"idle", "loop", "scan", "retire"} => run[w].turn \in Turns
  BY DEF ThreadInv
<1>2. ASSUME run[w].turn \in Turns, EndRun(w)
      PROVE  /\ run' \in [Workers -> RunRec] /\ fence' \in [Turns -> FenceRec]
             /\ done' \in [Turns -> DoneRec] /\ stop' \in [Turns -> StopRec] /\ holds' \in HoldsRec
  BY <1>2, EndRunWrite, Zenon
<1>3. ASSUME NEW pc \in RunPoints, Goto(w, pc), UNCHANGED owned
      PROVE  /\ run' \in [Workers -> RunRec] /\ fence' \in [Turns -> FenceRec]
             /\ done' \in [Turns -> DoneRec] /\ stop' \in [Turns -> StopRec] /\ holds' \in HoldsRec
  BY <1>3, Goes DEF owned
<1>4. CASE StartTurn(w)
  <2>1. PICK t \in Turns : t = run[w].turn
    BY <1>1, <1>4 DEF StartTurn, At
  <2>2. CASE ~FenceFree(w)
    <3>1. EndRun(w) /\ UNCHANGED <<turn, cancelled>>
      BY <1>4, <2>2 DEF StartTurn
    <3>2. UNCHANGED <<session, log, order, runs, calls, wake, adapter, alock, resume, faults>>
      BY <1>4 DEF StartTurn, link
    <3> QED BY <1>2, <2>1, <3>1, <3>2
  <2>3. CASE FenceFree(w) /\ ~CanStart(t)
    <3>1. /\ fence' = [fence EXCEPT ![t] = [by |-> None, record |-> TRUE, here |-> TRUE]]
          /\ done' = [done EXCEPT ![t] = IF done[t].by = w THEN NoEvent ELSE done[t]]
          /\ stop' = Acknowledged(w, t) /\ holds' = [holds EXCEPT !.runs = @ \ {w}]
          /\ run' = [run EXCEPT ![w] = IF w = Queue THEN Thread("loop", None) ELSE Idle]
          /\ cancelled' = cancelled \ {t} /\ UNCHANGED turn
      BY <1>4, <2>1, <2>3 DEF StartTurn
    <3>2. UNCHANGED <<session, log, order, runs, calls, wake, adapter, alock, resume, faults>>
      BY <1>4 DEF StartTurn, link
    <3>3. [by |-> None, record |-> TRUE, here |-> TRUE] \in FenceRec /\ NoEvent \in DoneRec
      BY DEF FenceRec, DoneRec, NoEvent
    <3>4. Idle \in RunRec /\ Thread("loop", None) \in RunRec
      BY DEF RunRec, Idle, RunPoints, Thread
    <3>5. fence' \in [Turns -> FenceRec] /\ done' \in [Turns -> DoneRec] /\ run' \in [Workers -> RunRec]
      BY <3>1, <3>3, <3>4
    <3>6. stop' \in [Turns -> StopRec]
      BY <3>1, AcknowledgedWrite
    <3>7. holds' \in HoldsRec
      BY <3>1 DEF HoldsRec
    <3> QED BY <3>1, <3>2, <3>5, <3>6, <3>7
  <2>4. CASE FenceFree(w) /\ CanStart(t)
    <3>1. /\ fence' = [fence EXCEPT ![t] = [by |-> w, record |-> TRUE, here |-> TRUE]]
          /\ SetStatus(t, "starting") /\ Goto(w, "check")
          /\ UNCHANGED <<done, stop, holds, cancelled>>
      BY <1>4, <2>1, <2>4 DEF StartTurn
    <3>2. UNCHANGED <<session, log, order, runs, calls, wake, adapter, alock, resume, faults>>
      BY <1>4 DEF StartTurn, link
    <3>3. [by |-> w, record |-> TRUE, here |-> TRUE] \in FenceRec
      BY DEF FenceRec
    <3>4. fence' \in [Turns -> FenceRec]
      BY <3>1, <3>3
    <3>5. turn' \in [Turns -> TurnRec]
      BY <3>1, StatusWrite DEF Statuses
    <3>6. run' \in [Workers -> RunRec]
      BY <3>1, Goes DEF RunPoints
    <3> QED BY <3>1, <3>2, <3>4, <3>5, <3>6
  <2> QED BY <2>2, <2>3, <2>4
<1>5. ASSUME NEW pc \in {"check", "provider"}, NEW next \in {"call", "commit"}, Check(w, pc, next)
      PROVE  Shape'
  <2>1. run[w].turn \in Turns /\ next \in RunPoints
    BY <1>1, <1>5 DEF Check, At, RunPoints
  <2>2. \/ EndRun(w)
        \/ run' = [run EXCEPT ![w].pc = next, ![w].tool = @ /\ next = "call"] /\ UNCHANGED owned
    BY <1>5 DEF Check
  <2>3. /\ cancelled' \subseteq Turns
        /\ UNCHANGED <<session, turn, log, order, runs, calls, wake, adapter, alock, resume, faults>>
    BY <1>5 DEF Check, disk, link
  <2>4. PICK b \in BOOLEAN : b = (run[w].tool /\ next = "call")
    OBVIOUS
  <2>5. CASE run' = [run EXCEPT ![w].pc = next, ![w].tool = @ /\ next = "call"] /\ UNCHANGED owned
    <3>1. run' = [run EXCEPT ![w].pc = next, ![w].tool = b]
      BY <2>4, <2>5
    <3>2. run' \in [Workers -> RunRec]
      BY <2>1, <3>1, GoesOn
    <3> QED BY <2>3, <2>5, <3>2 DEF owned
  <2> QED BY <1>2, <2>1, <2>2, <2>3, <2>5
<1>6. CASE CallProvider(w)
  <2>1. PICK t \in Turns : t = run[w].turn
    BY <1>1, <1>6 DEF CallProvider, At
  <2>2. run' \in [Workers -> RunRec]
    BY <1>6, Goes DEF CallProvider, RunPoints
  <2>3. runs' \in [Turns -> Nat]
    BY <1>6, <2>1 DEF CallProvider
  <2>4. turn' \in [Turns -> TurnRec]
    <3>1. PICK s \in Statuses \cup {"absent"} :
             s = IF turn[t].status = "starting" THEN "running" ELSE turn[t].status
      BY DEF TurnRec, Statuses
    <3>2. turn' = [turn EXCEPT ![t].status = s]
      BY <1>6, <2>1, <3>1 DEF CallProvider
    <3> QED BY <3>2 DEF TurnRec
  <2>5. UNCHANGED <<session, log, order, fence, calls, stop, done, cancelled, wake, holds, adapter,
                    alock, resume, faults>>
    BY <1>6 DEF CallProvider, memory, link
  <2> QED BY <2>2, <2>3, <2>4, <2>5
<1>7. CASE ToolRuns(w) \/ PlanRetry(w) \/ Retry(w)
  <2>1. run[w].turn \in Turns
    BY <1>1, <1>7 DEF ToolRuns, PlanRetry, Retry, At
  <2>2. run' \in [Workers -> RunRec]
    <3>1. run' = [run EXCEPT ![w].tool = TRUE] \/ Goto(w, "backoff") \/ Goto(w, "check")
      BY <1>7 DEF ToolRuns, PlanRetry, Retry
    <3>2. [run EXCEPT ![w].tool = TRUE] \in [Workers -> RunRec]
      BY DEF RunRec
    <3> QED BY <3>1, <3>2, Goes DEF RunPoints
  <2>3. log' \in [Turns -> LogRec]
    <3>1. UNCHANGED log \/ (/\ log' = [log EXCEPT ![run[w].turn].retries = @ + 1]
                            /\ log[run[w].turn].retries < MaxRetries)
      BY <1>7 DEF ToolRuns, PlanRetry, Retry, disk
    <3> QED BY <2>1, <3>1, RetryWrite
  <2>4. faults' \in 0..MaxFaults
    BY <1>7, ConstantsDistinct DEF ToolRuns, PlanRetry, Retry, Fault
  <2>5. UNCHANGED <<session, turn, order, runs, fence, calls, stop, done, cancelled, wake, holds,
                    adapter, alock, resume>>
    BY <1>7 DEF ToolRuns, PlanRetry, Retry, disk, memory, link
  <2> QED BY <2>2, <2>3, <2>4, <2>5
<1>8. CASE CommitAnswer(w)
  <2>1. run[w].turn \in Turns /\ "finalize" \in RunPoints
    BY <1>1, <1>8 DEF CommitAnswer, At, RunPoints
  <2>2. \/ EndRun(w) /\ UNCHANGED turn
        \/ Goto(w, "finalize") /\ UNCHANGED owned /\ SetStatus(run[w].turn, "completing")
    BY <1>8 DEF CommitAnswer
  <2>3. turn' \in [Turns -> TurnRec]
    BY <2>1, <2>2, StatusWrite DEF Statuses
  <2>4. UNCHANGED <<session, log, order, runs, calls, cancelled, wake, adapter, alock, resume, faults>>
    BY <1>8 DEF CommitAnswer, link
  <2> QED BY <1>2, <1>3, <2>1, <2>2, <2>3, <2>4
<1>9. ASSUME NEW k \in 1..3, FinalizeTurn(w, k) PROVE Shape'
  <2>1. PICK t \in Turns : t = run[w].turn
    BY <1>1, <1>9 DEF FinalizeTurn, At
  <2>2. EndRun(w)
    BY <1>9 DEF FinalizeTurn
  <2>3. log' \in [Turns -> LogRec]
    BY <1>9, <2>1, AnswerWrite DEF FinalizeTurn
  <2>4. session' \in SessionRec
    BY <1>9, <2>1, ReleaseWrite DEF FinalizeTurn
  <2>5. turn' \in [Turns -> TurnRec]
    BY <1>9, <2>1, StatusWrite DEF FinalizeTurn, Statuses, TERMINAL_TURN_STATES
  <2>6. faults' \in 0..MaxFaults
    BY <1>9, ConstantsDistinct DEF FinalizeTurn, Fault
  <2>7. UNCHANGED <<order, runs, calls, cancelled, wake, adapter, alock, resume>>
    BY <1>9 DEF FinalizeTurn, link
  <2> QED BY <1>2, <2>1, <2>2, <2>3, <2>4, <2>5, <2>6, <2>7
<1>10. ASSUME NEW s \in Failures, ProviderFails(w, s) PROVE Shape'
  <2>1. run[w].turn \in Turns /\ "failed" \in RunPoints
    BY <1>1, <1>10 DEF ProviderFails, At, RunPoints
  <2>2. \/ EndRun(w) /\ UNCHANGED turn
        \/ /\ run' = [run EXCEPT ![w] = Thread("failed", run[w].turn)]
           /\ UNCHANGED owned /\ turn' = Failed(run[w].turn, s, FALSE)
    BY <1>10 DEF ProviderFails
  <2>3. turn' \in [Turns -> TurnRec]
    BY <2>1, <2>2, FailedWrite DEF Statuses, TERMINAL_TURN_STATES, Failures
  <2>4. UNCHANGED <<session, log, order, runs, calls, cancelled, wake, adapter, alock, resume, faults>>
    BY <1>10 DEF ProviderFails, link
  <2>5. CASE EndRun(w)
    BY <1>2, <2>1, <2>3, <2>4, <2>5
  <2>6. CASE run' = [run EXCEPT ![w] = Thread("failed", run[w].turn)] /\ UNCHANGED owned
    <3>1. run' \in [Workers -> RunRec]
      BY <2>1, <2>6, GoesTo
    <3> QED BY <2>3, <2>4, <2>6, <3>1 DEF owned
  <2> QED BY <2>2, <2>5, <2>6
<1>11. CASE PublishFailure(w)
  <2>1. run[w].turn \in Turns /\ "stale" \in RunPoints
    BY <1>1, <1>11 DEF PublishFailure, At, RunPoints
  <2>2. EndRun(w) \/ (Goto(w, "stale") /\ UNCHANGED owned)
    BY <1>11 DEF PublishFailure
  <2>3. log' \in [Turns -> LogRec] /\ session' \in SessionRec
    BY <1>11, <2>1, FailureWrite, ReleaseWrite DEF PublishFailure
  <2>4. UNCHANGED <<turn, order, runs, calls, cancelled, wake, adapter, alock, resume, faults>>
    BY <1>11 DEF PublishFailure, link
  <2> QED BY <1>2, <1>3, <2>1, <2>2, <2>3, <2>4
<1>12. CASE MarkStale(w)
  <2>1. run[w].turn \in Turns /\ EndRun(w)
    BY <1>1, <1>12 DEF MarkStale, At
  <2>2. session' \in SessionRec /\ adapter' \in {"none", "sick", "up"}
    BY <1>12 DEF MarkStale, SetSession, SessionRec
  <2>3. UNCHANGED <<turn, log, order, runs, calls, cancelled, wake, alock, resume, faults>>
    BY <1>12 DEF MarkStale
  <2> QED BY <1>2, <2>1, <2>2, <2>3
<1>13. CASE WorkerDies(w)
  <2>1. run[w].turn \in Turns /\ EndRun(w)
    BY <1>1, <1>13 DEF WorkerDies
  <2>2. faults' \in 0..MaxFaults
    BY <1>13, ConstantsDistinct DEF WorkerDies, Fault
  <2>3. UNCHANGED <<session, turn, log, order, runs, calls, cancelled, wake, adapter, alock, resume>>
    BY <1>13 DEF WorkerDies, disk, link
  <2> QED BY <1>2, <2>1, <2>2, <2>3
<1> QED
  BY <1>4, <1>5, <1>6, <1>7, <1>8, <1>9, <1>10, <1>11, <1>12, <1>13 DEF Worker

\* the threads of interrupt_turn,
LEMMA StopperShape ==
  ASSUME Shape, NEW t \in Turns, Stopper(t)
  PROVE  Shape'
<1> USE DEF Shape, DiskShape, ThreadShape, MemoryShape
<1>1. NoStop \in StopRec
  BY DEF NoStop, StopRec
<1>2. CASE StopBegin(t)
  <2>1. turn' \in [Turns -> TurnRec]
    BY <1>2, StoppedWrite
  <2>2. log' \in [Turns -> LogRec]
    BY <1>2, StoppedInputWrite DEF InputWritten
  <2>3. session' \in SessionRec
    BY <1>2 DEF StopBegin, SetSession, SessionRec
  <2>4. stop' \in [Turns -> StopRec]
    <3>1. [NoStop EXCEPT !.pc = "capture"] \in StopRec
      BY DEF NoStop, StopRec
    <3> QED BY <1>2, <3>1 DEF StopBegin
  <2>5. UNCHANGED <<order, runs, fence, run, calls, done, cancelled, wake, holds, adapter, alock, resume,
                    faults>>
    BY <1>2 DEF StopBegin, memory, link
  <2> QED BY <2>1, <2>2, <2>3, <2>4, <2>5
<1>3. CASE StopFinalizes(t)
  <2>1. log' \in [Turns -> LogRec] /\ session' \in SessionRec
    BY <1>3, AnswerWrite, ReleaseWrite DEF StopFinalizes
  <2>2. turn' \in [Turns -> TurnRec]
    BY <1>3, StatusWrite DEF StopFinalizes, Statuses, TERMINAL_TURN_STATES
  <2>3. UNCHANGED <<order, runs, fence, run, calls, stop, done, cancelled, wake, holds, adapter,
                    alock, resume, faults>>
    BY <1>3 DEF StopFinalizes, threads, memory, link
  <2> QED BY <2>1, <2>2, <2>3
<1>4. CASE StopCapture(t)
  <2>1. stop' \in [Turns -> StopRec]
    BY <1>4 DEF StopCapture, StopRec, DoneRec
  <2>2. cancelled' \subseteq Turns
    BY <1>4 DEF StopCapture
  <2>3. UNCHANGED <<session, turn, log, order, runs, fence, run, calls, done, wake, holds, adapter,
                    alock, resume, faults>>
    BY <1>4 DEF StopCapture, disk, link
  <2> QED BY <2>1, <2>2, <2>3
<1>5. CASE StopSignal(t)
  <2>1. stop' \in [Turns -> StopRec]
    BY <1>5 DEF StopSignal, StopRec
  <2>2. UNCHANGED <<session, turn, log, order, runs, fence, run, calls, done, cancelled, wake, holds,
                    adapter, alock, resume, faults>>
    BY <1>5 DEF StopSignal, disk, memory, link
  <2> QED BY <2>1, <2>2
<1>6. CASE StopUnconfirmed(t)
  <2>1. stop' \in [Turns -> StopRec] /\ faults' \in 0..MaxFaults
    BY <1>1, <1>6, ConstantsDistinct DEF StopUnconfirmed, Fault
  <2>2. UNCHANGED <<session, turn, log, order, runs, fence, run, calls, done, cancelled, wake, holds,
                    adapter, alock, resume>>
    BY <1>6 DEF StopUnconfirmed, disk, memory, link
  <2> QED BY <2>1, <2>2
<1>7. CASE StopMark(t)
  <2>1. turn' \in [Turns -> TurnRec]
    BY <1>7, StatusWrite DEF StopMark, Statuses, TERMINAL_TURN_STATES
  <2>2. stop' \in [Turns -> StopRec]
    <3>1. stop' = [stop EXCEPT ![t].pc = "publish"] \/ stop' = [stop EXCEPT ![t] = NoStop]
      BY <1>7 DEF StopMark
    <3>2. [stop EXCEPT ![t].pc = "publish"] \in [Turns -> StopRec]
      BY DEF StopRec
    <3> QED BY <1>1, <3>1, <3>2
  <2>3. cancelled' \subseteq Turns
    BY <1>7 DEF StopMark
  <2>4. UNCHANGED <<session, log, order, runs, fence, run, calls, done, wake, holds, adapter, alock, resume,
                    faults>>
    BY <1>7 DEF StopMark, link
  <2> QED BY <2>1, <2>2, <2>3, <2>4
<1>8. CASE StopPublish(t)
  <2>1. log' \in [Turns -> LogRec] /\ session' \in SessionRec
    BY <1>8, StopReportWrite, ReleaseWrite DEF StopPublish
  <2>2. stop' \in [Turns -> StopRec]
    BY <1>1, <1>8 DEF StopPublish
  <2>3. UNCHANGED <<turn, order, runs, fence, run, calls, done, cancelled, wake, holds, adapter, alock, resume,
                    faults>>
    BY <1>8 DEF StopPublish, memory, link
  <2> QED BY <2>1, <2>2, <2>3
<1> QED
  BY <1>2, <1>3, <1>4, <1>5, <1>6, <1>7, <1>8 DEF Stopper

\* the recoveries,
LEMMA RecoveryShape ==
  ASSUME Shape, NEW t \in Turns, Recovery(t)
  PROVE  Shape'
<1> USE DEF Shape, DiskShape, ThreadShape, MemoryShape
<1>1. CASE RecoverLost(t)
  <2>1. fence' \in [Turns -> FenceRec]
    BY <1>1 DEF RecoverLost, FenceRec
  <2>2. UNCHANGED <<session, turn, log, order, runs, run, calls, stop, done, cancelled, wake, holds,
                    adapter, alock, resume, faults>>
    BY <1>1 DEF RecoverLost, disk, threads, memory, link
  <2> QED BY <2>1, <2>2
<1>2. ASSUME NEW k \in 1..3, RecoverFail(t, k) PROVE Shape'
  <2>1. fence' \in [Turns -> FenceRec]
    BY <1>2 DEF RecoverFail, FenceRec
  <2>2. turn' = turn \/ turn' = Failed(t, "failed", TRUE)
    BY <1>2 DEF RecoverFail
  <2>3. turn' \in [Turns -> TurnRec]
    BY <2>2, FailedWrite DEF Statuses, TERMINAL_TURN_STATES
  <2>4. log' = log \/ log' = ReportFailure(t)
    BY <1>2 DEF RecoverFail
  <2>5. log' \in [Turns -> LogRec]
    BY <2>4, FailureWrite
  <2>6. session' \in SessionRec
    BY <1>2, ReleaseWrite DEF RecoverFail
  <2>7. UNCHANGED <<order, runs, run, calls, stop, done, cancelled, wake, holds, adapter, alock, resume,
                    faults>>
    BY <1>2 DEF RecoverFail, threads, memory, link
  <2> QED BY <2>1, <2>3, <2>5, <2>6, <2>7
<1>3. CASE RecoverComplete(t)
  <2>1. log' \in [Turns -> LogRec] /\ session' \in SessionRec
    BY <1>3, FailureWrite, ReleaseWrite DEF RecoverComplete
  <2>2. UNCHANGED <<turn, order, runs, fence, run, calls, stop, done, cancelled, wake, holds, adapter,
                    alock, resume, faults>>
    BY <1>3 DEF RecoverComplete, threads, memory, link
  <2> QED BY <2>1, <2>2
<1> QED
  BY <1>1, <1>2, <1>3 DEF Recovery

\* The holder of the adapter lock gives up; the queue worker is told.
LEMMA RaiseWrite ==
  ASSUME Shape, ThreadInv, Raise
  PROVE  /\ alock' = Unlocked /\ alock' \in AlockRec
         /\ run' \in [Workers -> RunRec] /\ \A w \in Workers \ {Queue} : run'[w] = run[w]
         /\ alock.by # Queue => run' = run
         /\ alock.by = Queue =>
              /\ run'[Queue].turn = run[Queue].turn /\ run'[Queue].tool = run[Queue].tool
              /\ run[Queue].pc = "adapt" => run'[Queue].pc = "unfit"
              /\ run[Queue].pc = "prepareActive" => run'[Queue].pc = "unfitActive"
         /\ calls' \in [Turns -> {"idle", "prepare", "start", "wake"}]
         /\ \A t \in Turns : calls'[t] = IF t = alock.by THEN "idle" ELSE calls[t]
<1> USE DEF Shape, ThreadShape, MemoryShape
<1>1. alock' = Unlocked /\ alock' \in AlockRec
  BY DEF Raise, Unlocked, AlockRec, LockPoints
<1>2. /\ calls' \in [Turns -> {"idle", "prepare", "start", "wake"}]
      /\ \A t \in Turns : calls'[t] = IF t = alock.by THEN "idle" ELSE calls[t]
  BY DEF Raise
<1>3. CASE alock.by # Queue
  BY <1>1, <1>2, <1>3 DEF Raise
<1>4. CASE alock.by = Queue
  <2>1. PICK pc \in RunPoints : pc = IF run[Queue].pc = "adapt" THEN "unfit" ELSE "unfitActive"
    BY DEF RunPoints
  <2>2. Goto(Queue, pc) /\ Queue \in Workers
    BY <1>4, <2>1 DEF Raise, Goto, Workers
  <2> QED BY <1>1, <1>2, <1>4, <2>1, <2>2, Goes
<1> QED BY <1>3, <1>4

\* The holder has a working adapter.
LEMMA HasAdapterWrite ==
  ASSUME Shape, ThreadInv, HasAdapter
  PROVE  /\ alock' = Unlocked /\ alock' \in AlockRec /\ adapter' = "up"
         /\ run' \in [Workers -> RunRec] /\ \A w \in Workers \ {Queue} : run'[w] = run[w]
         /\ alock.by # Queue => run' = run
         /\ alock.by = Queue =>
              /\ run'[Queue].turn = run[Queue].turn /\ run'[Queue].tool = run[Queue].tool
              /\ run[Queue].pc = "adapt" => run'[Queue].pc = "ready"
              /\ run[Queue].pc = "prepareActive" => run'[Queue].pc = "loop"
         /\ calls' \in [Turns -> {"idle", "prepare", "start", "wake"}]
         /\ \A t \in Turns : calls'[t] = IF t = alock.by THEN "start" ELSE calls[t]
         /\ holds' \in HoldsRec /\ holds'.runs \subseteq holds.runs \cup {Queue}
         /\ holds'.runs # holds.runs => alock.by = Queue /\ run[Queue].pc = "adapt"
<1> USE DEF Shape, ThreadShape, MemoryShape
<1>1. alock' = Unlocked /\ alock' \in AlockRec /\ adapter' = "up"
  BY DEF HasAdapter, Unlocked, AlockRec, LockPoints
<1>2. /\ calls' \in [Turns -> {"idle", "prepare", "start", "wake"}]
      /\ \A t \in Turns : calls'[t] = IF t = alock.by THEN "start" ELSE calls[t]
  BY DEF HasAdapter
<1>3. /\ holds' \in HoldsRec /\ holds'.runs \subseteq holds.runs \cup {Queue}
      /\ holds'.runs # holds.runs => alock.by = Queue /\ run[Queue].pc = "adapt"
  BY DEF HasAdapter, HoldsRec, At, Workers
<1>4. CASE alock.by # Queue
  BY <1>1, <1>2, <1>3, <1>4 DEF HasAdapter
<1>5. CASE alock.by = Queue
  <2>1. PICK pc \in RunPoints : pc = IF run[Queue].pc = "adapt" THEN "ready" ELSE "loop"
    BY DEF RunPoints
  <2>2. Goto(Queue, pc) /\ Queue \in Workers
    BY <1>5, <2>1 DEF HasAdapter, Goto, Workers
  <2> QED BY <1>1, <1>2, <1>3, <1>5, <2>1, <2>2, Goes
<1> QED BY <1>4, <1>5

\* The Session that a preparation leaves ready.
LEMMA RestoredSession ==
  ASSUME session \in SessionRec
  PROVE  /\ Restored \in SessionRec /\ Restored.active = session.active
         /\ Restored # session => session.active = None
BY DEF Restored, SessionRec

\* The preparations of an adapter keep the shape.
LEMMA PreparerShape ==
  ASSUME Shape, ThreadInv, Preparer
  PROVE  Shape'
<1>1. /\ session \in SessionRec /\ turn \in [Turns -> TurnRec] /\ log \in [Turns -> LogRec]
      /\ run \in [Workers -> RunRec] /\ calls \in [Turns -> {"idle", "prepare", "start", "wake"}]
      /\ holds \in HoldsRec /\ alock \in AlockRec /\ resume \in ResumeRec
      /\ adapter \in {"none", "sick", "up"} /\ faults \in 0..MaxFaults
  BY DEF Shape, DiskShape, ThreadShape, MemoryShape
<1>2. ASSUME session' \in SessionRec, turn' \in [Turns -> TurnRec], log' \in [Turns -> LogRec],
             run' \in [Workers -> RunRec], calls' \in [Turns -> {"idle", "prepare", "start", "wake"}],
             holds' \in HoldsRec, alock' \in AlockRec, resume' \in ResumeRec,
             adapter' \in {"none", "sick", "up"}, faults' \in 0..MaxFaults,
             UNCHANGED <<order, runs, fence, stop, done, cancelled, wake>>
      PROVE  Shape'
  BY <1>2 DEF Shape, DiskShape, ThreadShape, MemoryShape
<1>3. CASE ResumeAsk
  <2>1. resume' \in ResumeRec
    BY <1>1, <1>3, ConstantsDistinct DEF ResumeAsk, ResumeRec
  <2>2. UNCHANGED <<session, turn, log, order, runs, fence, run, calls, stop, done, cancelled, wake,
                    holds, adapter, alock, faults>>
    BY <1>3 DEF ResumeAsk, disk, threads
  <2> QED BY <1>1, <1>2, <2>1, <2>2
<1>4. CASE ResumeBegin
  <2>1. resume' \in ResumeRec
    BY <1>1, <1>4 DEF ResumeBegin, ResumeRec
  <2>2. alock' \in AlockRec
    <3>1. PICK b \in BOOLEAN : b = (adapter = "up" \/ LiveWorker(session.active))
      OBVIOUS
    <3>2. [Unlocked EXCEPT !.by = "resume", !.at = "resume", !.preserve = b] \in AlockRec
      BY DEF Unlocked, AlockRec, LockPoints
    <3>3. Unlocked \in AlockRec
      BY DEF Unlocked, AlockRec, LockPoints
    <3> QED BY <1>4, <3>1, <3>2, <3>3 DEF ResumeBegin
  <2>3. UNCHANGED <<session, turn, log, order, runs, fence, run, calls, stop, done, cancelled, wake,
                    holds, adapter, faults>>
    BY <1>4 DEF ResumeBegin, disk, threads
  <2> QED BY <1>1, <1>2, <2>1, <2>2, <2>3
<1>5. CASE ResumeTakes
  <2>1. session' \in SessionRec
    BY <1>1, <1>5 DEF ResumeTakes, SetSession, SessionRec
  <2>2. alock' \in AlockRec
    <3>1. session.active \in Turns \cup {None}
      BY <1>1 DEF SessionRec
    <3>2. [alock EXCEPT !.at = "ensure", !.victim = session.active] \in AlockRec
      BY <1>1, <3>1 DEF AlockRec, LockPoints
    <3>3. Unlocked \in AlockRec
      BY DEF Unlocked, AlockRec, LockPoints
    <3> QED BY <1>5, <3>2, <3>3 DEF ResumeTakes
  <2>3. UNCHANGED <<turn, log, order, runs, fence, run, calls, stop, done, cancelled, wake, holds,
                    adapter, resume, faults>>
    BY <1>5 DEF ResumeTakes, threads
  <2> QED BY <1>1, <1>2, <2>1, <2>2, <2>3
<1>6. CASE EnsureAdapter
  <2>1. UNCHANGED <<turn, log, order, runs, fence, stop, done, cancelled, wake, resume, faults>>
    BY <1>6 DEF EnsureAdapter
  <2>2. \/ Raise /\ UNCHANGED <<session, adapter, holds>>
        \/ HasAdapter /\ session' \in {session, Restored}
        \/ /\ adapter' = "none" /\ holds' = NoHolder
           /\ alock' = [alock EXCEPT !.at = "fail", !.accepted = AcceptedTurn,
                                     !.victim = IF @ = None THEN session.active ELSE @]
           /\ UNCHANGED <<session, run, calls>>
    BY <1>6 DEF EnsureAdapter, SetSession
  <2>3. CASE Raise /\ UNCHANGED <<session, adapter, holds>>
    BY <1>1, <1>2, <2>1, <2>3, RaiseWrite
  <2>4. CASE HasAdapter /\ session' \in {session, Restored}
    BY <1>1, <1>2, <2>1, <2>4, HasAdapterWrite, RestoredSession
  <2>5. CASE /\ adapter' = "none" /\ holds' = NoHolder
             /\ alock' = [alock EXCEPT !.at = "fail", !.accepted = AcceptedTurn,
                                       !.victim = IF @ = None THEN session.active ELSE @]
             /\ UNCHANGED <<session, run, calls>>
    <3>1. AcceptedTurn \in Turns \cup {None}
      BY <1>1 DEF AcceptedTurn, SessionRec
    <3>2. PICK v \in Turns \cup {None} : v = IF alock.victim = None THEN session.active ELSE alock.victim
      BY <1>1 DEF SessionRec, AlockRec
    <3>3. alock' = [alock EXCEPT !.at = "fail", !.accepted = AcceptedTurn, !.victim = v]
      BY <2>5, <3>2
    <3>4. alock' \in AlockRec
      BY <1>1, <3>1, <3>3 DEF AlockRec, LockPoints
    <3>5. NoHolder \in HoldsRec
      BY DEF NoHolder, HoldsRec
    <3> QED BY <1>1, <1>2, <2>1, <2>5, <3>4, <3>5
  <2> QED BY <2>2, <2>3, <2>4, <2>5
<1>7. CASE FailLost
  <2>1. UNCHANGED <<log, order, runs, fence, stop, done, cancelled, wake, holds, adapter, resume, faults>>
    BY <1>7 DEF FailLost
  <2>2. \A p \in LockPoints : [alock EXCEPT !.at = p] \in AlockRec
    BY <1>1 DEF AlockRec
  <2>3. "event" \in LockPoints /\ "start" \in LockPoints
    BY DEF LockPoints
  <2>4. session' \in SessionRec
    BY <1>1, <1>7 DEF FailLost, SetSession, SessionRec
  <2>5. turn' \in [Turns -> TurnRec]
    <3>1. \/ UNCHANGED turn
          \/ /\ turn' = Failed(alock.victim, "failed", TRUE)
             /\ Status(alock.victim) \in {"queued", "starting", "running", "interrupting"}
      BY <1>7 DEF FailLost
    <3>2. CASE /\ turn' = Failed(alock.victim, "failed", TRUE)
               /\ Status(alock.victim) \in {"queued", "starting", "running", "interrupting"}
      <4>1. alock.victim \in Turns
        BY <1>1, <3>2 DEF AlockRec, Status
      <4> QED BY <1>1, <3>2, <4>1, FailedWrite DEF Statuses, TERMINAL_TURN_STATES
    <3> QED BY <1>1, <3>1, <3>2
  <2>6. \/ Raise
        \/ /\ alock' = [alock EXCEPT !.at = "start"] \/ alock' = [alock EXCEPT !.at = "event"]
           /\ UNCHANGED <<run, calls>>
    BY <1>7 DEF FailLost
  <2>7. CASE Raise
    BY <1>1, <1>2, <2>1, <2>4, <2>5, <2>7, RaiseWrite
  <2>8. CASE /\ alock' = [alock EXCEPT !.at = "start"] \/ alock' = [alock EXCEPT !.at = "event"]
             /\ UNCHANGED <<run, calls>>
    <3>1. alock' \in AlockRec
      BY <2>2, <2>3, <2>8
    <3> QED BY <1>1, <1>2, <2>1, <2>4, <2>5, <2>8, <3>1
  <2> QED BY <2>6, <2>7, <2>8
<1>8. CASE ReportLost
  <2>1. alock.victim \in Turns
    BY <1>8 DEF ReportLost, ThreadInv
  <2>2. log' \in [Turns -> LogRec]
    BY <1>1, <1>8, <2>1, FailureWrite DEF ReportLost
  <2>3. alock' \in AlockRec
    BY <1>1, <1>8 DEF ReportLost, AlockRec, LockPoints
  <2>4. UNCHANGED <<session, turn, order, runs, fence, run, calls, stop, done, cancelled, wake, holds,
                    adapter, resume, faults>>
    BY <1>8 DEF ReportLost, threads
  <2> QED BY <1>1, <1>2, <2>2, <2>3, <2>4
<1>9. CASE AdapterStarts
  <2>1. HasAdapter /\ session' = Restored
    BY <1>9 DEF AdapterStarts, SetSession
  <2>2. UNCHANGED <<turn, log, order, runs, fence, stop, done, cancelled, wake, resume, faults>>
    BY <1>9 DEF AdapterStarts
  <2> QED BY <1>1, <1>2, <2>1, <2>2, HasAdapterWrite, RestoredSession
<1>10. CASE PrepareCut
  <2>1. Raise /\ faults' \in 0..MaxFaults
    BY <1>1, <1>10, ConstantsDistinct DEF PrepareCut, Fault
  <2>2. session' \in SessionRec
    BY <1>1, <1>10 DEF PrepareCut, SetSession, SessionRec, AlockRec
  <2>3. UNCHANGED <<turn, log, order, runs, fence, stop, done, cancelled, wake, holds, adapter, resume>>
    BY <1>10 DEF PrepareCut
  <2> QED BY <1>1, <1>2, <2>1, <2>2, <2>3, RaiseWrite
<1> QED
  BY <1>3, <1>4, <1>5, <1>6, <1>7, <1>8, <1>9, <1>10 DEF Preparer, PrepareStep

\* the services and a restart.
LEMMA ServiceShape ==
  ASSUME Shape, Service
  PROVE  Shape'
<1> USE DEF Shape, DiskShape, ThreadShape, MemoryShape
<1>1. CASE PollQueue
  <2>1. run' \in [Workers -> RunRec] /\ wake' \in BOOLEAN
    <3>1. Queue \in Workers /\ Thread("loop", None) \in RunRec
      BY DEF Workers, RunRec, RunPoints, Thread
    <3> QED BY <1>1, <3>1 DEF PollQueue, Wake
  <2>2. UNCHANGED <<session, turn, log, order, runs, fence, calls, stop, done, cancelled, holds,
                    adapter, alock, resume, faults>>
    BY <1>1 DEF PollQueue, disk, link
  <2> QED BY <2>1, <2>2
<1>2. CASE Close
  <2>1. session' \in SessionRec /\ alock' \in AlockRec
    BY <1>2 DEF Close, SetSession, SessionRec, AlockRec, Unlocked, LockPoints
  <2>2. UNCHANGED <<turn, log, order, runs, fence, run, calls, stop, done, cancelled, wake, holds,
                    adapter, resume, faults>>
    BY <1>2 DEF Close, threads
  <2> QED BY <2>1, <2>2
<1>3. CASE CloseAdapter
  <2>1. alock' \in AlockRec /\ holds' \in HoldsRec /\ adapter' = "none"
    BY <1>3 DEF CloseAdapter, AlockRec, HoldsRec, Unlocked, NoHolder, LockPoints
  <2>2. UNCHANGED <<session, turn, log, order, runs, fence, run, calls, stop, done, cancelled, wake,
                    resume, faults>>
    BY <1>3 DEF CloseAdapter, disk, threads
  <2> QED BY <2>1, <2>2
<1>4. CASE AdapterLost
  <2>1. adapter' = "sick" /\ faults' \in 0..MaxFaults
    BY <1>4, ConstantsDistinct DEF AdapterLost, Fault
  <2>2. UNCHANGED <<session, turn, log, order, runs, fence, run, calls, stop, done, cancelled, wake,
                    holds, alock, resume>>
    BY <1>4 DEF AdapterLost, disk, threads
  <2> QED BY <2>1, <2>2
<1>5. CASE Restart
  <2>1. session' \in SessionRec
    BY <1>5 DEF Restart, SessionRec
  <2>2. turn' \in [Turns -> TurnRec]
    <3>1. \A t \in Turns : [turn[t] EXCEPT !.status = "completed"] \in TurnRec
      BY DEF TurnRec, Statuses, TERMINAL_TURN_STATES
    <3>2. \A t \in Turns : turn[t] \in TurnRec
      OBVIOUS
    <3> QED BY <1>5, <3>1, <3>2 DEF Restart
  <2>3. log' \in [Turns -> LogRec]
    <3>1. \A t \in Turns : log[t] \in LogRec /\ Answered(log[t]) \in LogRec
      BY AnsweredRecord
    <3> QED BY <1>5, <3>1 DEF Restart
  <2>4. fence' \in [Turns -> FenceRec]
    <3>1. \A t \in Turns : [by |-> None, record |-> fence[t].record, here |-> FALSE] \in FenceRec
      BY DEF FenceRec
    <3> QED BY <1>5, <3>1 DEF Restart
  <2>5. run' \in [Workers -> RunRec] /\ calls' \in [Turns -> {"idle", "prepare", "start", "wake"}]
    <3>1. Idle \in RunRec
      BY DEF Idle, RunRec, RunPoints, Thread
    <3> QED BY <1>5, <3>1 DEF Restart
  <2>6. stop' \in [Turns -> StopRec] /\ done' \in [Turns -> DoneRec]
    <3>1. NoStop \in StopRec /\ NoEvent \in DoneRec
      BY DEF NoStop, StopRec, NoEvent, DoneRec
    <3> QED BY <1>5, <3>1 DEF Restart
  <2>7. alock' \in AlockRec /\ holds' \in HoldsRec /\ adapter' = "none"
    BY <1>5 DEF Restart, AlockRec, HoldsRec, Unlocked, NoHolder, LockPoints
  <2>8. faults' \in 0..MaxFaults /\ cancelled' \subseteq Turns /\ wake' \in BOOLEAN
    <3>1. Fault /\ cancelled' = {} /\ wake' = FALSE
      BY <1>5 DEF Restart
    <3>2. faults' \in 0..MaxFaults
      BY <3>1, ConstantsDistinct DEF Fault
    <3>3. cancelled' \subseteq Turns
      BY <3>1
    <3>4. wake' \in BOOLEAN
      BY <3>1
    <3> QED BY <3>2, <3>3, <3>4
  <2>9. UNCHANGED <<order, runs>> /\ resume' \in ResumeRec
    BY <1>5 DEF Restart, ResumeRec
  <2> QED BY <2>1, <2>2, <2>3, <2>4, <2>5, <2>6, <2>7, <2>8, <2>9
<1> QED
  BY <1>1, <1>2, <1>3, <1>4, <1>5 DEF Service

\* A nonempty set of naturals has a least element.
LEMMA LeastNatural ==
  ASSUME NEW S \in SUBSET Nat, S # {}
  PROVE  \E n \in S : \A m \in S : n <= m
<1> DEFINE R == OpToRel(<, Nat)
<1>1. IsWellFoundedOn(R, Nat)
  BY NatLessThanWellFounded, Zenon
<1>2. \A m, n \in Nat : m < n => <<m, n>> \in R
  BY DEF OpToRel
<1> HIDE DEF R
<1>3. PICK n \in S : \A m \in S : <<m, n>> \notin R
  BY <1>1, WFMin
<1>4. ASSUME NEW m \in S PROVE n <= m
  <2>1. m \in Nat /\ n \in Nat /\ <<m, n>> \notin R
    BY <1>3
  <2>2. ~(m < n)
    BY <1>2, <2>1
  <2> QED BY <2>1, <2>2
<1> QED BY <1>4

\* The first place of a queued Turn in the order of creation.
LEMMA FirstPlace ==
  ASSUME order \in Seq(Turns), Waiting # {}
  PROVE  Oldest \in Queued /\ Oldest \in Turns
<1> DEFINE i == CHOOSE n \in Waiting : \A m \in Waiting : n <= m
<1>1. Waiting \in SUBSET Nat
  BY DEF Waiting
<1>2. \E n \in Waiting : \A m \in Waiting : n <= m
  BY <1>1, LeastNatural
<1>3. i \in Waiting
  BY <1>2
<1>4. Oldest = order[i]
  BY DEF Oldest
<1> HIDE DEF i
<1> QED BY <1>3, <1>4 DEF Waiting, Queued

\* What the scan claims is a queued Turn.
LEMMA OldestIsQueued ==
  ASSUME order \in Seq(Turns), Claimable
  PROVE  Oldest \in Queued /\ Oldest \in Turns
<1>1. Waiting # {}
  BY DEF Claimable, Oldest
<1> QED BY <1>1, FirstPlace


\* The event of whoever runs t is set.
LEMMA EventSetWrite ==
  ASSUME Shape, NEW t \in Turns, EventSet(t)
  PROVE  /\ done' \in [Turns -> DoneRec]
         /\ stop' \in [Turns -> StopRec] /\ \A u \in Turns : stop'[u].pc = stop[u].pc
<1> USE DEF Shape, DiskShape, ThreadShape, MemoryShape
<1>1. PICK b \in BOOLEAN : b = (done[t].by # None)
  OBVIOUS
<1>2. done' = [done EXCEPT ![t].set = b]
  BY <1>1 DEF EventSet
<1>3. done' \in [Turns -> DoneRec]
  BY <1>2 DEF DoneRec
<1> QED BY <1>3, AcknowledgedWrite DEF EventSet

\* The queue worker keeps the shape.
LEMMA QueueShape ==
  ASSUME Shape, ThreadInv, QueueStep
  PROVE  Shape'
<1> USE DEF Shape, DiskShape, ThreadShape, MemoryShape
<1>1. /\ Queue \in Workers
      /\ run[Queue].pc \notin {"idle", "loop", "scan", "retire"} => run[Queue].turn \in Turns
  BY DEF ThreadInv, Workers
<1>2. Idle \in RunRec /\ session.active \in Turns \cup {None}
  BY DEF RunRec, Idle, RunPoints, SessionRec, Thread
<1>3. ASSUME NEW pc \in RunPoints, NEW t \in Turns \cup {None},
             run' = [run EXCEPT ![Queue] = Thread(pc, t)]
      PROVE  run' \in [Workers -> RunRec]
  BY <1>1, <1>3, GoesTo
<1>4. \A pc \in RunPoints : Goto(Queue, pc) => run' \in [Workers -> RunRec]
  BY <1>1, Goes
<1>5. CASE QueueLoop
  <2>1. \/ run' = [run EXCEPT ![Queue] = Idle]
        \/ \E pc \in RunPoints, t \in Turns \cup {None} :
             run' = [run EXCEPT ![Queue] = Thread(pc, t)]
        \/ run' = run
    BY <1>2, <1>5 DEF QueueLoop, QueueRests, QueueGoes, RunPoints
  <2>2. run' \in [Workers -> RunRec]
    BY <1>2, <1>3, <2>1
  <2>3. wake' \in BOOLEAN
    BY <1>5 DEF QueueLoop, QueueRests
  <2>4. UNCHANGED <<session, turn, log, order, runs, fence, calls, stop, done, cancelled, holds,
                    adapter, alock, resume, faults>>
    BY <1>5 DEF QueueLoop, disk, link
  <2> QED BY <2>2, <2>3, <2>4
<1>6. CASE QueueDrop
  <2>1. run[Queue].turn \in Turns
    BY <1>1, <1>6 DEF QueueDrop, At
  <2>2. session' \in SessionRec
    BY <1>6, <2>1, ReleaseWrite DEF QueueDrop, Q
  <2>3. run' \in [Workers -> RunRec] /\ wake' \in BOOLEAN
    BY <1>4, <1>6 DEF QueueDrop, RunPoints
  <2>4. UNCHANGED <<turn, log, order, runs, fence, calls, stop, done, cancelled, holds, adapter, alock, resume,
                    faults>>
    BY <1>6 DEF QueueDrop, link
  <2> QED BY <2>2, <2>3, <2>4
<1>7. CASE QueueScan
  <2>1. Claimable => Oldest \in Turns
    BY OldestIsQueued
  <2>2. \/ Goto(Queue, "retire") /\ UNCHANGED log
        \/ run' = [run EXCEPT ![Queue] = Idle] /\ UNCHANGED log
        \/ /\ Claimable
           /\ run' = [run EXCEPT ![Queue] = Thread("claimed", Oldest)]
           /\ log' = RecoverInput(Oldest)
    BY <1>7 DEF QueueScan, QueueRests, QueueGoes
  <2>3. run' \in [Workers -> RunRec]
    <3>1. CASE Claimable /\ run' = [run EXCEPT ![Queue] = Thread("claimed", Oldest)]
      BY <1>3, <2>1, <3>1 DEF RunPoints
    <3> QED BY <1>2, <1>4, <2>2, <3>1 DEF RunPoints
  <2>4. log' \in [Turns -> LogRec]
    BY <2>1, <2>2, RecoveredInputWrite DEF InputWritten
  <2>5. wake' \in BOOLEAN
    BY <1>7 DEF QueueScan, QueueRests
  <2>6. UNCHANGED <<session, turn, order, runs, fence, calls, stop, done, cancelled, holds, adapter,
                    alock, resume, faults>>
    BY <1>7 DEF QueueScan, link
  <2> QED BY <2>3, <2>4, <2>5, <2>6
<1>8. CASE QueueClaim
  <2>1. session' \in SessionRec
    BY <1>1, <1>8 DEF QueueClaim, Q, At, SessionRec
  <2>2. run' \in [Workers -> RunRec]
    BY <1>4, <1>8 DEF QueueClaim, RunPoints
  <2>3. UNCHANGED <<turn, log, order, runs, fence, calls, stop, done, cancelled, wake, holds, adapter,
                    alock, resume, faults>>
    BY <1>8 DEF QueueClaim, memory, link
  <2> QED BY <2>1, <2>2, <2>3
<1>9. CASE QueueRetire
  <2>1. run' \in [Workers -> RunRec] /\ wake' \in BOOLEAN
    BY <1>2, <1>4, <1>9 DEF QueueRetire, QueueRests, RunPoints
  <2>2. UNCHANGED <<session, turn, log, order, runs, fence, calls, stop, done, cancelled, holds,
                    adapter, alock, resume, faults>>
    BY <1>9 DEF QueueRetire, disk, link
  <2> QED BY <2>1, <2>2
<1>10. CASE QueueCheck
  <2>1. run' \in [Workers -> RunRec] /\ wake' \in BOOLEAN
    BY <1>2, <1>4, <1>10 DEF QueueCheck, QueueRests, RunPoints
  <2>2. UNCHANGED <<session, turn, log, order, runs, fence, calls, stop, done, cancelled, holds,
                    adapter, alock, resume, faults>>
    BY <1>10 DEF QueueCheck, disk, link
  <2> QED BY <2>1, <2>2
<1>11. CASE QueuePrepare
  <2>1. alock' \in AlockRec
    BY <1>1, <1>11 DEF QueuePrepare, Unlocked, AlockRec, LockPoints
  <2>2. UNCHANGED <<session, turn, log, order, runs, fence, run, calls, stop, done, cancelled, wake,
                    holds, adapter, resume, faults>>
    BY <1>11 DEF QueuePrepare, disk, threads
  <2> QED BY <2>1, <2>2
<1>12. CASE QueueFails
  <2>1. run[Queue].turn \in Turns
    BY <1>1, <1>12 DEF QueueFails, At
  <2>2. turn' = turn \/ turn' = Failed(run[Queue].turn, "failed", FALSE)
    BY <1>12 DEF QueueFails, Q
  <2>3. turn' \in [Turns -> TurnRec]
    BY <2>1, <2>2, FailedWrite DEF Statuses, TERMINAL_TURN_STATES
  <2>4. UNCHANGED <<done, stop>> \/ EventSet(run[Queue].turn)
    BY <1>12 DEF QueueFails, Q
  <2>5. done' \in [Turns -> DoneRec] /\ stop' \in [Turns -> StopRec]
    BY <2>1, <2>4, EventSetWrite
  <2>6. run' \in [Workers -> RunRec]
    BY <1>4, <1>12 DEF QueueFails, RunPoints
  <2>7. UNCHANGED <<session, log, order, runs, fence, calls, cancelled, wake, holds, adapter, alock,
                    resume, faults>>
    BY <1>12 DEF QueueFails, link
  <2> QED BY <2>3, <2>5, <2>6, <2>7
<1>13. CASE QueueForgets
  <2>1. run[Queue].turn \in Turns
    BY <1>1, <1>13 DEF QueueForgets, At
  <2>2. log' \in [Turns -> LogRec] /\ session' \in SessionRec
    BY <1>13, <2>1, FailureWrite, ReleaseWrite DEF QueueForgets, Q
  <2>3. done' \in [Turns -> DoneRec] /\ stop' \in [Turns -> StopRec]
    BY <1>13, <2>1, EventSetWrite DEF QueueForgets, Q
  <2>4. run' \in [Workers -> RunRec]
    BY <1>4, <1>13 DEF QueueForgets, RunPoints
  <2>5. UNCHANGED <<turn, order, runs, fence, calls, cancelled, wake, holds, adapter, alock, resume,
                    faults>>
    BY <1>13 DEF QueueForgets, link
  <2> QED BY <2>2, <2>3, <2>4, <2>5
<1>14. CASE QueueRuns
  <2>1. run[Queue].turn \in Turns
    BY <1>1, <1>14 DEF QueueRuns, At
  <2>2. done' \in [Turns -> DoneRec]
    <3>1. [by |-> Queue, set |-> FALSE] \in DoneRec
      BY <1>1 DEF DoneRec
    <3> QED BY <1>14, <2>1, <3>1 DEF QueueRuns, Q
  <2>3. run' \in [Workers -> RunRec] /\ wake' \in BOOLEAN
    BY <1>2, <1>4, <1>14 DEF QueueRuns, QueueRests, RunPoints
  <2>4. UNCHANGED <<session, turn, log, order, runs, fence, calls, stop, cancelled, holds, adapter,
                    alock, resume, faults>>
    BY <1>14 DEF QueueRuns, disk, link
  <2> QED BY <2>2, <2>3, <2>4
<1> QED
  BY <1>5, <1>6, <1>7, <1>8, <1>9, <1>10, <1>11, <1>12, <1>13, <1>14 DEF QueueStep

-----------------------------------------------------------------------------
(* Where the threads go.                                                     *)

\* A worker ends, or goes on executing its Turn; it moves no other thread.
LEMMA WorkerMoves ==
  ASSUME Shape, ThreadInv, NEW w \in Workers, Worker(w)
  PROVE  /\ run[w].pc \in Executing \cup {"fence"} /\ run[w].turn \in Turns
         /\ \A v \in Workers \ {w} : run'[v] = run[v]
         /\ \/ run'[w].pc \in Executing /\ run'[w].turn = run[w].turn
            \/ run'[w].pc = (IF w = Queue THEN "loop" ELSE "idle") /\ run'[w].turn = None
         /\ run'[w].tool => run'[w].pc \in {"provider", "backoff"}
         /\ UNCHANGED <<order, calls, wake, alock, resume>>
<1> USE DEF Shape, ThreadShape
<1>1. run[w].pc \in Executing \cup {"fence"}
  BY DEF Worker, StartTurn, Check, CallProvider, ToolRuns, PlanRetry, Retry, CommitAnswer,
         FinalizeTurn, ProviderFails, PublishFailure, MarkStale, WorkerDies, At, Executing
<1>2. /\ run[w].turn \in Turns /\ run[w].turn \in Turns \cup {None}
      /\ run[w].tool => run[w].pc \in {"provider", "backoff"}
  BY <1>1 DEF ThreadInv, Executing
<1>3. ASSUME NEW pc \in Executing, Goto(w, pc), ~run[w].tool \/ pc \in {"provider", "backoff"}
      PROVE  /\ \A v \in Workers \ {w} : run'[v] = run[v]
             /\ run'[w].pc \in Executing /\ run'[w].turn = run[w].turn
             /\ run'[w].tool => run'[w].pc \in {"provider", "backoff"}
  <2>1. pc \in RunPoints
    BY DEF Executing, RunPoints
  <2> QED BY <1>3, <2>1, Goes
<1>4. ASSUME EndRun(w)
      PROVE  /\ \A v \in Workers \ {w} : run'[v] = run[v]
             /\ run'[w].pc = (IF w = Queue THEN "loop" ELSE "idle") /\ run'[w].turn = None
             /\ ~run'[w].tool
  BY <1>2, <1>4, EndRunWrite, Zenon
<1>5. UNCHANGED <<order, calls, wake, alock, resume>>
  BY DEF Worker, StartTurn, Check, CallProvider, ToolRuns, PlanRetry, Retry, CommitAnswer,
         FinalizeTurn, ProviderFails, PublishFailure, MarkStale, WorkerDies, disk, memory, link
<1>6. CASE StartTurn(w)
  <2>1. \/ EndRun(w) \/ Goto(w, "check")
        \/ run' = [run EXCEPT ![w] = IF w = Queue THEN Thread("loop", None) ELSE Idle]
    BY <1>6 DEF StartTurn
  <2>2. run[w].pc = "fence" /\ ~run[w].tool
    BY <1>2, <1>6 DEF StartTurn, At
  <2>3. CASE run' = [run EXCEPT ![w] = IF w = Queue THEN Thread("loop", None) ELSE Idle]
    BY <1>1, <1>2, <1>5, <2>3 DEF Idle, Thread
  <2>4. CASE Goto(w, "check")
    <3>1. "check" \in Executing
      BY DEF Executing
    <3> QED BY <1>1, <1>2, <1>3, <1>5, <2>2, <2>4, <3>1
  <2> QED BY <1>1, <1>2, <1>4, <1>5, <2>1, <2>3, <2>4
<1>7. ASSUME NEW pc \in {"check", "provider"}, NEW next \in {"call", "commit"}, Check(w, pc, next),
             pc = "check" => next = "call", pc = "provider" => next = "commit"
      PROVE  /\ \A v \in Workers \ {w} : run'[v] = run[v]
             /\ \/ run'[w].pc \in Executing /\ run'[w].turn = run[w].turn
                \/ run'[w].pc = (IF w = Queue THEN "loop" ELSE "idle") /\ run'[w].turn = None
             /\ run'[w].tool => run'[w].pc \in {"provider", "backoff"}
  <2>1. PICK b \in BOOLEAN : b = (run[w].tool /\ next = "call")
    OBVIOUS
  <2>2. EndRun(w) \/ run' = [run EXCEPT ![w].pc = next, ![w].tool = b]
    BY <1>7, <2>1 DEF Check
  <2>3. ~b
    <3>1. CASE pc = "check"
      BY <1>2, <1>7, <2>1, <3>1 DEF Check, At
    <3> QED BY <1>7, <2>1, <3>1
  <2>4. CASE run' = [run EXCEPT ![w].pc = next, ![w].tool = b]
    <3>1. next \in RunPoints /\ next \in Executing
      BY DEF RunPoints, Executing
    <3> QED BY <2>3, <2>4, <3>1, GoesOn
  <2> QED BY <1>4, <2>2, <2>4
<1>8. CASE ToolRuns(w)
  <2>1. run' = [run EXCEPT ![w].tool = TRUE] /\ run[w].pc \in {"provider", "backoff"}
    BY <1>8 DEF ToolRuns, At
  <2>2. /\ \A v \in Workers \ {w} : run'[v] = run[v]
        /\ run'[w].pc = run[w].pc /\ run'[w].turn = run[w].turn
    BY <2>1 DEF RunRec
  <2> QED BY <1>1, <1>2, <1>5, <2>1, <2>2 DEF Executing
<1>9. CASE \E s \in Failures : ProviderFails(w, s)
  <2>1. EndRun(w) \/ run' = [run EXCEPT ![w] = Thread("failed", run[w].turn)]
    BY <1>9 DEF ProviderFails
  <2>2. CASE run' = [run EXCEPT ![w] = Thread("failed", run[w].turn)]
    <3>1. "failed" \in RunPoints /\ "failed" \in Executing
      BY DEF RunPoints, Executing
    <3> QED BY <1>1, <1>2, <1>5, <2>2, <3>1, GoesTo
  <2> QED BY <1>1, <1>2, <1>4, <1>5, <2>1, <2>2
<1>10. CASE \/ CallProvider(w) \/ PlanRetry(w) \/ Retry(w) \/ CommitAnswer(w)
            \/ (\E k \in 1..3 : FinalizeTurn(w, k)) \/ PublishFailure(w) \/ MarkStale(w)
            \/ WorkerDies(w)
  <2>1. \/ EndRun(w)
        \/ \E pc \in Executing : Goto(w, pc) /\ (~run[w].tool \/ pc \in {"provider", "backoff"})
    <3>1. \/ EndRun(w) \/ Goto(w, "provider") \/ Goto(w, "backoff")
          \/ Goto(w, "check") /\ Readback(w)
          \/ Goto(w, "finalize") /\ run[w].pc = "commit"
          \/ Goto(w, "stale") /\ run[w].pc = "failed"
      BY <1>10 DEF CallProvider, PlanRetry, Retry, CommitAnswer, FinalizeTurn, PublishFailure,
                   MarkStale, WorkerDies, At
    <3> QED BY <1>2, <3>1 DEF Executing, Readback
  <2> QED BY <1>1, <1>2, <1>3, <1>4, <1>5, <2>1
<1> QED BY <1>1, <1>2, <1>5, <1>6, <1>7, <1>8, <1>9, <1>10 DEF Worker

\* The queue worker does not execute while it looks for work.
QueuePoints == RunPoints \ (Executing \cup {"idle"})

\* It enters the fence from its readiness only, and it starts no other thread.
LEMMA QueueMoves ==
  ASSUME Shape, ThreadInv, QueueStep
  PROVE  /\ run[Queue].pc \in QueuePoints \ {"fence"}
         /\ \A t \in Turns : run'[t] = run[t]
         /\ run'[Queue].pc \in QueuePoints \cup {"idle"} /\ ~run'[Queue].tool
         /\ run'[Queue].pc \notin {"idle", "loop", "scan", "retire"} => run'[Queue].turn \in Turns
         /\ run'[Queue].pc = "fence" => QueueRuns /\ run'[Queue].turn = run[Queue].turn
         /\ alock'.by = Queue => run'[Queue].pc \in {"adapt", "prepareActive"}
         /\ alock'.at = "event" => alock' = alock
         /\ UNCHANGED <<order, runs, fence, calls, cancelled>>
<1> USE DEF Shape, ThreadShape, MemoryShape, DiskShape
<1>1. Queue \in Workers /\ Queue \notin Turns /\ Turns \subseteq Workers
  BY ConstantsDistinct DEF Workers
<1>2. run[Queue].pc \in {"loop", "drop", "scan", "claimed", "retire", "prepare", "adapt",
                         "prepareActive", "unfit", "unfitActive", "forget", "forgetActive", "ready"}
  BY DEF QueueStep, QueueLoop, QueueDrop, QueueScan, QueueClaim, QueueRetire, QueueCheck,
         QueuePrepare, QueueFails, QueueForgets, QueueRuns, At
<1>3. run[Queue].pc \in QueuePoints \ {"fence"} /\ ~run[Queue].tool
  BY <1>1, <1>2 DEF QueuePoints, RunPoints, Executing, ThreadInv
<1>4. run[Queue].pc \notin {"idle", "loop", "scan", "retire"} => run[Queue].turn \in Turns
  BY <1>1 DEF ThreadInv
<1>5. UNCHANGED <<order, runs, fence, calls, cancelled>>
  BY DEF QueueStep, QueueLoop, QueueDrop, QueueScan, QueueClaim, QueueRetire, QueueCheck,
         QueuePrepare, QueueFails, QueueForgets, QueueRuns, disk, threads, memory
<1>6. {"loop", "scan", "retire", "claimed", "prepare", "adapt", "prepareActive", "unfit", "unfitActive",
       "forget", "forgetActive", "ready", "fence", "drop"} \subseteq QueuePoints \cap RunPoints
  BY DEF QueuePoints, RunPoints, Executing
<1>7. ASSUME NEW pc \in QueuePoints \cap RunPoints, Goto(Queue, pc)
      PROVE  /\ \A t \in Turns : run'[t] = run[t]
             /\ run'[Queue].pc = pc /\ run'[Queue].turn = run[Queue].turn /\ ~run'[Queue].tool
  BY <1>1, <1>3, <1>7, Goes
<1>8. ASSUME QueueRests
      PROVE  (\A t \in Turns : run'[t] = run[t]) /\ run'[Queue].pc = "idle" /\ ~run'[Queue].tool
  BY <1>1, <1>8 DEF QueueRests, Idle, Thread
<1>9. ASSUME NEW pc \in QueuePoints \cap RunPoints, NEW t \in Turns \cup {None}, QueueGoes(pc, t)
      PROVE  /\ \A u \in Turns : run'[u] = run[u]
             /\ run'[Queue].pc = pc /\ run'[Queue].turn = t /\ ~run'[Queue].tool
  BY <1>1, <1>9, GoesTo DEF QueueGoes
<1>10. CASE QueuePrepare
  <2>1. /\ run' = run /\ run[Queue].pc \in {"adapt", "prepareActive"}
        /\ alock' = [Unlocked EXCEPT !.by = Queue, !.at = "ensure"]
    BY <1>10 DEF QueuePrepare, threads, At
  <2>2. alock'.at # "event"
    BY <2>1 DEF Unlocked
  <2> QED BY <1>3, <1>4, <1>5, <2>1, <2>2
<1>11. CASE ~QueuePrepare
  <2>1. alock' = alock
    BY <1>11 DEF QueueStep, QueueLoop, QueueDrop, QueueScan, QueueClaim, QueueRetire, QueueCheck,
                 QueueFails, QueueForgets, QueueRuns, memory, link
  <2>2. run[Queue].pc \notin {"adapt", "prepareActive"}
    BY <1>11 DEF QueueStep, QueueLoop, QueueDrop, QueueScan, QueueClaim, QueueRetire, QueueCheck,
                 QueueFails, QueueForgets, QueueRuns, At
  <2>3. alock'.by # Queue
    BY <2>1, <2>2 DEF ThreadInv
  <2>4. CASE QueueLoop
    <3>1. session.active \in Turns \cup {None}
      BY DEF SessionRec
    <3>2. \/ QueueRests \/ QueueGoes("scan", None)
          \/ \E pc \in {"prepare", "prepareActive", "drop"}, t \in Turns : QueueGoes(pc, t)
      BY <2>4, <3>1 DEF QueueLoop
    <3> QED BY <1>3, <1>5, <1>6, <1>8, <1>9, <2>1, <2>3, <3>2
  <2>5. CASE QueueScan
    <3>1. \/ Goto(Queue, "retire") \/ QueueRests
          \/ Claimable /\ QueueGoes("claimed", Oldest)
      BY <2>5 DEF QueueScan
    <3>2. Claimable => Oldest \in Turns
      BY OldestIsQueued
    <3> QED BY <1>3, <1>5, <1>6, <1>7, <1>8, <1>9, <2>1, <2>3, <3>1, <3>2
  <2>6. CASE QueueRuns
    <3>1. (QueueRests \/ Goto(Queue, "fence")) /\ run[Queue].pc = "ready"
      BY <2>6 DEF QueueRuns, At
    <3> QED BY <1>3, <1>4, <1>5, <1>6, <1>7, <1>8, <2>1, <2>3, <2>6, <3>1
  <2>7. CASE QueueDrop \/ QueueRetire \/ QueueCheck
    <3>1. \/ QueueRests \/ Goto(Queue, "scan") \/ Goto(Queue, "loop")
          \/ Goto(Queue, "adapt") /\ run[Queue].pc = "prepare"
      BY <2>7 DEF QueueDrop, QueueRetire, QueueCheck, At
    <3> QED BY <1>3, <1>4, <1>5, <1>6, <1>7, <1>8, <2>1, <2>3, <3>1
  <2>8. CASE QueueClaim \/ QueueFails \/ QueueForgets
    <3>1. \E pc \in {"prepare", "forget", "forgetActive", "drop", "loop"} : Goto(Queue, pc)
      BY <2>8 DEF QueueClaim, QueueFails, QueueForgets
    <3>2. run[Queue].turn \in Turns
      BY <1>4, <2>8 DEF QueueClaim, QueueFails, QueueForgets, At
    <3> QED BY <1>3, <1>5, <1>6, <1>7, <2>1, <2>3, <3>1, <3>2
  <2> QED BY <1>11, <2>4, <2>5, <2>6, <2>7, <2>8 DEF QueueStep
<1> QED BY <1>10, <1>11

\* A preparation of the queue worker ends well or not; it moves no other thread.
LEMMA PreparerMoves ==
  ASSUME Shape, ThreadInv, Preparer
  PROVE  /\ \A w \in Workers \ {Queue} : run'[w] = run[w]
         /\ run'[Queue].turn = run[Queue].turn /\ run'[Queue].tool = run[Queue].tool
         /\ \/ run' = run /\ (alock'.by = Queue => alock.by = Queue)
            \/ /\ alock.by = Queue /\ alock' = Unlocked
               /\ run[Queue].pc = "adapt" => run'[Queue].pc \in {"ready", "unfit"}
               /\ run[Queue].pc = "prepareActive" => run'[Queue].pc \in {"loop", "unfitActive"}
         /\ alock'.at = "event" => alock'.victim \in Turns
         /\ UNCHANGED <<order, runs, fence, cancelled, wake>>
<1> USE DEF Shape, ThreadShape, MemoryShape
<1>1. UNCHANGED <<order, runs, fence, cancelled, wake>>
  BY DEF Preparer, PrepareStep, ResumeAsk, ResumeBegin, ResumeTakes, EnsureAdapter, FailLost,
         ReportLost, AdapterStarts, PrepareCut, disk
<1>9. Unlocked.by # Queue /\ Unlocked.at # "event"
  BY ConstantsDistinct DEF Unlocked, Workers
<1>2. CASE Raise
  BY <1>1, <1>2, <1>9, RaiseWrite DEF ThreadInv
<1>3. CASE HasAdapter
  BY <1>1, <1>3, <1>9, HasAdapterWrite DEF ThreadInv
<1>4. CASE ~Raise /\ ~HasAdapter
  <2>5. EnsureAdapter => alock'.by = alock.by /\ alock'.at = "fail"
    <3> SUFFICES ASSUME EnsureAdapter PROVE alock'.by = alock.by /\ alock'.at = "fail"
      OBVIOUS
    <3>1. PICK a, v : alock' = [alock EXCEPT !.at = "fail", !.accepted = a, !.victim = v]
      BY <1>4 DEF EnsureAdapter
    <3> QED BY <3>1 DEF AlockRec
  <2>6. ResumeTakes => alock' = Unlocked \/ (alock'.by = alock.by /\ alock'.at = "ensure")
    <3> SUFFICES ASSUME ResumeTakes, alock' # Unlocked PROVE alock'.by = alock.by /\ alock'.at = "ensure"
      OBVIOUS
    <3>1. PICK v : alock' = [alock EXCEPT !.at = "ensure", !.victim = v]
      BY DEF ResumeTakes
    <3> QED BY <3>1 DEF AlockRec
  <2>1. run' = run
    BY <1>4 DEF Preparer, PrepareStep, ResumeAsk, ResumeBegin, ResumeTakes, EnsureAdapter, FailLost,
                ReportLost, AdapterStarts, PrepareCut, threads
  <2>2. alock'.by = Queue => alock.by = Queue
    <3>1. alock'.by \in {alock.by, "resume", None}
      <4>1. CASE ResumeAsk
        BY <4>1 DEF ResumeAsk
      <4>2. CASE ResumeBegin
        BY <4>2 DEF ResumeBegin, Unlocked
      <4>3. CASE ResumeTakes
        BY <2>6, <4>3 DEF Unlocked
      <4>4. CASE EnsureAdapter
        BY <2>5, <4>4
      <4>5. CASE FailLost
        BY <1>4, <4>5 DEF FailLost, AlockRec
      <4>6. CASE ReportLost
        BY <4>6 DEF ReportLost, AlockRec
      <4> QED BY <1>4, <4>1, <4>2, <4>3, <4>4, <4>5, <4>6 DEF Preparer, PrepareStep, AdapterStarts, PrepareCut
    <3> QED BY <3>1, ConstantsDistinct DEF Workers
  <2>3. alock'.at = "event" => alock'.victim \in Turns
    <3>1. CASE FailLost
      <4>1. \/ alock' = [alock EXCEPT !.at = "start"]
            \/ /\ alock' = [alock EXCEPT !.at = "event"]
               /\ Status(alock.victim) \in {"queued", "starting", "running", "interrupting"}
        BY <1>4, <3>1 DEF FailLost
      <4>2. Status(alock.victim) \in {"queued", "starting", "running", "interrupting"} =>
              alock.victim \in Turns
        BY DEF Status, AlockRec
      <4> QED BY <4>1, <4>2 DEF AlockRec
    <3>2. CASE ResumeAsk
      BY <3>2 DEF ResumeAsk, ThreadInv
    <3>3. CASE ResumeBegin \/ ResumeTakes \/ EnsureAdapter \/ ReportLost
      <4>1. alock'.at \in {"free", "resume", "ensure", "fail", "start"}
        <5>1. CASE ResumeBegin
          BY <5>1 DEF ResumeBegin, Unlocked
        <5>2. CASE ResumeTakes
          BY <2>6, <5>2 DEF Unlocked
        <5>3. CASE EnsureAdapter
          BY <2>5, <5>3
        <5>4. CASE ReportLost
          BY <5>4 DEF ReportLost, AlockRec
        <5> QED BY <3>3, <5>1, <5>2, <5>3, <5>4
      <4> QED BY <4>1
    <3> QED BY <1>4, <3>1, <3>2, <3>3 DEF Preparer, PrepareStep, AdapterStarts, PrepareCut
  <2> QED BY <1>1, <2>1, <2>2, <2>3
<1> QED BY <1>2, <1>3, <1>4

\* The steps of the other threads: none of them executes a Turn.
OtherStep ==
  \/ \E t \in Turns : Client(t) \/ Stopper(t) \/ Recovery(t)
  \/ Service /\ ~Restart

\* They start the queue worker or the thread of a submitted Turn, which were idle.
LEMMA OtherMoves ==
  ASSUME Shape, ThreadInv, OtherStep
  PROVE  /\ \A w \in Workers :
              \/ run'[w] = run[w]
              \/ /\ run[w].pc = "idle"
                 /\ run'[w].pc = "loop" /\ ~run'[w].tool /\ w = Queue
              \/ /\ run[w].pc = "idle" /\ w \in Turns
                 /\ run'[w].pc = "fence" /\ run'[w].turn = w /\ ~run'[w].tool /\ calls[w] = "start"
         /\ alock'.by = Queue => alock.by = Queue
         /\ alock'.at = "event" => alock' = alock
<1> USE DEF Shape, ThreadShape
<1>1. Queue \in Workers /\ Queue \notin Turns /\ Turns \subseteq Workers
  BY ConstantsDistinct DEF Workers
<1>2. ASSUME NEW t \in Turns, StartWorker(t)
      PROVE  /\ \A w \in Workers \ {t} : run'[w] = run[w]
             /\ \/ run'[t] = run[t]
                \/ /\ run[t].pc = "idle" /\ calls[t] = "start"
                   /\ run'[t].pc = "fence" /\ run'[t].turn = t /\ ~run'[t].tool
             /\ alock' = alock
  BY <1>1, <1>2 DEF StartWorker, At, link, Thread
<1>3. ASSUME Wake
      PROVE  /\ \A w \in Workers \ {Queue} : run'[w] = run[w]
             /\ run'[Queue] = run[Queue] \/ (/\ run[Queue].pc = "idle" /\ run'[Queue].pc = "loop"
                                             /\ ~run'[Queue].tool)
  BY <1>1, <1>3 DEF Wake, At, Thread
<1>4. ASSUME NEW t \in Turns, Client(t), ~StartWorker(t), ~WakeQueue(t)
      PROVE  UNCHANGED run /\ (alock' = alock \/ (alock'.by = t /\ alock'.at = "fail"))
  <2>1. UNCHANGED run
    BY <1>4 DEF Client, Submit, SubmitCut, CreateQueued, RetryQueued, threads
  <2>2. alock' = alock \/ alock' = [Unlocked EXCEPT !.by = t, !.at = "fail", !.accepted = t]
    BY <1>4 DEF Client, Submit, SubmitCut, CreateQueued, RetryQueued, memory, link
  <2> QED BY <2>1, <2>2 DEF Unlocked
<1>5. ASSUME NEW t \in Turns, Stopper(t) \/ Recovery(t)
      PROVE  UNCHANGED <<run, alock>>
  BY <1>5 DEF Stopper, Recovery, StopBegin, StopFinalizes, StopCapture, StopSignal, StopUnconfirmed,
              StopMark, StopPublish, RecoverLost, RecoverFail, RecoverComplete, threads, memory, link
<1>6. ASSUME Service, ~Restart, ~PollQueue
      PROVE  UNCHANGED run /\ (alock' = alock \/ (alock'.by \in {None, "close"} /\ alock'.at # "event"))
  <2>1. CASE Close
    BY <2>1 DEF Close, threads, Unlocked
  <2>2. CASE CloseAdapter
    BY <2>2 DEF CloseAdapter, threads, Unlocked
  <2>3. CASE AdapterLost
    BY <2>3 DEF AdapterLost, threads
  <2> QED BY <1>6, <2>1, <2>2, <2>3 DEF Service
<1>7. ASSUME NEW t \in Turns, WakeQueue(t) PROVE Wake /\ alock' = alock
  BY <1>7 DEF WakeQueue, link
<1>8. ASSUME PollQueue PROVE Wake /\ alock' = alock
  BY <1>8 DEF PollQueue, link
<1> QED
  BY <1>1, <1>2, <1>3, <1>4, <1>5, <1>6, <1>7, <1>8, ConstantsDistinct DEF OtherStep, Workers

\* A restart leaves no thread.
LEMMA RestartMoves ==
  ASSUME Restart
  PROVE  /\ \A w \in Workers : run'[w].pc = "idle" /\ run'[w].turn = None /\ ~run'[w].tool
         /\ \A t \in Turns : calls'[t] = "idle" /\ stop'[t].pc = "idle" /\ fence'[t].by = None
         /\ alock' = Unlocked /\ UNCHANGED <<order, runs>>
BY DEF Restart, Idle, Thread, NoStop

\* Every step is a worker's, the queue worker's, another thread's or a restart.
LEMMA StepCases ==
  ASSUME Next
  PROVE  (\E w \in Workers : Worker(w)) \/ QueueStep \/ Preparer \/ OtherStep \/ Restart
BY NextCases DEF OtherStep, Service

\* The shape and the threads' points are inductive.
LEMMA NextKeepsThreads ==
  ASSUME Shape, ThreadInv, [Next]_vars
  PROVE  Shape' /\ ThreadInv'
<1>1. Queue \in Workers /\ Queue \notin Turns /\ Turns \subseteq Workers /\ Workers = Turns \cup {Queue}
  BY ConstantsDistinct DEF Workers
<1>2. ASSUME NEW w \in Workers, Worker(w) PROVE Shape' /\ ThreadInv'
  <2>1. /\ run[w].pc \in Executing \cup {"fence"} /\ run[w].turn \in Turns
        /\ \A v \in Workers \ {w} : run'[v] = run[v]
        /\ \/ run'[w].pc \in Executing /\ run'[w].turn = run[w].turn
           \/ run'[w].pc = (IF w = Queue THEN "loop" ELSE "idle") /\ run'[w].turn = None
        /\ run'[w].tool => run'[w].pc \in {"provider", "backoff"}
        /\ alock' = alock
    BY <1>2, WorkerMoves
  <2>2. w = Queue => alock.by # Queue
    BY <2>1 DEF ThreadInv, Executing
  <2>3. ThreadInv'
    BY <1>1, <2>1, <2>2 DEF ThreadInv, Executing
  <2> QED BY <1>2, <2>3, WorkerShape
<1>3. CASE QueueStep
  <2>1. ThreadInv'
    BY <1>1, <1>3, QueueMoves DEF ThreadInv
  <2> QED BY <1>3, <2>1, QueueShape
<1>4. CASE OtherStep
  <2>1. Shape'
    BY <1>4, ClientShape, StopperShape, RecoveryShape, ServiceShape DEF OtherStep
  <2>2. /\ \A w \in Workers :
             \/ run'[w] = run[w]
             \/ /\ run[w].pc = "idle"
                /\ run'[w].pc = "loop" /\ ~run'[w].tool /\ w = Queue
             \/ /\ run[w].pc = "idle" /\ w \in Turns
                /\ run'[w].pc = "fence" /\ run'[w].turn = w /\ ~run'[w].tool
        /\ alock'.by = Queue => alock.by = Queue
        /\ alock'.at = "event" => alock' = alock
    BY <1>4, OtherMoves
  <2>3. ThreadInv'
    BY <1>1, <2>2 DEF ThreadInv
  <2> QED BY <2>1, <2>3
<1>5. CASE Restart
  <2>1. Shape'
    BY <1>5, ServiceShape DEF Service
  <2>2. ThreadInv'
    BY <1>1, <1>5, RestartMoves, ConstantsDistinct DEF ThreadInv, Unlocked, Workers
  <2> QED BY <2>1, <2>2
<1>6. CASE Preparer
  <2>1. ThreadInv'
    BY <1>1, <1>6, PreparerMoves, ConstantsDistinct DEF ThreadInv, Unlocked, Workers
  <2> QED BY <1>6, <2>1, PreparerShape
<1>7. CASE UNCHANGED vars
  BY <1>7 DEF Shape, DiskShape, ThreadShape, MemoryShape, ThreadInv, vars, disk, threads, memory, link
<1> QED BY <1>2, <1>3, <1>4, <1>5, <1>6, <1>7, StepCases

\* They hold at first.
LEMMA InitThreads ==
  ASSUME Init
  PROVE  Shape /\ ThreadInv
<1>1. session \in SessionRec /\ order \in Seq(Turns) /\ runs \in [Turns -> Nat]
  BY DEF Init, SessionRec
<1>2. turn \in [Turns -> TurnRec] /\ log \in [Turns -> LogRec]
  BY ConstantsDistinct DEF Init, TurnRec, LogRec, Absent
<1>3. run \in [Workers -> RunRec] /\ calls \in [Turns -> {"idle", "prepare", "start", "wake"}]
  BY DEF Init, RunRec, RunPoints, Idle, Thread
<1>4. stop \in [Turns -> StopRec] /\ done \in [Turns -> DoneRec] /\ fence \in [Turns -> FenceRec]
  BY DEF Init, StopRec, DoneRec, FenceRec, NoStop, NoEvent
<1>5. holds \in HoldsRec /\ alock \in AlockRec /\ adapter \in {"none", "sick", "up"}
  BY DEF Init, HoldsRec, AlockRec, NoHolder, Unlocked, LockPoints
<1>6. cancelled \subseteq Turns /\ wake \in BOOLEAN
  BY DEF Init
<1>7. faults \in 0..MaxFaults /\ resume \in ResumeRec
  BY ConstantsDistinct DEF Init, ResumeRec
<1>8. ThreadInv
  BY ConstantsDistinct DEF Init, ThreadInv, Idle, Thread, Unlocked, Workers
<1> QED
  BY <1>1, <1>2, <1>3, <1>4, <1>5, <1>6, <1>7, <1>8 DEF Shape, DiskShape, ThreadShape, MemoryShape


-----------------------------------------------------------------------------
(* How the status of a Turn changes.                                         *)

\* The status of a Turn is in its file.
LEMMA StatusOf ==
  ASSUME NEW t \in Turns
  PROVE  Status(t) = turn[t].status
BY ConstantsDistinct DEF Status, Workers

\* The moves of a status that start no execution and commit no answer.
Settles(s, n) ==
  \/ n = s
  \/ s = "absent" /\ n = "queued" /\ session.status # "closed"
  \/ s \in {"queued", "starting", "running", "interrupting"}
       /\ n \in {"interrupting", "interrupted", "failed"}
  \/ s = "starting" /\ n = "running"
  \/ s = "completing" /\ n = "completed"

AllSettle == \A t \in Turns : Settles(turn[t].status, turn'[t].status)

\* Only one Turn is written.
LEMMA OneSettles ==
  ASSUME NEW t \in Turns, OthersKept(t), Settles(turn[t].status, turn'[t].status)
  PROVE  AllSettle
BY DEF AllSettle, OthersKept, Settles

\* No Turn is written.
LEMMA KeptSettles ==
  ASSUME UNCHANGED turn
  PROVE  AllSettle
BY DEF AllSettle, Settles

\* A live Turn is failed.
LEMMA FailedSettles ==
  ASSUME Shape, NEW t \in Turns, NEW s \in Failures, NEW r \in BOOLEAN, turn' = Failed(t, s, r),
         turn[t].status \in {"queued", "starting", "running", "interrupting"}
  PROVE  /\ s = "failed" => AllSettle
         /\ OthersKept(t) /\ turn'[t].status = s
<1>1. s \in Statuses /\ turn \in [Turns -> TurnRec]
  BY DEF Statuses, TERMINAL_TURN_STATES, Failures, Shape, DiskShape
<1>2. OthersKept(t) /\ turn'[t].status = s
  BY <1>1, FailedWrite, Zenon
<1>3. s = "failed" => Settles(turn[t].status, turn'[t].status)
  BY <1>2 DEF Settles, Failures
<1> QED BY <1>2, <1>3, OneSettles

\* What the preparation of an adapter writes: the failure of the Turn it takes over.
LEMMA FailLostWrites ==
  ASSUME Shape, FailLost
  PROVE  \/ UNCHANGED turn /\ alock'.at # "event"
         \/ \E t \in Turns : /\ t = alock.victim /\ turn' = Failed(t, "failed", TRUE)
                             /\ turn[t].status \in {"queued", "starting", "running", "interrupting"}
                             /\ alock'.at = "event" /\ alock'.victim = t
<1>1. alock \in AlockRec
  BY DEF Shape, MemoryShape
<1>2. \/ UNCHANGED turn /\ alock' = [alock EXCEPT !.at = "start"]
      \/ UNCHANGED turn /\ alock' = Unlocked
      \/ /\ turn' = Failed(alock.victim, "failed", TRUE) /\ alock' = [alock EXCEPT !.at = "event"]
         /\ Status(alock.victim) \in {"queued", "starting", "running", "interrupting"}
  BY DEF FailLost, Raise
<1>3. CASE UNCHANGED turn /\ (alock' = [alock EXCEPT !.at = "start"] \/ alock' = Unlocked)
  <2>1. alock' = [alock EXCEPT !.at = "start"] => alock'.at = "start"
    BY <1>1 DEF AlockRec
  <2>2. Unlocked.at = "free"
    BY DEF Unlocked
  <2> QED BY <1>3, <2>1, <2>2
<1>4. CASE /\ turn' = Failed(alock.victim, "failed", TRUE) /\ alock' = [alock EXCEPT !.at = "event"]
           /\ Status(alock.victim) \in {"queued", "starting", "running", "interrupting"}
  <2>1. alock.victim \in Turns
    BY <1>1, <1>4 DEF Status, AlockRec
  <2>2. turn[alock.victim].status = Status(alock.victim)
    BY <2>1, StatusOf
  <2>3. alock'.at = "event" /\ alock'.victim = alock.victim
    BY <1>1, <1>4 DEF AlockRec
  <2> QED BY <1>4, <2>1, <2>2, <2>3
<1> QED BY <1>2, <1>3, <1>4

\* What the queue worker writes when its preparation failed.
LEMMA QueueFailsWrites ==
  ASSUME Shape, QueueFails, NEW t \in Turns, t = run[Queue].turn
  PROVE  \/ UNCHANGED turn /\ turn[t].status \notin {"queued", "starting", "running"}
         \/ /\ turn' = Failed(t, "failed", FALSE)
            /\ turn[t].status \in {"queued", "starting", "running"}
BY StatusOf DEF QueueFails, Q

\* Nobody but a worker starts a Turn or commits its answer.
LEMMA OthersSettle ==
  ASSUME Shape, ThreadInv, QueueStep \/ Preparer \/ OtherStep \/ Restart
  PROVE  AllSettle
<1>1. turn \in [Turns -> TurnRec] /\ Queue \in Workers
  BY DEF Shape, DiskShape, Workers
<1>2. CASE QueueStep
  <2>1. CASE UNCHANGED turn
    BY <2>1, KeptSettles
  <2>2. CASE QueueFails
    <3>1. PICK t \in Turns : t = run[Queue].turn
      BY <1>1, <2>2 DEF QueueFails, At, ThreadInv
    <3>2. \/ UNCHANGED turn
          \/ turn' = Failed(t, "failed", FALSE) /\ turn[t].status \in {"queued", "starting", "running"}
      BY <2>2, <3>1, QueueFailsWrites
    <3> QED BY <2>1, <3>2, FailedSettles DEF Failures
  <2> QED
    BY <1>2, <2>1, <2>2
       DEF QueueStep, QueueLoop, QueueDrop, QueueScan, QueueClaim, QueueRetire, QueueCheck,
           QueuePrepare, QueueForgets, QueueRuns, disk
<1>8. CASE Preparer
  <2>1. CASE UNCHANGED turn
    BY <2>1, KeptSettles
  <2>2. CASE FailLost
    BY <2>1, <2>2, FailLostWrites, FailedSettles DEF Failures
  <2> QED
    BY <1>8, <2>1, <2>2
       DEF Preparer, PrepareStep, ResumeAsk, ResumeBegin, ResumeTakes, EnsureAdapter, ReportLost,
           AdapterStarts, PrepareCut, disk
<1>3. ASSUME NEW t \in Turns, Client(t) PROVE AllSettle
  <2>1. ASSUME NEW k \in 1..5, Accept(t, k), session.status # "closed" PROVE AllSettle
    <3>1. /\ OthersKept(t)
          /\ turn[t].status = "absent" => turn'[t].status = "queued"
          /\ turn[t].status # "absent" => turn'[t].status = turn[t].status
      BY <2>1, AcceptedTurnWrite
    <3> QED BY <2>1, <3>1, OneSettles DEF Settles
  <2>2. ASSUME NEW k \in 1..3, CreateQueued(t, k) PROVE AllSettle
    <3>1. OthersKept(t) /\ turn'[t].status = "queued"
      BY <1>1, <2>2, QueuedTurnWrite
    <3>2. turn[t].status = "absent" /\ session.status # "closed"
      BY <2>2, StatusOf DEF CreateQueued
    <3> QED BY <3>1, <3>2, OneSettles DEF Settles
  <2>3. CASE Submit(t)
    BY <2>1, <2>3 DEF Submit
  <2>4. ASSUME NEW k \in 1..4, SubmitCut(t, k) PROVE AllSettle
    BY <2>1, <2>4 DEF SubmitCut
  <2>5. CASE UNCHANGED turn
    BY <2>5, KeptSettles
  <2> QED
    BY <1>3, <2>2, <2>3, <2>4, <2>5 DEF Client, RetryQueued, StartWorker, WakeQueue, disk
<1>4. ASSUME NEW t \in Turns, Stopper(t) PROVE AllSettle
  <2>1. CASE UNCHANGED turn
    BY <2>1, KeptSettles
  <2>2. CASE StopBegin(t)
    <3>1. OthersKept(t) /\ turn'[t].status = "interrupting"
      BY <1>1, <2>2, StoppedWrite
    <3>2. turn[t].status \in {"queued", "starting", "running", "interrupting"}
      BY <2>2, StatusOf DEF StopBegin
    <3> QED BY <3>1, <3>2, OneSettles DEF Settles
  <2>3. CASE StopFinalizes(t)
    <3>1. SetStatus(t, "completed") /\ turn[t].status = "completing"
      BY <2>3, StatusOf DEF StopFinalizes
    <3>2. OthersKept(t) /\ turn'[t].status = "completed"
      BY <1>1, <3>1, StatusWrite DEF Statuses, TERMINAL_TURN_STATES
    <3> QED BY <3>1, <3>2, OneSettles DEF Settles
  <2>4. CASE StopMark(t)
    <3>1. UNCHANGED turn \/ (SetStatus(t, "interrupted") /\ turn[t].status = "interrupting")
      BY <2>4, StatusOf DEF StopMark
    <3>2. CASE SetStatus(t, "interrupted") /\ turn[t].status = "interrupting"
      <4>1. OthersKept(t) /\ turn'[t].status = "interrupted"
        BY <1>1, <3>2, StatusWrite DEF Statuses, TERMINAL_TURN_STATES
      <4> QED BY <3>2, <4>1, OneSettles DEF Settles
    <3> QED BY <2>1, <3>1, <3>2
  <2> QED
    BY <1>4, <2>1, <2>2, <2>3, <2>4
       DEF Stopper, StopCapture, StopSignal, StopUnconfirmed, StopPublish, disk
<1>5. ASSUME NEW t \in Turns, Recovery(t) PROVE AllSettle
  <2>1. CASE UNCHANGED turn
    BY <2>1, KeptSettles
  <2>2. ASSUME NEW k \in 1..3, RecoverFail(t, k) PROVE AllSettle
    <3>1. \/ UNCHANGED turn
          \/ /\ turn' = Failed(t, "failed", TRUE)
             /\ turn[t].status \in {"starting", "running", "interrupting"}
      BY <2>2, StatusOf DEF RecoverFail
    <3> QED BY <2>1, <3>1, FailedSettles DEF Failures
  <2> QED BY <1>5, <2>1, <2>2 DEF Recovery, RecoverLost, RecoverComplete, disk
<1>6. CASE Service /\ ~Restart
  BY <1>6, KeptSettles DEF Service, PollQueue, Close, CloseAdapter, AdapterLost, disk
<1>7. CASE Restart
  <2>1. ASSUME NEW t \in Turns PROVE Settles(turn[t].status, turn'[t].status)
    <3>1. turn'[t] = IF turn[t].status = "completing" THEN [turn[t] EXCEPT !.status = "completed"]
                     ELSE turn[t]
      BY <1>7, StatusOf DEF Restart, Committed
    <3>2. turn[t] \in TurnRec
      BY <1>1
    <3> QED BY <3>1, <3>2 DEF Settles, TurnRec
  <2> QED BY <2>1 DEF AllSettle
<1> QED BY <1>2, <1>3, <1>4, <1>5, <1>6, <1>7, <1>8 DEF OtherStep

-----------------------------------------------------------------------------
(* What a step publishes.                                                    *)

\* What a step does to the books of a Turn: its input is written down, a failure, a
\* stop or an answer is published.
Noted(t) ==
  /\ log'[t].user \in {1, log[t].user} /\ log'[t].answers = log[t].answers
  /\ log'[t].failures = log[t].failures /\ log'[t].stops = log[t].stops
  /\ turn'[t].status = "completed" => turn[t].status = "completed"
FailurePublished(t) ==
  /\ turn'[t].status \in Failures
  /\ log'[t].user = log[t].user /\ log'[t].answers = log[t].answers
  /\ log'[t].stops = log[t].stops
StopPublished(t) ==
  /\ stop[t].pc = "publish" /\ stop'[t].pc # "publish"
  /\ turn'[t] = turn[t] /\ log'[t].stops = log[t].stops + 1
  /\ log'[t].user = log[t].user /\ log'[t].answers = log[t].answers
  /\ log'[t].failures = log[t].failures
AnswerPublished(t) ==
  /\ turn[t].status = "completing" /\ turn'[t].status \in {"completing", "completed"}
  /\ log'[t].user = log[t].user /\ log'[t].failures = log[t].failures
  /\ log'[t].stops = log[t].stops
  /\ log[t].answers # 0 => log'[t].answers = log[t].answers
  /\ log[t].answers = 0 => log'[t].answers = 1

Booked(t) ==
  /\ Noted(t) \/ FailurePublished(t) \/ StopPublished(t) \/ AnswerPublished(t)
  /\ log'[t].stopAsked => log[t].stopAsked \/ turn'[t].status = "interrupting"

\* A stop is about to be published when it found its Turn still interrupting.
StopFound(t) ==
  stop'[t].pc = "publish" =>
    \/ stop[t].pc = "publish"
    \/ /\ turn[t].status = "interrupting" /\ turn'[t].status = "interrupted"
       /\ log'[t] = log[t]

AllBooked == \A t \in Turns : Booked(t) /\ StopFound(t)
StopsKept == \A t \in Turns : stop'[t].pc = "publish" => stop[t].pc = "publish"
RetriesKept == \A t \in Turns : log'[t].retries = log[t].retries

\* Nothing is published.
LEMMA NothingBooked ==
  ASSUME UNCHANGED <<turn, log>>, StopsKept
  PROVE  AllBooked /\ RetriesKept
BY DEF AllBooked, Booked, StopFound, Noted, StopsKept, RetriesKept

\* Only one Turn is published.
LEMMA OneBooked ==
  ASSUME NEW t \in Turns, OthersKept(t), LogsKept(t), StopsKept, Booked(t)
  PROVE  /\ AllBooked
         /\ log'[t].retries = log[t].retries => RetriesKept
BY DEF AllBooked, Booked, StopFound, Noted, StopsKept, OthersKept, LogsKept, RetriesKept

\* A failure is recorded, and not yet published.
LEMMA FailureNoted ==
  ASSUME NEW t \in Turns, OthersKept(t), UNCHANGED log, StopsKept, turn'[t].status = "failed"
  PROVE  AllBooked /\ RetriesKept
<1>1. Booked(t) /\ LogsKept(t)
  BY DEF Booked, Noted, LogsKept
<1> QED BY <1>1, OneBooked

\* A failure that was recorded is published.
LEMMA FailureBooked ==
  ASSUME Shape, NEW t \in Turns, OthersKept(t), log' = ReportFailure(t), StopsKept,
         turn'[t].status \in Failures
  PROVE  AllBooked /\ RetriesKept
<1>1. /\ LogsKept(t) /\ log'[t].failures = log[t].failures + 1 /\ log'[t].stops = log[t].stops
      /\ log'[t].user = log[t].user /\ log'[t].answers = log[t].answers
      /\ log'[t].stopAsked = log[t].stopAsked /\ log'[t].retries = log[t].retries
  BY FailureWrite DEF Shape, DiskShape
<1>2. Booked(t)
  BY <1>1 DEF Booked, FailurePublished
<1> QED BY <1>1, <1>2, OneBooked

\* The input of a Turn is published.
LEMMA InputBooked ==
  ASSUME NEW t \in Turns, OthersKept(t), InputWritten(t), StopsKept,
         turn'[t].status = "completed" => turn[t].status = "completed",
         log'[t].stopAsked => log[t].stopAsked \/ turn'[t].status = "interrupting"
  PROVE  AllBooked /\ RetriesKept
BY OneBooked DEF Booked, Noted, InputWritten, SameOutcome

\* An answer that was committed is published.
LEMMA AnswerBooked ==
  ASSUME Shape, NEW t \in Turns, OthersKept(t), log' = Answer(t), StopsKept,
         turn[t].status = "completing", turn'[t].status \in {"completing", "completed"}
  PROVE  AllBooked /\ RetriesKept
<1>1. /\ LogsKept(t)
      /\ log[t].answers # 0 => log' = log
      /\ log[t].answers = 0 => log'[t].answers = 1
      /\ log'[t].user = log[t].user /\ log'[t].failures = log[t].failures
      /\ log'[t].stops = log[t].stops /\ log'[t].retries = log[t].retries
      /\ log'[t].stopAsked = log[t].stopAsked
  BY AnswerWrite DEF Shape, DiskShape
<1>2. Booked(t)
  BY <1>1 DEF Booked, AnswerPublished
<1> QED BY <1>1, <1>2, OneBooked

\* The callers publish inputs only.
LEMMA ClientBooks ==
  ASSUME Shape, NEW t \in Turns, Client(t)
  PROVE  AllBooked /\ RetriesKept
<1>1. turn \in [Turns -> TurnRec] /\ log \in [Turns -> LogRec]
  BY DEF Shape, DiskShape
<1>2. StopsKept
  BY DEF Client, Submit, SubmitCut, CreateQueued, RetryQueued, StartWorker, WakeQueue, threads,
         StopsKept
<1>3. ASSUME NEW k \in 1..5, Accept(t, k) PROVE AllBooked /\ RetriesKept
  <2>1. /\ OthersKept(t)
        /\ turn[t].status = "absent" => turn'[t].status = "queued"
        /\ turn[t].status # "absent" => turn'[t].status = turn[t].status
    BY <1>3, AcceptedTurnWrite
  <2>2. InputWritten(t) /\ log'[t].stopAsked = log[t].stopAsked
    BY <1>1, <1>3, AcceptedInputWrite
  <2> QED BY <1>2, <2>1, <2>2, InputBooked
<1>4. ASSUME NEW k \in 1..3, CreateQueued(t, k) PROVE AllBooked /\ RetriesKept
  <2>1. OthersKept(t) /\ turn'[t].status = "queued"
    BY <1>1, <1>4, QueuedTurnWrite
  <2>2. InputWritten(t) /\ log'[t].stopAsked = log[t].stopAsked
    BY <1>1, <1>4, QueuedInputWrite
  <2> QED BY <1>2, <2>1, <2>2, InputBooked
<1>5. CASE RetryQueued(t)
  <2>1. UNCHANGED turn /\ log' = RecoverInput(t)
    BY <1>5 DEF RetryQueued
  <2>2. InputWritten(t) /\ log'[t].stopAsked = log[t].stopAsked
    BY <1>1, <2>1, RecoveredInputWrite
  <2> QED BY <1>2, <2>1, <2>2, InputBooked DEF OthersKept
<1>6. CASE Submit(t)
  BY <1>3, <1>6 DEF Submit
<1>7. ASSUME NEW k \in 1..4, SubmitCut(t, k) PROVE AllBooked /\ RetriesKept
  BY <1>3, <1>7 DEF SubmitCut
<1>8. CASE StartWorker(t) \/ WakeQueue(t)
  <2>1. UNCHANGED <<turn, log>>
    BY <1>8 DEF StartWorker, WakeQueue, disk
  <2> QED BY <1>2, <2>1, NothingBooked
<1> QED BY <1>4, <1>5, <1>6, <1>7, <1>8 DEF Client

\* A stop publishes an input, an answer that was committed, or its own outcome.
LEMMA StopperBooks ==
  ASSUME Shape, NEW t \in Turns, Stopper(t)
  PROVE  AllBooked /\ RetriesKept
<1>1. /\ turn \in [Turns -> TurnRec] /\ log \in [Turns -> LogRec] /\ stop \in [Turns -> StopRec]
  BY DEF Shape, DiskShape, ThreadShape
<1>2. CASE StopBegin(t)
  <2>1. OthersKept(t) /\ turn'[t].status = "interrupting"
    BY <1>1, <1>2, StoppedWrite
  <2>2. InputWritten(t)
    BY <1>1, <1>2, StoppedInputWrite
  <2>3. StopsKept
    BY <1>1, <1>2 DEF StopBegin, StopsKept, NoStop
  <2> QED BY <2>1, <2>2, <2>3, InputBooked
<1>3. CASE StopFinalizes(t)
  <2>1. /\ turn[t].status = "completing" /\ SetStatus(t, "completed") /\ log' = Answer(t)
        /\ StopsKept
    BY <1>3, StatusOf DEF StopFinalizes, threads, StopsKept
  <2>2. OthersKept(t) /\ turn'[t].status = "completed"
    BY <1>1, <2>1, StatusWrite DEF Statuses, TERMINAL_TURN_STATES
  <2> QED BY <2>1, <2>2, AnswerBooked
<1>4. CASE StopMark(t)
  <2>1. UNCHANGED log
    BY <1>4 DEF StopMark
  <2>2. CASE turn[t].status = "interrupting"
    <3>1. SetStatus(t, "interrupted") /\ stop' = [stop EXCEPT ![t].pc = "publish"]
      BY <1>4, <2>2, StatusOf DEF StopMark
    <3>2. OthersKept(t) /\ turn'[t].status = "interrupted"
      BY <1>1, <3>1, StatusWrite DEF Statuses, TERMINAL_TURN_STATES
    <3>3. \A u \in Turns \ {t} : stop'[u] = stop[u]
      BY <1>1, <3>1
    <3> QED
      BY <2>1, <2>2, <3>2, <3>3 DEF AllBooked, Booked, StopFound, Noted, OthersKept, RetriesKept
  <2>3. CASE turn[t].status # "interrupting"
    <3>1. UNCHANGED turn /\ stop' = [stop EXCEPT ![t] = NoStop]
      BY <1>4, <2>3, StatusOf DEF StopMark
    <3>2. StopsKept
      BY <1>1, <3>1 DEF StopsKept, NoStop
    <3> QED BY <2>1, <3>1, <3>2, NothingBooked
  <2> QED BY <2>2, <2>3
<1>5. CASE StopPublish(t)
  <2>1. /\ stop[t].pc = "publish" /\ log' = [log EXCEPT ![t].stops = @ + 1] /\ UNCHANGED turn
        /\ stop' = [stop EXCEPT ![t] = NoStop]
    BY <1>5 DEF StopPublish
  <2>2. stop'[t].pc # "publish" /\ StopsKept
    BY <1>1, <2>1 DEF StopsKept, NoStop
  <2>3. /\ LogsKept(t)
        /\ log'[t].stops = log[t].stops + 1 /\ log'[t].user = log[t].user
        /\ log'[t].answers = log[t].answers /\ log'[t].retries = log[t].retries
        /\ log'[t].stopAsked = log[t].stopAsked /\ log'[t].failures = log[t].failures
    BY <1>1, <2>1, StopReportWrite
  <2>4. Booked(t)
    BY <2>1, <2>2, <2>3 DEF Booked, StopPublished
  <2> QED BY <2>1, <2>2, <2>3, <2>4, OneBooked DEF OthersKept
<1>6. CASE StopCapture(t) \/ StopSignal(t) \/ StopUnconfirmed(t)
  <2>1. UNCHANGED <<turn, log>>
    BY <1>6 DEF StopCapture, StopSignal, StopUnconfirmed, disk
  <2>2. ASSUME StopCapture(t) PROVE StopsKept
    <3>1. \E n \in StopRec : n.pc # "publish" /\ stop' = [stop EXCEPT ![t] = n]
      <4>1. [pc |-> IF session.active = t THEN "signal" ELSE "wait",
             on |-> IF done[t].set THEN None ELSE done[t].by, active |-> (session.active = t)]
              \in StopRec
        BY DEF Shape, MemoryShape, DoneRec, StopRec
      <4> QED BY <2>2, <4>1 DEF StopCapture
    <3> QED BY <1>1, <3>1 DEF StopsKept
  <2>3. ASSUME StopSignal(t) \/ StopUnconfirmed(t) PROVE StopsKept
    <3>1. stop' = [stop EXCEPT ![t].pc = "wait"] \/ stop' = [stop EXCEPT ![t] = NoStop]
      BY <2>3 DEF StopSignal, StopUnconfirmed
    <3> QED BY <1>1, <3>1 DEF StopsKept, NoStop, StopRec
  <2>4. StopsKept
    BY <1>6, <2>2, <2>3
  <2> QED BY <2>1, <2>4, NothingBooked
<1> QED BY <1>2, <1>3, <1>4, <1>5, <1>6 DEF Stopper

\* A recovery publishes the failure it recorded, or one that nobody published.
LEMMA RecoveryBooks ==
  ASSUME Shape, NEW t \in Turns, Recovery(t)
  PROVE  AllBooked /\ RetriesKept
<1>1. StopsKept
  BY DEF Recovery, RecoverLost, RecoverFail, RecoverComplete, threads, StopsKept
<1>2. CASE UNCHANGED <<turn, log>>
  BY <1>1, <1>2, NothingBooked
<1>3. ASSUME NEW k \in 1..3, RecoverFail(t, k) PROVE AllBooked /\ RetriesKept
  <2>1. CASE turn[t].status \in {"starting", "running", "interrupting"}
    <3>1. turn' = Failed(t, "failed", TRUE) /\ (log' = ReportFailure(t) \/ UNCHANGED log)
      BY <1>3, <2>1, StatusOf DEF RecoverFail
    <3>2. OthersKept(t) /\ turn'[t].status = "failed"
      BY <2>1, <3>1, FailedSettles DEF Failures
    <3> QED BY <1>1, <3>1, <3>2, FailureBooked, FailureNoted DEF Failures
  <2>2. CASE turn[t].status \notin {"starting", "running", "interrupting"}
    BY <1>2, <1>3, <2>2, StatusOf DEF RecoverFail
  <2> QED BY <2>1, <2>2
<1>4. CASE RecoverComplete(t)
  <2>1. turn[t].status = "failed" /\ UNCHANGED turn /\ (log' = ReportFailure(t) \/ UNCHANGED log)
    BY <1>4, StatusOf DEF RecoverComplete
  <2> QED BY <1>1, <1>2, <2>1, FailureBooked DEF OthersKept, Failures
<1> QED BY <1>2, <1>3, <1>4 DEF Recovery, RecoverLost, disk

\* A preparation records the failure of the Turn it takes over, then publishes it.
LEMMA PreparerBooks ==
  ASSUME Shape, ThreadInv, LedgerInv, Preparer
  PROVE  AllBooked /\ RetriesKept
<1>1. StopsKept
  BY DEF Preparer, PrepareStep, ResumeAsk, ResumeBegin, ResumeTakes, EnsureAdapter, FailLost,
         ReportLost, AdapterStarts, PrepareCut, threads, StopsKept
<1>2. CASE FailLost
  <2>1. UNCHANGED log
    BY <1>2 DEF FailLost
  <2>2. CASE UNCHANGED turn
    BY <1>1, <2>1, <2>2, NothingBooked
  <2>3. ASSUME NEW t \in Turns, turn' = Failed(t, "failed", TRUE),
               turn[t].status \in {"queued", "starting", "running", "interrupting"}
        PROVE  AllBooked /\ RetriesKept
    <3>1. OthersKept(t) /\ turn'[t].status = "failed"
      BY <2>3, FailedSettles DEF Failures
    <3> QED BY <1>1, <2>1, <3>1, FailureNoted
  <2> QED BY <1>2, <2>2, <2>3, FailLostWrites
<1>3. CASE ReportLost
  <2>1. PICK t \in Turns : t = alock.victim
    BY <1>3 DEF ReportLost, ThreadInv
  <2>2. UNCHANGED turn /\ log' = ReportFailure(t) /\ turn[t].status \in Failures
    BY <1>3, <2>1 DEF ReportLost, LedgerInv
  <2> QED BY <1>1, <2>2, FailureBooked DEF OthersKept
<1>4. CASE UNCHANGED <<turn, log>>
  BY <1>1, <1>4, NothingBooked
<1> QED
  BY <1>2, <1>3, <1>4 DEF Preparer, PrepareStep, ResumeAsk, ResumeBegin, ResumeTakes, EnsureAdapter,
                          AdapterStarts, PrepareCut, disk

\* The queue worker publishes inputs and the failures of its preparations.
LEMMA QueueBooks ==
  ASSUME Shape, ThreadInv, LedgerInv, QueueStep
  PROVE  AllBooked /\ RetriesKept
<1>1. /\ Queue \in Workers /\ order \in Seq(Turns) /\ log \in [Turns -> LogRec]
  BY DEF Shape, DiskShape, Workers
<1>2. CASE QueueFails
  <2>1. PICK t \in Turns : t = run[Queue].turn
    BY <1>1, <1>2 DEF QueueFails, At, ThreadInv
  <2>2. UNCHANGED log
    BY <1>2 DEF QueueFails
  <2>3. StopsKept
    <3>1. UNCHANGED stop \/ EventSet(t)
      BY <1>2, <2>1 DEF QueueFails, Q
    <3> QED BY <3>1, EventSetWrite DEF StopsKept
  <2>4. CASE UNCHANGED turn
    BY <2>2, <2>3, <2>4, NothingBooked
  <2>5. CASE turn' = Failed(t, "failed", FALSE) /\ turn[t].status \in {"queued", "starting", "running"}
    <3>1. OthersKept(t) /\ turn'[t].status = "failed"
      BY <2>5, FailedSettles DEF Failures
    <3> QED BY <2>2, <2>3, <3>1, FailureNoted
  <2> QED BY <1>2, <2>1, <2>4, <2>5, QueueFailsWrites
<1>3. CASE QueueForgets
  <2>1. PICK t \in Turns : t = run[Queue].turn
    BY <1>1, <1>3 DEF QueueForgets, At, ThreadInv
  <2>2. UNCHANGED turn /\ log' = ReportFailure(t) /\ EventSet(t)
    BY <1>3, <2>1 DEF QueueForgets, Q
  <2>3. turn[t].status \in Failures
    BY <1>1, <1>3, <2>1 DEF QueueForgets, At, LedgerInv
  <2>4. StopsKept
    BY <2>2, EventSetWrite DEF StopsKept
  <2> QED BY <2>2, <2>3, <2>4, FailureBooked DEF OthersKept
<1>4. CASE QueueScan
  <2>1. UNCHANGED <<turn, stop>>
    BY <1>4 DEF QueueScan
  <2>2. CASE UNCHANGED log
    BY <2>1, <2>2, NothingBooked DEF StopsKept
  <2>3. CASE Claimable /\ log' = RecoverInput(Oldest)
    <3>1. Oldest \in Turns
      BY <1>1, <2>3, OldestIsQueued
    <3>2. InputWritten(Oldest) /\ log'[Oldest].stopAsked = log[Oldest].stopAsked
      BY <1>1, <2>3, <3>1, RecoveredInputWrite
    <3> QED BY <2>1, <3>1, <3>2, InputBooked DEF OthersKept, StopsKept
  <2> QED BY <1>4, <2>2, <2>3 DEF QueueScan
<1>5. CASE QueueLoop \/ QueueDrop \/ QueueClaim \/ QueueRetire \/ QueueCheck \/ QueuePrepare \/ QueueRuns
  <2>1. UNCHANGED <<turn, log, stop>>
    BY <1>5 DEF QueueLoop, QueueDrop, QueueClaim, QueueRetire, QueueCheck, QueuePrepare, QueueRuns,
                disk, threads
  <2> QED BY <2>1, NothingBooked DEF StopsKept
<1> QED BY <1>2, <1>3, <1>4, <1>5 DEF QueueStep

\* A restart publishes the answers that were committed.
LEMMA ServiceBooks ==
  ASSUME Shape, Service
  PROVE  AllBooked /\ RetriesKept
<1>1. turn \in [Turns -> TurnRec] /\ log \in [Turns -> LogRec]
  BY DEF Shape, DiskShape
<1>2. CASE Restart
  <2>1. ASSUME NEW t \in Turns PROVE Booked(t) /\ log'[t].retries = log[t].retries
    <3>1. CASE turn[t].status = "completing"
      <4>1. turn'[t] = [turn[t] EXCEPT !.status = "completed"] /\ log'[t] = Answered(log[t])
        BY <1>2, <3>1, StatusOf DEF Restart, Committed
      <4>2. turn'[t].status = "completed"
        BY <1>1, <4>1 DEF TurnRec
      <4>3. /\ log[t].answers # 0 => log'[t] = log[t]
            /\ log[t].answers = 0 => log'[t].answers = 1
            /\ log'[t].user = log[t].user /\ log'[t].failures = log[t].failures
            /\ log'[t].stops = log[t].stops /\ log'[t].retries = log[t].retries
            /\ log'[t].stopAsked = log[t].stopAsked
        BY <1>1, <4>1, AnsweredRecord
      <4> QED BY <3>1, <4>2, <4>3 DEF Booked, AnswerPublished
    <3>2. CASE turn[t].status # "completing"
      <4>1. turn'[t] = turn[t] /\ log'[t] = log[t]
        BY <1>2, <3>2, StatusOf DEF Restart, Committed
      <4> QED BY <4>1 DEF Booked, Noted
    <3> QED BY <3>1, <3>2
  <2> QED BY <1>2, <2>1, RestartMoves DEF AllBooked, StopFound, RetriesKept
<1>3. CASE PollQueue \/ Close \/ CloseAdapter \/ AdapterLost
  <2>1. UNCHANGED <<turn, log, stop>>
    BY <1>3 DEF PollQueue, Close, CloseAdapter, AdapterLost, disk, threads
  <2> QED BY <2>1, NothingBooked DEF StopsKept
<1> QED BY <1>2, <1>3 DEF Service

\* Nobody publishes what its Turn's status does not say, and only a worker retries.
LEMMA OthersBook ==
  ASSUME Shape, ThreadInv, LedgerInv, QueueStep \/ Preparer \/ OtherStep \/ Restart
  PROVE  AllBooked /\ RetriesKept
BY ClientBooks, StopperBooks, RecoveryBooks, PreparerBooks, QueueBooks, ServiceBooks DEF OtherStep, Service

-----------------------------------------------------------------------------
(* What a worker does.                                                       *)

\* A worker's step from point p to point n of its Turn t.
StepsTo(w, t, p, n) ==
  run[w].pc = p /\ run'[w].pc = n /\ run'[w].turn = t
Ended(w) == run'[w].pc \notin Executing \cup {"fence"} /\ run'[w].turn = None

\* What it writes to the fence, to the status and to the count of runs.
WorkerEffect(w, t) ==
  \/ /\ StepsTo(w, t, "fence", "check") /\ fence[t].by = None /\ fence'[t].by = w
     /\ turn[t].status = "queued" /\ turn'[t].status = "starting" /\ UNCHANGED runs
  \/ /\ \/ StepsTo(w, t, "check", "call") \/ StepsTo(w, t, "provider", "commit")
        \/ StepsTo(w, t, "failed", "stale") \/ StepsTo(w, t, "backoff", "check")
        \/ StepsTo(w, t, "provider", "provider") \/ StepsTo(w, t, "backoff", "backoff")
        \/ StepsTo(w, t, "provider", "backoff")
     /\ UNCHANGED <<fence, turn, runs>>
  \/ /\ StepsTo(w, t, "call", "provider") /\ UNCHANGED fence
     /\ turn'[t].status = IF turn[t].status = "starting" THEN "running" ELSE turn[t].status
     /\ runs'[t] = runs[t] + 1
  \/ /\ StepsTo(w, t, "commit", "finalize") /\ UNCHANGED <<fence, runs>>
     /\ turn[t].status \in {"starting", "running"} /\ turn'[t].status = "completing"
  \/ /\ \/ StepsTo(w, t, "provider", "failed") \/ StepsTo(w, t, "call", "failed")
        \/ StepsTo(w, t, "backoff", "failed")
     /\ UNCHANGED <<fence, runs>>
     /\ turn[t].status \in {"starting", "running"} /\ turn'[t].status \in Failures
  \/ /\ run[w].pc \in Executing \cup {"fence"} /\ Ended(w) /\ UNCHANGED runs
     /\ \A u \in Turns : fence'[u].by = fence[u].by \/ (u = t /\ fence[u].by = w)
     /\ \/ UNCHANGED turn
        \/ /\ run[w].pc = "finalize" /\ turn[t].status = "completing"
           /\ turn'[t].status = "completed"

\* It leaves the other Turns alone.
WorkerOnly(t) ==
  OthersKept(t) /\ \A u \in Turns \ {t} : fence'[u].by = fence[u].by /\ runs'[u] = runs[u]

\* A worker writes its own Turn only, and only along these steps.
LEMMA WorkerActs ==
  ASSUME Shape, ThreadInv, NEW w \in Workers, Worker(w), NEW t \in Turns, t = run[w].turn
  PROVE  WorkerOnly(t) /\ WorkerEffect(w, t)
<1>1. /\ turn \in [Turns -> TurnRec] /\ run \in [Workers -> RunRec] /\ fence \in [Turns -> FenceRec]
      /\ runs \in [Turns -> Nat]
  BY DEF Shape, DiskShape, ThreadShape, MemoryShape
<1>2. run[w].pc \in Executing \cup {"fence"}
  BY WorkerMoves
<1>3. ASSUME EndRun(w)
      PROVE  /\ Ended(w)
             /\ \A u \in Turns : fence'[u].by = fence[u].by \/ (u = t /\ fence[u].by = w)
             /\ \A u \in Turns \ {t} : fence'[u].by = fence[u].by
  <2>1. /\ run'[w].pc = (IF w = Queue THEN "loop" ELSE "idle") /\ run'[w].turn = None
        /\ \A u \in Turns : fence'[u].by = IF u = run[w].turn /\ fence[u].by = w
                                            THEN None ELSE fence[u].by
    BY <1>3, EndRunWrite, Zenon
  <2> QED BY <2>1 DEF Ended, Executing
<1>4. ASSUME EndRun(w), UNCHANGED <<turn, runs>>
      PROVE  WorkerOnly(t) /\ WorkerEffect(w, t)
  BY <1>2, <1>3, <1>4 DEF WorkerEffect, OthersKept, WorkerOnly
<1>5. ASSUME NEW n \in RunPoints, Goto(w, n)
      PROVE  run'[w].pc = n /\ run'[w].turn = t
  BY <1>1, <1>5, Goes
<1>6. CASE StartTurn(w)
  <2>1. At(w, "fence") /\ UNCHANGED runs
    BY <1>6 DEF StartTurn
  <2>2. CASE ~FenceFree(w)
    BY <1>4, <1>6, <2>1, <2>2 DEF StartTurn
  <2>3. CASE FenceFree(w) /\ ~CanStart(t)
    <3>1. /\ fence' = [fence EXCEPT ![t] = [by |-> None, record |-> TRUE, here |-> TRUE]]
          /\ run' = [run EXCEPT ![w] = IF w = Queue THEN Thread("loop", None) ELSE Idle]
          /\ UNCHANGED turn /\ fence[t].by = None
      BY <1>6, <2>3 DEF StartTurn, FenceFree
    <3>2. Ended(w)
      BY <1>1, <3>1 DEF Ended, Idle, Thread, Executing
    <3>3. \A u \in Turns : fence'[u].by = fence[u].by
      BY <1>1, <3>1
    <3> QED BY <1>2, <2>1, <3>1, <3>2, <3>3 DEF WorkerEffect, OthersKept, WorkerOnly
  <2>4. CASE FenceFree(w) /\ CanStart(t)
    <3>1. /\ fence' = [fence EXCEPT ![t] = [by |-> w, record |-> TRUE, here |-> TRUE]]
          /\ SetStatus(t, "starting") /\ Goto(w, "check") /\ fence[t].by = None
      BY <1>6, <2>4 DEF StartTurn, FenceFree
    <3>2. OthersKept(t) /\ turn'[t].status = "starting"
      BY <1>1, <3>1, StatusWrite DEF Statuses
    <3>3. turn[t].status = "queued"
      BY <2>4, StatusOf DEF CanStart
    <3>4. StepsTo(w, t, "fence", "check")
      BY <1>5, <2>1, <3>1 DEF RunPoints, StepsTo, At
    <3>5. fence'[t].by = w /\ \A u \in Turns \ {t} : fence'[u] = fence[u]
      BY <1>1, <3>1
    <3> QED BY <2>1, <3>1, <3>2, <3>3, <3>4, <3>5 DEF WorkerEffect, WorkerOnly
  <2> QED BY <2>2, <2>3, <2>4
<1>7. ASSUME NEW p, NEW n, <<p, n>> \in {<<"check", "call">>, <<"provider", "commit">>}, Check(w, p, n)
      PROVE  WorkerOnly(t) /\ WorkerEffect(w, t)
  <2>1. UNCHANGED <<turn, runs>> /\ run[w].pc = p
    BY <1>7 DEF Check, disk, At
  <2>2. CASE run' = [run EXCEPT ![w].pc = n, ![w].tool = @ /\ n = "call"] /\ UNCHANGED owned
    <3>1. n \in RunPoints
      BY <1>7 DEF RunPoints
    <3>2. PICK b \in BOOLEAN : b = (run[w].tool /\ n = "call")
      OBVIOUS
    <3>3. run' = [run EXCEPT ![w].pc = n, ![w].tool = b]
      BY <2>2, <3>2
    <3>4. StepsTo(w, t, p, n)
      BY <1>1, <2>1, <3>1, <3>3, GoesOn DEF StepsTo
    <3> QED BY <1>7, <2>1, <2>2, <3>4 DEF WorkerEffect, OthersKept, WorkerOnly, owned
  <2> QED BY <1>4, <1>7, <2>1, <2>2 DEF Check
<1>8. CASE CallProvider(w)
  <2>1. StepsTo(w, t, "call", "provider")
    BY <1>5, <1>8 DEF CallProvider, RunPoints, StepsTo, At
  <2>2. UNCHANGED fence /\ runs' = [runs EXCEPT ![t] = @ + 1]
    BY <1>8 DEF CallProvider
  <2>3. PICK s \in Statuses \cup {"absent"} :
             s = IF turn[t].status = "starting" THEN "running" ELSE turn[t].status
    BY <1>1 DEF TurnRec, Statuses
  <2>4. turn' = [turn EXCEPT ![t].status = s]
    BY <1>8, <2>3 DEF CallProvider
  <2>5. OthersKept(t) /\ turn'[t].status = s
    BY <1>1, <2>4 DEF TurnRec, OthersKept
  <2> QED BY <1>1, <2>1, <2>2, <2>3, <2>5 DEF WorkerEffect, WorkerOnly
<1>9. CASE ToolRuns(w)
  <2>1. UNCHANGED <<fence, turn, runs>> /\ run[w].pc \in {"provider", "backoff"}
    BY <1>9 DEF ToolRuns, At, disk
  <2>2. run'[w].pc = run[w].pc /\ run'[w].turn = t
    BY <1>1, <1>9 DEF ToolRuns, RunRec
  <2>3. StepsTo(w, t, "provider", "provider") \/ StepsTo(w, t, "backoff", "backoff")
    BY <2>1, <2>2 DEF StepsTo
  <2> QED BY <2>1, <2>3 DEF WorkerEffect, OthersKept, WorkerOnly
<1>15. CASE PlanRetry(w) \/ Retry(w)
  <2>1. UNCHANGED <<fence, turn, runs>>
    BY <1>15 DEF PlanRetry, Retry, disk
  <2>2. StepsTo(w, t, "provider", "backoff") \/ StepsTo(w, t, "backoff", "check")
    BY <1>5, <1>15 DEF PlanRetry, Retry, RunPoints, StepsTo, At
  <2> QED BY <2>1, <2>2 DEF WorkerEffect, OthersKept, WorkerOnly
<1>10. CASE CommitAnswer(w)
  <2>1. At(w, "commit") /\ UNCHANGED runs
    BY <1>10 DEF CommitAnswer
  <2>2. CASE turn[t].status \in {"starting", "running"}
    <3>1. SetStatus(t, "completing") /\ Goto(w, "finalize") /\ UNCHANGED fence
      BY <1>10, <2>2, StatusOf DEF CommitAnswer, owned
    <3>2. OthersKept(t) /\ turn'[t].status = "completing"
      BY <1>1, <3>1, StatusWrite DEF Statuses
    <3>3. StepsTo(w, t, "commit", "finalize")
      BY <1>5, <2>1, <3>1 DEF RunPoints, StepsTo, At
    <3> QED BY <2>1, <2>2, <3>1, <3>2, <3>3 DEF WorkerEffect, WorkerOnly
  <2>3. CASE turn[t].status \notin {"starting", "running"}
    BY <1>4, <1>10, <2>1, <2>3, StatusOf DEF CommitAnswer
  <2> QED BY <2>2, <2>3
<1>11. ASSUME NEW k \in 1..3, FinalizeTurn(w, k)
       PROVE  WorkerOnly(t) /\ WorkerEffect(w, t)
  <2>1. EndRun(w) /\ UNCHANGED runs /\ run[w].pc = "finalize"
    BY <1>11 DEF FinalizeTurn, At
  <2>2. UNCHANGED turn \/ (turn[t].status = "completing" /\ SetStatus(t, "completed"))
    BY <1>11, StatusOf DEF FinalizeTurn
  <2>3. CASE turn[t].status = "completing" /\ SetStatus(t, "completed")
    <3>1. OthersKept(t) /\ turn'[t].status = "completed"
      BY <1>1, <2>3, StatusWrite DEF Statuses, TERMINAL_TURN_STATES
    <3> QED BY <1>3, <2>1, <2>3, <3>1 DEF WorkerEffect, WorkerOnly, Executing
  <2> QED BY <1>4, <2>1, <2>2, <2>3
<1>12. ASSUME NEW s \in Failures, ProviderFails(w, s)
       PROVE  WorkerOnly(t) /\ WorkerEffect(w, t)
  <2>1. run[w].pc \in {"provider", "call", "backoff"} /\ UNCHANGED runs
    BY <1>12 DEF ProviderFails, At
  <2>2. CASE turn[t].status \in {"starting", "running"}
    <3>1. turn' = Failed(t, s, FALSE) /\ run' = [run EXCEPT ![w] = Thread("failed", t)] /\ UNCHANGED fence
      BY <1>12, <2>2, StatusOf DEF ProviderFails, owned
    <3>2. OthersKept(t) /\ turn'[t].status = s
      BY <2>2, <3>1, FailedSettles
    <3>3. run'[w].pc = "failed" /\ run'[w].turn = t
      BY <1>1, <3>1 DEF Thread
    <3>4. StepsTo(w, t, "provider", "failed") \/ StepsTo(w, t, "call", "failed")
            \/ StepsTo(w, t, "backoff", "failed")
      BY <2>1, <3>3 DEF StepsTo
    <3> QED BY <2>1, <2>2, <3>1, <3>2, <3>4 DEF WorkerEffect, WorkerOnly
  <2>3. CASE turn[t].status \notin {"starting", "running"}
    BY <1>4, <1>12, <2>1, <2>3, StatusOf DEF ProviderFails
  <2> QED BY <2>2, <2>3
<1>13. CASE PublishFailure(w)
  <2>1. run[w].pc = "failed" /\ UNCHANGED <<turn, runs>>
    BY <1>13 DEF PublishFailure, At
  <2>2. CASE Goto(w, "stale") /\ UNCHANGED owned
    <3>1. StepsTo(w, t, "failed", "stale")
      BY <1>5, <2>1, <2>2 DEF RunPoints, StepsTo
    <3> QED BY <2>1, <2>2, <3>1 DEF WorkerEffect, OthersKept, WorkerOnly, owned
  <2> QED BY <1>4, <1>13, <2>1, <2>2 DEF PublishFailure
<1>14. CASE MarkStale(w) \/ WorkerDies(w)
  <2>1. EndRun(w) /\ UNCHANGED <<turn, runs>>
    BY <1>14 DEF MarkStale, WorkerDies, disk
  <2> QED BY <1>4, <2>1
<1> QED
  BY <1>6, <1>7, <1>8, <1>9, <1>10, <1>11, <1>12, <1>13, <1>14, <1>15 DEF Worker

\* What it publishes: a failure it recorded, the answer of its Turn; and it records
\* the retries.
LEMMA WorkerBooks ==
  ASSUME Shape, ThreadInv, LedgerInv, NEW w \in Workers, Worker(w), NEW t \in Turns, t = run[w].turn
  PROVE  /\ AllBooked
         /\ \/ RetriesKept /\ ~StepsTo(w, t, "provider", "backoff")
            \/ /\ StepsTo(w, t, "provider", "backoff")
               /\ log'[t].retries = log[t].retries + 1
               /\ \A u \in Turns \ {t} : log'[u].retries = log[u].retries
<1>1. /\ turn \in [Turns -> TurnRec] /\ log \in [Turns -> LogRec] /\ run \in [Workers -> RunRec]
      /\ stop \in [Turns -> StopRec]
  BY DEF Shape, DiskShape, ThreadShape
<1>2. StopsKept
  <2>1. CASE EndRun(w) \/ UNCHANGED stop \/ stop' = Acknowledged(w, t)
    <3>1. UNCHANGED stop \/ stop' = Acknowledged(w, t)
      BY <2>1 DEF EndRun
    <3> QED BY <1>1, <3>1, AcknowledgedWrite DEF StopsKept
  <2>2. CASE StartTurn(w)
    BY <2>1, <2>2 DEF StartTurn
  <2>3. CASE ~StartTurn(w)
    <3>1. EndRun(w) \/ UNCHANGED stop
      BY <2>3 DEF Worker, Check, CallProvider, ToolRuns, PlanRetry, Retry, CommitAnswer, FinalizeTurn,
                  ProviderFails, PublishFailure, MarkStale, WorkerDies, owned
    <3> QED BY <2>1, <3>1
  <2> QED BY <2>2, <2>3
<1>3. WorkerOnly(t) /\ WorkerEffect(w, t)
  BY WorkerActs
<1>4. CASE PublishFailure(w)
  <2>1. run[w].pc = "failed" /\ UNCHANGED turn /\ log' = ReportFailure(t)
    BY <1>4 DEF PublishFailure, At
  <2>2. turn[t].status \in Failures
    BY <2>1 DEF LedgerInv
  <2>3. AllBooked /\ RetriesKept
    BY <1>2, <2>1, <2>2, FailureBooked DEF OthersKept
  <2> QED BY <2>1, <2>3 DEF StepsTo
<1>5. ASSUME NEW k \in 1..3, FinalizeTurn(w, k)
      PROVE  AllBooked /\ RetriesKept /\ run[w].pc = "finalize"
  <2>1. run[w].pc = "finalize"
    BY <1>5 DEF FinalizeTurn, At
  <2>2. CASE turn[t].status = "completing"
    <3>1. log' = Answer(t) /\ (UNCHANGED turn \/ SetStatus(t, "completed"))
      BY <1>5, <2>2, StatusOf DEF FinalizeTurn
    <3>2. turn'[t].status \in {"completing", "completed"}
      BY <1>1, <2>2, <3>1, StatusWrite DEF Statuses, TERMINAL_TURN_STATES
    <3> QED BY <1>2, <1>3, <2>1, <2>2, <3>1, <3>2, AnswerBooked DEF WorkerOnly
  <2>3. CASE turn[t].status # "completing"
    <3>1. UNCHANGED <<log, turn>>
      BY <1>5, <2>3, StatusOf DEF FinalizeTurn
    <3> QED BY <1>2, <2>1, <3>1, NothingBooked
  <2> QED BY <2>2, <2>3
<1>6. ASSUME ~PublishFailure(w), \A k \in 1..3 : ~FinalizeTurn(w, k)
      PROVE  turn'[t].status = "completed" => turn[t].status = "completed"
  <2>1. \/ UNCHANGED turn \/ SetStatus(t, "starting") \/ SetStatus(t, "completing")
        \/ (\E s \in Failures : turn' = Failed(t, s, FALSE)) \/ CallProvider(w)
    BY <1>6 DEF Worker, StartTurn, Check, ToolRuns, PlanRetry, Retry, CommitAnswer, ProviderFails,
                MarkStale, WorkerDies, disk
  <2>2. CASE CallProvider(w)
    <3>1. run[w].pc = "call" /\ run'[w].pc = "provider"
      BY <1>1, <2>2, Goes DEF CallProvider, At, RunPoints
    <3> QED BY <1>3, <3>1 DEF WorkerEffect, StepsTo, Ended, Executing
  <2>3. CASE SetStatus(t, "starting") \/ SetStatus(t, "completing")
    BY <1>1, <2>3, StatusWrite DEF Statuses
  <2>4. CASE \E s \in Failures : turn' = Failed(t, s, FALSE)
    <3>1. PICK s \in Failures : turn' = Failed(t, s, FALSE)
      BY <2>4
    <3>2. turn'[t].status = s
      BY <1>1, <3>1, FailedWrite DEF Statuses, TERMINAL_TURN_STATES, Failures
    <3> QED BY <3>2 DEF Failures
  <2> QED BY <2>1, <2>2, <2>3, <2>4
<1>7. CASE PlanRetry(w)
  <2>1. StepsTo(w, t, "provider", "backoff")
    BY <1>1, <1>7, Goes DEF PlanRetry, RunPoints, StepsTo, At
  <2>2. log' = [log EXCEPT ![t].retries = @ + 1] /\ log[t].retries < MaxRetries /\ UNCHANGED turn
    BY <1>7 DEF PlanRetry
  <2>3. /\ LogsKept(t)
        /\ log'[t].retries = log[t].retries + 1 /\ log'[t].user = log[t].user
        /\ log'[t].answers = log[t].answers /\ log'[t].failures = log[t].failures
        /\ log'[t].stops = log[t].stops /\ log'[t].stopAsked = log[t].stopAsked
    BY <1>1, <2>2, RetryWrite
  <2>4. Booked(t)
    BY <2>2, <2>3 DEF Booked, Noted
  <2> QED BY <1>2, <2>1, <2>2, <2>3, <2>4, OneBooked DEF OthersKept, LogsKept
<1>8. CASE ~PublishFailure(w) /\ ~PlanRetry(w) /\ \A k \in 1..3 : ~FinalizeTurn(w, k)
  <2>1. UNCHANGED log
    BY <1>8 DEF Worker, StartTurn, Check, CallProvider, ToolRuns, Retry, CommitAnswer, ProviderFails,
                MarkStale, WorkerDies, disk
  <2>2. Booked(t) /\ LogsKept(t)
    BY <1>6, <1>8, <2>1 DEF Booked, Noted, LogsKept
  <2>3. AllBooked /\ RetriesKept
    BY <1>2, <1>3, <2>1, <2>2, OneBooked DEF WorkerOnly
  <2>4. ~StepsTo(w, t, "provider", "backoff")
    <3>1. ASSUME NEW n \in RunPoints, Goto(w, n) PROVE run'[w].pc = n
      BY <1>1, <3>1, Goes
    <3>2. EndRun(w) => run'[w].pc \in {"idle", "loop"}
      BY EndRunWrite
    <3>3. CASE StartTurn(w) \/ CallProvider(w) \/ Retry(w) \/ CommitAnswer(w) \/ MarkStale(w)
               \/ Check(w, "check", "call")
      BY <3>3 DEF StartTurn, CallProvider, Retry, CommitAnswer, MarkStale, Check, At, StepsTo
    <3>4. CASE ToolRuns(w)
      BY <1>1, <3>4 DEF ToolRuns, StepsTo, RunRec
    <3>5. CASE WorkerDies(w)
      BY <3>2, <3>5 DEF WorkerDies, StepsTo
    <3>6. CASE Check(w, "provider", "commit")
      <4>1. EndRun(w) \/ run' = [run EXCEPT ![w].pc = "commit", ![w].tool = FALSE]
        BY <3>6 DEF Check
      <4>2. run' = [run EXCEPT ![w].pc = "commit", ![w].tool = FALSE] => run'[w].pc = "commit"
        BY <1>1 DEF RunRec
      <4> QED BY <3>2, <4>1, <4>2 DEF StepsTo
    <3>7. ASSUME NEW s \in Failures, ProviderFails(w, s) PROVE ~StepsTo(w, t, "provider", "backoff")
      <4>1. EndRun(w) \/ run' = [run EXCEPT ![w] = Thread("failed", t)]
        BY <3>7 DEF ProviderFails
      <4>2. run' = [run EXCEPT ![w] = Thread("failed", t)] => run'[w].pc = "failed"
        BY <1>1 DEF Thread
      <4> QED BY <3>2, <4>1, <4>2 DEF StepsTo
    <3> QED BY <1>8, <3>3, <3>4, <3>5, <3>6, <3>7 DEF Worker
  <2> QED BY <2>3, <2>4
<1> QED BY <1>4, <1>5, <1>7, <1>8 DEF StepsTo

-----------------------------------------------------------------------------
(* Who executes, and what is published.                                      *)

\* The threads that execute nothing take no fence from a worker and run no provider.
LEMMA OthersSpareFence ==
  ASSUME Shape, ThreadInv, QueueStep \/ Preparer \/ OtherStep
  PROVE  /\ UNCHANGED runs
         /\ \A t \in Turns, w \in Workers : fence[t].by = w => fence'[t].by = w
<1>1. fence \in [Turns -> FenceRec] /\ "recovery" \notin Workers /\ None \notin Workers
  BY ConstantsDistinct DEF Shape, MemoryShape, Workers
<1>2. CASE QueueStep
  BY <1>2, QueueMoves
<1>8. CASE Preparer
  BY <1>8, PreparerMoves
<1>3. ASSUME NEW t \in Turns, RecoverLost(t)
      PROVE  UNCHANGED runs /\ \A u \in Turns, w \in Workers : fence[u].by = w => fence'[u].by = w
  <2>1. UNCHANGED runs /\ fence[t].by = None /\ fence' = [fence EXCEPT ![t].by = "recovery"]
    BY <1>3 DEF RecoverLost, disk
  <2> QED BY <1>1, <2>1
<1>4. ASSUME NEW t \in Turns, NEW k \in 1..3, RecoverFail(t, k)
      PROVE  UNCHANGED runs /\ \A u \in Turns, w \in Workers : fence[u].by = w => fence'[u].by = w
  <2>1. UNCHANGED runs /\ fence[t].by = "recovery" /\ fence' = [fence EXCEPT ![t].by = None]
    BY <1>4 DEF RecoverFail
  <2> QED BY <1>1, <2>1
<1>5. ASSUME NEW t \in Turns, Client(t) \/ Stopper(t)
      PROVE  UNCHANGED <<runs, fence>>
  BY <1>5 DEF Client, Stopper, Submit, SubmitCut, CreateQueued, RetryQueued, StartWorker,
              WakeQueue, StopBegin, StopFinalizes, StopCapture, StopSignal,
              StopUnconfirmed, StopMark, StopPublish, disk
<1>6. ASSUME NEW t \in Turns, RecoverComplete(t)
      PROVE  UNCHANGED <<runs, fence>>
  BY <1>6 DEF RecoverComplete
<1>7. CASE Service /\ ~Restart
  <2>1. UNCHANGED <<runs, fence>>
    BY <1>7 DEF Service, PollQueue, Close, CloseAdapter, AdapterLost, disk
  <2> QED BY <2>1
<1> QED
  BY <1>2, <1>3, <1>4, <1>5, <1>6, <1>7, <1>8 DEF OtherStep, Recovery

\* What a settling status leaves true of an execution and of a Turn.
LEMMA SettlingKeepsFence ==
  ASSUME AllSettle, RetriesKept, UNCHANGED runs,
         NEW w \in Workers, run'[w].pc = run[w].pc, run'[w].turn = run[w].turn, run[w].turn \in Turns,
         fence'[run[w].turn].by = fence[run[w].turn].by, ExecutesAlone(w)
  PROVE  ExecutesAlone(w)'
<1>1. PICK t \in Turns : t = run[w].turn
  OBVIOUS
<1>2. Settles(turn[t].status, turn'[t].status) /\ log'[t].retries = log[t].retries /\ runs'[t] = runs[t]
  BY DEF AllSettle, RetriesKept
<1> QED BY <1>1, <1>2 DEF Settles, ExecutesAlone

\* Nor does it change what the status tells of the runs.
LEMMA SettlingTellsRuns ==
  ASSUME AllSettle, RetriesKept, UNCHANGED runs, NEW t \in Turns, RunsTold(t)
  PROVE  RunsTold(t)'
<1>1. Settles(turn[t].status, turn'[t].status) /\ log'[t].retries = log[t].retries /\ runs'[t] = runs[t]
  BY DEF AllSettle, RetriesKept
<1> QED BY <1>1 DEF Settles, RunsTold

\* A worker touches its own Turn, whose fence it holds or has just found free.
LEMMA WorkerKeepsFence ==
  ASSUME Shape, ThreadInv, FenceInv, LedgerInv, NEW w \in Workers, Worker(w)
  PROVE  FenceInv'
<1>1. PICK t \in Turns : /\ t = run[w].turn /\ run[w].pc \in Executing \cup {"fence"}
                         /\ \A v \in Workers \ {w} : run'[v] = run[v]
  BY WorkerMoves
<1>2. /\ \A u \in Turns \ {t} : turn'[u] = turn[u] /\ fence'[u].by = fence[u].by /\ runs'[u] = runs[u]
      /\ WorkerEffect(w, t)
  BY <1>1, WorkerActs DEF OthersKept, WorkerOnly
<1>3. /\ run[w].pc \in Executing => ExecutesAlone(w)
      /\ RunsTold(t) /\ runs[t] \in Nat /\ log[t].retries \in Nat
      /\ None \notin Workers
  <2>1. log[t] \in LogRec /\ runs[t] \in Nat
    BY DEF Shape, DiskShape
  <2> QED BY <1>1, <2>1, ConstantsDistinct DEF FenceInv, LogRec, Workers
<1>10. /\ \A u \in Turns \ {t} : log'[u].retries = log[u].retries
       /\ ~StepsTo(w, t, "provider", "backoff") => log'[t].retries = log[t].retries
       /\ StepsTo(w, t, "provider", "backoff") => log'[t].retries = log[t].retries + 1
  BY <1>1, WorkerBooks DEF RetriesKept
<1>4. ASSUME NEW v \in Workers \ {w}, run[v].pc \in Executing
      PROVE  ExecutesAlone(v)'
  <2>1. run'[v] = run[v] /\ run[v].turn \in Turns /\ ExecutesAlone(v)
    BY <1>1, <1>4 DEF FenceInv, ThreadInv, Executing
  <2>2. CASE run[v].turn # t
    <3>1. LET u == run[v].turn IN /\ turn'[u] = turn[u] /\ fence'[u].by = fence[u].by
                                  /\ runs'[u] = runs[u] /\ log'[u].retries = log[u].retries
      BY <1>2, <1>10, <2>1, <2>2
    <3> QED BY <2>1, <3>1 DEF ExecutesAlone
  <2>3. CASE run[v].turn = t
    <3>1. fence[t].by = v
      BY <2>1, <2>3 DEF ExecutesAlone
    <3>2. run[w].pc = "fence"
      BY <1>1, <1>3, <3>1 DEF ExecutesAlone
    <3>3. UNCHANGED runs /\ UNCHANGED turn /\ fence'[t].by = v
      BY <1>1, <1>2, <1>3, <1>4, <3>1, <3>2 DEF WorkerEffect, StepsTo
    <3>4. log'[t].retries = log[t].retries
      BY <1>10, <3>2 DEF StepsTo
    <3> QED BY <2>1, <2>3, <3>1, <3>3, <3>4 DEF ExecutesAlone
  <2> QED BY <2>2, <2>3
<1>5. RunsTold(t)'
  <2>1. CASE StepsTo(w, t, "provider", "backoff")
    <3>1. turn[t].status \notin {"absent", "queued"} /\ turn' = turn /\ runs' = runs
      BY <1>1, <1>2, <1>3, <2>1 DEF WorkerEffect, StepsTo, ExecutesAlone, Executing, Ended
    <3> QED BY <1>3, <3>1 DEF RunsTold
  <2>2. CASE ~StepsTo(w, t, "provider", "backoff")
    BY <1>1, <1>2, <1>3, <1>10, <2>2
       DEF WorkerEffect, StepsTo, Ended, RunsTold, ExecutesAlone, Executing, Failures
  <2> QED BY <2>1, <2>2
<1>6. ASSUME run'[w].pc \in Executing PROVE ExecutesAlone(w)'
  <2>1. run'[w].turn = t /\ ~Ended(w)
    BY <1>2, <1>6 DEF WorkerEffect, StepsTo, Ended
  <2>2. fence'[t].by = w /\ turn'[t].status \notin {"absent", "queued"}
    BY <1>1, <1>2, <1>3, <2>1
       DEF WorkerEffect, StepsTo, RunsTold, ExecutesAlone, Executing, Failures
  <2>4. /\ run'[w].pc \in {"check", "call", "backoff"} => runs'[t] = log'[t].retries
        /\ run'[w].pc = "provider" => runs'[t] = log'[t].retries + 1
        /\ run'[w].pc \in {"commit", "finalize"} => runs'[t] >= 1
    <3>1. CASE StepsTo(w, t, "provider", "backoff")
      <4>1. runs'[t] = runs[t] /\ run'[w].pc = "backoff" /\ log'[t].retries = log[t].retries + 1
        BY <1>2, <1>10, <2>1, <3>1 DEF WorkerEffect, StepsTo
      <4>2. runs[t] = log[t].retries + 1
        BY <1>1, <1>3, <3>1 DEF ExecutesAlone, StepsTo, Executing
      <4> QED BY <4>1, <4>2
    <3>2. CASE ~StepsTo(w, t, "provider", "backoff")
      <4>1. log'[t].retries = log[t].retries
        BY <1>10, <3>2
      <4> QED
        BY <1>1, <1>2, <1>3, <2>1, <3>2, <4>1
           DEF WorkerEffect, StepsTo, RunsTold, ExecutesAlone, Executing
    <3> QED BY <3>1, <3>2
  <2>3. /\ run'[w].pc \in {"check", "call", "provider", "backoff", "commit"} =>
             turn'[t].status \notin {"completing", "completed"}
        /\ run'[w].pc = "finalize" => turn'[t].status \in {"completing", "completed"}
    BY <1>1, <1>2, <1>3, <2>1
       DEF WorkerEffect, StepsTo, RunsTold, ExecutesAlone, Executing, Failures
  <2> QED BY <2>1, <2>2, <2>3, <2>4 DEF ExecutesAlone
<1>7. ASSUME NEW u \in Turns \ {t} PROVE RunsTold(u)'
  <2>1. turn'[u] = turn[u] /\ runs'[u] = runs[u] /\ RunsTold(u) /\ log'[u].retries = log[u].retries
    BY <1>2, <1>7, <1>10 DEF FenceInv
  <2> QED BY <2>1 DEF RunsTold
<1>8. \A v \in Workers : run'[v].pc \in Executing => ExecutesAlone(v)'
  BY <1>1, <1>4, <1>6
<1>9. \A u \in Turns : RunsTold(u)'
  BY <1>5, <1>7
<1> QED BY <1>8, <1>9 DEF FenceInv

\* No other thread moves a worker that executes.
LEMMA OthersSpareWorkers ==
  ASSUME Shape, ThreadInv, QueueStep \/ Preparer \/ OtherStep, NEW w \in Workers,
         run'[w].pc \in Executing \/ run[w].pc \in Executing
  PROVE  run'[w].pc = run[w].pc /\ run'[w].turn = run[w].turn /\ run'[w].tool = run[w].tool
<1>1. w = Queue \/ w \in Turns
  BY DEF Workers
<1>2. CASE QueueStep
  BY <1>1, <1>2, QueueMoves DEF QueuePoints, Executing
<1>3. CASE Preparer
  <2>1. CASE w = Queue
    <3>1. run'[Queue] = run[Queue] \/ /\ run[Queue].pc \in {"adapt", "prepareActive"}
                                      /\ run'[Queue].pc \in {"ready", "unfit", "loop", "unfitActive"}
      BY <1>3, PreparerMoves DEF ThreadInv
    <3> QED BY <2>1, <3>1 DEF Executing
  <2> QED BY <1>1, <1>3, <2>1, PreparerMoves
<1>4. CASE OtherStep
  BY <1>4, OtherMoves DEF Executing
<1> QED BY <1>2, <1>3, <1>4

\* The fence is kept by every step.
LEMMA NextKeepsFence ==
  ASSUME Shape, ThreadInv, FenceInv, LedgerInv, [Next]_vars
  PROVE  FenceInv'
<1>1. CASE QueueStep \/ Preparer \/ OtherStep
  <2>1. /\ AllSettle /\ RetriesKept /\ UNCHANGED runs
        /\ \A u \in Turns, v \in Workers : fence[u].by = v => fence'[u].by = v
    BY <1>1, OthersSettle, OthersBook, OthersSpareFence
  <2>2. ASSUME NEW w \in Workers, run'[w].pc \in Executing PROVE ExecutesAlone(w)'
    <3>1. run'[w].pc = run[w].pc /\ run'[w].turn = run[w].turn
      BY <1>1, <2>2, OthersSpareWorkers
    <3>2. ExecutesAlone(w) /\ run[w].turn \in Turns
      BY <2>2, <3>1 DEF FenceInv, ThreadInv, Executing
    <3>3. fence'[run[w].turn].by = fence[run[w].turn].by
      BY <2>1, <3>2 DEF ExecutesAlone
    <3> QED BY <2>1, <3>1, <3>2, <3>3, SettlingKeepsFence
  <2> QED BY <2>1, <2>2, SettlingTellsRuns DEF FenceInv
<1>2. CASE Restart
  <2>1. AllSettle /\ RetriesKept /\ UNCHANGED runs /\ \A w \in Workers : run'[w].pc \notin Executing
    BY <1>2, OthersSettle, OthersBook, RestartMoves DEF Executing
  <2> QED BY <2>1, SettlingTellsRuns DEF FenceInv
<1>3. CASE UNCHANGED vars
  BY <1>3 DEF FenceInv, ExecutesAlone, RunsTold, vars, disk, threads
<1> QED BY <1>1, <1>2, <1>3, StepCases, WorkerKeepsFence

\* The moves of a status, a worker's included.
Moves(s, n) ==
  \/ Settles(s, n)
  \/ s = "queued" /\ n = "starting"
  \/ s \in {"starting", "running"} /\ n \in {"completing", "failed", "timed_out"}

AllMove == \A t \in Turns : Moves(turn[t].status, turn'[t].status)

\* Every step makes only these, and publishes what they allow.
LEMMA StepMoves ==
  ASSUME Shape, ThreadInv, LedgerInv, Next
  PROVE  AllMove /\ AllBooked
<1>1. CASE QueueStep \/ Preparer \/ OtherStep \/ Restart
  BY <1>1, OthersSettle, OthersBook DEF AllSettle, AllMove, Moves
<1>2. ASSUME NEW w \in Workers, Worker(w) PROVE AllMove /\ AllBooked
  <2>1. PICK t \in Turns : t = run[w].turn
    BY <1>2, WorkerMoves
  <2>2. WorkerOnly(t) /\ WorkerEffect(w, t) /\ AllBooked
    BY <1>2, <2>1, WorkerActs, WorkerBooks
  <2>3. Moves(turn[t].status, turn'[t].status)
    BY <2>2 DEF WorkerEffect, Moves, Settles, Failures
  <2> QED BY <2>2, <2>3 DEF AllMove, WorkerOnly, OthersKept, Moves, Settles
<1> QED BY <1>1, <1>2, StepCases

\* A step that books nothing wrong keeps a Turn's ledger.
LEMMA MovingKeepsLedger ==
  ASSUME Shape, NEW t \in Turns, Ledger(t), Booked(t), StopFound(t),
         Moves(turn[t].status, turn'[t].status)
  PROVE  Ledger(t)'
<1>1. log[t].user \in Nat /\ log[t].answers \in Nat /\ log[t].stops \in Nat /\ log[t].failures \in Nat
  BY DEF Shape, DiskShape, LogRec
<1>2. CASE Noted(t)
  BY <1>1, <1>2 DEF Noted, Ledger, Booked, StopFound, Moves, Settles, Failures
<1>3. CASE FailurePublished(t)
  BY <1>1, <1>3 DEF FailurePublished, Ledger, Booked, StopFound, Moves, Settles, Failures
<1>4. CASE StopPublished(t)
  BY <1>1, <1>4 DEF StopPublished, Ledger, Booked, StopFound, Moves, Settles, Failures
<1>5. CASE AnswerPublished(t)
  BY <1>1, <1>5 DEF AnswerPublished, Ledger, Booked, StopFound, Moves, Settles, Failures
<1> QED BY <1>2, <1>3, <1>4, <1>5 DEF Booked

\* Whoever comes to a point where a failure is published has recorded one.
LEMMA FailuresArePublished ==
  ASSUME Shape, ThreadInv, Next, NEW w \in Workers,
         run'[w].pc \in {"failed", "forget", "forgetActive"}
  PROVE  /\ run'[w].turn = run[w].turn /\ run[w].turn \in Turns
         /\ run[w].pc = run'[w].pc \/ turn'[run[w].turn].status \in Failures
<1>1. w = Queue \/ w \in Turns
  BY DEF Workers
<1>2. ASSUME NEW v \in Workers, Worker(v)
      PROVE  /\ run'[w].turn = run[w].turn /\ run[w].turn \in Turns
             /\ run[w].pc = run'[w].pc \/ turn'[run[w].turn].status \in Failures
  <2>1. PICK t \in Turns : t = run[v].turn /\ WorkerEffect(v, t) /\ \A x \in Workers \ {v} : run'[x] = run[x]
    BY <1>2, WorkerMoves, WorkerActs
  <2>2. CASE w = v
    BY <2>1, <2>2, <1>2, WorkerMoves DEF WorkerEffect, StepsTo, Ended, Executing
  <2>3. CASE w # v
    BY <2>1, <2>3 DEF ThreadInv
  <2> QED BY <2>2, <2>3
<1>3. CASE QueueStep
  <2>1. CASE w \in Turns
    BY <1>3, <2>1, QueueMoves DEF ThreadInv
  <2>2. CASE w = Queue
    <3>1. run \in [Workers -> RunRec] /\ run'[Queue].pc \in {"failed", "forget", "forgetActive"}
      BY <2>2 DEF Shape, ThreadShape
    <3>2. ASSUME NEW n \in RunPoints, Goto(Queue, n) PROVE run'[Queue].pc = n /\ run'[Queue].turn = run[Queue].turn
      BY <2>2, <3>1, <3>2, Goes
    <3>3. ASSUME NEW n \in RunPoints, NEW t, QueueGoes(n, t) PROVE run'[Queue].pc = n
      BY <2>2, <3>1, <3>3 DEF QueueGoes, Thread
    <3>4. QueueRests => run'[Queue].pc = "idle"
      BY <2>2, <3>1 DEF QueueRests, Idle, Thread
    <3>5. ~QueueLoop
      BY <3>1, <3>3, <3>4 DEF QueueLoop, RunPoints
    <3>6. ~(QueueDrop \/ QueueClaim)
      BY <3>1, <3>2 DEF QueueDrop, QueueClaim, RunPoints
    <3>7. ~(QueueScan \/ QueueRetire)
      BY <3>1, <3>2, <3>3, <3>4 DEF QueueScan, QueueRetire, RunPoints
    <3>8. ~(QueueCheck \/ QueueRuns)
      BY <3>1, <3>2, <3>4 DEF QueueCheck, QueueRuns, RunPoints
    <3>9. ~QueuePrepare
      BY <3>1 DEF QueuePrepare, threads, At
    <3>10. ~QueueForgets
      BY <3>1, <3>2 DEF QueueForgets, RunPoints
    <3>11. QueueFails
      BY <1>3, <3>5, <3>6, <3>7, <3>8, <3>9, <3>10 DEF QueueStep
    <3>12. PICK t \in Turns : t = run[Queue].turn
      BY <2>2, <3>11 DEF QueueFails, At, ThreadInv
    <3>13. CASE UNCHANGED turn /\ turn[t].status \notin {"queued", "starting", "running"}
      <4>1. Status(t) \notin {"queued", "starting", "running"}
        BY <3>13, StatusOf
      <4>2. \E n \in {"drop", "loop"} : Goto(Queue, n)
        BY <3>11, <3>12, <4>1 DEF QueueFails, Q
      <4> QED BY <3>1, <3>2, <4>2 DEF RunPoints
    <3>14. CASE turn' = Failed(t, "failed", FALSE) /\ turn[t].status \in {"queued", "starting", "running"}
      <4>1. turn'[t].status = "failed"
        BY <3>14, FailedSettles DEF Failures
      <4>2. \E n \in {"drop", "loop", "forget", "forgetActive"} : Goto(Queue, n)
        BY <3>11 DEF QueueFails
      <4>3. run'[Queue].turn = run[Queue].turn
        BY <3>2, <4>2 DEF RunPoints
      <4> QED BY <2>2, <3>12, <4>1, <4>3 DEF Failures
    <3> QED BY <3>11, <3>12, <3>13, <3>14, QueueFailsWrites
  <2> QED BY <1>1, <2>1, <2>2
<1>4. CASE Preparer
  <2>1. run'[w] = run[w]
    <3>1. run'[Queue] = run[Queue] \/ /\ run[Queue].pc \in {"adapt", "prepareActive"}
                                      /\ run'[Queue].pc \in {"ready", "unfit", "loop", "unfitActive"}
      BY <1>4, PreparerMoves DEF ThreadInv
    <3> QED BY <1>4, <3>1, PreparerMoves
  <2> QED BY <2>1 DEF ThreadInv
<1>5. CASE OtherStep
  <2>1. run'[w] = run[w]
    BY <1>5, OtherMoves
  <2> QED BY <2>1 DEF ThreadInv
<1>6. CASE Restart
  BY <1>6, RestartMoves
<1> QED BY <1>2, <1>3, <1>4, <1>5, <1>6, StepCases

\* The same for a preparation.
LEMMA LostIsPublished ==
  ASSUME Shape, ThreadInv, Next, alock'.at = "event"
  PROVE  /\ alock'.victim \in Turns
         /\ alock' = alock \/ turn'[alock'.victim].status \in Failures
<1>1. ASSUME NEW w \in Workers, Worker(w) PROVE alock' = alock
  BY <1>1, WorkerMoves
<1>2. CASE QueueStep
  BY <1>2, QueueMoves DEF ThreadInv
<1>3. CASE OtherStep
  BY <1>3, OtherMoves DEF ThreadInv
<1>4. CASE Restart
  BY <1>4, RestartMoves DEF Unlocked
<1>5. CASE Preparer
  <2>1. CASE FailLost
    <3>1. PICK t \in Turns : /\ turn' = Failed(t, "failed", TRUE) /\ alock'.victim = t
                             /\ turn[t].status \in {"queued", "starting", "running", "interrupting"}
      BY <2>1, FailLostWrites
    <3>2. turn'[t].status = "failed"
      BY <3>1, FailedSettles DEF Failures
    <3> QED BY <3>1, <3>2 DEF Failures
  <2>2. alock \in AlockRec /\ Unlocked.at # "event"
    BY DEF Shape, MemoryShape, Unlocked
  <2>3. ~ResumeBegin
    BY <2>2 DEF ResumeBegin, Unlocked
  <2>4. ~ResumeTakes
    <3> SUFFICES ASSUME ResumeTakes PROVE FALSE
      OBVIOUS
    <3>1. PICK v : alock' = [alock EXCEPT !.at = "ensure", !.victim = v]
      BY <2>2 DEF ResumeTakes
    <3> QED BY <2>2, <3>1 DEF AlockRec
  <2>5. ~EnsureAdapter
    <3> SUFFICES ASSUME EnsureAdapter PROVE FALSE
      OBVIOUS
    <3>1. PICK a, v : alock' = [alock EXCEPT !.at = "fail", !.accepted = a, !.victim = v]
      BY <2>2 DEF EnsureAdapter, HasAdapter, Raise
    <3> QED BY <2>2, <3>1 DEF AlockRec
  <2>6. ~ReportLost
    BY <2>2 DEF ReportLost, AlockRec
  <2>7. ~AdapterStarts /\ ~PrepareCut
    BY <2>2 DEF AdapterStarts, PrepareCut, HasAdapter, Raise
  <2>8. ResumeAsk => alock' = alock
    BY DEF ResumeAsk
  <2> QED
    BY <1>5, <2>1, <2>3, <2>4, <2>5, <2>6, <2>7, <2>8, PreparerMoves DEF Preparer, PrepareStep
<1> QED BY <1>1, <1>2, <1>3, <1>4, <1>5, StepCases DEF ThreadInv

\* The ledger is kept by every step.
LEMMA NextKeepsLedger ==
  ASSUME Shape, ThreadInv, LedgerInv, [Next]_vars
  PROVE  LedgerInv'
<1>1. CASE Next
  <2>1. AllMove /\ AllBooked
    BY <1>1, StepMoves
  <2>2. ASSUME NEW t \in Turns PROVE Ledger(t)'
    BY <2>1, MovingKeepsLedger DEF AllMove, AllBooked, LedgerInv
  <2>3. \A t \in Turns : turn[t].status \in Failures => turn'[t].status \in Failures
    BY <2>1 DEF AllMove, Moves, Settles, Failures
  <2>4. ASSUME NEW w \in Workers, run'[w].pc \in {"failed", "forget", "forgetActive"}
        PROVE  turn'[run'[w].turn].status \in Failures
    <3>1. /\ run'[w].turn = run[w].turn /\ run[w].turn \in Turns
          /\ run[w].pc = run'[w].pc \/ turn'[run[w].turn].status \in Failures
      BY <1>1, <2>4, FailuresArePublished
    <3>2. run[w].pc = run'[w].pc => turn[run[w].turn].status \in Failures
      BY <2>4 DEF LedgerInv
    <3> QED BY <2>3, <3>1, <3>2
  <2>5. ASSUME alock'.at = "event" PROVE turn'[alock'.victim].status \in Failures
    <3>1. alock'.victim \in Turns /\ (alock' = alock \/ turn'[alock'.victim].status \in Failures)
      BY <1>1, <2>5, LostIsPublished
    <3>2. alock' = alock => turn[alock.victim].status \in Failures
      BY <2>5 DEF LedgerInv
    <3> QED BY <2>3, <3>1, <3>2
  <2> QED BY <2>2, <2>4, <2>5 DEF LedgerInv
<1>2. CASE UNCHANGED vars
  BY <1>2 DEF LedgerInv, Ledger, vars, disk, threads, memory, link
<1> QED BY <1>1, <1>2

\* Who executes and what is published rest on each other: a retry that is recorded
\* counts among the runs.
BooksInv == Shape /\ ThreadInv /\ FenceInv /\ LedgerInv

\* Whoever executes a Turn holds its fence (chat_runtime.py, _run_turn), its status
\* and its retries tell how often the provider was given its input, and what the
\* transcript and the event streams show agrees with its file.
THEOREM BooksAreKept == Spec => []BooksInv
<1>1. Init => BooksInv
  <2>1. Init => FenceInv
    BY DEF Init, FenceInv, ExecutesAlone, RunsTold, Executing, Idle, Thread, Absent
  <2>2. Init => LedgerInv
    BY DEF Init, LedgerInv, Ledger, Idle, Thread, Absent, NoStop, Failures, Unlocked
  <2> QED BY <2>1, <2>2, InitThreads DEF BooksInv
<1>2. BooksInv /\ [Next]_vars => BooksInv'
  BY NextKeepsThreads, NextKeepsFence, NextKeepsLedger DEF BooksInv
<1> QED BY <1>1, <1>2, PTL DEF Spec

\* The files, the threads and the counters stay within their types.
THEOREM ChatTypesHold == Spec => []TypeOK
<1>1. BooksInv => TypeOK
  BY DEF BooksInv, TypeOK, Shape, DiskShape, ThreadShape, MemoryShape, SessionRec, TurnRec, LogRec,
         FenceRec, RunRec, StopRec, DoneRec, HoldsRec, AlockRec, LockPoints, ResumeRec
<1> QED BY <1>1, BooksAreKept, PTL

\* The input of a Turn is given again only for a recorded retry, and never after a tool
\* ran: whoever comes to call the provider holds the fence of its Turn, so no other
\* worker waits for the provider's answer.
THEOREM InputsAreGivenByProof == Spec => RunsAreProved
<1>1. BooksInv /\ [Next]_vars =>
        [\A t \in Turns : runs'[t] # runs[t] =>
           runs[t] = log[t].retries /\ \A w \in Workers : run[w].turn = t => ~run[w].tool]_vars
  <2> SUFFICES ASSUME BooksInv, Next, NEW t \in Turns, runs'[t] # runs[t]
               PROVE  runs[t] = log[t].retries /\ \A w \in Workers : run[w].turn = t => ~run[w].tool
    OBVIOUS
  <2> USE DEF BooksInv
  <2>1. ~(QueueStep \/ Preparer \/ OtherStep) /\ ~Restart
    BY OthersSpareFence, RestartMoves
  <2>2. PICK v \in Workers : Worker(v)
    BY <2>1, StepCases
  <2>3. PICK u \in Turns : u = run[v].turn /\ WorkerOnly(u) /\ WorkerEffect(v, u)
    BY <2>2, WorkerMoves, WorkerActs
  <2>4. u = t /\ run[v].pc = "call"
    <3>1. u = t
      BY <2>3 DEF WorkerOnly
    <3>2. runs' # runs
      OBVIOUS
    <3> QED BY <2>3, <3>1, <3>2 DEF WorkerEffect, StepsTo
  <2>5. fence[t].by = v /\ runs[t] = log[t].retries
    <3>1. ExecutesAlone(v) /\ t = run[v].turn
      BY <2>3, <2>4 DEF FenceInv, Executing
    <3> QED BY <2>4, <3>1 DEF ExecutesAlone
  <2>6. ASSUME NEW w \in Workers, run[w].turn = t, run[w].tool PROVE FALSE
    <3>1. run[w].pc \in {"provider", "backoff"}
      BY <2>6 DEF ThreadInv
    <3>2. fence[t].by = w
      BY <2>6, <3>1 DEF FenceInv, ExecutesAlone, Executing
    <3> QED BY <2>4, <2>5, <3>1, <3>2
  <2> QED BY <2>5, <2>6
<1> QED BY <1>1, BooksAreKept, PTL DEF Spec, RunsAreProved

\* No step changes the outcome of a Turn: every writer of a status compares it
\* under the Turn's lock (chat_store.py).
THEOREM OutcomesStay == Spec => OutcomeStays
<1>1. BooksInv /\ [Next]_vars =>
        [\A t \in Turns : Terminal(t) => turn'[t].status = turn[t].status]_vars
  <2> SUFFICES ASSUME BooksInv, Next, NEW t \in Turns, Terminal(t)
               PROVE  turn'[t].status = turn[t].status
    OBVIOUS
  <2>1. turn[t].status \in TERMINAL_TURN_STATES
    BY StatusOf DEF Terminal
  <2>2. Moves(turn[t].status, turn'[t].status)
    BY StepMoves DEF BooksInv, AllMove
  <2> QED BY <2>1, <2>2 DEF Moves, Settles, TERMINAL_TURN_STATES
<1> QED BY <1>1, BooksAreKept, PTL DEF Spec, OutcomeStays

\* A user sees one message, one answer and reports of one outcome, and a completed
\* Turn was run and has its answer, whatever was cut between two writes.
THEOREM OutcomesAgree == Spec => []OneOutcome
<1>1. BooksInv => OneOutcome
  <2> SUFFICES ASSUME BooksInv, NEW t \in Turns
               PROVE  /\ log[t].user <= 1 /\ log[t].answers <= 1 /\ log[t].stops <= 1
                      /\ log[t].answers > 0 => Status(t) \in {"completing", "completed"}
                      /\ log[t].failures > 0 => Status(t) \in Failures
                      /\ log[t].stops > 0 => Status(t) = "interrupted"
                      /\ Status(t) = "completed" => log[t].answers = 1 /\ runs[t] >= 1
    BY DEF OneOutcome
  <2>1. Ledger(t) /\ RunsTold(t) /\ Status(t) = turn[t].status
    BY StatusOf DEF BooksInv, LedgerInv, FenceInv
  <2> QED BY <2>1 DEF Ledger, RunsTold
<1> QED BY <1>1, BooksAreKept, PTL

\* A Turn whose stop was recorded (begin_turn_interrupt) is never completed.
THEOREM StopsAreFinal == Spec => []StopIsFinal
<1>1. BooksInv => StopIsFinal
  BY StatusOf DEF BooksInv, LedgerInv, Ledger, StopIsFinal
<1> QED BY <1>1, BooksAreKept, PTL

-----------------------------------------------------------------------------
(* Who has the Session.                                                      *)

\* The preparation of an adapter has closed the old one, for every thread; a resume
\* that does not preserve the active Turn found no working adapter.
LockInv ==
  /\ alock.at \in {"fail", "event", "start"} => adapter = "none" /\ holds = NoHolder
  /\ alock.at = "resume" /\ ~alock.preserve => adapter # "up"

\* The queue worker claims a free Session, and gives up the claim of an ended Turn.
QueueInv ==
  /\ run[Queue].pc = "claimed" => session.active = None
  /\ run[Queue].pc = "drop" => turn[run[Queue].turn].status \in TERMINAL_TURN_STATES

\* A closed Session has neither an active Turn nor one that waits.
ClosedInv ==
  session.status = "closed" => session.active = None /\ \A t \in Turns : turn[t].status # "queued"

\* A worker that is past its check has the claim, as long as its adapter works and its
\* Turn has no outcome.
Calling == {"call", "provider", "backoff"}
Open == {"starting", "running"}
ClaimInv ==
  \A w \in Workers : run[w].pc \in Calling /\ Usable(w) /\ turn[run[w].turn].status \in Open =>
                       session.active = run[w].turn

\* Nobody else has an adapter that was closed.
LEMMA NobodyHolds ==
  ASSUME holds = NoHolder, NEW w,
         \/ holds' = [holds EXCEPT !.runs = @ \ {w}]
         \/ holds' = [calls |-> holds.calls \ {w}, runs |-> holds.runs \cup (holds.calls \cap {w})]
         \/ holds' = [holds EXCEPT !.calls = @ \ {w}]
  PROVE  holds' = NoHolder
<1>1. {} \ {w} = {} /\ {} \cup ({} \cap {w}) = {}
  OBVIOUS
<1>2. holds.runs = {} /\ holds.calls = {} /\ holds = [calls |-> {}, runs |-> {}]
  BY DEF NoHolder
<1> QED BY <1>1, <1>2 DEF NoHolder

\* What a worker does to the adapter: it gives back its own.
LEMMA WorkerLink ==
  ASSUME Shape, ThreadInv, NEW w \in Workers, Worker(w)
  PROVE  /\ adapter' \in {adapter, "none"} /\ UNCHANGED alock
         /\ UNCHANGED holds \/ holds' = [holds EXCEPT !.runs = @ \ {w}]
         /\ holds'.runs \subseteq holds.runs
<1>1. UNCHANGED alock /\ holds \in HoldsRec
  BY WorkerMoves DEF Shape, MemoryShape
<1>2. adapter' \in {adapter, "none"}
  BY DEF Worker, StartTurn, Check, CallProvider, ToolRuns, PlanRetry, Retry, CommitAnswer,
         FinalizeTurn, ProviderFails, PublishFailure, MarkStale, WorkerDies, memory, link
<1>3. UNCHANGED holds \/ holds' = [holds EXCEPT !.runs = @ \ {w}]
  BY DEF Worker, StartTurn, Check, CallProvider, ToolRuns, PlanRetry, Retry, CommitAnswer,
         FinalizeTurn, ProviderFails, PublishFailure, MarkStale, WorkerDies, memory, owned, EndRun
<1> QED BY <1>1, <1>2, <1>3 DEF HoldsRec

\* The queue worker does nothing to it but ask for the lock.
LEMMA QueueLink ==
  ASSUME QueueStep
  PROVE  /\ UNCHANGED <<adapter, holds>>
         /\ alock' = alock \/ (alock = Unlocked /\ alock'.at = "ensure")
<1>1. UNCHANGED <<adapter, holds>>
  BY DEF QueueStep, QueueLoop, QueueDrop, QueueScan, QueueClaim, QueueRetire, QueueCheck,
         QueuePrepare, QueueFails, QueueForgets, QueueRuns, memory, link
<1>2. alock' = alock \/ (alock = Unlocked /\ alock' = [Unlocked EXCEPT !.by = Queue, !.at = "ensure"])
  BY DEF QueueStep, QueueLoop, QueueDrop, QueueScan, QueueClaim, QueueRetire, QueueCheck,
         QueuePrepare, QueueFails, QueueForgets, QueueRuns, memory, link
<1> QED BY <1>1, <1>2 DEF Unlocked

\* What the other threads do to it.
LEMMA OtherLink ==
  ASSUME Shape, OtherStep
  PROVE  \/ UNCHANGED <<adapter, alock, holds>>
         \/ /\ alock = Unlocked /\ UNCHANGED <<adapter, alock>> /\ holds'.runs = holds.runs
         \/ /\ alock = Unlocked /\ adapter' = "none" /\ holds' = NoHolder /\ alock'.at = "fail"
         \/ \E t \in Turns : /\ UNCHANGED <<adapter, alock>> /\ StartWorker(t)
                             /\ holds = NoHolder => holds' = NoHolder
                             /\ holds'.runs \subseteq holds.runs \cup {t}
                             /\ holds'.runs = holds.runs \/ run'[t].pc = "fence"
         \/ /\ alock'.at \in {"close", "free"} /\ adapter' \in {adapter, "none"}
            /\ holds' \in {holds, NoHolder}
         \/ UNCHANGED <<alock, holds>> /\ adapter = "up" /\ adapter' = "sick"
<1>1. holds \in HoldsRec /\ run \in [Workers -> RunRec] /\ Turns \subseteq Workers
  BY DEF Shape, MemoryShape, ThreadShape, Workers
<1>2. ASSUME NEW t \in Turns, StartWorker(t)
      PROVE  /\ UNCHANGED <<adapter, alock>>
             /\ holds = NoHolder => holds' = NoHolder
             /\ holds'.runs \subseteq holds.runs \cup {t}
             /\ holds'.runs = holds.runs \/ run'[t].pc = "fence"
  <2>1. \/ /\ holds' = [calls |-> holds.calls \ {t}, runs |-> holds.runs \cup (holds.calls \cap {t})]
           /\ run' = [run EXCEPT ![t] = Thread("fence", t)]
        \/ holds' = [holds EXCEPT !.calls = @ \ {t}]
    BY <1>2 DEF StartWorker
  <2>2. holds = NoHolder => holds' = NoHolder
    BY <2>1, NobodyHolds
  <2>3. UNCHANGED <<adapter, alock>>
    BY <1>2 DEF StartWorker, link
  <2>4. CASE holds' = [holds EXCEPT !.calls = @ \ {t}]
    BY <1>1, <2>2, <2>3, <2>4 DEF HoldsRec
  <2>5. CASE /\ holds' = [calls |-> holds.calls \ {t}, runs |-> holds.runs \cup (holds.calls \cap {t})]
             /\ run' = [run EXCEPT ![t] = Thread("fence", t)]
    <3>1. run'[t].pc = "fence"
      BY <1>1, <2>5 DEF Thread
    <3>2. holds'.runs \subseteq holds.runs \cup {t}
      BY <2>5
    <3> QED BY <2>2, <2>3, <3>1, <3>2
  <2> QED BY <2>1, <2>4, <2>5
<1>3. ASSUME NEW t \in Turns, Submit(t)
      PROVE  \/ UNCHANGED <<adapter, alock, holds>>
             \/ alock = Unlocked /\ UNCHANGED <<adapter, alock>> /\ holds'.runs = holds.runs
             \/ alock = Unlocked /\ adapter' = "none" /\ holds' = NoHolder /\ alock'.at = "fail"
  <2>1. alock = Unlocked
    BY <1>3 DEF Submit
  <2>2. \/ UNCHANGED <<adapter, alock, holds>>
        \/ UNCHANGED <<adapter, alock>> /\ holds' = [holds EXCEPT !.calls = @ \cup {t}]
        \/ /\ adapter' = "none" /\ holds' = NoHolder
           /\ alock' = [Unlocked EXCEPT !.by = t, !.at = "fail", !.accepted = t]
    BY <1>3 DEF Submit, link
  <2>3. [Unlocked EXCEPT !.by = t, !.at = "fail", !.accepted = t].at = "fail"
    BY DEF Unlocked
  <2>4. [holds EXCEPT !.calls = @ \cup {t}].runs = holds.runs
    BY <1>1 DEF HoldsRec
  <2> QED BY <2>1, <2>2, <2>3, <2>4
<1>4. ASSUME NEW t \in Turns, Client(t) \/ Stopper(t) \/ Recovery(t), ~Submit(t), ~StartWorker(t)
      PROVE  UNCHANGED <<adapter, alock, holds>>
  BY <1>4 DEF Client, Stopper, Recovery, SubmitCut, CreateQueued, RetryQueued, WakeQueue, StopBegin,
              StopFinalizes, StopCapture, StopSignal, StopUnconfirmed, StopMark, StopPublish,
              RecoverLost, RecoverFail, RecoverComplete, memory, link
<1>5. CASE Close
  <2>1. UNCHANGED <<adapter, holds>> /\ alock'.at = "close"
    BY <1>5 DEF Close, Unlocked
  <2> QED BY <2>1
<1>6. CASE CloseAdapter
  BY <1>6 DEF CloseAdapter, Unlocked
<1>7. CASE AdapterLost
  BY <1>7 DEF AdapterLost
<1>8. CASE PollQueue
  BY <1>8 DEF PollQueue, link
<1> QED BY <1>2, <1>3, <1>4, <1>5, <1>6, <1>7, <1>8 DEF OtherStep, Service

\* What a preparation does to it.
LEMMA PreparerLink ==
  ASSUME Shape, ThreadInv, LockInv, Preparer
  PROVE  /\ LockInv'
         /\ \A w \in Workers : w \in holds'.runs /\ adapter' = "up" =>
                Usable(w) \/ (w = Queue /\ run'[w].pc = "ready")
<1>1. holds \in HoldsRec /\ alock \in AlockRec /\ adapter \in {"none", "sick", "up"}
      /\ run \in [Workers -> RunRec] /\ Queue \in Workers /\ Unlocked.at = "free"
  BY DEF Shape, MemoryShape, ThreadShape, Workers, Unlocked
<1>20. UNCHANGED <<adapter, holds>> =>
         \A w \in Workers : w \in holds'.runs /\ adapter' = "up" => Usable(w)
  BY DEF Usable
<1>2. CASE UNCHANGED <<adapter, holds>> /\ alock' = Unlocked
  <2>1. LockInv'
    BY <1>1, <1>2 DEF LockInv
  <2> QED BY <1>2, <1>20, <2>1
<1>3. ASSUME HasAdapter, adapter = "up" \/ holds = NoHolder
      PROVE  /\ LockInv'
             /\ \A w \in Workers : w \in holds'.runs /\ adapter' = "up" =>
                    Usable(w) \/ (w = Queue /\ run'[w].pc = "ready")
  <2>1. alock' = Unlocked
    BY <1>3 DEF HasAdapter
  <2>2. ASSUME NEW w \in Workers, w \in holds'.runs, w \notin holds.runs
        PROVE  w = Queue /\ run'[w].pc = "ready"
    <3>1. holds'.runs = holds.runs \cup (IF At(Queue, "adapt") /\ alock.by = Queue THEN {Queue} ELSE {})
      BY <1>3 DEF HasAdapter
    <3>2. w = Queue /\ run[Queue].pc = "adapt" /\ alock.by = Queue
      BY <2>2, <3>1 DEF At
    <3>3. run' = [run EXCEPT ![Queue].pc = "ready"]
      BY <1>3, <3>2 DEF HasAdapter
    <3> QED BY <1>1, <3>2, <3>3 DEF RunRec
  <2>3. \A w \in Workers : w \in holds'.runs /\ adapter' = "up" =>
                  Usable(w) \/ (w = Queue /\ run'[w].pc = "ready")
    <3>1. CASE adapter = "up"
      BY <2>2, <3>1 DEF Usable
    <3>2. CASE holds = NoHolder
      BY <2>2, <3>2 DEF Usable, NoHolder
    <3> QED BY <1>3, <3>1, <3>2
  <2> QED BY <1>1, <2>1, <2>3 DEF LockInv
<1>4. CASE EnsureAdapter
  <2>1. CASE UNCHANGED <<adapter, holds>> /\ Raise
    BY <1>2, <2>1 DEF Raise
  <2>2. CASE HasAdapter /\ adapter = "up"
    BY <1>3, <2>2
  <2>3. CASE /\ adapter' = "none" /\ holds' = NoHolder
             /\ \E a, v : alock' = [alock EXCEPT !.at = "fail", !.accepted = a, !.victim = v]
    <3>1. alock'.at = "fail"
      BY <1>1, <2>3 DEF AlockRec
    <3> QED BY <2>3, <3>1 DEF LockInv, Usable
  <2> QED BY <1>4, <2>1, <2>2, <2>3 DEF EnsureAdapter
<1>5. CASE FailLost
  <2>1. UNCHANGED <<adapter, holds>> /\ alock.at = "fail"
    BY <1>5 DEF FailLost
  <2>2. CASE alock' = Unlocked
    BY <1>2, <2>1, <2>2
  <2>3. CASE alock' = [alock EXCEPT !.at = "start"] \/ alock' = [alock EXCEPT !.at = "event"]
    <3>1. alock'.at \in {"start", "event"}
      BY <1>1, <2>3 DEF AlockRec
    <3>2. LockInv'
      BY <2>1, <3>1 DEF LockInv
    <3> QED BY <1>20, <2>1, <3>2
  <2> QED BY <1>5, <2>2, <2>3 DEF FailLost, Raise
<1>6. CASE ReportLost
  <2>1. UNCHANGED <<adapter, holds>> /\ alock.at = "event" /\ alock' = [alock EXCEPT !.at = "start"]
    BY <1>6 DEF ReportLost
  <2>2. alock'.at = "start"
    BY <1>1, <2>1 DEF AlockRec
  <2>3. LockInv'
    BY <2>1, <2>2 DEF LockInv
  <2> QED BY <1>20, <2>1, <2>3
<1>7. CASE AdapterStarts
  <2>1. holds = NoHolder /\ HasAdapter
    BY <1>7 DEF AdapterStarts, LockInv
  <2> QED BY <1>3, <2>1
<1>8. CASE PrepareCut
  BY <1>2, <1>8 DEF PrepareCut, Raise
<1>9. CASE ResumeAsk
  BY <1>9, <1>20 DEF ResumeAsk, LockInv
<1>10. CASE ResumeBegin
  <2>1. UNCHANGED <<adapter, holds>>
    BY <1>10 DEF ResumeBegin
  <2>2. CASE alock' = Unlocked
    BY <1>2, <2>1, <2>2
  <2>3. CASE alock' = [Unlocked EXCEPT !.by = "resume", !.at = "resume",
                                       !.preserve = (adapter = "up" \/ LiveWorker(session.active))]
    <3>1. PICK b \in BOOLEAN : b = (adapter = "up" \/ LiveWorker(session.active))
      BY Zenon
    <3>2. alock' = [Unlocked EXCEPT !.by = "resume", !.at = "resume", !.preserve = b]
      BY <2>3, <3>1
    <3>3. alock'.at = "resume" /\ alock'.preserve = b
      BY <3>2 DEF Unlocked
    <3>4. LockInv'
      BY <2>1, <3>1, <3>3 DEF LockInv
    <3> QED BY <1>20, <2>1, <3>4
  <2> QED BY <1>10, <2>2, <2>3 DEF ResumeBegin
<1>11. CASE ResumeTakes
  <2>1. UNCHANGED <<adapter, holds>>
    BY <1>11 DEF ResumeTakes
  <2>2. CASE alock' = Unlocked
    BY <1>2, <2>1, <2>2
  <2>3. CASE \E v : alock' = [alock EXCEPT !.at = "ensure", !.victim = v]
    <3>1. alock'.at = "ensure"
      BY <1>1, <2>3 DEF AlockRec
    <3>2. LockInv'
      BY <2>1, <3>1 DEF LockInv
    <3> QED BY <1>20, <2>1, <3>2
  <2> QED BY <1>11, <2>2, <2>3 DEF ResumeTakes
<1> QED
  BY <1>4, <1>5, <1>6, <1>7, <1>8, <1>9, <1>10, <1>11 DEF Preparer, PrepareStep

\* The preparation's view of the adapter is kept by every step.
LEMMA NextKeepsLock ==
  ASSUME Shape, ThreadInv, LockInv, [Next]_vars
  PROVE  LockInv'
<1>1. Unlocked.at = "free"
  BY DEF Unlocked
<1>2. ASSUME NEW w \in Workers, Worker(w) PROVE LockInv'
  <2>1. /\ adapter' \in {adapter, "none"} /\ UNCHANGED alock
        /\ UNCHANGED holds \/ holds' = [holds EXCEPT !.runs = @ \ {w}]
    BY <1>2, WorkerLink
  <2>2. holds = NoHolder => holds' = NoHolder
    BY <2>1, NobodyHolds
  <2> QED BY <2>1, <2>2 DEF LockInv
<1>3. CASE QueueStep
  BY <1>3, QueueLink DEF LockInv
<1>4. CASE OtherStep
  BY <1>1, <1>4, OtherLink DEF LockInv
<1>5. CASE Restart
  BY <1>1, <1>5, RestartMoves DEF LockInv
<1>6. CASE UNCHANGED vars
  BY <1>6 DEF LockInv, vars, memory, link
<1> QED BY <1>2, <1>3, <1>4, <1>5, <1>6, PreparerLink, StepCases

\* A worker that comes to call the provider, or waits for it, could use its adapter before.
LEMMA UsableBefore ==
  ASSUME Shape, ThreadInv, LockInv, Next, ~Restart, NEW w \in Workers, Usable(w)',
         run'[w].pc \in Calling
  PROVE  Usable(w)
<1>1. ASSUME NEW v \in Workers, Worker(v) PROVE Usable(w)
  BY <1>1, WorkerLink DEF Usable
<1>2. CASE QueueStep
  BY <1>2, QueueLink DEF Usable
<1>3. CASE Preparer
  BY <1>3, PreparerLink DEF Calling, Usable
<1>4. CASE OtherStep
  BY <1>4, OtherLink DEF Usable, Calling, NoHolder
<1> QED BY <1>1, <1>2, <1>3, <1>4, StepCases

\* The claim of a Turn that is being executed is given up when the adapter is gone, or
\* when the Turn has an outcome.
Spared ==
  \/ session'.active = session.active
  \/ session.active = None
  \/ adapter # "up"
  \/ session.active \in Turns /\ turn'[session.active].status \notin Open

\* How a step writes the Session file.
SessionStep ==
  \/ session' = session
  \/ run[Queue].pc # "claimed" /\ session'.status # "closed" /\ Spared
  \/ QueueClaim
  \/ Close

\* A release of a Turn that is not executed any longer.
LEMMA ReleaseSteps ==
  ASSUME session \in SessionRec, NEW t \in Turns, ReleaseActive(t), turn'[t].status \notin Open
  PROVE  SessionStep
BY ReleaseWrite DEF SessionStep, Spared, SessionRec

\* An acceptance takes a free Session, or one whose Turn has ended.
LEMMA AcceptedSteps ==
  ASSUME Shape, NEW t \in Turns, ~Blocked(t), turn'[t].status \notin Open,
         \A u \in Turns : turn[u].status \in TERMINAL_TURN_STATES => turn'[u].status = turn[u].status,
         SetSession([status |-> "busy", active |-> t])
  PROVE  SessionStep
<1>1. run[Queue].pc # "claimed" /\ session'.status = "busy" /\ session'.active = t
  BY DEF SetSession, SessionFree, At
<1>2. session.active \in Turns \cup {None}
  BY DEF Shape, DiskShape, SessionRec
<1>3. \/ session.active \in {None, t}
      \/ session.active \in Turns /\ turn[session.active].status \in TERMINAL_TURN_STATES
  BY <1>2, StatusOf DEF Blocked, Terminal
<1> QED BY <1>1, <1>2, <1>3 DEF SessionStep, Spared, Open, TERMINAL_TURN_STATES

\* The callers.
LEMMA ClientSteps ==
  ASSUME Shape, ThreadInv, LedgerInv, Next, NEW t \in Turns, Client(t)
  PROVE  SessionStep
<1>1. \A u \in Turns : turn[u].status \in TERMINAL_TURN_STATES => turn'[u].status = turn[u].status
  BY StepMoves DEF AllMove, Moves, Settles, TERMINAL_TURN_STATES
<1>2. CASE UNCHANGED session
  BY <1>2 DEF SessionStep
<1>3. ASSUME NEW k \in 1..5, Accept(t, k), CanCreate(t) \/ CanRepair(t) \/ CanReplay(t)
      PROVE  SessionStep
  <2>1. UNCHANGED session \/ (SetSession([status |-> "busy", active |-> t]) /\ ~Terminal(t))
    BY <1>3 DEF Accept, SetSession
  <2>2. CASE SetSession([status |-> "busy", active |-> t]) /\ ~Terminal(t)
    <3>1. ~Blocked(t) /\ turn[t].status \in {"absent", "queued"}
      BY <1>3, <2>2, StatusOf DEF CanCreate, CanRepair, CanReplay
    <3>2. turn'[t].status = "queued"
      BY <1>3, <3>1, AcceptedTurnWrite
    <3> QED BY <1>1, <2>2, <3>1, <3>2, AcceptedSteps DEF Open
  <2> QED BY <1>2, <2>1, <2>2
<1>4. CASE Submit(t)
  BY <1>3, <1>4 DEF Submit
<1>5. ASSUME NEW k \in 1..4, SubmitCut(t, k) PROVE SessionStep
  BY <1>3, <1>5 DEF SubmitCut
<1> QED
  BY <1>2, <1>4, <1>5 DEF Client, CreateQueued, RetryQueued, StartWorker, WakeQueue, disk

\* The stops.
LEMMA StopperSteps ==
  ASSUME Shape, ThreadInv, LedgerInv, Next, NEW t \in Turns, Stopper(t)
  PROVE  SessionStep
<1>1. /\ \A u \in Turns : turn[u].status \in TERMINAL_TURN_STATES => turn'[u].status = turn[u].status
      /\ session \in SessionRec /\ turn \in [Turns -> TurnRec]
  BY StepMoves DEF AllMove, Moves, Settles, TERMINAL_TURN_STATES, Shape, DiskShape
<1>2. CASE UNCHANGED session
  BY <1>2 DEF SessionStep
<1>3. CASE StopBegin(t)
  <2>1. turn'[t].status = "interrupting"
    BY <1>1, <1>3, StoppedWrite
  <2>2. CASE ~turn[t].sealed
    <3>1. SetSession([status |-> "busy", active |-> t]) /\ CanRepair(t)
      BY <1>3, <2>2 DEF StopBegin
    <3>2. ~Blocked(t)
      BY <1>3, <3>1 DEF StopBegin, CanRepair, Terminal, TERMINAL_TURN_STATES
    <3> QED BY <1>1, <2>1, <3>1, <3>2, AcceptedSteps DEF Open
  <2> QED BY <1>2, <1>3, <2>2 DEF StopBegin
<1>4. CASE StopFinalizes(t)
  <2>1. ReleaseActive(t) /\ SetStatus(t, "completed")
    BY <1>4 DEF StopFinalizes
  <2>2. turn'[t].status = "completed"
    BY <1>1, <2>1, StatusWrite DEF Statuses, TERMINAL_TURN_STATES
  <2> QED BY <1>1, <2>1, <2>2, ReleaseSteps DEF Open
<1>5. CASE StopPublish(t)
  <2>1. turn'[t].status = "interrupted"
    BY <1>5 DEF StopPublish, LedgerInv, Ledger
  <2>2. UNCHANGED session \/ ReleaseActive(t)
    BY <1>5 DEF StopPublish
  <2> QED BY <1>1, <1>2, <2>1, <2>2, ReleaseSteps DEF Open
<1> QED
  BY <1>2, <1>3, <1>4, <1>5 DEF Stopper, StopCapture, StopSignal, StopUnconfirmed, StopMark, disk

\* The recovery.
LEMMA RecoverySteps ==
  ASSUME Shape, NEW t \in Turns, Recovery(t)
  PROVE  SessionStep
<1>1. session \in SessionRec
  BY DEF Shape, DiskShape
<1>2. CASE UNCHANGED session
  BY <1>2 DEF SessionStep
<1>3. ASSUME NEW k \in 1..3, RecoverFail(t, k) PROVE SessionStep
  <2>1. \/ UNCHANGED session
        \/ /\ turn' = Failed(t, "failed", TRUE) /\ ReleaseActive(t)
           /\ Status(t) \in {"starting", "running", "interrupting"}
    BY <1>3 DEF RecoverFail
  <2>2. CASE /\ turn' = Failed(t, "failed", TRUE) /\ ReleaseActive(t)
             /\ Status(t) \in {"starting", "running", "interrupting"}
    <3>1. turn[t].status \in {"starting", "running", "interrupting"}
      BY <2>2, StatusOf
    <3>2. turn'[t].status = "failed"
      BY <2>2, <3>1, FailedSettles DEF Failures
    <3> QED BY <1>1, <2>2, <3>2, ReleaseSteps DEF Open
  <2> QED BY <1>2, <2>1, <2>2
<1>4. CASE RecoverComplete(t)
  <2>1. turn'[t].status = "failed" /\ ReleaseActive(t)
    BY <1>4, StatusOf DEF RecoverComplete
  <2> QED BY <1>1, <2>1, ReleaseSteps DEF Open
<1> QED BY <1>2, <1>3, <1>4 DEF Recovery, RecoverLost, disk

\* The workers.
LEMMA WorkerSteps ==
  ASSUME Shape, ThreadInv, LedgerInv, NEW w \in Workers, Worker(w)
  PROVE  SessionStep
<1>1. session \in SessionRec /\ turn \in [Turns -> TurnRec]
  BY DEF Shape, DiskShape
<1>2. CASE UNCHANGED session
  BY <1>2 DEF SessionStep
<1>3. PICK t \in Turns : t = run[w].turn
  BY WorkerMoves
<1>4. ASSUME NEW k \in 1..3, FinalizeTurn(w, k) PROVE SessionStep
  <2>1. \/ UNCHANGED session
        \/ /\ ReleaseActive(t) /\ Status(t) = "completing"
           /\ UNCHANGED turn \/ SetStatus(t, "completed")
    BY <1>3, <1>4 DEF FinalizeTurn
  <2>2. CASE /\ ReleaseActive(t) /\ Status(t) = "completing"
             /\ UNCHANGED turn \/ SetStatus(t, "completed")
    <3>1. turn'[t].status \in {"completing", "completed"}
      BY <1>1, <2>2, StatusOf, StatusWrite DEF Statuses, TERMINAL_TURN_STATES
    <3> QED BY <1>1, <2>2, <3>1, ReleaseSteps DEF Open
  <2> QED BY <1>2, <2>1, <2>2
<1>5. CASE PublishFailure(w)
  <2>1. ReleaseActive(t) /\ UNCHANGED turn /\ turn[t].status \in Failures
    BY <1>3, <1>5 DEF PublishFailure, At, LedgerInv
  <2> QED BY <1>1, <2>1, ReleaseSteps DEF Open, Failures
<1>6. CASE MarkStale(w)
  <2>1. UNCHANGED session \/ SetSession([session EXCEPT !.status = "stale"])
    BY <1>6 DEF MarkStale
  <2>2. CASE SetSession([session EXCEPT !.status = "stale"])
    <3>1. run[Queue].pc # "claimed" /\ session' = [session EXCEPT !.status = "stale"]
      BY <2>2 DEF SetSession, SessionFree, At
    <3>2. session'.status = "stale" /\ session'.active = session.active
      BY <1>1, <3>1 DEF SessionRec
    <3> QED BY <3>1, <3>2 DEF SessionStep, Spared
  <2> QED BY <1>2, <2>1, <2>2
<1> QED
  BY <1>2, <1>4, <1>5, <1>6 DEF Worker, StartTurn, Check, CallProvider, ToolRuns, PlanRetry, Retry,
                                CommitAnswer, ProviderFails, WorkerDies, disk

\* The queue worker.
LEMMA QueueSteps ==
  ASSUME Shape, ThreadInv, LedgerInv, QueueInv, QueueStep
  PROVE  SessionStep
<1>1. session \in SessionRec /\ Queue \in Workers
  BY DEF Shape, DiskShape, Workers
<1>2. CASE UNCHANGED session
  BY <1>2 DEF SessionStep
<1>3. CASE QueueDrop
  <2>1. PICK t \in Turns : t = run[Queue].turn
    BY <1>1, <1>3 DEF QueueDrop, At, ThreadInv
  <2>2. ReleaseActive(t) /\ UNCHANGED turn /\ turn[t].status \in TERMINAL_TURN_STATES
    BY <1>3, <2>1 DEF QueueDrop, At, Q, QueueInv
  <2> QED BY <1>1, <2>2, ReleaseSteps DEF Open, TERMINAL_TURN_STATES
<1>4. CASE QueueForgets
  <2>1. PICK t \in Turns : t = run[Queue].turn
    BY <1>1, <1>4 DEF QueueForgets, At, ThreadInv
  <2>2. ReleaseActive(t) /\ UNCHANGED turn /\ turn[t].status \in Failures
    BY <1>1, <1>4, <2>1 DEF QueueForgets, At, Q, LedgerInv
  <2> QED BY <1>1, <2>2, ReleaseSteps DEF Open, Failures
<1>5. CASE QueueClaim
  BY <1>5 DEF SessionStep
<1> QED
  BY <1>2, <1>3, <1>4, <1>5 DEF QueueStep, QueueLoop, QueueScan, QueueRetire, QueueCheck, QueuePrepare,
                                QueueFails, QueueRuns, disk

\* The preparations.
LEMMA PreparerSteps ==
  ASSUME Shape, ThreadInv, LockInv, LedgerInv, Next, Preparer
  PROVE  SessionStep
<1>1. session \in SessionRec
  BY DEF Shape, DiskShape
<1>2. CASE UNCHANGED session
  BY <1>2 DEF SessionStep
<1>3. ASSUME SetSession(Restored) PROVE SessionStep
  <2>1. session' = Restored /\ run[Queue].pc # "claimed"
    BY <1>3 DEF SetSession, SessionFree, At
  <2>2. session' = session \/ (session'.status = "ready" /\ session'.active = session.active)
    BY <1>1, <2>1 DEF Restored, SessionRec
  <2> QED BY <2>1, <2>2 DEF SessionStep, Spared
<1>4. CASE ResumeTakes
  <2>1. \/ UNCHANGED session
        \/ /\ ~(alock.preserve /\ Live(session.active)) /\ alock.at = "resume"
           /\ SetSession([status |-> "stale", active |-> None])
    BY <1>4 DEF ResumeTakes
  <2>2. CASE /\ ~(alock.preserve /\ Live(session.active)) /\ alock.at = "resume"
             /\ SetSession([status |-> "stale", active |-> None])
    <3>1. session'.status = "stale" /\ session'.active = None /\ run[Queue].pc # "claimed"
      BY <2>2 DEF SetSession, SessionFree, At
    <3>2. CASE ~alock.preserve
      BY <2>2, <3>1, <3>2 DEF LockInv, SessionStep, Spared
    <3>3. CASE ~Live(session.active)
      <4>1. CASE session.active = None
        BY <3>1, <4>1 DEF SessionStep, Spared
      <4>2. CASE session.active \in Turns
        <5>1. turn[session.active].status \notin Open /\ UNCHANGED turn
          BY <1>4, <3>3, <4>2, StatusOf DEF Live, Open, Statuses, TERMINAL_TURN_STATES, ResumeTakes
        <5> QED BY <3>1, <4>2, <5>1 DEF SessionStep, Spared
      <4> QED BY <1>1, <4>1, <4>2 DEF SessionRec
    <3> QED BY <2>2, <3>2, <3>3
  <2> QED BY <1>2, <2>1, <2>2
<1>5. CASE EnsureAdapter
  BY <1>2, <1>3, <1>5 DEF EnsureAdapter
<1>6. CASE FailLost
  <2>1. UNCHANGED session \/ SetSession([session EXCEPT !.status = "resuming"])
    BY <1>6 DEF FailLost
  <2>2. CASE SetSession([session EXCEPT !.status = "resuming"])
    <3>1. run[Queue].pc # "claimed" /\ session' = [session EXCEPT !.status = "resuming"]
      BY <2>2 DEF SetSession, SessionFree, At
    <3>2. session'.status = "resuming" /\ session'.active = session.active
      BY <1>1, <3>1 DEF SessionRec
    <3> QED BY <3>1, <3>2 DEF SessionStep, Spared
  <2> QED BY <1>2, <2>1, <2>2
<1>7. CASE AdapterStarts
  BY <1>3, <1>7 DEF AdapterStarts
<1>8. CASE PrepareCut
  <2>1. CASE alock.at = "start"
    <3>1. adapter # "up"
      BY <2>1 DEF LockInv
    <3>2. \E s \in {"busy", "resume_failed"} : SetSession([status |-> s, active |-> alock.accepted])
      BY <1>8, <2>1 DEF PrepareCut
    <3>3. run[Queue].pc # "claimed" /\ session'.status # "closed"
      BY <3>2 DEF SetSession, SessionFree, At
    <3> QED BY <3>1, <3>3 DEF SessionStep, Spared
  <2> QED BY <1>2, <1>8, <2>1 DEF PrepareCut
<1> QED
  BY <1>2, <1>4, <1>5, <1>6, <1>7, <1>8 DEF Preparer, PrepareStep, ResumeAsk, ResumeBegin, ReportLost, disk

\* Every step but a restart.
LEMMA SessionSteps ==
  ASSUME Shape, ThreadInv, LedgerInv, LockInv, QueueInv, Next, ~Restart
  PROVE  SessionStep
<1>1. CASE OtherStep
  <2>1. CASE Service
    <3>1. UNCHANGED session \/ Close
      BY <2>1 DEF Service, PollQueue, CloseAdapter, AdapterLost, disk
    <3> QED BY <3>1 DEF SessionStep
  <2> QED BY <1>1, <2>1, ClientSteps, StopperSteps, RecoverySteps DEF OtherStep
<1> QED BY <1>1, WorkerSteps, QueueSteps, PreparerSteps, StepCases

\* What the queue worker enters.
LEMMA QueueEnters ==
  ASSUME Shape, ThreadInv, LedgerInv, Next, ~Restart,
         run'[Queue].pc \in {"claimed", "drop"}
  PROVE  \/ run'[Queue].pc = run[Queue].pc /\ run'[Queue].turn = run[Queue].turn
         \/ run'[Queue].pc = "claimed" /\ session.active = None /\ UNCHANGED session
         \/ /\ run'[Queue].pc = "drop" /\ UNCHANGED turn
            /\ turn[run'[Queue].turn].status \in TERMINAL_TURN_STATES
<1>1. Queue \in Workers /\ run \in [Workers -> RunRec] /\ session \in SessionRec
      /\ Queue \notin Turns /\ order \in Seq(Turns)
  BY ConstantsDistinct DEF Workers, Shape, ThreadShape, DiskShape
<1>2. ASSUME NEW v \in Workers, Worker(v) PROVE run'[Queue] = run[Queue]
  BY <1>1, <1>2, WorkerMoves DEF Executing
<1>3. CASE Preparer
  <2>1. run'[Queue] = run[Queue] \/ /\ run[Queue].pc \in {"adapt", "prepareActive"}
                                    /\ run'[Queue].pc \in {"ready", "unfit", "loop", "unfitActive"}
    BY <1>3, PreparerMoves DEF ThreadInv
  <2> QED BY <2>1
<1>4. CASE OtherStep
  BY <1>1, <1>4, OtherMoves
<1>5. CASE QueueStep
  <2>1. ASSUME NEW n \in RunPoints, Goto(Queue, n)
        PROVE  run'[Queue].pc = n /\ run'[Queue].turn = run[Queue].turn
    BY <1>1, <2>1, Goes
  <2>2. ASSUME NEW n \in RunPoints, NEW t, QueueGoes(n, t)
        PROVE  run'[Queue].pc = n /\ run'[Queue].turn = t
    BY <1>1, <2>2 DEF QueueGoes, Thread
  <2>3. QueueRests => run'[Queue].pc = "idle"
    BY <1>1 DEF QueueRests, Idle, Thread
  <2>4. CASE QueueLoop
    <3>1. UNCHANGED turn
      BY <2>4 DEF QueueLoop, disk
    <3>2. session.active # None /\ Terminal(session.active) /\ QueueGoes("drop", session.active)
      BY <2>2, <2>3, <2>4 DEF QueueLoop, RunPoints
    <3>3. session.active \in Turns /\ run'[Queue].pc = "drop" /\ run'[Queue].turn = session.active
      BY <1>1, <2>2, <3>2 DEF RunPoints, SessionRec
    <3> QED BY <3>1, <3>2, <3>3, StatusOf DEF Terminal
  <2>5. ~(QueueDrop \/ QueueClaim)
    BY <2>1 DEF QueueDrop, QueueClaim, RunPoints
  <2>6. CASE QueueScan
    <3>1. Claimable /\ QueueGoes("claimed", Oldest) /\ UNCHANGED session
      BY <2>1, <2>3, <2>6 DEF QueueScan, RunPoints
    <3>2. run'[Queue].pc = "claimed" /\ session.active = None
      BY <2>2, <3>1 DEF RunPoints, Claimable
    <3> QED BY <3>1, <3>2
  <2>7. ~(QueueRetire \/ QueueCheck \/ QueueRuns)
    BY <2>1, <2>3 DEF QueueRetire, QueueCheck, QueueRuns, RunPoints
  <2>8. ~QueuePrepare
    BY DEF QueuePrepare, threads, At
  <2>9. CASE QueueFails
    <3>1. PICK t \in Turns : t = run[Queue].turn
      BY <1>1, <2>9 DEF QueueFails, At, ThreadInv
    <3>2. Terminal(t) /\ UNCHANGED turn /\ Goto(Queue, "drop")
      BY <2>1, <2>9, <3>1 DEF QueueFails, Q, RunPoints
    <3> QED BY <2>1, <3>1, <3>2, StatusOf DEF Terminal, RunPoints
  <2>10. CASE QueueForgets
    <3>1. PICK t \in Turns : t = run[Queue].turn
      BY <1>1, <2>10 DEF QueueForgets, At, ThreadInv
    <3>2. UNCHANGED turn /\ turn[t].status \in Failures /\ \E n \in {"loop", "drop"} : Goto(Queue, n)
      BY <1>1, <2>10, <3>1 DEF QueueForgets, At, LedgerInv
    <3>3. run'[Queue].pc = "drop" /\ run'[Queue].turn = t
      BY <2>1, <3>1, <3>2 DEF RunPoints
    <3> QED BY <3>2, <3>3 DEF Failures, TERMINAL_TURN_STATES
  <2> QED BY <1>5, <2>4, <2>5, <2>6, <2>7, <2>8, <2>9, <2>10 DEF QueueStep
<1> QED BY <1>2, <1>3, <1>4, <1>5, StepCases

\* The queue worker's claim and its drop are sound.
LEMMA NextKeepsQueue ==
  ASSUME Shape, ThreadInv, LedgerInv, LockInv, QueueInv, [Next]_vars
  PROVE  QueueInv'
<1>1. CASE Next /\ ~Restart
  <2>1. ASSUME run'[Queue].pc = "claimed" PROVE session'.active = None
    <3>1. CASE session.active = None /\ UNCHANGED session
      BY <3>1
    <3>2. CASE run[Queue].pc = "claimed"
      <4>1. SessionStep /\ session.active = None
        BY <1>1, <3>2, SessionSteps DEF QueueInv
      <4>2. ~QueueClaim
        <5>1. QueueClaim => run'[Queue].pc = "prepare"
          BY Goes DEF QueueClaim, Shape, ThreadShape, Workers, RunPoints
        <5> QED BY <2>1, <5>1
      <4>3. ~Close
        BY <3>2 DEF Close, SetSession, SessionFree, At
      <4> QED BY <3>2, <4>1, <4>2, <4>3 DEF SessionStep
    <3> QED BY <1>1, <2>1, <3>1, <3>2, QueueEnters
  <2>2. ASSUME run'[Queue].pc = "drop"
        PROVE  turn'[run'[Queue].turn].status \in TERMINAL_TURN_STATES
    <3>1. \A t \in Turns : turn[t].status \in TERMINAL_TURN_STATES => turn'[t].status = turn[t].status
      BY <1>1, StepMoves DEF AllMove, Moves, Settles, TERMINAL_TURN_STATES
    <3>2. CASE run'[Queue].pc = run[Queue].pc /\ run'[Queue].turn = run[Queue].turn
      <4>1. run[Queue].turn \in Turns /\ turn[run[Queue].turn].status \in TERMINAL_TURN_STATES
        BY <2>2, <3>2 DEF QueueInv, ThreadInv, Workers
      <4> QED BY <3>1, <3>2, <4>1
    <3>3. CASE UNCHANGED turn /\ turn[run'[Queue].turn].status \in TERMINAL_TURN_STATES
      BY <3>3
    <3> QED BY <1>1, <2>2, <3>2, <3>3, QueueEnters
  <2> QED BY <2>1, <2>2 DEF QueueInv
<1>2. CASE Restart
  BY <1>2, RestartMoves DEF QueueInv, Workers
<1>3. CASE UNCHANGED vars
  BY <1>3 DEF QueueInv, vars, disk, threads
<1> QED BY <1>1, <1>2, <1>3

\* A closed Session stays without a Turn.
LEMMA NextKeepsClosed ==
  ASSUME Shape, ThreadInv, LedgerInv, LockInv, QueueInv, ClosedInv, FenceInv, [Next]_vars
  PROVE  ClosedInv'
<1>1. session \in SessionRec
  BY DEF Shape, DiskShape
<1>2. ASSUME Next, session.status = "closed", ClosedInv
      PROVE  \A t \in Turns : turn'[t].status # "queued"
  BY <1>2, StepMoves DEF AllMove, Moves, Settles, ClosedInv
<1>3. CASE Next /\ ~Restart
  <2>1. SessionStep
    BY <1>3, SessionSteps
  <2>2. CASE session' = session
    BY <1>2, <1>3, <2>2 DEF ClosedInv
  <2>3. CASE Close
    <3>1. session' = [status |-> "closed", active |-> None] /\ UNCHANGED turn /\ Closable
      BY <2>3 DEF Close, SetSession
    <3>2. ASSUME NEW t \in Turns, turn[t].status = "queued" PROVE FALSE
      <4>1. Status(t) = "queued"
        BY <3>2, StatusOf
      <4>2. t = session.active
        BY <3>1, <4>1 DEF Closable, Queued
      <4>3. t # None /\ ~Terminal(t)
        BY <4>1, ConstantsDistinct DEF Terminal, TERMINAL_TURN_STATES, Workers
      <4> QED BY <3>1, <4>2, <4>3 DEF Closable
    <3> QED BY <3>1, <3>2 DEF ClosedInv
  <2>4. CASE QueueClaim
    BY <2>4 DEF QueueClaim, ClosedInv
  <2>5. CASE session'.status # "closed"
    BY <2>5 DEF ClosedInv
  <2> QED BY <2>1, <2>2, <2>3, <2>4, <2>5 DEF SessionStep
<1>4. CASE Restart
  <2>1. session' = session \/ session'.status = "ready"
    BY <1>4 DEF Restart
  <2> QED BY <1>2, <1>4, <2>1 DEF ClosedInv, Next
<1>5. CASE UNCHANGED vars
  BY <1>5 DEF ClosedInv, vars, disk
<1> QED BY <1>3, <1>4, <1>5

\* A worker comes to call the provider with the claim of its Turn, or was past its
\* check before.
LEMMA CallingBefore ==
  ASSUME Shape, ThreadInv, LedgerInv, FenceInv, Next, ~Restart, NEW w \in Workers,
         run'[w].pc \in Calling, turn'[run'[w].turn].status \in Open
  PROVE  \/ session'.active = run'[w].turn
         \/ /\ run[w].pc \in Calling /\ run'[w].turn = run[w].turn /\ run[w].turn \in Turns
            /\ turn[run[w].turn].status \in Open
<1>1. ASSUME run[w].pc \in Calling, run'[w].turn = run[w].turn
      PROVE  run[w].turn \in Turns /\ turn[run[w].turn].status \in Open
  <2>1. PICK t \in Turns : t = run[w].turn
    BY <1>1 DEF ThreadInv, Calling
  <2>2. turn[t].status # "queued"
    BY <1>1, <2>1 DEF FenceInv, ExecutesAlone, Executing, Calling
  <2>3. Moves(turn[t].status, turn'[t].status)
    BY StepMoves DEF AllMove
  <2> QED BY <1>1, <2>1, <2>2, <2>3 DEF Moves, Settles, Open
<1>2. CASE QueueStep \/ Preparer \/ OtherStep
  <2>1. run'[w].pc = run[w].pc /\ run'[w].turn = run[w].turn
    BY <1>2, OthersSpareWorkers DEF Calling, Executing
  <2> QED BY <1>1, <2>1
<1>3. ASSUME NEW v \in Workers, Worker(v), v # w
      PROVE  run[w].pc \in Calling /\ run'[w].turn = run[w].turn
  BY <1>3, WorkerMoves
<1>4. CASE Worker(w)
  <2>1. PICK t \in Turns : t = run[w].turn /\ WorkerEffect(w, t)
    BY <1>4, WorkerMoves, WorkerActs
  <2>2. CASE run[w].pc \in Calling /\ run'[w].turn = run[w].turn
    BY <1>1, <2>2
  <2>3. CASE run[w].pc \notin Calling \/ run'[w].turn # run[w].turn
    <3>1. run[w].pc = "check" /\ run'[w].turn = t /\ run'[w].pc = "call"
      BY <2>1, <2>3 DEF WorkerEffect, StepsTo, Ended, Executing, Calling
    <3>2. Check(w, "check", "call") \/ WorkerDies(w)
      BY <1>4, <3>1
         DEF Worker, StartTurn, CallProvider, ToolRuns, PlanRetry, Retry, Check, CommitAnswer,
             FinalizeTurn, ProviderFails, PublishFailure, MarkStale, At
    <3>3. ~EndRun(w)
      BY <2>1, <3>1, EndRunWrite
    <3>4. ~ExecutionEnded(t) /\ UNCHANGED session
      BY <2>1, <3>2, <3>3 DEF Check, WorkerDies, disk
    <3> QED BY <3>1, <3>4 DEF ExecutionEnded, ExecutionAllowed
  <2> QED BY <2>2, <2>3
<1> QED BY <1>1, <1>2, <1>3, <1>4, StepCases

\* The claim of a Turn that is executed is kept.
LEMMA NextKeepsClaims ==
  ASSUME Shape, ThreadInv, FenceInv, LedgerInv, LockInv, QueueInv, ClaimInv, [Next]_vars
  PROVE  ClaimInv'
<1>1. CASE Next /\ ~Restart
  <2>1. SUFFICES ASSUME NEW w \in Workers, run'[w].pc \in Calling, Usable(w)',
                        turn'[run'[w].turn].status \in Open
                 PROVE  session'.active = run'[w].turn
    BY DEF ClaimInv
  <2>2. CASE /\ run[w].pc \in Calling /\ run'[w].turn = run[w].turn /\ run[w].turn \in Turns
             /\ turn[run[w].turn].status \in Open
    <3>1. PICK t \in Turns : t = run[w].turn
      BY <2>2
    <3>2. Usable(w)
      BY <1>1, <2>1, UsableBefore
    <3>3. session.active = t /\ adapter = "up" /\ t # None
      BY <2>2, <3>1, <3>2, ConstantsDistinct DEF ClaimInv, Usable, Workers
    <3>4. SessionStep
      BY <1>1, SessionSteps
    <3>5. ~QueueClaim
      BY <3>3 DEF QueueClaim, At, QueueInv
    <3>6. ~Close
      <4>1. ~Terminal(t)
        BY <2>2, <3>1, StatusOf DEF Terminal, TERMINAL_TURN_STATES, Open
      <4> QED BY <3>3, <4>1 DEF Close, Closable
    <3>7. CASE session' = session
      BY <2>2, <3>1, <3>3, <3>7
    <3>8. CASE Spared
      BY <2>1, <2>2, <3>1, <3>3, <3>8 DEF Spared
    <3> QED BY <3>4, <3>5, <3>6, <3>7, <3>8 DEF SessionStep
  <2> QED BY <1>1, <2>1, <2>2, CallingBefore
<1>2. CASE Restart
  BY <1>2, RestartMoves DEF ClaimInv, Calling
<1>3. CASE UNCHANGED vars
  BY <1>3 DEF ClaimInv, Usable, vars, disk, threads, memory, link
<1> QED BY <1>1, <1>2, <1>3

\* The whole invariant.
SessionInv == BooksInv /\ LockInv /\ QueueInv /\ ClosedInv /\ ClaimInv

\* The Session's claim, its close and the adapter agree with the Turns and the threads
\* (chat_store.py, chat_runtime.py).
THEOREM SessionIsGuarded == Spec => []SessionInv
<1>1. Init => LockInv /\ QueueInv /\ ClosedInv /\ ClaimInv
  BY DEF Init, LockInv, QueueInv, ClosedInv, ClaimInv, Calling, Unlocked, Idle, Thread, Workers
<1>2. SessionInv /\ BooksInv' /\ [Next]_vars => SessionInv'
  BY NextKeepsLock, NextKeepsQueue, NextKeepsClosed, NextKeepsClaims DEF SessionInv, BooksInv
<1>3. Init /\ BooksInv => SessionInv
  BY <1>1 DEF SessionInv
<1> QED BY <1>2, <1>3, BooksAreKept, PTL DEF Spec

\* Nothing takes the claim of a Turn that a worker executes with the Session's working
\* adapter, before the Turn has an outcome.
THEOREM ClaimsAreKept == Spec => []RunsUnderItsClaim
<1>1. SessionInv => RunsUnderItsClaim
  <2> SUFFICES ASSUME SessionInv, NEW w \in Workers, run[w].pc \in {"provider", "backoff"}, Usable(w),
                      Status(run[w].turn) \in {"starting", "running"}
               PROVE  session.active = run[w].turn
    BY DEF RunsUnderItsClaim
  <2>1. run[w].turn \in Turns
    BY DEF SessionInv, BooksInv, ThreadInv
  <2>2. turn[run[w].turn].status \in Open
    BY <2>1, StatusOf DEF Open
  <2> QED BY <2>2 DEF SessionInv, ClaimInv, Calling
<1> QED BY <1>1, SessionIsGuarded, PTL

\* In a closed Session nothing waits and no open Turn is given to the provider.
THEOREM ClosedSessionsAreQuiet == Spec => ClosedIsQuiet
<1>1. SessionInv /\ [Next]_vars =>
        [session.status = "closed" =>
           \A t \in Turns : /\ turn'[t].status # "queued"
                            /\ runs'[t] # runs[t] => Status(t) \notin {"starting", "running"}]_vars
  <2> SUFFICES ASSUME SessionInv, Next, session.status = "closed", NEW t \in Turns
               PROVE  /\ turn'[t].status # "queued"
                      /\ runs'[t] # runs[t] => Status(t) \notin {"starting", "running"}
    OBVIOUS
  <2>1. BooksInv /\ ClosedInv /\ ClaimInv
    BY DEF SessionInv
  <2>2. Shape /\ ThreadInv /\ FenceInv /\ LedgerInv
    BY <2>1 DEF BooksInv
  <2>3. turn'[t].status # "queued"
    BY <2>1, <2>2, StepMoves DEF AllMove, Moves, Settles, ClosedInv
  <2>4. ASSUME runs'[t] # runs[t], Status(t) \in {"starting", "running"} PROVE FALSE
    <3>1. ~(QueueStep \/ Preparer \/ OtherStep) /\ ~Restart
      BY <2>2, <2>4, OthersSpareFence, RestartMoves
    <3>2. PICK v \in Workers : Worker(v)
      BY <3>1, StepCases
    <3>3. PICK u \in Turns : u = run[v].turn /\ WorkerOnly(u) /\ WorkerEffect(v, u)
      BY <2>2, <3>2, WorkerMoves, WorkerActs
    <3>4. u = t
      BY <2>4, <3>3 DEF WorkerOnly
    <3>5. runs' # runs
      BY <2>4
    <3>6. run[v].pc = "call" /\ run'[v].pc = "provider"
      BY <3>3, <3>5 DEF WorkerEffect, StepsTo
    <3>7. CallProvider(v)
      <4>1. UNCHANGED runs \/ CallProvider(v)
        BY <3>2 DEF Worker, StartTurn, Check, ToolRuns, PlanRetry, Retry, CommitAnswer, FinalizeTurn,
                    ProviderFails, PublishFailure, MarkStale, WorkerDies, disk
      <4> QED BY <3>5, <4>1
    <3>8. Usable(v) /\ turn[t].status \in Open
      BY <2>4, <3>7, StatusOf DEF CallProvider, Open
    <3>9. session.active = t
      BY <2>1, <3>3, <3>4, <3>6, <3>8 DEF ClaimInv, Calling
    <3> QED BY <2>1, <3>9, ConstantsDistinct DEF ClosedInv, Workers
  <2> QED BY <2>3, <2>4
<1> QED BY <1>1, SessionIsGuarded, PTL DEF Spec, ClosedIsQuiet
=============================================================================
