------------------------ MODULE TurnExecution_proofs ------------------------
(* What a Turn's journal, its process and the world know of each other, for  *)
(* every lane, every number of callers and every number of faults.           *)
EXTENDS TurnExecution, FiniteSetTheorems, TLAPS

(* A process that is not idle has the lane and a Turn.  Behind the journal's *)
(* lock its copy is the journal, up to the scheduler's answer in the tail.   *)
Holding(p) == ~At(p, "idle") => lane = p /\ proc[p].turn \in Turns

Copied(pr, j) ==
  /\ pr.pc \notin {"idle", "lock", "tail"} => pr.mem = j
  /\ pr.pc = "tail" =>
       j # None /\ pr.mem # None /\ pr.mem = [j EXCEPT !.scheduler = pr.mem.scheduler]
  /\ pr.pc \notin {"idle", "lock", "assess"} => pr.mem # None

ControlInv ==
  \A p \in Processes :
    /\ Holding(p)
    /\ ~At(p, "idle") => Copied(proc[p], journal[proc[p].turn])

(* What the journal says by itself. *)
JournalOK(j) ==
  /\ Consistent(j)
  /\ j.phases \in {0, 2, 3, 4, 5, 7}
  /\ j.kind = "stop" /\ j.status # "stopped" => j.phases <= 2
  /\ j.status = "stopped" => j.kind = "stop"
  /\ j.phases <= 3 => j.writeback = None
  /\ j.closeout => j.phases >= 5 /\ j.writeback = "no_followup"
  /\ j.status \in {"committed", "scheduler_action_required"} /\ j.kind = "completion" =>
       j.closeout \/ j.writeback = "successor"

(* The journal j of a Turn against its world w and its Todo d. *)
WorldOK(j, w, d) ==
  /\ w.launches = w.reported \/ (w.launches = w.reported + 1 /\ HostOutcomeUnknown(j))
  /\ w.wbRuns <= 1 /\ w.spRuns <= 1
  /\ w.wbRuns > 0 => j.phases >= 4 \/ (j.phases = 3 /\ j.prepared = "durable_writeback")
  /\ j.phases >= 4 => w.wbRuns > 0 /\ w.wbEvent
  /\ w.spRuns > 0 => j.phases >= 5 \/ (j.phases = 4 /\ j.prepared = "quota_spend")
  /\ j.phases >= 5 => w.spRuns > 0 /\ w.spEvent
  /\ j.phases >= 3 /\ j.kind # "stop" => w.passed
  /\ d.done # None => j.phases >= 3 /\ j.kind = "completion" /\ d.done = d.cont
  /\ j.writeback = "successor" => d.done = "successor" /\ d.event
  /\ j.closeout => d.done = "no_followup" /\ d.event
  /\ j.phases = 3 /\ w.wbRuns > 0 /\ d.done = "successor" => d.event

Untouched(w, d) ==
  w.launches = w.reported /\ w.wbRuns = 0 /\ w.spRuns = 0 /\ d.done = None

TurnOK(j, w, d) == IF j = None THEN Untouched(w, d) ELSE JournalOK(j) /\ WorldOK(j, w, d)

TurnsInv == \A t \in Turns : TurnOK(journal[t], world[t], todo[t])

(* What a process knows of its Turn, by its program counter. *)
Settling == {"reduce", "complete", "completeEvent", "refresh", "refreshEvent", "spend",
             "spendEvent"}

Progressing(pr) ==
  pr.mem.status \in {"in_progress", "scheduler_action_required"} /\ pr.mem.kind # "stop"

PreparedStep(pr) == NextStep(pr.mem, pr.terminal) = pr.mem.prepared
IsCompleting(pr) == pr.mem.kind = "completion" /\ ~pr.terminal

NotYet(pr, w) ==
  /\ pr.mem.prepared = "durable_writeback" => w.wbRuns = 0
  /\ pr.mem.prepared = "quota_spend" => w.spRuns = 0

Happened(pr, w, d) ==
  /\ pr.mem.prepared = "durable_writeback" =>
       /\ w.wbRuns > 0 /\ w.wbEvent
       /\ IsCompleting(pr) /\ pr.obs = "returned" => d.done # None /\ d.event
  /\ pr.mem.prepared = "quota_spend" => w.spRuns > 0 /\ w.spEvent
  /\ pr.mem.prepared = "terminal_closeout" => d.event

HostKnows(pr, w) ==
  /\ pr.pc \notin {"idle", "lock", "assess", "running"} => w.launches = w.reported
  /\ pr.pc = "running" => w.launches = w.reported + 1
  /\ pr.pc = "reset" => pr.mem.status = "failed"
  /\ pr.pc \in {"host", "launch", "running"} =>
       pr.mem.status = "in_progress" /\ pr.mem.phases = 0
  /\ pr.pc \in {"launch", "running"} => pr.mem.attempts # 0
  /\ pr.pc = "validate" =>
       /\ pr.mem.phases >= 2
       /\ pr.mem.status \in {"in_progress", "scheduler_action_required"}

SettlementKnows(pr, w, d) ==
  /\ pr.pc \in Settling \cup {"settle"} => pr.mem.phases \in {3, 4, 5} /\ Progressing(pr)
  /\ pr.pc = "settle" => pr.obs = None
  /\ pr.pc \in Settling =>
       /\ pr.terminal => pr.mem.kind = "completion" /\ pr.mem.writeback # "successor"
       /\ pr.terminal /\ pr.mem.phases = 3 /\ d.done # None => d.done = "no_followup"
  /\ pr.pc \in Settling \ {"reduce"} => pr.mem.prepared # None /\ PreparedStep(pr)
  /\ pr.pc \in {"complete", "completeEvent"} =>
       \/ pr.mem.prepared = "durable_writeback" /\ IsCompleting(pr)
       \/ pr.mem.prepared = "terminal_closeout"
  /\ pr.pc \in {"refresh", "refreshEvent"} =>
       /\ pr.mem.prepared = "durable_writeback"
       /\ IsCompleting(pr) => d.done # None /\ d.event
  /\ pr.pc \in {"spend", "spendEvent"} => pr.mem.prepared = "quota_spend"
  /\ pr.pc \in {"complete", "completeEvent", "refresh", "spend"} => NotYet(pr, w)
  /\ pr.pc = "refreshEvent" => w.wbRuns > 0
  /\ pr.pc = "spendEvent" => w.spRuns > 0
  /\ pr.pc = "completeEvent" => d.done # None

ReductionKnows(pr, w, d) ==
  pr.pc = "reduce" =>
    /\ pr.obs # None => NextStep(pr.mem, pr.terminal) \in Steps
    /\ pr.obs \in {"absent", "rejected", "returned", "found"} =>
         pr.mem.prepared # None /\ PreparedStep(pr)
    /\ pr.obs \in {"absent", "rejected"} => NotYet(pr, w)
    /\ pr.obs \in {"returned", "found"} => Happened(pr, w, d)
    /\ pr.obs = "aborted" => pr.mem.prepared = None

TailKnows(pr) ==
  pr.pc = "tail" =>
    /\ pr.mem.phases = 5 /\ pr.mem.prepared = None /\ Progressing(pr)
    /\ pr.mem.kind = "completion" => pr.mem.closeout \/ pr.mem.writeback = "successor"

Knows(pr, w, d) ==
  HostKnows(pr, w) /\ SettlementKnows(pr, w, d) /\ ReductionKnows(pr, w, d) /\ TailKnows(pr)

WorkInv ==
  \A p \in Processes :
    ~At(p, "idle") => Knows(proc[p], world[proc[p].turn], todo[proc[p].turn])

Inv == TypeOK /\ ControlInv /\ TurnsInv /\ WorkInv /\ ProgressAdmitted

-----------------------------------------------------------------------------
(* The records of the state, by name.                                        *)

Process ==
  [pc : Points, turn : Turns \cup {None}, retry : BOOLEAN, recovering : BOOLEAN,
   terminal : BOOLEAN, obs : Observations, mem : Journal \cup {None}]
World ==
  [launches : Nat, reported : Nat, passed : BOOLEAN, wbRuns : Nat, wbEvent : BOOLEAN,
   spRuns : Nat, spEvent : BOOLEAN]
TodoState ==
  [cont : Continuations, done : Continuations \cup {None}, event : BOOLEAN,
   edited : BOOLEAN]

(* A process that works on a Turn, and everything the invariant says of it. *)
Good(pr, j, w, d) == TurnOK(j, w, d) /\ Copied(pr, j) /\ Knows(pr, w, d)

(* A resting process is a process. *)
LEMMA RestType == Rest \in Process /\ Rest.pc = "idle"
BY DEF Rest, Process, Points, Observations

TurnOf(p) == proc[p].turn

(* The state of a working process and of its Turn, taken out of the whole. *)
LEMMA AtWork ==
  ASSUME Inv, NEW p \in Processes, ~At(p, "idle")
  PROVE  /\ proc[p] \in Process /\ TurnOf(p) \in Turns /\ lane = p
         /\ journal[TurnOf(p)] \in Journal \cup {None}
         /\ world[TurnOf(p)] \in World
         /\ todo[TurnOf(p)] \in TodoState
         /\ Good(proc[p], journal[TurnOf(p)], world[TurnOf(p)], todo[TurnOf(p)])
<1>1. proc[p].turn \in Turns /\ lane = p
  BY DEF Inv, ControlInv, Holding
<1>2. Good(proc[p], journal[proc[p].turn], world[proc[p].turn], todo[proc[p].turn])
  BY <1>1 DEF Inv, ControlInv, TurnsInv, WorkInv, Good
<1> QED BY <1>1, <1>2 DEF Inv, TypeOK, Process, World, TodoState, TurnOf

(* A step of the process that has the lane is about its own state and the    *)
(* records of its Turn: everybody else is idle, every other Turn untouched.  *)
LEMMA Moved ==
  ASSUME Inv, NEW p \in Processes, ~At(p, "idle"),
         NEW pr \in Process,
         NEW j \in Journal \cup {None}, NEW w \in World, NEW d \in TodoState,
         proc' = [proc EXCEPT ![p] = pr],
         journal' = [journal EXCEPT ![TurnOf(p)] = j],
         world' = [world EXCEPT ![TurnOf(p)] = w],
         todo' = [todo EXCEPT ![TurnOf(p)] = d],
         lane' \in Processes \cup {None}, jlock' \in [Turns -> Processes \cup {None}],
         faults' \in 0..MaxFaults, refused' \subseteq Writes, "progress" \notin refused',
         TurnOK(j, w, d),
         pr.pc # "idle" => lane' = p /\ pr.turn = TurnOf(p) /\ Good(pr, j, w, d)
  PROVE  Inv'
<1>1. TypeOK'
  BY DEF Inv, TypeOK, Process, World, TodoState
<1>2. /\ proc'[p] = pr /\ \A q \in Processes \ {p} : proc'[q] = proc[q]
      /\ journal'[TurnOf(p)] = j /\ world'[TurnOf(p)] = w /\ todo'[TurnOf(p)] = d
      /\ \A u \in Turns \ {TurnOf(p)} :
           journal'[u] = journal[u] /\ world'[u] = world[u] /\ todo'[u] = todo[u]
  BY AtWork DEF Inv, TypeOK
<1>3. lane = p
  BY AtWork
<1>4. \A q \in Processes \ {p} : At(q, "idle")'
  BY <1>2, <1>3 DEF Inv, ControlInv, Holding, At
<1>5. ControlInv'
  <2> SUFFICES ASSUME NEW q \in Processes, ~At(q, "idle")'
               PROVE  /\ Holding(q)'
                      /\ Copied(proc'[q], journal'[proc'[q].turn])
    BY DEF ControlInv, Holding
  <2>1. q = p
    BY <1>4
  <2>2. lane' = p /\ pr.turn = TurnOf(p) /\ Copied(pr, j)
    BY <2>1, <1>2 DEF At, Good
  <2> QED BY <2>1, <2>2, <1>2, AtWork DEF Holding
<1>6. TurnsInv'
  BY <1>2 DEF Inv, TurnsInv
<1>7. WorkInv'
  <2> SUFFICES ASSUME NEW q \in Processes, ~At(q, "idle")'
               PROVE  Knows(proc'[q], world'[proc'[q].turn], todo'[proc'[q].turn])
    BY DEF WorkInv
  <2>1. q = p
    BY <1>4
  <2>2. pr.turn = TurnOf(p) /\ Knows(pr, w, d)
    BY <2>1, <1>2 DEF At, Good
  <2> QED BY <2>1, <2>2, <1>2
<1>8. ProgressAdmitted'
  BY DEF ProgressAdmitted
<1> QED BY <1>1, <1>5, <1>6, <1>7, <1>8 DEF Inv

(* A call that returns or raises drops its locks; the Turn stays as it is. *)
LEMMA Left ==
  ASSUME Inv, NEW p \in Processes, ~At(p, "idle"),
         NEW w \in World, NEW d \in TodoState,
         Leave(p), UNCHANGED journal,
         world' = [world EXCEPT ![TurnOf(p)] = w], todo' = [todo EXCEPT ![TurnOf(p)] = d],
         faults' \in 0..MaxFaults, refused' \subseteq Writes, "progress" \notin refused',
         TurnOK(journal[TurnOf(p)], w, d)
  PROVE  Inv'
<1>1. /\ lane' \in Processes \cup {None}
      /\ jlock' \in [Turns -> Processes \cup {None}]
  BY DEF Leave, Unlock, Inv, TypeOK
<1>2. /\ proc' = [proc EXCEPT ![p] = Rest]
      /\ journal' = [journal EXCEPT ![TurnOf(p)] = journal[TurnOf(p)]]
      /\ journal[TurnOf(p)] \in Journal \cup {None}
  BY AtWork DEF Leave, Inv, TypeOK
<1> QED BY <1>1, <1>2, RestType, Moved

(* The kinds of refused writes. *)
LEMMA KindOfWriteType ==
  ASSUME NEW old, NEW new PROVE KindOfWrite(old, new) \in Writes
BY DEF KindOfWrite, Writes

(* A journal is its own copy. *)
LEMMA SelfCopy ==
  ASSUME NEW j \in Journal
  PROVE  j # None /\ j = [j EXCEPT !.scheduler = j.scheduler]
<1>1. j # None
  BY NoneAssumption
<1>2. j = [j EXCEPT !.scheduler = j.scheduler]
  BY DEF Journal
<1> QED BY <1>1, <1>2

(* persist_journal, admitted or refused. *)
LEMMA Persisted ==
  ASSUME Inv, NEW p \in Processes, ~At(p, "idle"),
         NEW m \in Journal, NEW n \in Points \ {"idle", "lock"}, NEW o \in Observations,
         NEW w \in World, NEW d \in TodoState,
         PersistAnd(p, m, n, o),
         world' = [world EXCEPT ![TurnOf(p)] = w], todo' = [todo EXCEPT ![TurnOf(p)] = d],
         faults' \in 0..MaxFaults,
         \/ WriteAdmitted(journal[TurnOf(p)], m)
         \/ KindOfWrite(journal[TurnOf(p)], m) # "progress",
         TurnOK(journal[TurnOf(p)], w, d),
         WriteAdmitted(journal[TurnOf(p)], m) =>
           /\ JournalOK(m) /\ WorldOK(m, w, d)
           /\ \A pr \in Process :
                pr.pc = n /\ pr.mem = m /\ pr.obs = o /\ pr.terminal = proc[p].terminal =>
                  Knows(pr, w, d)
  PROVE  Inv'
<1>1. CASE ~WriteAdmitted(journal[TurnOf(p)], m)
  <2>1. /\ refused' = refused \cup {KindOfWrite(journal[TurnOf(p)], m)}
        /\ Leave(p) /\ UNCHANGED journal
    BY <1>1 DEF PersistAnd, TurnOf
  <2>2. refused' \subseteq Writes /\ "progress" \notin refused'
    BY <1>1, <2>1, KindOfWriteType DEF Inv, TypeOK, ProgressAdmitted
  <2> QED BY <2>1, <2>2, Left
<1>2. CASE WriteAdmitted(journal[TurnOf(p)], m)
  <2> DEFINE pr == [proc[p] EXCEPT !.mem = m, !.pc = n, !.obs = o]
  <2>1. /\ journal' = [journal EXCEPT ![TurnOf(p)] = m]
        /\ proc' = [proc EXCEPT ![p] = pr]
        /\ UNCHANGED <<lane, jlock, refused>>
    BY <1>2 DEF PersistAnd, TurnOf, Inv, TypeOK
  <2>2. /\ pr \in Process /\ pr.pc = n /\ pr.mem = m /\ pr.obs = o
        /\ pr.terminal = proc[p].terminal /\ pr.turn = TurnOf(p)
    BY AtWork DEF Process, TurnOf
  <2> HIDE DEF pr
  <2>3. Knows(pr, w, d)
    BY <1>2, <2>2
  <2>4. TurnOK(m, w, d)
    BY <1>2, SelfCopy DEF TurnOK
  <2>5. Copied(pr, m)
    BY <2>2, SelfCopy DEF Copied
  <2>6. lane' = p
    BY <2>1, AtWork
  <2>7. /\ lane' \in Processes \cup {None} /\ jlock' \in [Turns -> Processes \cup {None}]
        /\ refused' \subseteq Writes /\ "progress" \notin refused'
    BY <2>1 DEF Inv, TypeOK, ProgressAdmitted
  <2> QED BY <2>1, <2>2, <2>3, <2>4, <2>5, <2>6, <2>7, Moved DEF Good
<1> QED BY <1>1, <1>2

(* A step that leaves the journal alone. *)
LEMMA Went ==
  ASSUME Inv, NEW p \in Processes, ~At(p, "idle"),
         NEW pr \in Process, NEW w \in World, NEW d \in TodoState,
         proc' = [proc EXCEPT ![p] = pr], pr.turn = TurnOf(p),
         world' = [world EXCEPT ![TurnOf(p)] = w], todo' = [todo EXCEPT ![TurnOf(p)] = d],
         UNCHANGED journal, UNCHANGED refused, UNCHANGED lane, jlock' \in [Turns -> Processes \cup {None}],
         faults' \in 0..MaxFaults,
         Good(pr, journal[TurnOf(p)], w, d)
  PROVE  Inv'
<1>1. /\ journal' = [journal EXCEPT ![TurnOf(p)] = journal[TurnOf(p)]]
      /\ journal[TurnOf(p)] \in Journal \cup {None}
      /\ lane' \in Processes \cup {None}
      /\ refused' \subseteq Writes /\ "progress" \notin refused'
  BY AtWork DEF Inv, TypeOK, ProgressAdmitted
<1>2. lane' = p
  BY AtWork
<1> QED BY <1>1, <1>2, Moved DEF Good

-----------------------------------------------------------------------------
(* The writes of the journal, one by one: the fields of the new journal, and *)
(* whether the owner of the journal admits it.                               *)

SameWork(m, j) == m.kind = j.kind /\ m.writeback = j.writeback /\ m.closeout = j.closeout
SamePlace(m, j) ==
  /\ m.status = j.status /\ m.phases = j.phases
  /\ m.prepared = j.prepared /\ m.failedAt = j.failedAt

LEMMA JournalFields ==
  ASSUME NEW j \in Journal
  PROVE  /\ j # None /\ j.status \in Statuses /\ j.phases \in 0..7 /\ j.attempts \in Nat
         /\ j.prepared \in Steps \cup {None} /\ j.closeout \in BOOLEAN
         /\ j.failedAt \in Steps \cup {"host_execute", "validation", None}
         /\ j.kind \in ResultKinds \cup {None}
         /\ j.writeback \in Continuations \cup {"plain", None}
BY NoneAssumption DEF Journal

LEMMA SameJournalOK ==
  ASSUME NEW j, NEW m, SamePlace(m, j), SameWork(m, j), JournalOK(j)
  PROVE  JournalOK(m)
BY DEF SamePlace, SameWork, JournalOK, Consistent, NextPhase

(* A running transaction may write what stays in its phase or advances it. *)
LEMMA AdmittedInProgress ==
  ASSUME NEW j \in Journal, NEW m \in Journal, j.status = "in_progress", Consistent(m),
         \/ j.phases = m.phases
         \/ j.phases = 0 /\ m.phases = 2
         \/ j.phases = 2 /\ m.phases = 3
         \/ j.phases = 3 /\ m.phases = 4
         \/ j.phases = 4 /\ m.phases = 5
         \/ j.phases = 5 /\ m.phases = 7
  PROVE  WriteAdmitted(j, m)
<1>1. j # None /\ m.status \in StatusTransitions[j.status] /\ ~Terminal(j)
  BY JournalFields DEF StatusTransitions, Terminal
<1>2. j.phases = m.phases \/ <<j.phases, m.phases>> \in LegalPhaseAdvances
  BY DEF LegalPhaseAdvances
<1> QED BY <1>1, <1>2 DEF WriteAdmitted, LegalTransition

(* The recovery audit changes nothing else, and is admitted at any time. *)
LEMMA AuditWrite ==
  ASSUME NEW j \in Journal, NEW a \in {"started", "finished"}, JournalOK(j)
  PROVE  /\ [j EXCEPT !.audit = a] \in Journal
         /\ SamePlace([j EXCEPT !.audit = a], j) /\ SameWork([j EXCEPT !.audit = a], j)
         /\ [j EXCEPT !.audit = a].attempts = j.attempts
         /\ WriteAdmitted(j, [j EXCEPT !.audit = a])
<1> DEFINE m == [j EXCEPT !.audit = a]
<1>1. m \in Journal /\ SamePlace(m, j) /\ SameWork(m, j) /\ m.attempts = j.attempts
  BY DEF Journal, SamePlace, SameWork
<1>2. AuditOnly(j, m)
  BY DEF AuditOnly, Journal
<1> HIDE DEF m
<1>3. Consistent(m)
  BY <1>1, SameJournalOK DEF JournalOK
<1>4. j # None /\ j.status \in Statuses
  BY JournalFields
<1>5. ~Terminal(j) => m.status \in StatusTransitions[j.status]
  BY <1>1, <1>4 DEF SamePlace, StatusTransitions, Statuses, Terminal
<1>6. WriteAdmitted(j, m)
  BY <1>1, <1>2, <1>3, <1>4, <1>5 DEF WriteAdmitted, LegalTransition, SamePlace
<1> QED BY <1>1, <1>6 DEF m

LEMMA FreshWrite ==
  /\ FreshJournal \in Journal /\ JournalOK(FreshJournal)
  /\ FreshJournal.status = "in_progress" /\ FreshJournal.phases = 0
  /\ FreshJournal.writeback = None /\ FreshJournal.closeout = FALSE
  /\ WriteAdmitted(None, FreshJournal)
<1>1. /\ FreshJournal \in Journal
      /\ FreshJournal.status = "in_progress" /\ FreshJournal.phases = 0
      /\ FreshJournal.prepared = None /\ FreshJournal.kind = None
      /\ FreshJournal.writeback = None /\ FreshJournal.closeout = FALSE
  BY DEF FreshJournal, Journal, Statuses
<1>2. JournalOK(FreshJournal)
  BY <1>1, NoneAssumption DEF JournalOK, Consistent, ResultKinds
<1> QED BY <1>1, <1>2 DEF WriteAdmitted, JournalOK

(* A failed step is the next step: a failed validation has two phases, and   *)
(* nothing that failed has settled.                                          *)
LEMMA FailedPlace ==
  ASSUME NEW j \in Journal, j.status = "failed", JournalOK(j)
  PROVE  /\ j.phases \in {0, 2, 3, 4, 5}
         /\ j.failedAt = "validation" => j.phases = 2 /\ j.prepared = None
<1>1. j.phases \in 0..7 /\ j.prepared \in Steps \cup {None}
  BY JournalFields
<1>2. j.phases \in {0, 2, 3, 4, 5, 7}
  BY DEF JournalOK
<1>3. \/ j.failedAt # None /\ j.failedAt = NextPhase(j)
      \/ j.failedAt = "terminal_closeout" /\ j.phases = 5
  BY DEF JournalOK, Consistent
<1>4. j.phases # 7
  BY <1>3 DEF NextPhase
<1>5. j.failedAt = "validation" => j.phases = 2
  <2> SUFFICES ASSUME j.failedAt = "validation", j.phases # 2 PROVE FALSE
    OBVIOUS
  <2>1. NextPhase(j) = "validation"
    BY <1>3
  <2> QED BY <2>1, <1>2, <1>4 DEF NextPhase, TRANSACTION_PHASES
<1>6. j.phases = 2 => j.prepared = None
  <2> SUFFICES ASSUME j.prepared # None PROVE j.phases # 2
    OBVIOUS
  <2>1. j.phases = PhasesBefore[j.prepared] /\ j.prepared \in Steps
    BY <1>1 DEF JournalOK, Consistent
  <2> QED BY <2>1 DEF PhasesBefore, Steps
<1> QED BY <1>2, <1>4, <1>5, <1>6

LEMMA PreparedPlace ==
  ASSUME NEW j \in Journal, JournalOK(j), j.prepared # None
  PROVE  /\ j.prepared = "durable_writeback" => j.phases = 3
         /\ j.prepared = "quota_spend" => j.phases = 4
         /\ j.prepared = "terminal_closeout" => j.phases = 5
         /\ j.prepared \in Steps /\ j.phases \in {3, 4, 5}
         /\ j.status \in {"in_progress", "failed"}
<1>1. j.phases = PhasesBefore[j.prepared] /\ j.prepared \in Steps
  BY JournalFields DEF JournalOK, Consistent
<1>2. j.status \in {"in_progress", "failed"}
  BY DEF JournalOK, Consistent
<1> QED BY <1>1, <1>2 DEF PhasesBefore, Steps

-----------------------------------------------------------------------------
(* The steps, one lemma each.                                                *)

LEMMA SameEffects ==
  ASSUME Inv, NEW t \in Turns
  PROVE  /\ UNCHANGED world => world' = [world EXCEPT ![t] = world[t]]
         /\ UNCHANGED todo => todo' = [todo EXCEPT ![t] = todo[t]]
         /\ UNCHANGED journal => journal' = [journal EXCEPT ![t] = journal[t]]
BY DEF Inv, TypeOK

LEMMA FaultsBounded ==
  ASSUME Inv, UNCHANGED faults \/ Fault
  PROVE  faults' \in 0..MaxFaults
BY BoundsAssumption DEF Inv, TypeOK, Fault

(* Nobody works while the lane is free; the call that takes it knows nothing. *)
LEMMA TakeLaneOK ==
  ASSUME Inv, NEW p \in Processes, NEW t \in Turns, NEW retry \in BOOLEAN,
         TakeLane(p, t, retry)
  PROVE  Inv'
<1> DEFINE pr == [Rest EXCEPT !.pc = "lock", !.turn = t, !.retry = retry]
<1>1. /\ lane = None /\ lane' = p /\ proc' = [proc EXCEPT ![p] = pr]
      /\ UNCHANGED <<journal, refused, jlock, todo, world, faults>>
  BY DEF TakeLane, store, effects
<1>2. pr \in Process /\ pr.pc = "lock" /\ pr.turn = t
  BY DEF Rest, Process, Points, Observations
<1> HIDE DEF pr
<1>3. TypeOK'
  BY <1>1, <1>2 DEF Inv, TypeOK, Process
<1>4. \A q \in Processes : At(q, "idle")
  BY <1>1, NoneAssumption DEF Inv, ControlInv, Holding
<1>5. proc'[p] = pr /\ \A q \in Processes \ {p} : At(q, "idle")'
  BY <1>1, <1>4 DEF Inv, TypeOK, At
<1>6. ControlInv'
  BY <1>1, <1>2, <1>5 DEF ControlInv, Holding, Copied, At
<1>7. WorkInv'
  <2>1. \A w, d : Knows(pr, w, d)
    BY <1>2 DEF Knows, HostKnows, SettlementKnows, ReductionKnows, TailKnows, Settling
  <2> QED BY <2>1, <1>5 DEF WorkInv
<1>8. TurnsInv' /\ ProgressAdmitted'
  BY <1>1 DEF Inv, TurnsInv, ProgressAdmitted
<1> QED BY <1>3, <1>6, <1>7, <1>8 DEF Inv

LEMMA LoadJournalOK ==
  ASSUME Inv, NEW p \in Processes, LoadJournal(p)
  PROVE  Inv'
<1> DEFINE t == TurnOf(p)
           pr == [proc[p] EXCEPT !.pc = "assess", !.mem = journal[t]]
<1>1. /\ ~At(p, "idle") /\ proc' = [proc EXCEPT ![p] = pr]
      /\ jlock' = [jlock EXCEPT ![t] = p]
      /\ UNCHANGED journal /\ UNCHANGED refused /\ UNCHANGED lane
      /\ UNCHANGED world /\ UNCHANGED todo /\ UNCHANGED faults
  BY DEF LoadJournal, At, store, effects, TurnOf
<1>2. /\ proc[p] \in Process /\ t \in Turns /\ journal[t] \in Journal \cup {None}
      /\ world[t] \in World /\ todo[t] \in TodoState
      /\ TurnOK(journal[t], world[t], todo[t])
  BY <1>1, AtWork DEF Good
<1>3. pr \in Process /\ pr.pc = "assess" /\ pr.turn = t /\ pr.mem = journal[t]
  BY <1>2 DEF Process, Points, TurnOf
<1> HIDE DEF pr
<1>4. Good(pr, journal[t], world[t], todo[t])
  BY <1>2, <1>3 DEF Good, Copied, Knows, HostKnows, SettlementKnows, ReductionKnows,
                    TailKnows, Settling
<1>5. jlock' \in [Turns -> Processes \cup {None}] /\ faults' \in 0..MaxFaults
  BY <1>1, FaultsBounded DEF Inv, TypeOK
<1>6. world' = [world EXCEPT ![t] = world[t]] /\ todo' = [todo EXCEPT ![t] = todo[t]]
  BY <1>1, <1>2, SameEffects
<1> QED BY <1>1, <1>2, <1>3, <1>4, <1>5, <1>6, Went, Zenon

(* The calls that end without touching the Turn. *)
LEMMA LeaveOK ==
  ASSUME Inv, NEW p \in Processes, ~At(p, "idle"), Leave(p), UNCHANGED <<store, effects>>,
         UNCHANGED faults \/ Fault
  PROVE  Inv'
<1> DEFINE t == TurnOf(p)
<1>1. /\ t \in Turns /\ world[t] \in World /\ todo[t] \in TodoState
      /\ TurnOK(journal[t], world[t], todo[t])
  BY AtWork DEF Good
<1>2. /\ world' = [world EXCEPT ![t] = world[t]] /\ todo' = [todo EXCEPT ![t] = todo[t]]
      /\ UNCHANGED journal /\ refused' \subseteq Writes /\ "progress" \notin refused'
      /\ faults' \in 0..MaxFaults
  BY <1>1, SameEffects, FaultsBounded DEF store, effects, Inv, TypeOK, ProgressAdmitted
<1> QED BY <1>1, <1>2, Left, Zenon

LEMMA BeginJournalOK ==
  ASSUME Inv, NEW p \in Processes, BeginJournal(p)
  PROVE  Inv'
<1> DEFINE t == TurnOf(p)
<1>1. /\ ~At(p, "idle") /\ proc[p].pc = "assess" /\ proc[p].mem = None
      /\ PersistAnd(p, FreshJournal, "host", None)
      /\ UNCHANGED world /\ UNCHANGED todo /\ UNCHANGED faults
  BY DEF BeginJournal, Continues, At, Mem, Persist, effects
<1>2. /\ t \in Turns /\ world[t] \in World /\ todo[t] \in TodoState
      /\ TurnOK(journal[t], world[t], todo[t]) /\ Copied(proc[p], journal[t])
  BY <1>1, AtWork DEF Good
<1>3. journal[t] = None /\ Untouched(world[t], todo[t])
  BY <1>1, <1>2 DEF Copied, TurnOK
<1>4. WorldOK(FreshJournal, world[t], todo[t])
  BY <1>2, <1>3, FreshWrite, NoneAssumption
  DEF WorldOK, Untouched, World, Continuations
<1>5. \A pr \in Process :
        pr.pc = "host" /\ pr.mem = FreshJournal => Knows(pr, world[t], todo[t])
  BY <1>3, FreshWrite
  DEF Knows, HostKnows, SettlementKnows, ReductionKnows, TailKnows, Settling, Untouched
<1>6. faults' \in 0..MaxFaults /\ WriteAdmitted(journal[t], FreshJournal)
  BY <1>1, <1>3, FaultsBounded, FreshWrite
<1>7. None \in Observations /\ "host" \in Points \ {"idle", "lock"}
  BY DEF Observations, Points
<1>8. world' = [world EXCEPT ![t] = world[t]] /\ todo' = [todo EXCEPT ![t] = todo[t]]
  BY <1>1, <1>2, SameEffects
<1> QED BY <1>1, <1>2, <1>4, <1>5, <1>6, <1>7, <1>8, FreshWrite, Persisted

(* persist_journal in a step that has no other effect. *)
LEMMA Wrote ==
  ASSUME Inv, NEW p \in Processes, ~At(p, "idle"),
         NEW m \in Journal, NEW n \in Points \ {"idle", "lock"}, NEW o \in Observations,
         PersistAnd(p, m, n, o), UNCHANGED effects, UNCHANGED faults \/ Fault,
         \/ WriteAdmitted(journal[TurnOf(p)], m)
         \/ KindOfWrite(journal[TurnOf(p)], m) # "progress",
         WriteAdmitted(journal[TurnOf(p)], m) =>
           /\ JournalOK(m) /\ WorldOK(m, world[TurnOf(p)], todo[TurnOf(p)])
           /\ \A pr \in Process :
                pr.pc = n /\ pr.mem = m /\ pr.obs = o /\ pr.terminal = proc[p].terminal =>
                  Knows(pr, world[TurnOf(p)], todo[TurnOf(p)])
  PROVE  Inv'
<1> DEFINE t == TurnOf(p)
<1>1. /\ t \in Turns /\ world[t] \in World /\ todo[t] \in TodoState
      /\ TurnOK(journal[t], world[t], todo[t])
  BY AtWork DEF Good
<1>2. world' = [world EXCEPT ![t] = world[t]] /\ todo' = [todo EXCEPT ![t] = todo[t]]
  BY <1>1, SameEffects DEF effects
<1>3. faults' \in 0..MaxFaults
  BY FaultsBounded
<1> QED BY <1>1, <1>2, <1>3, Persisted, Zenon

(* Nothing is continued while the outcome of a host is unknown. *)
LEMMA ContinuedJournal ==
  ASSUME NEW j \in Journal, NEW w \in World, NEW d, NEW retry \in BOOLEAN, JournalOK(j),
         WorldOK(j, w, d), RecoveryDecision(j, retry) = "continue"
  PROVE  /\ w.launches = w.reported
         /\ j.status \in {"in_progress", "scheduler_action_required", "failed"}
         /\ j.status # "failed" /\ j.phases < 2 => j.status = "in_progress" /\ j.phases = 0
<1>1. j.status \in Statuses /\ j.phases \in 0..7
  BY JournalFields
<1>2. ~Terminal(j) /\ ~HostOutcomeUnknown(j)
  BY DEF RecoveryDecision
<1>3. w.launches = w.reported
  BY <1>2 DEF WorldOK
<1>4. /\ j.phases \in {0, 2, 3, 4, 5, 7}
      /\ j.status = "scheduler_action_required" => j.phases = 5
  BY DEF JournalOK, Consistent
<1> QED BY <1>1, <1>2, <1>3, <1>4 DEF Terminal, Statuses

LEMMA AuditRecoveryOK ==
  ASSUME Inv, NEW p \in Processes, AuditRecovery(p)
  PROVE  Inv'
<1> DEFINE t == TurnOf(p)
           m == [Mem(p) EXCEPT !.audit = "started"]
           n == IF m.status = "failed" THEN "reset" ELSE AfterRecovery(m)
           pr == [proc[p] EXCEPT !.mem = m, !.recovering = TRUE, !.pc = n]
<1>1. /\ ~At(p, "idle") /\ proc[p].pc = "assess" /\ Mem(p) # None
      /\ RecoveryDecision(Mem(p), proc[p].retry) = "continue"
      /\ UNCHANGED effects /\ UNCHANGED faults
  BY DEF AuditRecovery, Continues, At
<1>2. /\ t \in Turns /\ proc[p] \in Process /\ lane = p
      /\ world[t] \in World /\ todo[t] \in TodoState /\ journal[t] \in Journal \cup {None}
      /\ TurnOK(journal[t], world[t], todo[t]) /\ Copied(proc[p], journal[t])
  BY <1>1, AtWork DEF Good
<1>3. /\ Mem(p) = journal[t] /\ journal[t] \in Journal /\ JournalOK(journal[t])
      /\ WorldOK(journal[t], world[t], todo[t])
  BY <1>1, <1>2 DEF Copied, TurnOK, Mem
<1>4. /\ m \in Journal /\ SamePlace(m, journal[t]) /\ SameWork(m, journal[t])
      /\ m.attempts = journal[t].attempts /\ WriteAdmitted(journal[t], m)
  BY <1>3, AuditWrite
<1>5. /\ world[t].launches = world[t].reported
      /\ m.status \in {"in_progress", "scheduler_action_required", "failed"}
      /\ m.status # "failed" /\ m.phases < 2 => m.status = "in_progress" /\ m.phases = 0
  <2>1. proc[p].retry \in BOOLEAN
    BY <1>2 DEF Process
  <2> QED BY <2>1, <1>1, <1>2, <1>3, <1>4, ContinuedJournal DEF SamePlace
<1> HIDE DEF m
<1>6. JournalOK(m) /\ WorldOK(m, world[t], todo[t])
  BY <1>3, <1>4, SameJournalOK
  DEF SamePlace, SameWork, WorldOK, HostOutcomeUnknown
<1>7. /\ n \in Points /\ n \in {"reset", "host", "validate"}
      /\ n = "reset" => m.status = "failed"
      /\ n = "host" => m.status # "failed" /\ m.phases < 2
      /\ n = "validate" => m.status # "failed" /\ m.phases >= 2
  BY <1>4, JournalFields DEF AfterRecovery, Points
<1>8. /\ proc' = [proc EXCEPT ![p] = pr] /\ journal' = [journal EXCEPT ![t] = m]
      /\ UNCHANGED lane /\ UNCHANGED jlock /\ UNCHANGED refused
  BY <1>2, <1>4 DEF AuditRecovery, TurnOf, m, Inv, TypeOK
<1> HIDE DEF n
<1>9. pr \in Process /\ pr.pc = n /\ pr.mem = m /\ pr.turn = t
  BY <1>2, <1>4, <1>7 DEF Process, TurnOf
<1> HIDE DEF pr
<1>10. Knows(pr, world[t], todo[t])
  BY <1>5, <1>7, <1>9
  DEF Knows, HostKnows, SettlementKnows, ReductionKnows, TailKnows, Settling
<1>11. Good(pr, m, world[t], todo[t]) /\ TurnOK(m, world[t], todo[t])
  BY <1>4, <1>6, <1>7, <1>9, <1>10, SelfCopy DEF Good, TurnOK, Copied
<1>12. world' = [world EXCEPT ![t] = world[t]] /\ todo' = [todo EXCEPT ![t] = todo[t]]
  BY <1>1, <1>2, SameEffects DEF effects
<1>13. /\ lane' \in Processes \cup {None} /\ jlock' \in [Turns -> Processes \cup {None}]
       /\ faults' \in 0..MaxFaults /\ refused' \subseteq Writes
       /\ "progress" \notin refused' /\ lane' = p /\ m \in Journal \cup {None}
  BY <1>1, <1>2, <1>4, <1>8, FaultsBounded DEF Inv, TypeOK, ProgressAdmitted
<1> QED BY <1>1, <1>2, <1>8, <1>9, <1>11, <1>12, <1>13, Moved, Zenon

(* Behind the journal's lock the process has the journal in memory. *)
LEMMA InMemory ==
  ASSUME Inv, NEW p \in Processes, proc[p].pc \notin {"idle", "lock", "assess", "tail"}
  PROVE  /\ ~At(p, "idle") /\ proc[p] \in Process /\ TurnOf(p) \in Turns
         /\ Mem(p) = journal[TurnOf(p)] /\ Mem(p) \in Journal /\ proc[p].mem = Mem(p)
         /\ world[TurnOf(p)] \in World /\ todo[TurnOf(p)] \in TodoState
         /\ JournalOK(Mem(p)) /\ WorldOK(Mem(p), world[TurnOf(p)], todo[TurnOf(p)])
         /\ Knows(proc[p], world[TurnOf(p)], todo[TurnOf(p)])
<1>1. ~At(p, "idle")
  BY DEF At
<1>2. /\ proc[p] \in Process /\ TurnOf(p) \in Turns
      /\ journal[TurnOf(p)] \in Journal \cup {None}
      /\ world[TurnOf(p)] \in World /\ todo[TurnOf(p)] \in TodoState
      /\ TurnOK(journal[TurnOf(p)], world[TurnOf(p)], todo[TurnOf(p)])
      /\ Copied(proc[p], journal[TurnOf(p)])
      /\ Knows(proc[p], world[TurnOf(p)], todo[TurnOf(p)])
  BY <1>1, AtWork DEF Good
<1>3. Mem(p) = journal[TurnOf(p)] /\ Mem(p) # None
  BY <1>2 DEF Copied, Mem
<1> QED BY <1>1, <1>2, <1>3 DEF TurnOK, Mem

LEMMA RetryWrite ==
  ASSUME NEW j \in Journal, NEW w, NEW d, j.status = "failed", JournalOK(j),
         WorldOK(j, w, d), w.launches = w.reported, w \in World
  PROVE  /\ RetryJournal(j) \in Journal /\ RetryJournal(j).status = "in_progress"
         /\ JournalOK(RetryJournal(j)) /\ WorldOK(RetryJournal(j), w, d)
         /\ WriteAdmitted(j, RetryJournal(j))
<1> DEFINE m == RetryJournal(j)
<1>1. /\ m \in Journal /\ m.status = "in_progress" /\ m.failedAt = None
      /\ m.prepared = j.prepared /\ m.writeback = j.writeback /\ m.closeout = j.closeout
      /\ j.failedAt # "validation" => m.phases = j.phases /\ m.kind = j.kind
      /\ j.failedAt = "validation" =>
           m.phases \in {0, 2} /\ m.kind \in {j.kind, None}
  <2>1. CASE j.failedAt # "validation"
    <3>1. m = [j EXCEPT !.status = "in_progress", !.failedAt = None, !.failure = None]
      BY <2>1 DEF RetryJournal
    <3> HIDE DEF m
    <3> QED BY <2>1, <3>1 DEF Journal, Statuses
  <2>2. CASE j.failedAt = "validation"
    <3>1. PICK ph \in {0, 2}, k \in {j.kind, None} :
            m = [j EXCEPT !.status = "in_progress", !.failedAt = None, !.failure = None,
                          !.stage = None, !.kind = k, !.phases = ph]
      BY <2>2 DEF RetryJournal
    <3>2. k \in ResultKinds \cup {None} /\ ph \in 0..7
      BY <3>1, JournalFields
    <3> HIDE DEF m
    <3>3. m \in Journal
      BY <3>1, <3>2 DEF Journal, Statuses
    <3>4. /\ m.status = "in_progress" /\ m.failedAt = None
          /\ m.prepared = j.prepared /\ m.writeback = j.writeback /\ m.closeout = j.closeout
          /\ m.phases = ph /\ m.kind = k
      BY <3>1 DEF Journal
    <3> QED BY <2>2, <3>1, <3>3, <3>4
  <2> QED BY <2>1, <2>2
<1> HIDE DEF m
<1>2. /\ j.phases \in {0, 2, 3, 4, 5}
      /\ j.failedAt = "validation" => j.phases = 2 /\ j.prepared = None
  BY FailedPlace
<1>3. Consistent(m)
  BY <1>1, <1>2 DEF Consistent, JournalOK
<1>4. JournalOK(m)
  <2>1. j.kind = "stop" => j.phases <= 2
    BY DEF JournalOK
  <2> QED BY <2>1, <1>1, <1>2, <1>3, NoneAssumption DEF JournalOK, ResultKinds
<1>5. WorldOK(m, w, d)
  BY <1>1, <1>2, NoneAssumption DEF WorldOK, World, Steps
<1>6. WriteAdmitted(j, m)
  <2>1. j # None /\ m # j /\ ~Terminal(j) /\ m.status \in StatusTransitions[j.status]
    BY <1>1, JournalFields DEF Terminal, StatusTransitions
  <2>2. j.phases = m.phases \/ (m.phases < j.phases /\ j.failedAt = "validation")
    BY <1>1, <1>2
  <2> QED BY <1>1, <1>3, <2>1, <2>2 DEF WriteAdmitted, LegalTransition
<1> QED BY <1>1, <1>4, <1>5, <1>6 DEF m

LEMMA ResetFailedOK ==
  ASSUME Inv, NEW p \in Processes, ResetFailed(p)
  PROVE  Inv'
<1> DEFINE t == TurnOf(p)
           m == RetryJournal(Mem(p))
           n == AfterRecovery(m)
<1>1. /\ proc[p].pc = "reset" /\ PersistAnd(p, m, n, None)
      /\ UNCHANGED effects /\ UNCHANGED faults
  BY DEF ResetFailed, At, Persist
<1>2. /\ ~At(p, "idle") /\ Mem(p) = journal[t] /\ Mem(p) \in Journal
      /\ proc[p].mem = Mem(p) /\ world[t] \in World
      /\ JournalOK(Mem(p)) /\ WorldOK(Mem(p), world[t], todo[t])
      /\ Knows(proc[p], world[t], todo[t])
  BY <1>1, InMemory
<1>3. Mem(p).status = "failed" /\ world[t].launches = world[t].reported
  BY <1>1, <1>2 DEF Knows, HostKnows
<1>4. /\ m \in Journal /\ m.status = "in_progress"
      /\ JournalOK(m) /\ WorldOK(m, world[t], todo[t]) /\ WriteAdmitted(journal[t], m)
  BY <1>2, <1>3, RetryWrite
<1> HIDE DEF m
<1>5. /\ n \in {"host", "validate"} /\ n \in Points \ {"idle", "lock"}
      /\ n = "host" => m.phases = 0
      /\ n = "validate" => m.phases >= 2
  BY <1>4, JournalFields DEF AfterRecovery, Points, JournalOK
<1> HIDE DEF n
<1>6. \A pr \in Process : pr.pc = n /\ pr.mem = m => Knows(pr, world[t], todo[t])
  BY <1>3, <1>4, <1>5
  DEF Knows, HostKnows, SettlementKnows, ReductionKnows, TailKnows, Settling
<1>7. None \in Observations
  BY DEF Observations
<1> QED BY <1>1, <1>2, <1>4, <1>5, <1>6, <1>7, Wrote

(* The host: a dispatch intent in the journal, the launch, the report.       *)

SameSettled(v, w) ==
  /\ v.passed = w.passed /\ v.wbRuns = w.wbRuns /\ v.wbEvent = w.wbEvent
  /\ v.spRuns = w.spRuns /\ v.spEvent = w.spEvent

LEMMA AttemptHostOK ==
  ASSUME Inv, NEW p \in Processes, AttemptHost(p)
  PROVE  Inv'
<1> DEFINE t == TurnOf(p)
           j == Mem(p)
           m == [j EXCEPT !.attempts = @ + 1]
<1>1. /\ proc[p].pc = "host" /\ PersistAnd(p, m, "launch", None)
      /\ UNCHANGED effects /\ UNCHANGED faults
  BY DEF AttemptHost, At, Persist
<1>2. /\ ~At(p, "idle") /\ j = journal[t] /\ j \in Journal
      /\ proc[p].mem = j /\ world[t] \in World
      /\ JournalOK(j) /\ WorldOK(j, world[t], todo[t])
      /\ Knows(proc[p], world[t], todo[t])
  BY <1>1, InMemory
<1> HIDE DEF j
<1>3. /\ m \in Journal /\ SamePlace(m, j) /\ SameWork(m, j) /\ m.attempts # 0
  BY <1>2 DEF Journal, SamePlace, SameWork
<1>4. /\ j.status = "in_progress" /\ j.phases = 0
      /\ world[t].launches = world[t].reported
  BY <1>1, <1>2 DEF Knows, HostKnows
<1> HIDE DEF m
<1>5. JournalOK(m) /\ WorldOK(m, world[t], todo[t])
  BY <1>2, <1>3, <1>4, SameJournalOK DEF SamePlace, SameWork, WorldOK
<1>6. WriteAdmitted(journal[t], m)
  BY <1>2, <1>3, <1>4, <1>5, AdmittedInProgress DEF SamePlace, JournalOK
<1>7. \A pr \in Process : pr.pc = "launch" /\ pr.mem = m => Knows(pr, world[t], todo[t])
  BY <1>3, <1>4
  DEF Knows, HostKnows, SettlementKnows, ReductionKnows, TailKnows, Settling, SamePlace
<1>8. None \in Observations /\ "launch" \in Points \ {"idle", "lock"}
  BY DEF Observations, Points
<1> QED BY <1>1, <1>2, <1>3, <1>5, <1>6, <1>7, <1>8, Wrote

LEMMA LaunchHostOK ==
  ASSUME Inv, NEW p \in Processes, LaunchHost(p)
  PROVE  Inv'
<1> DEFINE t == TurnOf(p)
           j == Mem(p)
           pr == [proc[p] EXCEPT !.pc = "running"]
           w == [world[t] EXCEPT !.launches = @ + 1]
<1>1. /\ proc[p].pc = "launch" /\ proc' = [proc EXCEPT ![p] = pr]
      /\ world' = [world EXCEPT ![t] = w]
      /\ UNCHANGED journal /\ UNCHANGED refused /\ UNCHANGED lane
      /\ UNCHANGED jlock /\ UNCHANGED todo /\ UNCHANGED faults
  BY DEF LaunchHost, Goto, At, store, TurnOf
<1>2. /\ ~At(p, "idle") /\ j = journal[t] /\ j \in Journal /\ t \in Turns
      /\ proc[p].mem = j /\ proc[p] \in Process
      /\ world[t] \in World /\ todo[t] \in TodoState
      /\ JournalOK(j) /\ WorldOK(j, world[t], todo[t])
      /\ Knows(proc[p], world[t], todo[t])
  BY <1>1, InMemory
<1> HIDE DEF j
<1>3. /\ j.status = "in_progress" /\ j.phases = 0 /\ j.attempts # 0
      /\ world[t].launches = world[t].reported
  BY <1>1, <1>2 DEF Knows, HostKnows
<1>4. /\ w \in World /\ w.launches = w.reported + 1 /\ SameSettled(w, world[t])
  BY <1>2, <1>3 DEF World, SameSettled
<1>5. pr \in Process /\ pr.pc = "running" /\ pr.mem = j /\ pr.turn = t
  BY <1>2 DEF Process, Points, TurnOf
<1> HIDE DEF pr, w
<1>6. TurnOK(j, w, todo[t])
  BY <1>2, <1>3, <1>4, JournalFields
  DEF TurnOK, WorldOK, SameSettled, HostOutcomeUnknown
<1>7. Good(pr, journal[t], w, todo[t])
  BY <1>2, <1>3, <1>4, <1>5, <1>6, JournalFields
  DEF Good, Copied, Knows, HostKnows, SettlementKnows, ReductionKnows, TailKnows, Settling
<1>8. /\ jlock' \in [Turns -> Processes \cup {None}] /\ faults' \in 0..MaxFaults
      /\ todo' = [todo EXCEPT ![t] = todo[t]]
  BY <1>1, <1>2, FaultsBounded, SameEffects DEF Inv, TypeOK
<1> QED BY <1>1, <1>2, <1>4, <1>5, <1>7, <1>8, Went, Zenon

(* Whatever the host answers, its start is accounted for and the work behind *)
(* it has not begun.                                                         *)
LEMMA HostReport ==
  ASSUME Inv, NEW p \in Processes, proc[p].pc = "running", Reported(p), UNCHANGED todo,
         UNCHANGED faults \/ Fault,
         NEW m \in Journal, NEW n \in {"finish", "leave", "validate"},
         PersistAnd(p, m, n, None),
         m.phases \in {0, 2}, m.status \in {"in_progress", "failed"},
         m.prepared = Mem(p).prepared, m.writeback = Mem(p).writeback,
         m.closeout = Mem(p).closeout,
         m.status = "in_progress" => m.phases = 2,
         n = "validate" => m.status = "in_progress"
  PROVE  Inv'
<1> DEFINE t == TurnOf(p)
           j == Mem(p)
           w == [world[t] EXCEPT !.reported = @ + 1]
<1>1. /\ ~At(p, "idle") /\ j = journal[t] /\ j \in Journal /\ t \in Turns
      /\ proc[p].mem = j /\ world[t] \in World /\ todo[t] \in TodoState
      /\ JournalOK(j) /\ WorldOK(j, world[t], todo[t])
      /\ Knows(proc[p], world[t], todo[t])
  BY InMemory
<1>2. /\ m.prepared = j.prepared /\ m.writeback = j.writeback /\ m.closeout = j.closeout
      /\ world' = [world EXCEPT ![t] = w] /\ todo' = [todo EXCEPT ![t] = todo[t]]
      /\ faults' \in 0..MaxFaults
  BY <1>1, SameEffects, FaultsBounded DEF Reported, TurnOf
<1> HIDE DEF j
<1>3. /\ j.status = "in_progress" /\ j.phases = 0
      /\ world[t].launches = world[t].reported + 1
  BY <1>1 DEF Knows, HostKnows
<1>4. w \in World /\ w.launches = w.reported /\ SameSettled(w, world[t])
  BY <1>1, <1>3 DEF World, SameSettled
<1> HIDE DEF w
<1>5. m.prepared = None /\ m.writeback = None /\ m.closeout = FALSE
  BY <1>1, <1>2, <1>3, PreparedPlace, JournalFields DEF JournalOK
<1>6. TurnOK(j, w, todo[t])
  BY <1>1, <1>3, <1>4, JournalFields DEF TurnOK, WorldOK, SameSettled
<1>7. WorldOK(m, w, todo[t])
  BY <1>1, <1>3, <1>4, <1>5, NoneAssumption
  DEF WorldOK, SameSettled, World, Steps, Continuations
<1>8. Consistent(m) => JournalOK(m)
  BY <1>5 DEF JournalOK
<1>9. \/ WriteAdmitted(journal[t], m)
      \/ KindOfWrite(journal[t], m) # "progress"
  <2>1. CASE m.status = "failed"
    BY <2>1 DEF KindOfWrite
  <2>2. CASE m.status = "in_progress"
    <3>1. Consistent(m)
      BY <2>2, <1>5 DEF Consistent
    <3> QED BY <2>2, <3>1, <1>1, <1>3, AdmittedInProgress
  <2> QED BY <2>1, <2>2
<1>10. WriteAdmitted(journal[t], m) => Consistent(m)
  BY DEF WriteAdmitted
<1>11. \A pr \in Process : pr.pc = n /\ pr.mem = m => Knows(pr, w, todo[t])
  BY <1>4 DEF Knows, HostKnows, SettlementKnows, ReductionKnows, TailKnows, Settling
<1>12. None \in Observations /\ n \in Points \ {"idle", "lock"}
  BY DEF Observations, Points
<1> QED BY <1>1, <1>2, <1>4, <1>6, <1>7, <1>8, <1>9, <1>10, <1>11, <1>12, Persisted

(* The journals that report on the host and on validation. *)
HostFailed(j, k) ==
  [j EXCEPT !.status = "failed", !.failedAt = "host_execute",
            !.phases = 0, !.failure = k]

LEMMA HostFailedWrite ==
  ASSUME NEW j \in Journal, NEW k \in HostFailures, NEW m, m = HostFailed(j, k)
  PROVE  /\ m \in Journal /\ m.phases = 0 /\ m.status = "failed"
         /\ m.prepared = j.prepared /\ SameWork(m, j)
<1>1. PICK ph \in 0..7 : ph = 0
  OBVIOUS
<1>2. m = [j EXCEPT !.status = "failed", !.failedAt = "host_execute",
                 !.phases = ph, !.failure = k]
  BY <1>1 DEF HostFailed
<1>3. m \in Journal
  BY <1>2 DEF Journal, Statuses
<1>4. m.phases = 0 /\ m.status = "failed" /\ m.prepared = j.prepared /\ SameWork(m, j)
  BY <1>1, <1>2 DEF Journal, SameWork
<1> QED BY <1>3, <1>4

ContractBroken(j) ==
  [j EXCEPT !.status = "failed", !.failedAt = "validation",
            !.phases = 2, !.stage = "host_result_contract"]

LEMMA ContractBrokenWrite ==
  ASSUME NEW j \in Journal, NEW m, m = ContractBroken(j)
  PROVE  /\ m \in Journal /\ m.phases = 2 /\ m.status = "failed"
         /\ m.prepared = j.prepared /\ SameWork(m, j)
<1>1. PICK ph \in 0..7 : ph = 2
  OBVIOUS
<1>2. m = [j EXCEPT !.status = "failed", !.failedAt = "validation",
                 !.phases = ph, !.stage = "host_result_contract"]
  BY <1>1 DEF ContractBroken
<1>3. m \in Journal
  BY <1>2 DEF Journal, Statuses
<1>4. m.phases = 2 /\ m.status = "failed" /\ m.prepared = j.prepared /\ SameWork(m, j)
  BY <1>1, <1>2 DEF Journal, SameWork
<1> QED BY <1>3, <1>4

Answered(j, k) ==
  [j EXCEPT !.kind = k, !.phases = 2]

LEMMA AnsweredWrite ==
  ASSUME NEW j \in Journal, NEW k \in ResultKinds, NEW m, m = Answered(j, k)
  PROVE  /\ m \in Journal /\ m.phases = 2 /\ m.status = j.status
         /\ m.prepared = j.prepared /\ m.writeback = j.writeback
         /\ m.closeout = j.closeout
<1>1. PICK ph \in 0..7 : ph = 2
  OBVIOUS
<1>2. m = [j EXCEPT !.kind = k, !.phases = ph]
  BY <1>1 DEF Answered
<1>3. m \in Journal
  BY <1>2 DEF Journal, Statuses
<1>4. /\ m.phases = 2 /\ m.status = j.status /\ m.prepared = j.prepared
      /\ m.writeback = j.writeback /\ m.closeout = j.closeout
  BY <1>1, <1>2 DEF Journal
<1> QED BY <1>3, <1>4

Stopped(j) ==
  [j EXCEPT !.status = "stopped", !.phases = 3]

LEMMA StoppedWrite ==
  ASSUME NEW j \in Journal, NEW m, m = Stopped(j)
  PROVE  /\ m \in Journal /\ m.phases = 3 /\ m.status = "stopped"
         /\ m.prepared = j.prepared /\ SameWork(m, j)
<1>1. PICK ph \in 0..7 : ph = 3
  OBVIOUS
<1>2. m = [j EXCEPT !.status = "stopped", !.phases = ph]
  BY <1>1 DEF Stopped
<1>3. m \in Journal
  BY <1>2 DEF Journal, Statuses
<1>4. m.phases = 3 /\ m.status = "stopped" /\ m.prepared = j.prepared /\ SameWork(m, j)
  BY <1>1, <1>2 DEF Journal, SameWork
<1> QED BY <1>3, <1>4

Validated(j) ==
  [j EXCEPT !.phases = IF @ < 3 THEN 3 ELSE @, !.stage = "task_postcondition"]

LEMMA ValidatedWrite ==
  ASSUME NEW j \in Journal, NEW m, m = Validated(j)
  PROVE  /\ m \in Journal /\ m.phases = (IF j.phases < 3 THEN 3 ELSE j.phases) /\ m.status = j.status /\ m.failedAt = j.failedAt
         /\ m.prepared = j.prepared /\ SameWork(m, j)
<1>1. PICK ph \in 0..7 : ph = (IF j.phases < 3 THEN 3 ELSE j.phases)
  BY JournalFields
<1>2. m = [j EXCEPT !.phases = ph, !.stage = "task_postcondition"]
  BY <1>1 DEF Validated
<1>3. m \in Journal
  BY <1>2 DEF Journal, Statuses
<1>4. m.phases = (IF j.phases < 3 THEN 3 ELSE j.phases) /\ m.status = j.status /\ m.failedAt = j.failedAt /\ m.prepared = j.prepared /\ SameWork(m, j)
  BY <1>1, <1>2 DEF Journal, SameWork
<1> QED BY <1>3, <1>4

Rejected(j) ==
  [j EXCEPT !.status = "failed", !.failedAt = "validation",
            !.stage = "task_postcondition"]

LEMMA RejectedWrite ==
  ASSUME NEW j \in Journal, NEW m, m = Rejected(j)
  PROVE  /\ m \in Journal /\ m.phases = j.phases /\ m.status = "failed"
         /\ m.prepared = j.prepared /\ SameWork(m, j)
<1>2. m = [j EXCEPT !.status = "failed", !.failedAt = "validation",
                 !.stage = "task_postcondition"]
  BY DEF Rejected
<1>3. m \in Journal
  BY <1>2 DEF Journal, Statuses
<1>4. m.phases = j.phases /\ m.status = "failed" /\ m.prepared = j.prepared /\ SameWork(m, j)
  BY <1>2 DEF Journal, SameWork
<1> QED BY <1>3, <1>4

LEMMA HostFailsOK ==
  ASSUME Inv, NEW p \in Processes, NEW k \in HostFailures, HostFails(p, k)
  PROVE  Inv'
<1> DEFINE m == HostFailed(Mem(p), k)
<1>1. /\ proc[p].pc = "running" /\ PersistAnd(p, m, Done(p), None)
      /\ Fault /\ Reported(p) /\ UNCHANGED todo /\ Done(p) \in {"finish", "leave"}
  BY DEF HostFails, HostFailed, At, Persist, Done
<1>2. Mem(p) \in Journal
  BY <1>1, InMemory
<1>3. /\ m \in Journal /\ m.phases = 0 /\ m.status = "failed"
      /\ m.prepared = Mem(p).prepared /\ m.writeback = Mem(p).writeback
      /\ m.closeout = Mem(p).closeout
  BY <1>2, HostFailedWrite DEF SameWork
<1> QED BY <1>1, <1>3, HostReport

LEMMA HostBreaksContractOK ==
  ASSUME Inv, NEW p \in Processes, HostBreaksContract(p)
  PROVE  Inv'
<1> DEFINE m == ContractBroken(Mem(p))
<1>1. /\ proc[p].pc = "running" /\ PersistAnd(p, m, Done(p), None)
      /\ Fault /\ Reported(p) /\ UNCHANGED todo /\ Done(p) \in {"finish", "leave"}
  BY DEF HostBreaksContract, ContractBroken, At, Persist, Done
<1>2. Mem(p) \in Journal
  BY <1>1, InMemory
<1>3. /\ m \in Journal /\ m.phases = 2 /\ m.status = "failed"
      /\ m.prepared = Mem(p).prepared /\ m.writeback = Mem(p).writeback
      /\ m.closeout = Mem(p).closeout
  BY <1>2, ContractBrokenWrite DEF SameWork
<1> QED BY <1>1, <1>3, HostReport

LEMMA HostAnswersOK ==
  ASSUME Inv, NEW p \in Processes, NEW k \in ResultKinds, HostAnswers(p, k)
  PROVE  Inv'
<1> DEFINE m == Answered(Mem(p), k)
<1>1. /\ proc[p].pc = "running" /\ PersistAnd(p, m, "validate", None)
      /\ Reported(p) /\ UNCHANGED todo /\ UNCHANGED faults
  BY DEF HostAnswers, Answered, At, Persist
<1>2. /\ Mem(p) \in Journal /\ proc[p].mem = Mem(p)
      /\ Knows(proc[p], world[TurnOf(p)], todo[TurnOf(p)])
  BY <1>1, InMemory
<1>3. Mem(p).status = "in_progress"
  BY <1>1, <1>2 DEF Knows, HostKnows
<1>4. /\ m \in Journal /\ m.phases = 2 /\ m.status = "in_progress"
      /\ m.prepared = Mem(p).prepared /\ m.writeback = Mem(p).writeback
      /\ m.closeout = Mem(p).closeout
  BY <1>2, <1>3, AnsweredWrite
<1> QED BY <1>1, <1>4, HostReport

(* Validation.                                                               *)

(* What is known of an answer before it is validated, and after. *)
LEMMA Validating ==
  ASSUME NEW j \in Journal, NEW pr, NEW w, NEW d, pr.pc = "validate", pr.mem = j,
         JournalOK(j), Knows(pr, w, d)
  PROVE  /\ w.launches = w.reported
         /\ j.phases \in {2, 3, 4, 5}
         /\ j.status \in {"in_progress", "scheduler_action_required"}
         /\ j.status = "scheduler_action_required" => j.phases = 5
         /\ j.phases = 2 => j.prepared = None /\ j.writeback = None /\ ~j.closeout
         /\ j.kind = "stop" => j.phases = 2
<1>1. /\ w.launches = w.reported /\ j.phases >= 2
      /\ j.status \in {"in_progress", "scheduler_action_required"}
  BY DEF Knows, HostKnows
<1>2. j.phases \in 0..7 /\ j.closeout \in BOOLEAN
  BY JournalFields
<1>3. /\ j.status = "scheduler_action_required" => j.phases = 5
      /\ j.status = "in_progress" => j.phases <= 5
      /\ j.phases \in {0, 2, 3, 4, 5, 7}
  BY DEF JournalOK, Consistent
<1>4. j.phases = 2 => j.writeback = None /\ ~j.closeout
  BY <1>2 DEF JournalOK
<1>5. j.phases = 2 => j.prepared = None
  BY PreparedPlace
<1>6. j.kind = "stop" => j.phases <= 2
  BY <1>1 DEF JournalOK
<1> QED BY <1>1, <1>2, <1>3, <1>4, <1>5, <1>6

LEMMA StopTurnOK ==
  ASSUME Inv, NEW p \in Processes, StopTurn(p)
  PROVE  Inv'
<1> DEFINE t == TurnOf(p)
           j == Mem(p)
           m == Stopped(j)
<1>1. /\ proc[p].pc = "validate" /\ PersistAnd(p, m, Done(p), None) /\ j.kind = "stop"
      /\ UNCHANGED effects /\ UNCHANGED faults /\ Done(p) \in {"finish", "leave"}
  BY DEF StopTurn, Stopped, At, Persist, Done
<1>2. /\ ~At(p, "idle") /\ j = journal[t] /\ j \in Journal
      /\ proc[p].mem = j /\ world[t] \in World
      /\ JournalOK(j) /\ WorldOK(j, world[t], todo[t])
      /\ Knows(proc[p], world[t], todo[t])
  BY <1>1, InMemory
<1> HIDE DEF j
<1>3. /\ m \in Journal /\ m.status = "stopped" /\ m.phases = 3 /\ m.prepared = j.prepared
      /\ SameWork(m, j)
  BY <1>2, StoppedWrite
<1>4. /\ j.phases = 2 /\ j.prepared = None /\ j.status = "in_progress"
      /\ j.writeback = None /\ ~j.closeout
      /\ world[t].launches = world[t].reported
  BY <1>1, <1>2, Validating
<1> HIDE DEF m
<1>5. JournalOK(m)
  BY <1>1, <1>3, <1>4 DEF JournalOK, Consistent, SameWork
<1>6. WorldOK(m, world[t], todo[t])
  BY <1>1, <1>2, <1>3, <1>4, NoneAssumption
  DEF WorldOK, World, SameWork, Steps, Continuations
<1>7. WriteAdmitted(journal[t], m)
  BY <1>2, <1>3, <1>4, <1>5, AdmittedInProgress DEF JournalOK
<1>8. \A pr \in Process : pr.pc = Done(p) /\ pr.mem = m => Knows(pr, world[t], todo[t])
  BY <1>1, <1>4
  DEF Knows, HostKnows, SettlementKnows, ReductionKnows, TailKnows, Settling
<1>9. None \in Observations /\ Done(p) \in Points \ {"idle", "lock"}
  BY <1>1 DEF Observations, Points
<1> QED BY <1>1, <1>2, <1>3, <1>5, <1>6, <1>7, <1>8, <1>9, Wrote

LEMMA TaskValidatedOK ==
  ASSUME Inv, NEW p \in Processes, TaskValidated(p)
  PROVE  Inv'
<1> DEFINE t == TurnOf(p)
           j == Mem(p)
           ph == IF j.phases < 3 THEN 3 ELSE j.phases
           m == Validated(j)
           w == [world[t] EXCEPT !.passed = TRUE]
<1>1. /\ proc[p].pc = "validate" /\ PersistAnd(p, m, "settle", None) /\ j.kind # "stop"
      /\ world' = [world EXCEPT ![t] = w] /\ UNCHANGED todo /\ UNCHANGED faults
  BY DEF TaskValidated, Validated, At, Persist, TurnOf
<1>2. /\ ~At(p, "idle") /\ j = journal[t] /\ j \in Journal /\ t \in Turns
      /\ proc[p].mem = j /\ world[t] \in World /\ todo[t] \in TodoState
      /\ JournalOK(j) /\ WorldOK(j, world[t], todo[t])
      /\ Knows(proc[p], world[t], todo[t])
  BY <1>1, InMemory
<1> HIDE DEF j
<1>3. /\ j.phases \in {2, 3, 4, 5} /\ world[t].launches = world[t].reported
      /\ j.status \in {"in_progress", "scheduler_action_required"}
      /\ j.status = "scheduler_action_required" => j.phases = 5
      /\ j.phases = 2 => j.prepared = None /\ j.writeback = None /\ ~j.closeout
  BY <1>1, <1>2, Validating
<1>4. ph \in {3, 4, 5} /\ (j.phases = 2 => ph = 3) /\ (j.phases # 2 => ph = j.phases)
  BY <1>3
<1>5. /\ m \in Journal /\ m.status = j.status /\ m.phases = ph /\ m.prepared = j.prepared
      /\ m.failedAt = j.failedAt /\ SameWork(m, j)
  BY <1>2, ValidatedWrite
<1>6. /\ w \in World /\ w.launches = w.reported /\ w.passed /\ w.wbRuns = world[t].wbRuns
      /\ w.wbEvent = world[t].wbEvent /\ w.spRuns = world[t].spRuns
      /\ w.spEvent = world[t].spEvent
  BY <1>2, <1>3 DEF World
<1> HIDE DEF m, w, ph
<1>7. JournalOK(m)
  <2>1. j.prepared # None => j.phases # 2
    BY <1>3
  <2> QED BY <2>1, <1>1, <1>2, <1>3, <1>4, <1>5 DEF JournalOK, Consistent, SameWork
<1>8. TurnOK(journal[t], w, todo[t])
  BY <1>2, <1>6, JournalFields DEF TurnOK, WorldOK
<1>9. WorldOK(m, w, todo[t])
  BY <1>1, <1>2, <1>3, <1>4, <1>5, <1>6, NoneAssumption
  DEF WorldOK, World, SameWork, Steps
<1>10. \/ WriteAdmitted(journal[t], m)
       \/ KindOfWrite(journal[t], m) # "progress"
  <2>1. CASE j.status = "in_progress"
    BY <2>1, <1>2, <1>3, <1>4, <1>5, <1>7, AdmittedInProgress DEF JournalOK
  <2>2. CASE j.status = "scheduler_action_required"
    BY <2>2, <1>2, JournalFields DEF KindOfWrite
  <2> QED BY <2>1, <2>2, <1>3
<1>11. \A pr \in Process : pr.pc = "settle" /\ pr.mem = m /\ pr.obs = None =>
                             Knows(pr, w, todo[t])
  BY <1>1, <1>3, <1>4, <1>5, <1>6
  DEF Knows, HostKnows, SettlementKnows, ReductionKnows, TailKnows, Settling, Progressing,
      SameWork
<1>12. None \in Observations /\ "settle" \in Points \ {"idle", "lock"}
  BY DEF Observations, Points
<1>13. faults' \in 0..MaxFaults /\ todo' = [todo EXCEPT ![t] = todo[t]]
  BY <1>1, <1>2, FaultsBounded, SameEffects
<1> QED BY <1>1, <1>2, <1>5, <1>6, <1>7, <1>8, <1>9, <1>10, <1>11, <1>12, <1>13, Persisted

LEMMA TaskRejectedOK ==
  ASSUME Inv, NEW p \in Processes, TaskRejected(p)
  PROVE  Inv'
<1> DEFINE t == TurnOf(p)
           j == Mem(p)
           m == Rejected(j)
<1>1. /\ proc[p].pc = "validate" /\ PersistAnd(p, m, Done(p), None)
      /\ UNCHANGED effects /\ Fault /\ Done(p) \in {"finish", "leave"}
      /\ j.phases < 3 /\ j.kind # "stop"
  BY DEF TaskRejected, Rejected, At, Persist, Done
<1>2. /\ ~At(p, "idle") /\ j = journal[t] /\ j \in Journal
      /\ proc[p].mem = j /\ world[t] \in World
      /\ JournalOK(j) /\ WorldOK(j, world[t], todo[t])
      /\ Knows(proc[p], world[t], todo[t])
  BY <1>1, InMemory
<1> HIDE DEF j
<1>3. /\ m \in Journal /\ m.status = "failed" /\ m.phases = j.phases
      /\ m.prepared = j.prepared /\ SameWork(m, j)
  BY <1>2, RejectedWrite
<1>4. j.phases = 2 /\ world[t].launches = world[t].reported
  BY <1>1, <1>2, Validating
<1> HIDE DEF m
<1>5. Consistent(m) => JournalOK(m)
  BY <1>2, <1>3, <1>4 DEF JournalOK, SameWork
<1>6. WorldOK(m, world[t], todo[t])
  BY <1>2, <1>3, <1>4 DEF WorldOK, SameWork
<1>7. KindOfWrite(journal[t], m) # "progress" /\ (WriteAdmitted(journal[t], m) => Consistent(m))
  BY <1>3 DEF KindOfWrite, WriteAdmitted
<1>8. \A pr \in Process : pr.pc = Done(p) /\ pr.mem = m => Knows(pr, world[t], todo[t])
  BY <1>1, <1>4
  DEF Knows, HostKnows, SettlementKnows, ReductionKnows, TailKnows, Settling
<1>9. None \in Observations /\ Done(p) \in Points \ {"idle", "lock"}
  BY <1>1 DEF Observations, Points
<1> QED BY <1>1, <1>2, <1>3, <1>5, <1>6, <1>7, <1>8, <1>9, Wrote

-----------------------------------------------------------------------------
(* Settlement.                                                               *)

(* What every step of a settlement knows. *)
LEMMA SettlingFacts ==
  ASSUME Inv, NEW p \in Processes, proc[p].pc \in Settling \cup {"settle"}
  PROVE  /\ ~At(p, "idle") /\ proc[p] \in Process /\ TurnOf(p) \in Turns
         /\ Mem(p) = journal[TurnOf(p)] /\ Mem(p) \in Journal /\ proc[p].mem = Mem(p)
         /\ world[TurnOf(p)] \in World /\ todo[TurnOf(p)] \in TodoState
         /\ JournalOK(Mem(p)) /\ WorldOK(Mem(p), world[TurnOf(p)], todo[TurnOf(p)])
         /\ SettlementKnows(proc[p], world[TurnOf(p)], todo[TurnOf(p)])
         /\ ReductionKnows(proc[p], world[TurnOf(p)], todo[TurnOf(p)])
         /\ Mem(p).phases \in {3, 4, 5} /\ Mem(p).kind # "stop"
         /\ Mem(p).status \in {"in_progress", "scheduler_action_required"}
         /\ Mem(p).status = "scheduler_action_required" => Mem(p).phases = 5
         /\ Mem(p).prepared # None => Mem(p).status = "in_progress"
         /\ world[TurnOf(p)].launches = world[TurnOf(p)].reported
<1>1. proc[p].pc \notin {"idle", "lock", "assess", "tail", "running"}
  BY DEF Settling
<1>2. /\ ~At(p, "idle") /\ proc[p] \in Process /\ TurnOf(p) \in Turns
      /\ Mem(p) = journal[TurnOf(p)] /\ Mem(p) \in Journal /\ proc[p].mem = Mem(p)
      /\ world[TurnOf(p)] \in World /\ todo[TurnOf(p)] \in TodoState
      /\ JournalOK(Mem(p)) /\ WorldOK(Mem(p), world[TurnOf(p)], todo[TurnOf(p)])
      /\ Knows(proc[p], world[TurnOf(p)], todo[TurnOf(p)])
  BY <1>1, InMemory
<1>3. /\ SettlementKnows(proc[p], world[TurnOf(p)], todo[TurnOf(p)])
      /\ ReductionKnows(proc[p], world[TurnOf(p)], todo[TurnOf(p)])
      /\ world[TurnOf(p)].launches = world[TurnOf(p)].reported
  BY <1>1, <1>2 DEF Knows, HostKnows
<1>4. /\ Mem(p).phases \in {3, 4, 5} /\ Mem(p).kind # "stop"
      /\ Mem(p).status \in {"in_progress", "scheduler_action_required"}
  BY <1>2, <1>3 DEF SettlementKnows, Progressing
<1>5. Mem(p).status = "scheduler_action_required" => Mem(p).phases = 5
  BY <1>2 DEF JournalOK, Consistent
<1>6. Mem(p).prepared # None => Mem(p).status = "in_progress"
  BY <1>2, <1>4, PreparedPlace
<1> QED BY <1>2, <1>3, <1>4, <1>5, <1>6

(* A step of the settlement that leaves the journal alone. *)
LEMMA Settled_Went ==
  ASSUME Inv, NEW p \in Processes, proc[p].pc \in Settling \cup {"settle"},
         NEW pr \in Process, NEW w \in World, NEW d \in TodoState,
         proc' = [proc EXCEPT ![p] = pr], pr.turn = TurnOf(p), pr.mem = Mem(p),
         pr.pc \in Settling,
         world' = [world EXCEPT ![TurnOf(p)] = w], todo' = [todo EXCEPT ![TurnOf(p)] = d],
         UNCHANGED journal, UNCHANGED refused, UNCHANGED lane, UNCHANGED jlock,
         UNCHANGED faults \/ Fault,
         w.launches = w.reported,
         WorldOK(Mem(p), w, d), SettlementKnows(pr, w, d), ReductionKnows(pr, w, d)
  PROVE  Inv'
<1> DEFINE t == TurnOf(p)
<1>1. /\ ~At(p, "idle") /\ t \in Turns /\ Mem(p) = journal[t]
      /\ Mem(p) \in Journal /\ JournalOK(Mem(p))
  BY SettlingFacts
<1>2. Mem(p) # None
  BY <1>1, JournalFields
<1>3. pr.pc \notin {"idle", "lock", "assess", "reset", "host", "launch", "running",
                    "validate", "tail"}
  BY DEF Settling
<1>4. Knows(pr, w, d)
  BY <1>3 DEF Knows, HostKnows, TailKnows
<1>5. Good(pr, journal[t], w, d)
  BY <1>1, <1>2, <1>3, <1>4 DEF Good, Copied, TurnOK
<1>6. jlock' \in [Turns -> Processes \cup {None}] /\ faults' \in 0..MaxFaults
  BY FaultsBounded DEF Inv, TypeOK
<1> QED BY <1>1, <1>5, <1>6, Went, Zenon

LEMMA StartSettlementOK ==
  ASSUME Inv, NEW p \in Processes, StartSettlement(p)
  PROVE  Inv'
<1> DEFINE t == TurnOf(p)
           j == Mem(p)
           pr == [proc[p] EXCEPT !.pc = "reduce", !.terminal = CloseoutRequired(j, t)]
<1>1. /\ proc[p].pc = "settle" /\ proc' = [proc EXCEPT ![p] = pr]
      /\ UNCHANGED journal /\ UNCHANGED refused /\ UNCHANGED lane /\ UNCHANGED jlock
      /\ UNCHANGED world /\ UNCHANGED todo /\ UNCHANGED faults
  BY DEF StartSettlement, At, TurnOf, store, effects
<1>2. proc[p].pc \in Settling \cup {"settle"}
  BY <1>1
<1>3. /\ proc[p] \in Process /\ t \in Turns /\ j \in Journal /\ proc[p].mem = j
      /\ world[t] \in World /\ todo[t] \in TodoState
      /\ JournalOK(j) /\ WorldOK(j, world[t], todo[t])
      /\ SettlementKnows(proc[p], world[t], todo[t])
      /\ j.phases \in {3, 4, 5} /\ Progressing(proc[p])
      /\ world[t].launches = world[t].reported
  BY <1>2, SettlingFacts DEF Progressing
<1>4. proc[p].obs = None
  BY <1>1, <1>3 DEF SettlementKnows
<1>5. CloseoutRequired(j, t) \in BOOLEAN
  BY DEF CloseoutRequired
<1>6. /\ pr \in Process /\ pr.pc = "reduce" /\ pr.turn = t /\ pr.mem = j /\ pr.obs = None
      /\ pr.terminal = CloseoutRequired(j, t)
  BY <1>3, <1>4, <1>5 DEF Process, Points, TurnOf
<1> HIDE DEF pr, j
<1>7. CloseoutRequired(j, t) =>
        /\ j.kind = "completion" /\ j.writeback # "successor"
        /\ j.phases = 3 /\ todo[t].done # None => todo[t].done = "no_followup"
  <2> SUFFICES ASSUME CloseoutRequired(j, t)
               PROVE  /\ j.kind = "completion" /\ j.writeback # "successor"
                      /\ j.phases = 3 /\ todo[t].done # None => todo[t].done = "no_followup"
    OBVIOUS
  <2>1. j.kind = "completion" /\ j.writeback # "successor"
    BY DEF CloseoutRequired, Continuations
  <2>2. ASSUME j.phases = 3, todo[t].done # None PROVE todo[t].done = "no_followup"
    <3>1. j.writeback \notin Continuations
      BY <1>3, <2>2, NoneAssumption DEF JournalOK
    <3>2. todo[t].cont = "no_followup"
      BY <3>1 DEF CloseoutRequired
    <3> QED BY <1>3, <2>2, <3>2 DEF WorldOK
  <2> QED BY <2>1, <2>2
<1>8. SettlementKnows(pr, world[t], todo[t])
  BY <1>3, <1>6, <1>7 DEF SettlementKnows, Settling, Progressing
<1>9. ReductionKnows(pr, world[t], todo[t])
  BY <1>6, NoneAssumption DEF ReductionKnows, HostFailures
<1>10. world' = [world EXCEPT ![t] = world[t]] /\ todo' = [todo EXCEPT ![t] = todo[t]]
  BY <1>1, <1>3, SameEffects
<1>11. pr.pc \in Settling
  BY <1>6 DEF Settling
<1> QED BY <1>1, <1>2, <1>3, <1>6, <1>8, <1>9, <1>10, <1>11, Settled_Went DEF j

(* A checkpoint of the settlement: it may only be refused to the tail of a   *)
(* Turn that waits for its scheduler.                                        *)
LEMMA SettlementWrote ==
  ASSUME Inv, NEW p \in Processes, proc[p].pc = "reduce",
         NEW m \in Journal, NEW n \in Settling, NEW o \in Observations,
         PersistAnd(p, m, n, o), UNCHANGED effects, UNCHANGED faults \/ Fault,
         Mem(p).status = "in_progress" => Consistent(m),
         m.status = Mem(p).status,
         \/ m.phases = Mem(p).phases
         \/ Mem(p).phases = 3 /\ m.phases = 4
         \/ Mem(p).phases = 4 /\ m.phases = 5,
         Consistent(m) => JournalOK(m), WorldOK(m, world[TurnOf(p)], todo[TurnOf(p)]),
         Consistent(m) =>
           \A pr \in Process :
             pr.pc = n /\ pr.mem = m /\ pr.obs = o /\ pr.terminal = proc[p].terminal =>
               /\ SettlementKnows(pr, world[TurnOf(p)], todo[TurnOf(p)])
               /\ ReductionKnows(pr, world[TurnOf(p)], todo[TurnOf(p)])
  PROVE  Inv'
<1> DEFINE t == TurnOf(p)
<1>1. proc[p].pc \in Settling \cup {"settle"}
  BY DEF Settling
<1>2. /\ ~At(p, "idle") /\ Mem(p) = journal[t] /\ Mem(p) \in Journal
      /\ Mem(p).status \in {"in_progress", "scheduler_action_required"}
      /\ world[t].launches = world[t].reported
  BY <1>1, SettlingFacts
<1>3. \/ WriteAdmitted(journal[t], m)
      \/ KindOfWrite(journal[t], m) # "progress"
  <2>1. CASE Mem(p).status = "in_progress"
    BY <2>1, <1>2, AdmittedInProgress
  <2>2. CASE Mem(p).status = "scheduler_action_required"
    BY <2>2, <1>2, JournalFields DEF KindOfWrite
  <2> QED BY <2>1, <2>2, <1>2
<1>4. WriteAdmitted(journal[t], m) => Consistent(m)
  BY DEF WriteAdmitted
<1>5. Consistent(m) =>
        \A pr \in Process :
          pr.pc = n /\ pr.mem = m /\ pr.obs = o /\ pr.terminal = proc[p].terminal =>
            Knows(pr, world[t], todo[t])
  <2> SUFFICES ASSUME Consistent(m), NEW pr \in Process, pr.pc = n, pr.mem = m, pr.obs = o,
                      pr.terminal = proc[p].terminal
               PROVE  Knows(pr, world[t], todo[t])
    OBVIOUS
  <2>1. pr.pc \notin {"idle", "lock", "assess", "reset", "host", "launch", "running",
                      "validate", "tail"}
    BY DEF Settling
  <2> QED BY <2>1, <1>2 DEF Knows, HostKnows, TailKnows
<1>6. n \in Points \ {"idle", "lock"}
  BY DEF Settling, Points
<1> QED BY <1>2, <1>3, <1>4, <1>5, <1>6, Wrote

PreparedFor(j, s) == [j EXCEPT !.prepared = s]

LEMMA PreparedForWrite ==
  ASSUME NEW j \in Journal, NEW s \in Steps \cup {None}, NEW m, m = PreparedFor(j, s)
  PROVE  /\ m \in Journal /\ m.prepared = s /\ m.status = j.status /\ m.phases = j.phases
         /\ m.failedAt = j.failedAt /\ SameWork(m, j)
<1>1. m \in Journal
  BY DEF Journal, PreparedFor
<1>2. /\ m.prepared = s /\ m.status = j.status /\ m.phases = j.phases
      /\ m.failedAt = j.failedAt /\ SameWork(m, j)
  BY DEF Journal, SameWork, PreparedFor
<1> QED BY <1>1, <1>2

(* Which phase a step belongs to. *)
LEMMA NextStepPlace ==
  ASSUME NEW j, NEW terminal, j.phases \in {3, 4, 5}
  PROVE  /\ NextStep(j, terminal) = "durable_writeback" <=> j.phases = 3
         /\ NextStep(j, terminal) = "quota_spend" <=> j.phases = 4
         /\ NextStep(j, terminal) = "terminal_closeout" <=>
              j.phases = 5 /\ terminal /\ ~j.closeout
         /\ NextStep(j, terminal) \in Steps \cup {"settled"}
         /\ NextStep(j, terminal) # None
BY NoneAssumption DEF NextStep, Steps

LEMMA PrepareOK ==
  ASSUME Inv, NEW p \in Processes, Prepare(p)
  PROVE  Inv'
<1> DEFINE t == TurnOf(p)
           j == Mem(p)
           s == StepOf(p)
           m == PreparedFor(j, s)
           n == Provider(p)
<1>1. /\ proc[p].pc = "reduce" /\ s \in Steps /\ j.prepared = None
      /\ PersistAnd(p, m, n, None) /\ UNCHANGED effects /\ UNCHANGED faults
  BY DEF Prepare, Reducing, At, Persist, PreparedFor
<1>2. proc[p].pc \in Settling \cup {"settle"}
  BY <1>1 DEF Settling
<1>3. /\ proc[p] \in Process /\ t \in Turns /\ j \in Journal /\ proc[p].mem = j
      /\ world[t] \in World /\ todo[t] \in TodoState
      /\ JournalOK(j) /\ WorldOK(j, world[t], todo[t])
      /\ SettlementKnows(proc[p], world[t], todo[t])
      /\ j.phases \in {3, 4, 5} /\ j.kind # "stop"
      /\ j.status \in {"in_progress", "scheduler_action_required"}
  BY <1>2, SettlingFacts
<1>4. /\ s = NextStep(j, proc[p].terminal)
      /\ n = IF s = "quota_spend" THEN "spend"
             ELSE IF s = "terminal_closeout" \/ IsCompleting(proc[p]) THEN "complete"
             ELSE "refresh"
  BY DEF StepOf, Provider, Completing, IsCompleting, Mem
<1> HIDE DEF j, s, n
<1>5. /\ m \in Journal /\ m.prepared = s /\ m.status = j.status /\ m.phases = j.phases
      /\ m.failedAt = j.failedAt /\ SameWork(m, j)
  BY <1>1, <1>3, PreparedForWrite
<1> HIDE DEF m
<1>6. /\ s = "durable_writeback" <=> j.phases = 3
      /\ s = "quota_spend" <=> j.phases = 4
      /\ s = "terminal_closeout" => j.phases = 5 /\ proc[p].terminal /\ ~j.closeout
      /\ s # None
  BY <1>3, <1>4, NextStepPlace
<1>7. j.status = "in_progress" => Consistent(m)
  BY <1>1, <1>3, <1>5, <1>6 DEF Consistent, Steps, PhasesBefore
<1>8. Consistent(m) => JournalOK(m)
  BY <1>3, <1>5 DEF JournalOK, SameWork
<1>9. WorldOK(m, world[t], todo[t])
  <2>1. HostOutcomeUnknown(j) => FALSE
    BY <1>3 DEF HostOutcomeUnknown
  <2> QED BY <2>1, <1>1, <1>3, <1>5, NoneAssumption DEF WorldOK, SameWork, Steps
<1>10. /\ s = "durable_writeback" => world[t].wbRuns = 0
       /\ s = "quota_spend" => world[t].spRuns = 0
  BY <1>1, <1>3, <1>6, NoneAssumption DEF WorldOK, World, Steps
<1>11. n \in Settling \ {"reduce"} /\ None \in Observations
  BY <1>4 DEF Settling, Observations
<1>12. \A pr \in Process :
         pr.pc = n /\ pr.mem = m /\ pr.terminal = proc[p].terminal =>
           /\ SettlementKnows(pr, world[t], todo[t])
           /\ ReductionKnows(pr, world[t], todo[t])
  <2> SUFFICES ASSUME NEW pr \in Process, pr.pc = n, pr.mem = m,
                      pr.terminal = proc[p].terminal
               PROVE  /\ SettlementKnows(pr, world[t], todo[t])
                      /\ ReductionKnows(pr, world[t], todo[t])
    OBVIOUS
  <2>1. PreparedStep(pr)
    BY <1>4, <1>5 DEF PreparedStep, NextStep, SameWork
  <2>2. Progressing(pr) /\ IsCompleting(pr) = IsCompleting(proc[p])
    BY <1>3, <1>5 DEF Progressing, IsCompleting, SameWork
  <2>3. /\ pr.terminal => pr.mem.kind = "completion" /\ pr.mem.writeback # "successor"
        /\ pr.terminal /\ pr.mem.phases = 3 /\ todo[t].done # None =>
             todo[t].done = "no_followup"
    BY <1>1, <1>3, <1>5 DEF SettlementKnows, Settling, SameWork
  <2>4. NotYet(pr, world[t])
    BY <1>5, <1>10 DEF NotYet
  <2>5. /\ pr.pc = "spend" => s = "quota_spend"
        /\ pr.pc = "complete" =>
             \/ s = "durable_writeback" /\ IsCompleting(pr)
             \/ s = "terminal_closeout"
        /\ pr.pc = "refresh" => s = "durable_writeback" /\ ~IsCompleting(pr)
        /\ pr.pc \in {"spend", "complete", "refresh"}
    BY <1>1, <1>4, <2>2 DEF Steps
  <2>6. ReductionKnows(pr, world[t], todo[t])
    BY <2>5 DEF ReductionKnows
  <2> QED BY <2>1, <2>2, <2>3, <2>4, <2>5, <2>6, <1>3, <1>5, <1>6 DEF SettlementKnows, Settling
<1> QED BY <1>1, <1>5, <1>7, <1>8, <1>9, <1>11, <1>12, SettlementWrote DEF j

(* The settlement's own knowledge survives what only adds events. *)
LEMMA EventsAdded ==
  ASSUME NEW j \in Journal, NEW v \in World, NEW w \in World, NEW c \in TodoState,
         NEW d \in TodoState, WorldOK(j, v, c),
         w.launches = v.launches, w.reported = v.reported, w.passed = v.passed,
         w.wbRuns = v.wbRuns, w.spRuns = v.spRuns, d.cont = c.cont, d.done = c.done,
         v.wbEvent => w.wbEvent, v.spEvent => w.spEvent, c.event => d.event
  PROVE  WorldOK(j, w, d)
BY DEF WorldOK

LEMMA ResolveOK ==
  ASSUME Inv, NEW p \in Processes, Resolve(p)
  PROVE  Inv'
<1> DEFINE t == TurnOf(p)
           j == Mem(p)
           s == j.prepared
           r == Readback(t, s)
           found == r = "found"
           pr == [proc[p] EXCEPT !.obs = r]
           w == [world[t] EXCEPT !.wbEvent = @ \/ (found /\ s = "durable_writeback"),
                                 !.spEvent = @ \/ (found /\ s = "quota_spend")]
           d == [todo[t] EXCEPT !.event = @ \/ (found /\ s = "terminal_closeout")]
<1>1. /\ proc[p].pc = "reduce" /\ NextStep(j, proc[p].terminal) = s
      /\ proc' = [proc EXCEPT ![p] = pr]
      /\ world' = [world EXCEPT ![t] = w] /\ todo' = [todo EXCEPT ![t] = d]
      /\ UNCHANGED journal /\ UNCHANGED refused /\ UNCHANGED lane /\ UNCHANGED jlock
      /\ UNCHANGED faults
  BY DEF Resolve, Reducing, At, StepOf, TurnOf, store
<1>2. proc[p].pc \in Settling \cup {"settle"}
  BY <1>1 DEF Settling
<1>3. /\ proc[p] \in Process /\ t \in Turns /\ j \in Journal /\ proc[p].mem = j
      /\ world[t] \in World /\ todo[t] \in TodoState
      /\ JournalOK(j) /\ WorldOK(j, world[t], todo[t])
      /\ SettlementKnows(proc[p], world[t], todo[t])
      /\ j.phases \in {3, 4, 5}
      /\ world[t].launches = world[t].reported
  BY <1>2, SettlingFacts
<1>4. s \in Steps
  BY <1>1, <1>3, NextStepPlace, JournalFields
<1>5. /\ r \in {"absent", "unknown", "found"}
      /\ r = "found" =>
           /\ s = "durable_writeback" => world[t].wbRuns > 0
           /\ s = "quota_spend" => world[t].spRuns > 0
      /\ r = "absent" =>
           /\ s = "durable_writeback" => ~(world[t].wbRuns > 0)
           /\ s = "quota_spend" => ~(world[t].spRuns > 0)
  BY DEF Readback
<1> HIDE DEF j, r
<1>6. /\ w \in World /\ w.launches = world[t].launches /\ w.reported = world[t].reported
      /\ w.passed = world[t].passed /\ w.wbRuns = world[t].wbRuns
      /\ w.spRuns = world[t].spRuns
      /\ w.wbEvent = (world[t].wbEvent \/ (found /\ s = "durable_writeback"))
      /\ w.spEvent = (world[t].spEvent \/ (found /\ s = "quota_spend"))
  BY <1>3 DEF World
<1>7. /\ d \in TodoState /\ d.cont = todo[t].cont /\ d.done = todo[t].done
      /\ d.event = (todo[t].event \/ (found /\ s = "terminal_closeout"))
  BY <1>3 DEF TodoState
<1>8. /\ pr \in Process /\ pr.pc = "reduce" /\ pr.turn = t /\ pr.mem = j /\ pr.obs = r
      /\ pr.terminal = proc[p].terminal
  BY <1>1, <1>3, <1>5 DEF Process, Observations, TurnOf
<1> HIDE DEF w, d, pr
<1>9. WorldOK(j, w, d)
  BY <1>3, <1>6, <1>7, EventsAdded
<1>10. SettlementKnows(pr, w, d)
  BY <1>1, <1>3, <1>7, <1>8 DEF SettlementKnows, Settling, Progressing
<1>11. ReductionKnows(pr, w, d)
  <2>1. PreparedStep(pr) /\ pr.mem.prepared = s /\ s # None
    BY <1>1, <1>4, <1>8, NoneAssumption DEF PreparedStep, Steps
  <2>2. r = "absent" => NotYet(pr, w)
    BY <1>3, <1>5, <1>6, <2>1 DEF NotYet, World
  <2>3. r = "found" => Happened(pr, w, d)
    BY <1>5, <1>6, <1>7, <1>8, <2>1 DEF Happened
  <2> QED BY <1>1, <1>4, <1>5, <1>8, <2>1, <2>2, <2>3 DEF ReductionKnows
<1>12. pr.pc \in Settling /\ w.launches = w.reported
  BY <1>3, <1>6, <1>8 DEF Settling
<1> QED BY <1>1, <1>2, <1>6, <1>7, <1>8, <1>9, <1>10, <1>11, <1>12, Settled_Went DEF j

LEMMA ResolveFailsOK ==
  ASSUME Inv, NEW p \in Processes, ResolveFails(p)
  PROVE  Inv'
<1> DEFINE t == TurnOf(p)
           j == Mem(p)
           pr == [proc[p] EXCEPT !.obs = "unknown"]
<1>1. /\ proc[p].pc = "reduce" /\ NextStep(j, proc[p].terminal) = j.prepared
      /\ proc' = [proc EXCEPT ![p] = pr] /\ Fault
      /\ UNCHANGED journal /\ UNCHANGED refused /\ UNCHANGED lane /\ UNCHANGED jlock
      /\ UNCHANGED world /\ UNCHANGED todo
  BY DEF ResolveFails, Reducing, At, StepOf, store, effects
<1>2. proc[p].pc \in Settling \cup {"settle"}
  BY <1>1 DEF Settling
<1>3. /\ proc[p] \in Process /\ t \in Turns /\ j \in Journal /\ proc[p].mem = j
      /\ world[t] \in World /\ todo[t] \in TodoState
      /\ WorldOK(j, world[t], todo[t])
      /\ SettlementKnows(proc[p], world[t], todo[t])
      /\ j.phases \in {3, 4, 5}
      /\ world[t].launches = world[t].reported
  BY <1>2, SettlingFacts
<1>4. j.prepared \in Steps
  BY <1>1, <1>3, NextStepPlace, JournalFields
<1> HIDE DEF j
<1>5. /\ pr \in Process /\ pr.pc = "reduce" /\ pr.turn = t /\ pr.mem = j
      /\ pr.obs = "unknown" /\ pr.terminal = proc[p].terminal
  BY <1>1, <1>3 DEF Process, Observations, TurnOf
<1> HIDE DEF pr
<1>6. SettlementKnows(pr, world[t], todo[t])
  BY <1>1, <1>3, <1>5 DEF SettlementKnows, Settling, Progressing
<1>7. ReductionKnows(pr, world[t], todo[t])
  BY <1>1, <1>4, <1>5 DEF ReductionKnows
<1>8. /\ world' = [world EXCEPT ![t] = world[t]] /\ todo' = [todo EXCEPT ![t] = todo[t]]
      /\ pr.pc \in Settling
  BY <1>1, <1>3, <1>5, SameEffects DEF Settling
<1> QED BY <1>1, <1>2, <1>3, <1>5, <1>6, <1>7, <1>8, Settled_Went DEF j

LEMMA ExecutePreparedOK ==
  ASSUME Inv, NEW p \in Processes, ExecutePrepared(p)
  PROVE  Inv'
<1> DEFINE t == TurnOf(p)
           j == Mem(p)
           n == Provider(p)
           pr == [proc[p] EXCEPT !.pc = n]
<1>1. /\ proc[p].pc = "reduce" /\ proc[p].obs = "absent"
      /\ proc' = [proc EXCEPT ![p] = pr]
      /\ UNCHANGED journal /\ UNCHANGED refused /\ UNCHANGED lane /\ UNCHANGED jlock
      /\ UNCHANGED world /\ UNCHANGED todo /\ UNCHANGED faults
  BY DEF ExecutePrepared, Reducing, At, Goto, store, effects
<1>2. proc[p].pc \in Settling \cup {"settle"}
  BY <1>1 DEF Settling
<1>3. /\ proc[p] \in Process /\ t \in Turns /\ j \in Journal /\ proc[p].mem = j
      /\ world[t] \in World /\ todo[t] \in TodoState
      /\ WorldOK(j, world[t], todo[t]) /\ JournalOK(j)
      /\ SettlementKnows(proc[p], world[t], todo[t])
      /\ ReductionKnows(proc[p], world[t], todo[t])
      /\ j.phases \in {3, 4, 5}
      /\ world[t].launches = world[t].reported
  BY <1>2, SettlingFacts
<1>4. j.prepared # None /\ PreparedStep(proc[p]) /\ NotYet(proc[p], world[t])
  BY <1>1, <1>3 DEF ReductionKnows
<1>5. /\ n = IF j.prepared = "quota_spend" THEN "spend"
             ELSE IF j.prepared = "terminal_closeout" \/ IsCompleting(proc[p])
             THEN "complete" ELSE "refresh"
      /\ j.prepared \in Steps
  BY <1>3, <1>4, JournalFields
  DEF StepOf, Provider, Completing, IsCompleting, Mem, PreparedStep
<1> HIDE DEF j, n
<1>6. n \in {"spend", "complete", "refresh"}
  BY <1>5
<1>7. /\ pr \in Process /\ pr.pc = n /\ pr.turn = t /\ pr.mem = j
      /\ pr.terminal = proc[p].terminal
  BY <1>3, <1>6 DEF Process, Points, TurnOf
<1> HIDE DEF pr
<1>8. SettlementKnows(pr, world[t], todo[t])
  <2>1. Progressing(pr) /\ PreparedStep(pr) /\ NotYet(pr, world[t])
        /\ IsCompleting(pr) = IsCompleting(proc[p])
    BY <1>1, <1>3, <1>4, <1>7
    DEF SettlementKnows, Settling, Progressing, PreparedStep, NotYet, IsCompleting
  <2>2. /\ pr.terminal => pr.mem.kind = "completion" /\ pr.mem.writeback # "successor"
        /\ pr.terminal /\ pr.mem.phases = 3 /\ todo[t].done # None =>
             todo[t].done = "no_followup"
    BY <1>1, <1>3, <1>7 DEF SettlementKnows, Settling
  <2>3. /\ n = "spend" => j.prepared = "quota_spend"
        /\ n = "complete" =>
             \/ j.prepared = "durable_writeback" /\ IsCompleting(pr)
             \/ j.prepared = "terminal_closeout"
        /\ n = "refresh" => j.prepared = "durable_writeback" /\ ~IsCompleting(pr)
    BY <1>5, <2>1 DEF Steps
  <2> QED BY <2>1, <2>2, <2>3, <1>3, <1>4, <1>6, <1>7 DEF SettlementKnows, Settling
<1>9. ReductionKnows(pr, world[t], todo[t])
  BY <1>6, <1>7 DEF ReductionKnows
<1>10. /\ world' = [world EXCEPT ![t] = world[t]] /\ todo' = [todo EXCEPT ![t] = todo[t]]
       /\ pr.pc \in Settling
  BY <1>1, <1>3, <1>6, <1>7, SameEffects DEF Settling
<1> QED BY <1>1, <1>2, <1>3, <1>7, <1>8, <1>9, <1>10, Settled_Went DEF j

(* The three checkpoints. *)
WrittenBack(j, payload) ==
  [[j EXCEPT !.prepared = None] EXCEPT !.phases = 4, !.writeback = payload]
SlotSpent(j) == [[j EXCEPT !.prepared = None] EXCEPT !.phases = 5]
ClosedOut(j) ==
  [[j EXCEPT !.prepared = None] EXCEPT !.closeout = TRUE, !.writeback = "no_followup"]

LEMMA WrittenBackWrite ==
  ASSUME NEW j \in Journal, NEW payload \in Continuations \cup {"plain"}, NEW m,
         m = WrittenBack(j, payload)
  PROVE  /\ m \in Journal /\ m.phases = 4 /\ m.writeback = payload /\ m.prepared = None
         /\ m.status = j.status /\ m.kind = j.kind /\ m.closeout = j.closeout
<1>1. PICK ph \in 0..7 : ph = 4
  OBVIOUS
<1>2. m = [j EXCEPT !.prepared = None, !.phases = ph, !.writeback = payload]
  BY <1>1 DEF WrittenBack
<1>3. m \in Journal
  <2>1. PICK n \in Journal : n = PreparedFor(j, None)
    BY PreparedForWrite
  <2>2. m = [n EXCEPT !.phases = ph, !.writeback = payload]
    BY <2>1, <1>1 DEF WrittenBack, PreparedFor
  <2>3. payload \in Continuations \cup {"plain", None}
    OBVIOUS
  <2> QED BY <2>2, <2>3 DEF Journal
<1>4. /\ m.phases = 4 /\ m.writeback = payload /\ m.prepared = None
      /\ m.status = j.status /\ m.kind = j.kind /\ m.closeout = j.closeout
  BY <1>1, <1>2 DEF Journal
<1> QED BY <1>3, <1>4

LEMMA SlotSpentWrite ==
  ASSUME NEW j \in Journal, NEW m, m = SlotSpent(j)
  PROVE  /\ m \in Journal /\ m.phases = 5 /\ m.prepared = None
         /\ m.status = j.status /\ SameWork(m, j)
<1>1. PICK ph \in 0..7 : ph = 5
  OBVIOUS
<1>2. m = [j EXCEPT !.prepared = None, !.phases = ph]
  BY <1>1 DEF SlotSpent
<1>3. m \in Journal
  BY <1>2 DEF Journal
<1>4. m.phases = 5 /\ m.prepared = None /\ m.status = j.status /\ SameWork(m, j)
  BY <1>1, <1>2 DEF Journal, SameWork
<1> QED BY <1>3, <1>4

LEMMA ClosedOutWrite ==
  ASSUME NEW j \in Journal, NEW m, m = ClosedOut(j)
  PROVE  /\ m \in Journal /\ m.phases = j.phases /\ m.writeback = "no_followup"
         /\ m.prepared = None /\ m.status = j.status /\ m.kind = j.kind
         /\ m.closeout = TRUE
<1>1. m = [j EXCEPT !.prepared = None, !.closeout = TRUE, !.writeback = "no_followup"]
  BY DEF ClosedOut
<1>2. m \in Journal
  BY <1>1 DEF Journal, Continuations
<1>3. /\ m.phases = j.phases /\ m.writeback = "no_followup" /\ m.prepared = None
      /\ m.status = j.status /\ m.kind = j.kind /\ m.closeout = TRUE
  BY <1>1 DEF Journal
<1> QED BY <1>2, <1>3

(* What the process knows when the provider has answered. *)
LEMMA AnswerKnown ==
  ASSUME Inv, NEW p \in Processes, proc[p].pc = "reduce",
         proc[p].obs \in {"returned", "found"}
  PROVE  /\ StepOf(p) = Mem(p).prepared /\ Mem(p).prepared \in Steps
         /\ Mem(p).status = "in_progress"
         /\ Happened(proc[p], world[TurnOf(p)], todo[TurnOf(p)])
<1>1. proc[p].pc \in Settling \cup {"settle"}
  BY DEF Settling
<1>2. /\ ReductionKnows(proc[p], world[TurnOf(p)], todo[TurnOf(p)])
      /\ Mem(p) \in Journal /\ proc[p].mem = Mem(p)
      /\ Mem(p).prepared # None => Mem(p).status = "in_progress"
  BY <1>1, SettlingFacts
<1>3. /\ Mem(p).prepared # None /\ PreparedStep(proc[p])
      /\ Happened(proc[p], world[TurnOf(p)], todo[TurnOf(p)])
  BY <1>2 DEF ReductionKnows
<1> QED BY <1>2, <1>3, JournalFields DEF PreparedStep, StepOf

LEMMA CheckpointWritebackOK ==
  ASSUME Inv, NEW p \in Processes, Checkpoint(p), StepOf(p) = "durable_writeback"
  PROVE  Inv'
<1> DEFINE t == TurnOf(p)
           j == Mem(p)
           d == todo[t]
           m == WrittenBack(j, Payload(p))
<1>1. /\ proc[p].pc = "reduce" /\ proc[p].obs \in {"returned", "found"}
      /\ ~CompletionWrong(p)
      /\ PersistAnd(p, m, "reduce", None) /\ UNCHANGED effects /\ UNCHANGED faults
  BY DEF Checkpoint, Reducing, At, Persist, WrittenBack
<1>2. proc[p].pc \in Settling \cup {"settle"}
  BY <1>1 DEF Settling
<1>3. /\ proc[p] \in Process /\ t \in Turns /\ j \in Journal /\ proc[p].mem = j
      /\ world[t] \in World /\ d \in TodoState
      /\ WorldOK(j, world[t], d) /\ JournalOK(j)
      /\ SettlementKnows(proc[p], world[t], d)
      /\ j.phases \in {3, 4, 5} /\ j.kind # "stop"
      /\ world[t].launches = world[t].reported
  BY <1>2, SettlingFacts
<1>4. j.prepared = "durable_writeback" /\ j.status = "in_progress" /\ j.phases = 3
  BY <1>1, <1>3, AnswerKnown, NextStepPlace DEF StepOf
<1>5. /\ world[t].wbRuns > 0 /\ world[t].wbEvent
      /\ IsCompleting(proc[p]) /\ proc[p].obs = "returned" => d.done # None /\ d.event
  BY <1>1, <1>3, <1>4, AnswerKnown DEF Happened
<1>6. /\ Payload(p) = IF (proc[p].obs = "found" \/ IsCompleting(proc[p])) /\ d.done # None
                      THEN d.done ELSE "plain"
      /\ Payload(p) \in Continuations \cup {"plain"}
  BY <1>3 DEF Payload, Completing, IsCompleting, Mem, TurnOf, TodoState
<1>7. Payload(p) = "successor" => d.done = "successor" /\ d.event
  BY <1>1, <1>3, <1>4, <1>5, <1>6 DEF WorldOK
<1> HIDE DEF j, d
<1>8. /\ m \in Journal /\ m.phases = 4 /\ m.writeback = Payload(p) /\ m.prepared = None
      /\ m.status = j.status /\ m.kind = j.kind /\ m.closeout = j.closeout
  BY <1>3, <1>6, WrittenBackWrite
<1> HIDE DEF m
<1>9. ~m.closeout
  BY <1>3, <1>4, <1>8 DEF JournalOK
<1>10. JournalOK(m)
  BY <1>3, <1>4, <1>8, <1>9 DEF JournalOK, Consistent
<1>11. WorldOK(m, world[t], d)
  BY <1>3, <1>4, <1>5, <1>7, <1>8, <1>9, NoneAssumption DEF WorldOK, World, Steps
<1>12. \A pr \in Process :
         pr.pc = "reduce" /\ pr.mem = m /\ pr.obs = None
           /\ pr.terminal = proc[p].terminal =>
             SettlementKnows(pr, world[t], d) /\ ReductionKnows(pr, world[t], d)
  <2> SUFFICES ASSUME NEW pr \in Process, pr.pc = "reduce", pr.mem = m, pr.obs = None,
                      pr.terminal = proc[p].terminal
               PROVE  SettlementKnows(pr, world[t], d) /\ ReductionKnows(pr, world[t], d)
    OBVIOUS
  <2>1. pr.terminal => j.kind = "completion" /\ Payload(p) # "successor"
    BY <1>1, <1>3, <1>4, <1>6 DEF SettlementKnows, Settling
  <2> QED BY <2>1, <1>3, <1>4, <1>8, NoneAssumption
          DEF SettlementKnows, Settling, Progressing, ReductionKnows, HostFailures
<1>13. "reduce" \in Settling /\ None \in Observations
  BY DEF Settling, Observations
<1> QED BY <1>1, <1>4, <1>8, <1>10, <1>11, <1>12, <1>13, SettlementWrote DEF j, d, JournalOK

LEMMA CheckpointSpendOK ==
  ASSUME Inv, NEW p \in Processes, Checkpoint(p), StepOf(p) = "quota_spend"
  PROVE  Inv'
<1> DEFINE t == TurnOf(p)
           j == Mem(p)
           m == SlotSpent(j)
<1>1. /\ proc[p].pc = "reduce" /\ proc[p].obs \in {"returned", "found"}
      /\ PersistAnd(p, m, "reduce", None) /\ UNCHANGED effects /\ UNCHANGED faults
  BY DEF Checkpoint, Reducing, At, Persist, SlotSpent
<1>2. proc[p].pc \in Settling \cup {"settle"}
  BY <1>1 DEF Settling
<1>3. /\ proc[p] \in Process /\ t \in Turns /\ j \in Journal /\ proc[p].mem = j
      /\ world[t] \in World /\ todo[t] \in TodoState
      /\ WorldOK(j, world[t], todo[t]) /\ JournalOK(j)
      /\ SettlementKnows(proc[p], world[t], todo[t])
      /\ j.phases \in {3, 4, 5} /\ j.kind # "stop"
      /\ world[t].launches = world[t].reported
  BY <1>2, SettlingFacts
<1>4. j.prepared = "quota_spend" /\ j.status = "in_progress" /\ j.phases = 4
  BY <1>1, <1>3, AnswerKnown, NextStepPlace DEF StepOf
<1>5. world[t].spRuns > 0 /\ world[t].spEvent
  BY <1>1, <1>3, <1>4, AnswerKnown DEF Happened
<1> HIDE DEF j
<1>6. /\ m \in Journal /\ m.phases = 5 /\ m.prepared = None
      /\ m.status = j.status /\ SameWork(m, j)
  BY <1>3, SlotSpentWrite
<1> HIDE DEF m
<1>7. JournalOK(m)
  BY <1>3, <1>4, <1>6 DEF JournalOK, Consistent, SameWork
<1>8. WorldOK(m, world[t], todo[t])
  BY <1>3, <1>4, <1>5, <1>6 DEF WorldOK, World, SameWork
<1>9. \A pr \in Process :
        pr.pc = "reduce" /\ pr.mem = m /\ pr.obs = None
          /\ pr.terminal = proc[p].terminal =>
            SettlementKnows(pr, world[t], todo[t]) /\ ReductionKnows(pr, world[t], todo[t])
  BY <1>1, <1>3, <1>4, <1>6, NoneAssumption
  DEF SettlementKnows, Settling, Progressing, ReductionKnows, SameWork, HostFailures
<1>10. "reduce" \in Settling /\ None \in Observations
  BY DEF Settling, Observations
<1> QED BY <1>1, <1>4, <1>6, <1>7, <1>8, <1>9, <1>10, SettlementWrote DEF j, JournalOK

LEMMA CheckpointCloseoutOK ==
  ASSUME Inv, NEW p \in Processes, Checkpoint(p), StepOf(p) = "terminal_closeout"
  PROVE  Inv'
<1> DEFINE t == TurnOf(p)
           j == Mem(p)
           d == todo[t]
           m == ClosedOut(j)
<1>1. /\ proc[p].pc = "reduce" /\ proc[p].obs \in {"returned", "found"}
      /\ ~CompletionWrong(p)
      /\ PersistAnd(p, m, "reduce", None) /\ UNCHANGED effects /\ UNCHANGED faults
  BY DEF Checkpoint, Reducing, At, Persist, ClosedOut
<1>2. proc[p].pc \in Settling \cup {"settle"}
  BY <1>1 DEF Settling
<1>3. /\ proc[p] \in Process /\ t \in Turns /\ j \in Journal /\ proc[p].mem = j
      /\ world[t] \in World /\ d \in TodoState
      /\ WorldOK(j, world[t], d) /\ JournalOK(j)
      /\ SettlementKnows(proc[p], world[t], d)
      /\ j.phases \in {3, 4, 5} /\ j.kind # "stop"
      /\ world[t].launches = world[t].reported
  BY <1>2, SettlingFacts
<1>4. j.prepared = "terminal_closeout" /\ j.status = "in_progress" /\ j.phases = 5
  BY <1>1, <1>3, AnswerKnown, NextStepPlace DEF StepOf
<1>5. d.event /\ d.done = "no_followup"
  BY <1>1, <1>3, <1>4, AnswerKnown DEF Happened, CompletionWrong, TurnOf
<1> HIDE DEF j, d
<1>6. /\ m \in Journal /\ m.phases = j.phases /\ m.writeback = "no_followup"
      /\ m.prepared = None /\ m.status = j.status /\ m.kind = j.kind /\ m.closeout = TRUE
  BY <1>3, ClosedOutWrite
<1> HIDE DEF m
<1>7. JournalOK(m)
  BY <1>3, <1>4, <1>6 DEF JournalOK, Consistent
<1>8. WorldOK(m, world[t], d)
  BY <1>3, <1>4, <1>5, <1>6 DEF WorldOK, World
<1>9. \A pr \in Process :
        pr.pc = "reduce" /\ pr.mem = m /\ pr.obs = None
          /\ pr.terminal = proc[p].terminal =>
            SettlementKnows(pr, world[t], d) /\ ReductionKnows(pr, world[t], d)
  BY <1>1, <1>3, <1>4, <1>6, NoneAssumption
  DEF SettlementKnows, Settling, Progressing, ReductionKnows, HostFailures
<1>10. "reduce" \in Settling /\ None \in Observations
  BY DEF Settling, Observations
<1> QED BY <1>1, <1>4, <1>6, <1>7, <1>8, <1>9, <1>10, SettlementWrote DEF j, d, JournalOK

LEMMA CheckpointOK ==
  ASSUME Inv, NEW p \in Processes, Checkpoint(p)
  PROVE  Inv'
<1>1. proc[p].pc = "reduce" /\ proc[p].obs \in {"returned", "found"}
  BY DEF Checkpoint, Reducing, At
<1>2. StepOf(p) \in Steps
  BY <1>1, AnswerKnown
<1> QED BY <1>2, CheckpointWritebackOK, CheckpointSpendOK, CheckpointCloseoutOK DEF Steps

(* A rejected effect never happened, so its preparation can be taken back. *)
LEMMA AbortPreparedOK ==
  ASSUME Inv, NEW p \in Processes, AbortPrepared(p)
  PROVE  Inv'
<1> DEFINE t == TurnOf(p)
           j == Mem(p)
           m == PreparedFor(j, None)
<1>1. /\ proc[p].pc = "reduce" /\ proc[p].obs = "rejected"
      /\ PersistAnd(p, m, "reduce", "aborted") /\ UNCHANGED effects /\ UNCHANGED faults
  BY DEF AbortPrepared, Reducing, At, PreparedFor
<1>2. proc[p].pc \in Settling \cup {"settle"}
  BY <1>1 DEF Settling
<1>3. /\ proc[p] \in Process /\ t \in Turns /\ j \in Journal /\ proc[p].mem = j
      /\ world[t] \in World /\ todo[t] \in TodoState
      /\ WorldOK(j, world[t], todo[t]) /\ JournalOK(j)
      /\ SettlementKnows(proc[p], world[t], todo[t])
      /\ ReductionKnows(proc[p], world[t], todo[t])
      /\ j.phases \in {3, 4, 5} /\ j.kind # "stop"
      /\ j.prepared # None => j.status = "in_progress"
      /\ world[t].launches = world[t].reported
  BY <1>2, SettlingFacts
<1>4. /\ j.prepared # None /\ NotYet(proc[p], world[t]) /\ j.status = "in_progress"
      /\ NextStep(j, proc[p].terminal) \in Steps
  BY <1>1, <1>3, NoneAssumption DEF ReductionKnows
<1> HIDE DEF j
<1>5. /\ m \in Journal /\ m.prepared = None /\ m.status = j.status /\ m.phases = j.phases
      /\ m.failedAt = j.failedAt /\ SameWork(m, j)
  BY <1>3, PreparedForWrite
<1> HIDE DEF m
<1>6. JournalOK(m)
  BY <1>3, <1>4, <1>5 DEF JournalOK, Consistent, SameWork
<1>7. WorldOK(m, world[t], todo[t])
  <2>1. j.prepared = "durable_writeback" => world[t].wbRuns = 0
    BY <1>3, <1>4 DEF NotYet
  <2>2. j.prepared = "quota_spend" => world[t].spRuns = 0
    BY <1>3, <1>4 DEF NotYet
  <2> QED BY <2>1, <2>2, <1>3, <1>5 DEF WorldOK, World, SameWork
<1>8. \A pr \in Process :
        pr.pc = "reduce" /\ pr.mem = m /\ pr.obs = "aborted"
          /\ pr.terminal = proc[p].terminal =>
            SettlementKnows(pr, world[t], todo[t]) /\ ReductionKnows(pr, world[t], todo[t])
  BY <1>1, <1>3, <1>4, <1>5
  DEF SettlementKnows, Settling, Progressing, ReductionKnows, SameWork, NextStep
<1>9. "reduce" \in Settling /\ "aborted" \in Observations
  BY DEF Settling, Observations
<1> QED BY <1>1, <1>4, <1>5, <1>6, <1>7, <1>8, <1>9, SettlementWrote DEF j, JournalOK

SettlementFailed(j, step) == [j EXCEPT !.status = "failed", !.failedAt = step]

LEMMA SettlementFailedWrite ==
  ASSUME NEW j \in Journal, NEW step \in Steps, NEW m, m = SettlementFailed(j, step)
  PROVE  /\ m \in Journal /\ m.status = "failed" /\ m.phases = j.phases
         /\ m.prepared = j.prepared /\ SameWork(m, j)
<1>1. m \in Journal
  BY DEF Journal, Statuses, SettlementFailed
<1>2. /\ m.status = "failed" /\ m.phases = j.phases /\ m.prepared = j.prepared
      /\ SameWork(m, j)
  BY DEF Journal, SameWork, SettlementFailed
<1> QED BY <1>1, <1>2

LEMMA FailSettlementOK ==
  ASSUME Inv, NEW p \in Processes, proc[p].pc = "reduce", NEW step \in Steps,
         FailSettlement(p, step)
  PROVE  Inv'
<1> DEFINE t == TurnOf(p)
           j == Mem(p)
           m == SettlementFailed(j, step)
<1>1. /\ PersistAnd(p, m, Done(p), None) /\ UNCHANGED effects /\ UNCHANGED faults
      /\ Done(p) \in {"finish", "leave"}
  BY DEF FailSettlement, Persist, SettlementFailed, Done
<1>2. proc[p].pc \in Settling \cup {"settle"}
  BY DEF Settling
<1>3. /\ ~At(p, "idle") /\ t \in Turns /\ j \in Journal /\ world[t] \in World
      /\ WorldOK(j, world[t], todo[t]) /\ JournalOK(j)
      /\ j.phases \in {3, 4, 5} /\ j.kind # "stop"
      /\ world[t].launches = world[t].reported
  BY <1>2, SettlingFacts
<1> HIDE DEF j
<1>4. /\ m \in Journal /\ m.status = "failed" /\ m.phases = j.phases
      /\ m.prepared = j.prepared /\ SameWork(m, j)
  BY <1>3, SettlementFailedWrite
<1> HIDE DEF m
<1>5. Consistent(m) => JournalOK(m)
  BY <1>3, <1>4 DEF JournalOK, SameWork
<1>6. WorldOK(m, world[t], todo[t])
  BY <1>3, <1>4 DEF WorldOK, SameWork
<1>7. /\ KindOfWrite(journal[t], m) # "progress"
      /\ WriteAdmitted(journal[t], m) => Consistent(m)
  BY <1>4 DEF KindOfWrite, WriteAdmitted
<1>8. \A pr \in Process : pr.pc = Done(p) /\ pr.mem = m => Knows(pr, world[t], todo[t])
  BY <1>1, <1>3
  DEF Knows, HostKnows, SettlementKnows, ReductionKnows, TailKnows, Settling
<1>9. None \in Observations /\ Done(p) \in Points \ {"idle", "lock"}
  BY <1>1 DEF Observations, Points
<1> QED BY <1>1, <1>3, <1>4, <1>5, <1>6, <1>7, <1>8, <1>9, Wrote

LEMMA SettlementFailsOK ==
  ASSUME Inv, NEW p \in Processes, SettlementFails(p)
  PROVE  Inv'
<1>1. CASE At(p, "reduce") /\ CompletionMissing(p) /\ FailSettlement(p, "durable_writeback")
  BY <1>1, FailSettlementOK DEF At, Steps
<1>2. CASE /\ Reducing(p)
           /\ \/ proc[p].obs \in {"unknown", "aborted"}
              \/ proc[p].obs \in {"returned", "found"} /\ CompletionWrong(p)
           /\ FailSettlement(p, StepOf(p))
  <2>1. proc[p].pc = "reduce" /\ proc[p].obs # None
    BY <1>2, NoneAssumption DEF Reducing, At, HostFailures
  <2>2. ReductionKnows(proc[p], world[TurnOf(p)], todo[TurnOf(p)]) /\ proc[p].mem = Mem(p)
    BY <2>1, SettlingFacts DEF Settling
  <2>3. StepOf(p) \in Steps
    BY <2>1, <2>2 DEF ReductionKnows, StepOf
  <2> QED BY <1>2, <2>1, <2>3, FailSettlementOK
<1> QED BY <1>1, <1>2 DEF SettlementFails

(* The providers.                                                            *)

(* What a provider that runs knows: which effect it carries out. *)
LEMMA Providing ==
  ASSUME Inv, NEW p \in Processes, proc[p].pc \in Settling \ {"reduce"}
  PROVE  /\ Mem(p).prepared \in Steps /\ StepOf(p) = Mem(p).prepared
         /\ PreparedStep(proc[p]) /\ Mem(p).status = "in_progress"
         /\ Mem(p).prepared = "durable_writeback" => Mem(p).phases = 3
         /\ Mem(p).prepared = "quota_spend" => Mem(p).phases = 4
         /\ Mem(p).prepared = "terminal_closeout" =>
              Mem(p).phases = 5 /\ proc[p].terminal /\ ~Mem(p).closeout
<1>1. proc[p].pc \in Settling \cup {"settle"}
  OBVIOUS
<1>2. /\ SettlementKnows(proc[p], world[TurnOf(p)], todo[TurnOf(p)])
      /\ Mem(p) \in Journal /\ proc[p].mem = Mem(p) /\ Mem(p).phases \in {3, 4, 5}
      /\ Mem(p).prepared # None => Mem(p).status = "in_progress"
  BY <1>1, SettlingFacts
<1>3. Mem(p).prepared # None /\ PreparedStep(proc[p])
  BY <1>2 DEF SettlementKnows
<1>4. Mem(p).prepared = NextStep(Mem(p), proc[p].terminal)
  BY <1>2, <1>3 DEF PreparedStep
<1> QED BY <1>2, <1>3, <1>4, NextStepPlace, JournalFields DEF StepOf

LEMMA CompleteTodoOK ==
  ASSUME Inv, NEW p \in Processes, CompleteTodo(p)
  PROVE  Inv'
<1> DEFINE t == TurnOf(p)
           j == Mem(p)
           c == todo[t]
           done == IF c.done # None /\ StepOf(p) = "durable_writeback"
                   THEN c.done ELSE c.cont
           d == [c EXCEPT !.done = done]
           pr == [proc[p] EXCEPT !.pc = "completeEvent"]
<1>1. /\ proc[p].pc = "complete" /\ proc' = [proc EXCEPT ![p] = pr]
      /\ todo' = [todo EXCEPT ![t] = d]
      /\ UNCHANGED journal /\ UNCHANGED refused /\ UNCHANGED lane /\ UNCHANGED jlock
      /\ UNCHANGED world /\ UNCHANGED faults
  BY DEF CompleteTodo, At, Goto, TurnOf, store
<1>2. /\ proc[p].pc \in Settling \cup {"settle"} /\ proc[p].pc \in Settling \ {"reduce"}
  BY <1>1 DEF Settling
<1>3. /\ proc[p] \in Process /\ t \in Turns /\ j \in Journal /\ proc[p].mem = j
      /\ world[t] \in World /\ c \in TodoState
      /\ WorldOK(j, world[t], c) /\ JournalOK(j)
      /\ SettlementKnows(proc[p], world[t], c)
      /\ j.phases \in {3, 4, 5} /\ j.kind # "stop"
      /\ world[t].launches = world[t].reported
  BY <1>2, SettlingFacts
<1>4. /\ j.prepared \in Steps /\ StepOf(p) = j.prepared /\ PreparedStep(proc[p])
      /\ j.prepared = "durable_writeback" => j.phases = 3
      /\ j.prepared = "terminal_closeout" => j.phases = 5 /\ proc[p].terminal /\ ~j.closeout
  BY <1>2, Providing
<1>5. /\ \/ j.prepared = "durable_writeback" /\ IsCompleting(proc[p])
         \/ j.prepared = "terminal_closeout"
      /\ NotYet(proc[p], world[t])
      /\ proc[p].terminal => j.kind = "completion" /\ j.writeback # "successor"
      /\ proc[p].terminal /\ j.phases = 3 /\ c.done # None => c.done = "no_followup"
      /\ Progressing(proc[p])
  BY <1>1, <1>2, <1>3 DEF SettlementKnows, Settling
<1>6. j.kind = "completion"
  BY <1>3, <1>4, <1>5 DEF IsCompleting
<1>7. done \in Continuations /\ done = c.cont
  BY <1>3 DEF WorldOK, TodoState
<1> HIDE DEF j, c, done
<1>8. /\ d \in TodoState /\ d.cont = c.cont /\ d.done = done /\ d.event = c.event
      /\ d.done # None
  BY <1>3, <1>7, NoneAssumption DEF TodoState
<1>9. /\ pr \in Process /\ pr.pc = "completeEvent" /\ pr.turn = t /\ pr.mem = j
      /\ pr.terminal = proc[p].terminal
  BY <1>3 DEF Process, Points, TurnOf
<1> HIDE DEF d, pr
<1>10. WorldOK(j, world[t], d)
  <2>1. j.writeback # "successor" /\ ~j.closeout
    BY <1>3, <1>4, <1>5, NoneAssumption DEF JournalOK, Continuations
  <2>2. ~(j.phases = 3 /\ world[t].wbRuns > 0)
    BY <1>3, <1>4, <1>5 DEF NotYet, World
  <2> QED BY <2>1, <2>2, <1>3, <1>6, <1>7, <1>8 DEF WorldOK
<1>11. SettlementKnows(pr, world[t], d)
  <2>1. /\ IsCompleting(pr) = IsCompleting(proc[p]) /\ NotYet(pr, world[t])
        /\ PreparedStep(pr) /\ Progressing(pr)
    BY <1>3, <1>4, <1>5, <1>9 DEF IsCompleting, NotYet, PreparedStep, Progressing
  <2>2. ~(pr.terminal /\ j.phases = 3)
    BY <1>4, <1>5, <1>9 DEF IsCompleting
  <2> QED BY <2>1, <2>2, <1>3, <1>4, <1>5, <1>8, <1>9, NoneAssumption
          DEF SettlementKnows, Settling
<1>12. ReductionKnows(pr, world[t], d)
  BY <1>9 DEF ReductionKnows
<1>13. world' = [world EXCEPT ![t] = world[t]] /\ pr.pc \in Settling
  BY <1>1, <1>3, <1>9, SameEffects DEF Settling
<1> QED BY <1>1, <1>2, <1>3, <1>8, <1>9, <1>10, <1>11, <1>12, <1>13, Settled_Went DEF j

LEMMA RecordCompletionOK ==
  ASSUME Inv, NEW p \in Processes, RecordCompletion(p)
  PROVE  Inv'
<1> DEFINE t == TurnOf(p)
           j == Mem(p)
           c == todo[t]
           d == [c EXCEPT !.event = TRUE]
           durable == StepOf(p) = "durable_writeback"
<1>1. /\ proc[p].pc = "completeEvent"
      /\ todo' = [todo EXCEPT ![t] = d]
      /\ durable => proc' = [proc EXCEPT ![p] = [proc[p] EXCEPT !.pc = "refresh"]]
      /\ ~durable => proc' = [proc EXCEPT ![p] =
                                [proc[p] EXCEPT !.pc = "reduce", !.obs = "returned"]]
      /\ UNCHANGED journal /\ UNCHANGED refused /\ UNCHANGED lane /\ UNCHANGED jlock
      /\ UNCHANGED world /\ UNCHANGED faults
  BY DEF RecordCompletion, At, Goto, Returned, TurnOf, store
<1>2. /\ proc[p].pc \in Settling \cup {"settle"} /\ proc[p].pc \in Settling \ {"reduce"}
  BY <1>1 DEF Settling
<1>3. /\ proc[p] \in Process /\ t \in Turns /\ j \in Journal /\ proc[p].mem = j
      /\ world[t] \in World /\ c \in TodoState
      /\ WorldOK(j, world[t], c)
      /\ SettlementKnows(proc[p], world[t], c)
      /\ j.phases \in {3, 4, 5}
      /\ world[t].launches = world[t].reported
  BY <1>2, SettlingFacts
<1>4. /\ j.prepared \in Steps /\ StepOf(p) = j.prepared /\ PreparedStep(proc[p])
      /\ NextStep(j, proc[p].terminal) = j.prepared
  BY <1>2, <1>3, Providing DEF PreparedStep
<1>5. /\ \/ j.prepared = "durable_writeback" /\ IsCompleting(proc[p])
         \/ j.prepared = "terminal_closeout"
      /\ NotYet(proc[p], world[t])
      /\ proc[p].terminal => j.kind = "completion" /\ j.writeback # "successor"
      /\ proc[p].terminal /\ j.phases = 3 /\ c.done # None => c.done = "no_followup"
      /\ Progressing(proc[p]) /\ c.done # None
  BY <1>1, <1>2, <1>3 DEF SettlementKnows, Settling
<1>6. PICK n \in {"refresh", "reduce"}, o \in {proc[p].obs, "returned"} :
        /\ proc' = [proc EXCEPT ![p] = [proc[p] EXCEPT !.pc = n, !.obs = o]]
        /\ n = "refresh" => durable
        /\ n = "reduce" => ~durable /\ o = "returned"
  <2>1. CASE durable
    <3>1. [proc[p] EXCEPT !.pc = "refresh"] =
            [proc[p] EXCEPT !.pc = "refresh", !.obs = proc[p].obs]
      BY <1>3 DEF Process
    <3> QED BY <2>1, <3>1, <1>1
  <2>2. CASE ~durable
    BY <2>2, <1>1
  <2> QED BY <2>1, <2>2
<1> DEFINE pr == [proc[p] EXCEPT !.pc = n, !.obs = o]
<1>7. durable => j.prepared = "durable_writeback"
  BY <1>4
<1>8. ~durable => j.prepared = "terminal_closeout"
  BY <1>4, <1>5
<1> HIDE DEF j, c, durable
<1>9. /\ d \in TodoState /\ d.cont = c.cont /\ d.done = c.done /\ d.event
  BY <1>3 DEF TodoState
<1>10. /\ pr \in Process /\ pr.pc = n /\ pr.turn = t /\ pr.mem = j
       /\ pr.terminal = proc[p].terminal /\ pr.obs = o
  BY <1>3, <1>6 DEF Process, Points, TurnOf, Observations
<1> HIDE DEF d, pr
<1>11. WorldOK(j, world[t], d)
  BY <1>3, <1>9, EventsAdded
<1>12. /\ IsCompleting(pr) = IsCompleting(proc[p]) /\ NotYet(pr, world[t])
       /\ PreparedStep(pr) /\ Progressing(pr)
  BY <1>3, <1>4, <1>5, <1>10 DEF IsCompleting, NotYet, PreparedStep, Progressing
<1>13. SettlementKnows(pr, world[t], d)
  BY <1>3, <1>4, <1>5, <1>6, <1>7, <1>9, <1>10, <1>12, NoneAssumption
  DEF SettlementKnows, Settling
<1>14. ReductionKnows(pr, world[t], d)
  <2>1. n = "reduce" => Happened(pr, world[t], d)
    BY <1>6, <1>8, <1>9, <1>10 DEF Happened
  <2> QED BY <2>1, <1>4, <1>6, <1>10, <1>12, NoneAssumption DEF ReductionKnows
<1>15. world' = [world EXCEPT ![t] = world[t]] /\ pr.pc \in Settling
  BY <1>1, <1>3, <1>6, <1>10, SameEffects DEF Settling
<1>16. proc' = [proc EXCEPT ![p] = pr]
  BY <1>6 DEF pr
<1> QED BY <1>1, <1>2, <1>3, <1>9, <1>10, <1>11, <1>13, <1>14, <1>15, <1>16,
           Settled_Went DEF j

LEMMA RefreshStateOK ==
  ASSUME Inv, NEW p \in Processes, RefreshState(p)
  PROVE  Inv'
<1> DEFINE t == TurnOf(p)
           j == Mem(p)
           w == [world[t] EXCEPT !.wbRuns = @ + 1]
           pr == [proc[p] EXCEPT !.pc = "refreshEvent"]
<1>1. /\ proc[p].pc = "refresh" /\ proc' = [proc EXCEPT ![p] = pr]
      /\ world' = [world EXCEPT ![t] = w]
      /\ UNCHANGED journal /\ UNCHANGED refused /\ UNCHANGED lane /\ UNCHANGED jlock
      /\ UNCHANGED todo /\ UNCHANGED faults
  BY DEF RefreshState, At, Goto, TurnOf, store
<1>2. /\ proc[p].pc \in Settling \cup {"settle"} /\ proc[p].pc \in Settling \ {"reduce"}
  BY <1>1 DEF Settling
<1>3. /\ proc[p] \in Process /\ t \in Turns /\ j \in Journal /\ proc[p].mem = j
      /\ world[t] \in World /\ todo[t] \in TodoState
      /\ WorldOK(j, world[t], todo[t])
      /\ SettlementKnows(proc[p], world[t], todo[t])
      /\ j.phases \in {3, 4, 5}
      /\ world[t].launches = world[t].reported
  BY <1>2, SettlingFacts
<1>4. /\ j.prepared \in Steps /\ PreparedStep(proc[p])
      /\ NextStep(j, proc[p].terminal) = j.prepared
      /\ j.prepared = "durable_writeback" => j.phases = 3
      /\ j.prepared = "quota_spend" => j.phases = 4
  BY <1>2, <1>3, Providing DEF PreparedStep
<1>5. /\ proc[p].terminal => j.kind = "completion" /\ j.writeback # "successor"
      /\ proc[p].terminal /\ j.phases = 3 /\ todo[t].done # None =>
           todo[t].done = "no_followup"
      /\ Progressing(proc[p])
      /\ j.prepared = "durable_writeback" /\ NotYet(proc[p], world[t])
      /\ IsCompleting(proc[p]) => todo[t].done # None /\ todo[t].event
  BY <1>1, <1>2, <1>3 DEF SettlementKnows, Settling
<1> HIDE DEF j
<1>6. /\ w \in World /\ w.wbRuns = 1 /\ w.spRuns = world[t].spRuns
      /\ w.launches = world[t].launches /\ w.reported = world[t].reported
      /\ w.passed = world[t].passed /\ w.wbEvent = world[t].wbEvent
      /\ w.spEvent = world[t].spEvent
  <2>1. world[t].wbRuns = 0
    BY <1>3, <1>5 DEF NotYet
  <2> QED BY <1>3, <2>1 DEF World
<1>7. /\ pr \in Process /\ pr.pc = "refreshEvent" /\ pr.turn = t /\ pr.mem = j
      /\ pr.terminal = proc[p].terminal
  BY <1>3 DEF Process, Points, TurnOf
<1> HIDE DEF w, pr
<1>8. /\ IsCompleting(pr) = IsCompleting(proc[p])
      /\ PreparedStep(pr) /\ Progressing(pr)
  BY <1>3, <1>4, <1>5, <1>7 DEF IsCompleting, PreparedStep, Progressing
<1>9. WorldOK(j, w, todo[t])
  <2>1. todo[t].done = "successor" => todo[t].event
    BY <1>3, <1>4, <1>5, NoneAssumption DEF WorldOK, IsCompleting, Continuations
  <2> QED BY <2>1, <1>3, <1>4, <1>5, <1>6 DEF WorldOK
<1>10. SettlementKnows(pr, w, todo[t])
  BY <1>3, <1>4, <1>5, <1>6, <1>7, <1>8, NoneAssumption DEF SettlementKnows, Settling
<1>11. ReductionKnows(pr, w, todo[t])
  BY <1>7 DEF ReductionKnows
<1>12. todo' = [todo EXCEPT ![t] = todo[t]] /\ pr.pc \in Settling /\ w.launches = w.reported
  BY <1>1, <1>3, <1>6, <1>7, SameEffects DEF Settling
<1> QED BY <1>1, <1>2, <1>3, <1>6, <1>7, <1>9, <1>10, <1>11, <1>12, Settled_Went DEF j

LEMMA SpendQuotaSlotOK ==
  ASSUME Inv, NEW p \in Processes, SpendQuotaSlot(p)
  PROVE  Inv'
<1> DEFINE t == TurnOf(p)
           j == Mem(p)
           w == [world[t] EXCEPT !.spRuns = @ + 1]
           pr == [proc[p] EXCEPT !.pc = "spendEvent"]
<1>1. /\ proc[p].pc = "spend" /\ proc' = [proc EXCEPT ![p] = pr]
      /\ world' = [world EXCEPT ![t] = w]
      /\ UNCHANGED journal /\ UNCHANGED refused /\ UNCHANGED lane /\ UNCHANGED jlock
      /\ UNCHANGED todo /\ UNCHANGED faults
  BY DEF SpendQuotaSlot, At, Goto, TurnOf, store
<1>2. /\ proc[p].pc \in Settling \cup {"settle"} /\ proc[p].pc \in Settling \ {"reduce"}
  BY <1>1 DEF Settling
<1>3. /\ proc[p] \in Process /\ t \in Turns /\ j \in Journal /\ proc[p].mem = j
      /\ world[t] \in World /\ todo[t] \in TodoState
      /\ WorldOK(j, world[t], todo[t])
      /\ SettlementKnows(proc[p], world[t], todo[t])
      /\ j.phases \in {3, 4, 5}
      /\ world[t].launches = world[t].reported
  BY <1>2, SettlingFacts
<1>4. /\ j.prepared \in Steps /\ PreparedStep(proc[p])
      /\ NextStep(j, proc[p].terminal) = j.prepared
      /\ j.prepared = "durable_writeback" => j.phases = 3
      /\ j.prepared = "quota_spend" => j.phases = 4
  BY <1>2, <1>3, Providing DEF PreparedStep
<1>5. /\ proc[p].terminal => j.kind = "completion" /\ j.writeback # "successor"
      /\ proc[p].terminal /\ j.phases = 3 /\ todo[t].done # None =>
           todo[t].done = "no_followup"
      /\ Progressing(proc[p])
      /\ j.prepared = "quota_spend" /\ NotYet(proc[p], world[t])
  BY <1>1, <1>2, <1>3 DEF SettlementKnows, Settling
<1> HIDE DEF j
<1>6. /\ w \in World /\ w.spRuns = 1 /\ w.wbRuns = world[t].wbRuns
      /\ w.launches = world[t].launches /\ w.reported = world[t].reported
      /\ w.passed = world[t].passed /\ w.wbEvent = world[t].wbEvent
      /\ w.spEvent = world[t].spEvent
  <2>1. world[t].spRuns = 0
    BY <1>3, <1>5 DEF NotYet
  <2> QED BY <1>3, <2>1 DEF World
<1>7. /\ pr \in Process /\ pr.pc = "spendEvent" /\ pr.turn = t /\ pr.mem = j
      /\ pr.terminal = proc[p].terminal
  BY <1>3 DEF Process, Points, TurnOf
<1> HIDE DEF w, pr
<1>8. /\ IsCompleting(pr) = IsCompleting(proc[p])
      /\ PreparedStep(pr) /\ Progressing(pr)
  BY <1>3, <1>4, <1>5, <1>7 DEF IsCompleting, PreparedStep, Progressing
<1>9. WorldOK(j, w, todo[t])
  BY <1>3, <1>4, <1>5, <1>6 DEF WorldOK
<1>10. SettlementKnows(pr, w, todo[t])
  BY <1>3, <1>4, <1>5, <1>6, <1>7, <1>8, NoneAssumption DEF SettlementKnows, Settling
<1>11. ReductionKnows(pr, w, todo[t])
  BY <1>7 DEF ReductionKnows
<1>12. todo' = [todo EXCEPT ![t] = todo[t]] /\ pr.pc \in Settling /\ w.launches = w.reported
  BY <1>1, <1>3, <1>6, <1>7, SameEffects DEF Settling
<1> QED BY <1>1, <1>2, <1>3, <1>6, <1>7, <1>9, <1>10, <1>11, <1>12, Settled_Went DEF j

LEMMA RecordRefreshOK ==
  ASSUME Inv, NEW p \in Processes, RecordRefresh(p)
  PROVE  Inv'
<1> DEFINE t == TurnOf(p)
           j == Mem(p)
           w == [world[t] EXCEPT !.wbEvent = TRUE]
           pr == [proc[p] EXCEPT !.pc = "reduce", !.obs = "returned"]
<1>1. /\ proc[p].pc = "refreshEvent" /\ proc' = [proc EXCEPT ![p] = pr]
      /\ world' = [world EXCEPT ![t] = w]
      /\ UNCHANGED journal /\ UNCHANGED refused /\ UNCHANGED lane /\ UNCHANGED jlock
      /\ UNCHANGED todo /\ UNCHANGED faults
  BY DEF RecordRefresh, At, Returned, TurnOf, store
<1>2. /\ proc[p].pc \in Settling \cup {"settle"} /\ proc[p].pc \in Settling \ {"reduce"}
  BY <1>1 DEF Settling
<1>3. /\ proc[p] \in Process /\ t \in Turns /\ j \in Journal /\ proc[p].mem = j
      /\ world[t] \in World /\ todo[t] \in TodoState
      /\ WorldOK(j, world[t], todo[t])
      /\ SettlementKnows(proc[p], world[t], todo[t])
      /\ j.phases \in {3, 4, 5}
      /\ world[t].launches = world[t].reported
  BY <1>2, SettlingFacts
<1>4. /\ j.prepared \in Steps /\ PreparedStep(proc[p])
      /\ NextStep(j, proc[p].terminal) = j.prepared
      /\ j.prepared = "durable_writeback" => j.phases = 3
      /\ j.prepared = "quota_spend" => j.phases = 4
  BY <1>2, <1>3, Providing DEF PreparedStep
<1>5. /\ proc[p].terminal => j.kind = "completion" /\ j.writeback # "successor"
      /\ proc[p].terminal /\ j.phases = 3 /\ todo[t].done # None =>
           todo[t].done = "no_followup"
      /\ Progressing(proc[p])
      /\ j.prepared = "durable_writeback" /\ world[t].wbRuns > 0
      /\ IsCompleting(proc[p]) => todo[t].done # None /\ todo[t].event
  BY <1>1, <1>2, <1>3 DEF SettlementKnows, Settling
<1> HIDE DEF j
<1>6. /\ w \in World /\ w.wbRuns = world[t].wbRuns /\ w.spRuns = world[t].spRuns
      /\ w.launches = world[t].launches /\ w.reported = world[t].reported
      /\ w.passed = world[t].passed /\ w.wbEvent
      /\ world[t].wbEvent => w.wbEvent
      /\ world[t].spEvent => w.spEvent
  BY <1>3 DEF World
<1>7. /\ pr \in Process /\ pr.pc = "reduce" /\ pr.turn = t /\ pr.mem = j
      /\ pr.terminal = proc[p].terminal /\ pr.obs = "returned"
  BY <1>3 DEF Process, Points, Observations, TurnOf
<1> HIDE DEF w, pr
<1>8. /\ IsCompleting(pr) = IsCompleting(proc[p])
      /\ PreparedStep(pr) /\ Progressing(pr)
  BY <1>3, <1>4, <1>5, <1>7 DEF IsCompleting, PreparedStep, Progressing
<1>9. WorldOK(j, w, todo[t])
  BY <1>3, <1>6, EventsAdded
<1>10. SettlementKnows(pr, w, todo[t])
  BY <1>3, <1>5, <1>7, <1>8 DEF SettlementKnows, Settling
<1>11. ReductionKnows(pr, w, todo[t])
  <2>1. Happened(pr, w, todo[t])
    BY <1>5, <1>6, <1>7, <1>8 DEF Happened
  <2> QED BY <2>1, <1>4, <1>7, <1>8, NoneAssumption DEF ReductionKnows
<1>12. todo' = [todo EXCEPT ![t] = todo[t]] /\ pr.pc \in Settling /\ w.launches = w.reported
  BY <1>1, <1>3, <1>6, <1>7, SameEffects DEF Settling
<1> QED BY <1>1, <1>2, <1>3, <1>6, <1>7, <1>9, <1>10, <1>11, <1>12, Settled_Went DEF j

LEMMA RecordSpendOK ==
  ASSUME Inv, NEW p \in Processes, RecordSpend(p)
  PROVE  Inv'
<1> DEFINE t == TurnOf(p)
           j == Mem(p)
           w == [world[t] EXCEPT !.spEvent = TRUE]
           pr == [proc[p] EXCEPT !.pc = "reduce", !.obs = "returned"]
<1>1. /\ proc[p].pc = "spendEvent" /\ proc' = [proc EXCEPT ![p] = pr]
      /\ world' = [world EXCEPT ![t] = w]
      /\ UNCHANGED journal /\ UNCHANGED refused /\ UNCHANGED lane /\ UNCHANGED jlock
      /\ UNCHANGED todo /\ UNCHANGED faults
  BY DEF RecordSpend, At, Returned, TurnOf, store
<1>2. /\ proc[p].pc \in Settling \cup {"settle"} /\ proc[p].pc \in Settling \ {"reduce"}
  BY <1>1 DEF Settling
<1>3. /\ proc[p] \in Process /\ t \in Turns /\ j \in Journal /\ proc[p].mem = j
      /\ world[t] \in World /\ todo[t] \in TodoState
      /\ WorldOK(j, world[t], todo[t])
      /\ SettlementKnows(proc[p], world[t], todo[t])
      /\ j.phases \in {3, 4, 5}
      /\ world[t].launches = world[t].reported
  BY <1>2, SettlingFacts
<1>4. /\ j.prepared \in Steps /\ PreparedStep(proc[p])
      /\ NextStep(j, proc[p].terminal) = j.prepared
      /\ j.prepared = "durable_writeback" => j.phases = 3
      /\ j.prepared = "quota_spend" => j.phases = 4
  BY <1>2, <1>3, Providing DEF PreparedStep
<1>5. /\ proc[p].terminal => j.kind = "completion" /\ j.writeback # "successor"
      /\ proc[p].terminal /\ j.phases = 3 /\ todo[t].done # None =>
           todo[t].done = "no_followup"
      /\ Progressing(proc[p])
      /\ j.prepared = "quota_spend" /\ world[t].spRuns > 0
  BY <1>1, <1>2, <1>3 DEF SettlementKnows, Settling
<1> HIDE DEF j
<1>6. /\ w \in World /\ w.wbRuns = world[t].wbRuns /\ w.spRuns = world[t].spRuns
      /\ w.launches = world[t].launches /\ w.reported = world[t].reported
      /\ w.passed = world[t].passed /\ w.spEvent
      /\ world[t].wbEvent => w.wbEvent
      /\ world[t].spEvent => w.spEvent
  BY <1>3 DEF World
<1>7. /\ pr \in Process /\ pr.pc = "reduce" /\ pr.turn = t /\ pr.mem = j
      /\ pr.terminal = proc[p].terminal /\ pr.obs = "returned"
  BY <1>3 DEF Process, Points, Observations, TurnOf
<1> HIDE DEF w, pr
<1>8. /\ IsCompleting(pr) = IsCompleting(proc[p])
      /\ PreparedStep(pr) /\ Progressing(pr)
  BY <1>3, <1>4, <1>5, <1>7 DEF IsCompleting, PreparedStep, Progressing
<1>9. WorldOK(j, w, todo[t])
  BY <1>3, <1>6, EventsAdded
<1>10. SettlementKnows(pr, w, todo[t])
  BY <1>3, <1>5, <1>7, <1>8 DEF SettlementKnows, Settling
<1>11. ReductionKnows(pr, w, todo[t])
  <2>1. Happened(pr, w, todo[t])
    BY <1>5, <1>6, <1>7, <1>8 DEF Happened
  <2> QED BY <2>1, <1>4, <1>7, <1>8, NoneAssumption DEF ReductionKnows
<1>12. todo' = [todo EXCEPT ![t] = todo[t]] /\ pr.pc \in Settling /\ w.launches = w.reported
  BY <1>1, <1>3, <1>6, <1>7, SameEffects DEF Settling
<1> QED BY <1>1, <1>2, <1>3, <1>6, <1>7, <1>9, <1>10, <1>11, <1>12, Settled_Went DEF j

LEMMA ProviderRejectsOK ==
  ASSUME Inv, NEW p \in Processes, ProviderRejects(p)
  PROVE  Inv'
<1> DEFINE t == TurnOf(p)
           j == Mem(p)
           pr == [proc[p] EXCEPT !.pc = "reduce", !.obs = "rejected"]
<1>1. /\ proc[p].pc \in {"refresh", "spend", "complete"}
      /\ proc' = [proc EXCEPT ![p] = pr] /\ Fault
      /\ UNCHANGED journal /\ UNCHANGED refused /\ UNCHANGED lane /\ UNCHANGED jlock
      /\ UNCHANGED world /\ UNCHANGED todo
  BY DEF ProviderRejects, At, store, effects
<1>2. /\ proc[p].pc \in Settling \cup {"settle"} /\ proc[p].pc \in Settling \ {"reduce"}
  BY <1>1 DEF Settling
<1>3. /\ proc[p] \in Process /\ t \in Turns /\ j \in Journal /\ proc[p].mem = j
      /\ world[t] \in World /\ todo[t] \in TodoState
      /\ WorldOK(j, world[t], todo[t])
      /\ SettlementKnows(proc[p], world[t], todo[t])
      /\ j.phases \in {3, 4, 5}
      /\ world[t].launches = world[t].reported
  BY <1>2, SettlingFacts
<1>4. /\ j.prepared \in Steps /\ PreparedStep(proc[p])
      /\ NextStep(j, proc[p].terminal) = j.prepared
      /\ j.prepared = "durable_writeback" => j.phases = 3
      /\ j.prepared = "quota_spend" => j.phases = 4
  BY <1>2, <1>3, Providing DEF PreparedStep
<1>5. /\ proc[p].terminal => j.kind = "completion" /\ j.writeback # "successor"
      /\ proc[p].terminal /\ j.phases = 3 /\ todo[t].done # None =>
           todo[t].done = "no_followup"
      /\ Progressing(proc[p])
      /\ NotYet(proc[p], world[t])
  BY <1>1, <1>2, <1>3 DEF SettlementKnows, Settling
<1> HIDE DEF j
<1>6. /\ pr \in Process /\ pr.pc = "reduce" /\ pr.turn = t /\ pr.mem = j
      /\ pr.terminal = proc[p].terminal /\ pr.obs = "rejected"
  BY <1>3 DEF Process, Points, Observations, TurnOf
<1> HIDE DEF pr
<1>7. PreparedStep(pr) /\ Progressing(pr) /\ NotYet(pr, world[t])
  BY <1>3, <1>4, <1>5, <1>6 DEF PreparedStep, Progressing, NotYet
<1>8. SettlementKnows(pr, world[t], todo[t])
  BY <1>3, <1>5, <1>6, <1>7 DEF SettlementKnows, Settling
<1>9. ReductionKnows(pr, world[t], todo[t])
  BY <1>4, <1>6, <1>7, NoneAssumption DEF ReductionKnows
<1>10. /\ world' = [world EXCEPT ![t] = world[t]] /\ todo' = [todo EXCEPT ![t] = todo[t]]
       /\ pr.pc \in Settling
  BY <1>1, <1>3, <1>6, SameEffects DEF Settling
<1> QED BY <1>1, <1>2, <1>3, <1>6, <1>8, <1>9, <1>10, Settled_Went DEF j

-----------------------------------------------------------------------------
(* The tail.                                                                 *)

(* What the journal of a work that is settled says. *)
LEMMA SettledJournal ==
  ASSUME Inv, NEW p \in Processes, Settled(p)
  PROVE  /\ proc[p].pc = "reduce" /\ Mem(p).phases = 5 /\ Mem(p).prepared = None
         /\ Mem(p).kind = "completion" => Mem(p).closeout \/ Mem(p).writeback = "successor"
<1>1. /\ proc[p].pc = "reduce" /\ Mem(p).prepared = None /\ ~CompletionMissing(p)
      /\ NextStep(Mem(p), proc[p].terminal) = "settled"
  BY DEF Settled, Reducing, At, StepOf
<1>2. Mem(p).phases \in {3, 4, 5}
  BY <1>1, SettlingFacts DEF Settling
<1>3. Mem(p).phases = 5 /\ (proc[p].terminal => Mem(p).closeout)
  BY <1>1, <1>2 DEF NextStep
<1> QED BY <1>1, <1>3 DEF CompletionMissing, Completing

Answers == Incomplete \cup {"done"}
Scheduled(j, s) == [j EXCEPT !.scheduler = s]

LEMMA ScheduledWrite ==
  ASSUME NEW j \in Journal, NEW s \in Answers, NEW m, m = Scheduled(j, s)
  PROVE  /\ m \in Journal /\ m.status = j.status /\ m.phases = j.phases
         /\ m.prepared = j.prepared /\ SameWork(m, j)
         /\ m = [j EXCEPT !.scheduler = m.scheduler]
<1>1. m \in Journal
  BY DEF Journal, Scheduled, Answers
<1>2. m.status = j.status /\ m.phases = j.phases /\ m.prepared = j.prepared /\ SameWork(m, j)
  BY DEF Journal, SameWork, Scheduled
<1>3. m.scheduler = s
  BY DEF Journal, Scheduled
<1> QED BY <1>1, <1>2, <1>3 DEF Scheduled

LEMMA ScheduleOK ==
  ASSUME Inv, NEW p \in Processes, NEW s \in Answers, Schedule(p, s)
  PROVE  Inv'
<1> DEFINE t == TurnOf(p)
           j == Mem(p)
           m == Scheduled(j, s)
           pr == [proc[p] EXCEPT !.mem = m, !.pc = "tail"]
<1>1. /\ Settled(p) /\ proc' = [proc EXCEPT ![p] = pr] /\ (UNCHANGED faults \/ Fault)
      /\ UNCHANGED journal /\ UNCHANGED refused /\ UNCHANGED lane /\ UNCHANGED jlock
      /\ UNCHANGED world /\ UNCHANGED todo
  BY DEF Schedule, ScheduleAnswer, Scheduled, store, effects
<1>2. /\ proc[p].pc = "reduce" /\ j.phases = 5 /\ j.prepared = None
      /\ j.kind = "completion" => j.closeout \/ j.writeback = "successor"
  BY <1>1, SettledJournal
<1>3. /\ ~At(p, "idle") /\ proc[p] \in Process /\ t \in Turns /\ j \in Journal
      /\ j = journal[t] /\ world[t] \in World /\ todo[t] \in TodoState
      /\ WorldOK(j, world[t], todo[t]) /\ JournalOK(j) /\ j.kind # "stop"
      /\ j.status \in {"in_progress", "scheduler_action_required"}
      /\ world[t].launches = world[t].reported
  BY <1>2, SettlingFacts DEF Settling
<1> HIDE DEF j
<1>4. /\ m \in Journal /\ m.status = j.status /\ m.phases = j.phases
      /\ m.prepared = j.prepared /\ SameWork(m, j)
      /\ m = [j EXCEPT !.scheduler = m.scheduler]
  BY <1>3, ScheduledWrite
<1> HIDE DEF m
<1>5. pr \in Process /\ pr.pc = "tail" /\ pr.turn = t /\ pr.mem = m
  BY <1>3, <1>4 DEF Process, Points, TurnOf
<1> HIDE DEF pr
<1>6. Knows(pr, world[t], todo[t])
  BY <1>2, <1>3, <1>4, <1>5
  DEF Knows, HostKnows, SettlementKnows, ReductionKnows, TailKnows, Settling, Progressing,
      SameWork
<1>7. Copied(pr, j)
  BY <1>3, <1>4, <1>5, JournalFields DEF Copied
<1>8. Good(pr, journal[t], world[t], todo[t])
  BY <1>3, <1>6, <1>7, JournalFields DEF Good, TurnOK
<1>9. /\ jlock' \in [Turns -> Processes \cup {None}] /\ faults' \in 0..MaxFaults
      /\ world' = [world EXCEPT ![t] = world[t]] /\ todo' = [todo EXCEPT ![t] = todo[t]]
  BY <1>1, <1>3, FaultsBounded, SameEffects DEF Inv, TypeOK
<1> QED BY <1>1, <1>3, <1>5, <1>8, <1>9, Went, Zenon

Hooked(j, s, receipt) == [Scheduled(j, s) EXCEPT !.post = receipt]

LEMMA HookedWrite ==
  ASSUME NEW j \in Journal, NEW s \in Answers, NEW r \in {"retryable", "observed"},
         NEW m, m = Hooked(j, s, r)
  PROVE  /\ m \in Journal /\ m.status = j.status /\ m.phases = j.phases
         /\ m.prepared = j.prepared /\ m.failedAt = j.failedAt /\ SameWork(m, j)
<1>1. m \in Journal
  BY DEF Journal, Scheduled, Hooked, Answers
<1>2. /\ m.status = j.status /\ m.phases = j.phases
      /\ m.prepared = j.prepared /\ m.failedAt = j.failedAt /\ SameWork(m, j)
  BY DEF Journal, SameWork, Scheduled, Hooked
<1> QED BY <1>1, <1>2

LEMMA ScheduleAndHookOK ==
  ASSUME Inv, NEW p \in Processes, NEW s \in Answers, NEW r \in {"retryable", "observed"},
         ScheduleAndHook(p, s, r)
  PROVE  Inv'
<1> DEFINE t == TurnOf(p)
           j == Mem(p)
           m == Hooked(j, s, r)
<1>1. /\ Settled(p) /\ (UNCHANGED faults \/ Fault)
      /\ PersistAnd(p, m, "tail", None) /\ UNCHANGED effects
  BY DEF ScheduleAndHook, ScheduleAnswer, Scheduled, Hooked, Persist
<1>2. /\ proc[p].pc = "reduce" /\ j.phases = 5 /\ j.prepared = None
      /\ j.kind = "completion" => j.closeout \/ j.writeback = "successor"
  BY <1>1, SettledJournal
<1>3. /\ ~At(p, "idle") /\ t \in Turns /\ j \in Journal /\ j = journal[t]
      /\ WorldOK(j, world[t], todo[t]) /\ JournalOK(j) /\ j.kind # "stop"
      /\ j.status \in {"in_progress", "scheduler_action_required"}
      /\ world[t].launches = world[t].reported
  BY <1>2, SettlingFacts DEF Settling
<1> HIDE DEF j
<1>4. /\ m \in Journal /\ SamePlace(m, j) /\ SameWork(m, j)
  BY <1>3, HookedWrite DEF SamePlace
<1> HIDE DEF m
<1>5. JournalOK(m)
  BY <1>3, <1>4, SameJournalOK
<1>6. WorldOK(m, world[t], todo[t])
  BY <1>3, <1>4 DEF WorldOK, SamePlace, SameWork
<1>7. \/ WriteAdmitted(journal[t], m)
      \/ KindOfWrite(journal[t], m) # "progress"
  <2>1. CASE j.status = "in_progress"
    BY <2>1, <1>3, <1>4, <1>5, AdmittedInProgress DEF JournalOK, SamePlace
  <2>2. CASE j.status = "scheduler_action_required"
    BY <2>2, <1>3, JournalFields DEF KindOfWrite
  <2> QED BY <2>1, <2>2, <1>3
<1>8. \A pr \in Process : pr.pc = "tail" /\ pr.mem = m => Knows(pr, world[t], todo[t])
  BY <1>2, <1>3, <1>4
  DEF Knows, HostKnows, SettlementKnows, ReductionKnows, TailKnows, Settling, Progressing,
      SamePlace, SameWork
<1>9. None \in Observations /\ "tail" \in Points \ {"idle", "lock"}
  BY DEF Observations, Points
<1> QED BY <1>1, <1>3, <1>4, <1>5, <1>6, <1>7, <1>8, <1>9, Wrote

CommittedTurn(m) == [m EXCEPT !.status = "committed", !.phases = 7]
WaitingTurn(m) == [m EXCEPT !.status = "scheduler_action_required"]

LEMMA CommittedTurnWrite ==
  ASSUME NEW j \in Journal, NEW m, m = CommittedTurn(j)
  PROVE  /\ m \in Journal /\ m.status = "committed" /\ m.phases = 7
         /\ m.prepared = j.prepared /\ SameWork(m, j)
<1>1. PICK ph \in 0..7 : ph = 7
  OBVIOUS
<1>2. m = [j EXCEPT !.status = "committed", !.phases = ph]
  BY <1>1 DEF CommittedTurn
<1>3. m \in Journal
  BY <1>2 DEF Journal, Statuses
<1>4. m.status = "committed" /\ m.phases = 7 /\ m.prepared = j.prepared /\ SameWork(m, j)
  BY <1>1, <1>2 DEF Journal, SameWork
<1> QED BY <1>3, <1>4

LEMMA WaitingTurnWrite ==
  ASSUME NEW j \in Journal, NEW m, m = WaitingTurn(j)
  PROVE  /\ m \in Journal /\ m.status = "scheduler_action_required" /\ m.phases = j.phases
         /\ m.prepared = j.prepared /\ SameWork(m, j)
<1>1. m \in Journal
  BY DEF Journal, Statuses, WaitingTurn
<1>2. /\ m.status = "scheduler_action_required" /\ m.phases = j.phases
      /\ m.prepared = j.prepared /\ SameWork(m, j)
  BY DEF Journal, SameWork, WaitingTurn
<1> QED BY <1>1, <1>2

(* The work fields and the place of a journal in memory are the journal's:   *)
(* only the scheduler's answer differs.                                      *)
LEMMA CopyFields ==
  ASSUME NEW j \in Journal, NEW m, m = [j EXCEPT !.scheduler = m.scheduler]
  PROVE  /\ SamePlace(m, j) /\ SameWork(m, j)
BY DEF Journal, SamePlace, SameWork

LEMMA EndTurnOK ==
  ASSUME Inv, NEW p \in Processes, EndTurn(p)
  PROVE  Inv'
<1> DEFINE t == TurnOf(p)
           j == journal[t]
           m == IF Mem(p).scheduler = "done" THEN CommittedTurn(Mem(p))
                ELSE WaitingTurn(Mem(p))
<1>1. /\ proc[p].pc = "tail" /\ ~At(p, "idle") /\ PersistAnd(p, m, Done(p), None)
      /\ UNCHANGED effects /\ UNCHANGED faults /\ Done(p) \in {"finish", "leave"}
  BY DEF EndTurn, At, Persist, CommittedTurn, WaitingTurn, Done
<1>2. /\ proc[p] \in Process /\ t \in Turns /\ j \in Journal \cup {None}
      /\ world[t] \in World
      /\ TurnOK(j, world[t], todo[t]) /\ Copied(proc[p], j)
      /\ Knows(proc[p], world[t], todo[t])
  BY <1>1, AtWork DEF Good
<1>3. /\ j \in Journal /\ JournalOK(j) /\ WorldOK(j, world[t], todo[t])
      /\ Mem(p) \in Journal /\ Mem(p) = [j EXCEPT !.scheduler = Mem(p).scheduler]
  BY <1>1, <1>2 DEF Copied, TurnOK, Mem, Process
<1>4. SamePlace(Mem(p), j) /\ SameWork(Mem(p), j)
  BY <1>3, CopyFields
<1>5. /\ Mem(p).phases = 5 /\ Mem(p).prepared = None /\ Mem(p).kind # "stop"
      /\ Mem(p).status \in {"in_progress", "scheduler_action_required"}
      /\ Mem(p).kind = "completion" => Mem(p).closeout \/ Mem(p).writeback = "successor"
      /\ world[t].launches = world[t].reported
  BY <1>1, <1>2 DEF Knows, HostKnows, TailKnows, Progressing, Mem
<1>6. /\ j.phases = 5 /\ j.prepared = None /\ j.kind # "stop"
      /\ j.status \in {"in_progress", "scheduler_action_required"}
      /\ j.kind = "completion" => j.closeout \/ j.writeback = "successor"
  BY <1>4, <1>5 DEF SamePlace, SameWork
<1>7. /\ m \in Journal /\ m.prepared = None /\ SameWork(m, j)
      /\ \/ m.status = "committed" /\ m.phases = 7
         \/ m.status = "scheduler_action_required" /\ m.phases = 5
  <2>1. CASE Mem(p).scheduler = "done"
    BY <2>1, <1>3, <1>4, <1>5, CommittedTurnWrite DEF SameWork
  <2>2. CASE Mem(p).scheduler # "done"
    BY <2>2, <1>3, <1>4, <1>5, WaitingTurnWrite DEF SameWork
  <2> QED BY <2>1, <2>2
<1> HIDE DEF m, j
<1>8. JournalOK(m)
  BY <1>3, <1>6, <1>7 DEF JournalOK, Consistent, SameWork
<1>9. WorldOK(m, world[t], todo[t])
  BY <1>3, <1>5, <1>6, <1>7 DEF WorldOK, World, SameWork
<1>10. \/ WriteAdmitted(j, m)
       \/ KindOfWrite(j, m) # "progress"
  <2>1. CASE j.status = "in_progress"
    BY <2>1, <1>3, <1>6, <1>7, <1>8, AdmittedInProgress DEF JournalOK
  <2>2. CASE j.status = "scheduler_action_required"
    BY <2>2, <1>3, JournalFields DEF KindOfWrite
  <2> QED BY <2>1, <2>2, <1>6
<1>11. \A pr \in Process : pr.pc = Done(p) /\ pr.mem = m => Knows(pr, world[t], todo[t])
  BY <1>1, <1>5
  DEF Knows, HostKnows, SettlementKnows, ReductionKnows, TailKnows, Settling
<1>12. None \in Observations /\ Done(p) \in Points \ {"idle", "lock"}
  BY <1>1 DEF Observations, Points
<1> QED BY <1>1, <1>7, <1>8, <1>9, <1>10, <1>11, <1>12, Wrote DEF j

LEMMA FinishRecoveryOK ==
  ASSUME Inv, NEW p \in Processes, FinishRecovery(p)
  PROVE  Inv'
<1> DEFINE t == TurnOf(p)
           j == Mem(p)
           m == [j EXCEPT !.audit = "finished"]
<1>1. /\ proc[p].pc = "finish" /\ PersistAnd(p, m, "leave", None)
      /\ UNCHANGED effects /\ UNCHANGED faults
  BY DEF FinishRecovery, At, Persist
<1>2. /\ ~At(p, "idle") /\ j = journal[t] /\ j \in Journal /\ proc[p].mem = j
      /\ JournalOK(j) /\ WorldOK(j, world[t], todo[t])
      /\ Knows(proc[p], world[t], todo[t])
  BY <1>1, InMemory
<1> HIDE DEF j
<1>3. /\ m \in Journal /\ SamePlace(m, j) /\ SameWork(m, j) /\ m.attempts = j.attempts
      /\ WriteAdmitted(j, m)
  BY <1>2, AuditWrite
<1>4. world[t].launches = world[t].reported
  BY <1>1, <1>2 DEF Knows, HostKnows
<1> HIDE DEF m
<1>5. JournalOK(m) /\ WorldOK(m, world[t], todo[t])
  BY <1>2, <1>3, SameJournalOK DEF SamePlace, SameWork, WorldOK, HostOutcomeUnknown
<1>6. \A pr \in Process : pr.pc = "leave" /\ pr.mem = m => Knows(pr, world[t], todo[t])
  BY <1>4 DEF Knows, HostKnows, SettlementKnows, ReductionKnows, TailKnows, Settling
<1>7. None \in Observations /\ "leave" \in Points \ {"idle", "lock"}
  BY DEF Observations, Points
<1> QED BY <1>1, <1>2, <1>3, <1>5, <1>6, <1>7, Wrote

(* An open Todo that goes on differently: nobody has completed it, so        *)
(* nothing the journal or the process knows rests on its continuation.       *)
LEMMA EditTodoOK ==
  ASSUME Inv, NEW t \in Turns, EditTodo(t)
  PROVE  Inv'
<1> DEFINE d == [todo[t] EXCEPT
                   !.cont = IF @ = "successor" THEN "no_followup" ELSE "successor",
                   !.edited = @ \/ journal[t] # None]
<1>1. /\ todo[t].done = None /\ Fault /\ todo' = [todo EXCEPT ![t] = d]
      /\ UNCHANGED journal /\ UNCHANGED refused /\ UNCHANGED lane /\ UNCHANGED jlock
      /\ UNCHANGED proc /\ UNCHANGED world
  BY DEF EditTodo, store
<1>2. /\ d \in TodoState /\ d.done = None /\ d.event = todo[t].event
  <2>1. todo[t] \in TodoState
    BY DEF Inv, TypeOK, TodoState
  <2>2. PICK c \in Continuations, e \in BOOLEAN :
          d = [todo[t] EXCEPT !.cont = c, !.edited = e]
    BY <2>1 DEF TodoState, Continuations
  <2> HIDE DEF d
  <2> QED BY <2>1, <2>2, <1>1 DEF TodoState
<1> HIDE DEF d
<1>3. todo'[t] = d /\ \A u \in Turns \ {t} : todo'[u] = todo[u]
  BY <1>1 DEF Inv, TypeOK
<1>4. TypeOK'
  BY <1>1, <1>2, FaultsBounded DEF Inv, TypeOK, TodoState
<1>5. ControlInv' /\ ProgressAdmitted'
  BY <1>1 DEF Inv, ControlInv, Holding, At, ProgressAdmitted
<1>6. TurnsInv'
  <2> SUFFICES ASSUME NEW u \in Turns PROVE TurnOK(journal[u], world[u], todo'[u])
    BY <1>1 DEF TurnsInv
  <2>1. TurnOK(journal[u], world[u], todo[u])
    BY DEF Inv, TurnsInv
  <2>2. CASE u = t
    BY <2>1, <2>2, <1>1, <1>2, <1>3, NoneAssumption
    DEF TurnOK, Untouched, WorldOK, Continuations
  <2> QED BY <2>1, <2>2, <1>3
<1>7. WorkInv'
  <2> SUFFICES ASSUME NEW q \in Processes, ~At(q, "idle")
               PROVE  Knows(proc[q], world[proc[q].turn], todo'[proc[q].turn])
    BY <1>1 DEF WorkInv, At
  <2>1. /\ proc[q].turn \in Turns
        /\ Knows(proc[q], world[proc[q].turn], todo[proc[q].turn])
    BY DEF Inv, ControlInv, Holding, WorkInv
  <2>2. CASE proc[q].turn = t
    BY <2>1, <2>2, <1>1, <1>2, <1>3
    DEF Knows, HostKnows, SettlementKnows, ReductionKnows, TailKnows, Happened
  <2> QED BY <2>1, <2>2, <1>3
<1> QED BY <1>4, <1>5, <1>6, <1>7 DEF Inv

-----------------------------------------------------------------------------
(* The theorems.                                                             *)

LEMMA StepOK ==
  ASSUME Inv, NEW p \in Processes, Step(p)
  PROVE  Inv'
<1>1. CASE \/ LoadJournal(p) \/ BeginJournal(p) \/ AuditRecovery(p) \/ ResetFailed(p)
           \/ AttemptHost(p) \/ LaunchHost(p) \/ StopTurn(p) \/ TaskValidated(p)
  BY <1>1, LoadJournalOK, BeginJournalOK, AuditRecoveryOK, ResetFailedOK, AttemptHostOK,
     LaunchHostOK, StopTurnOK, TaskValidatedOK
<1>2. CASE AnswerFromJournal(p)
  <2>1. ~At(p, "idle") /\ Leave(p) /\ UNCHANGED <<store, effects>> /\ UNCHANGED faults
    BY <1>2 DEF AnswerFromJournal, At
  <2> QED BY <2>1, LeaveOK
<1>3. CASE Return(p)
  <2>1. ~At(p, "idle") /\ Leave(p) /\ UNCHANGED <<store, effects>> /\ UNCHANGED faults
    BY <1>3 DEF Return, At
  <2> QED BY <2>1, LeaveOK
<1>4. CASE \E k \in ResultKinds : HostAnswers(p, k)
  BY <1>4, HostAnswersOK
<1>5. CASE \/ StartSettlement(p) \/ Prepare(p) \/ Resolve(p) \/ ExecutePrepared(p)
           \/ Checkpoint(p) \/ AbortPrepared(p) \/ SettlementFails(p)
  BY <1>5, StartSettlementOK, PrepareOK, ResolveOK, ExecutePreparedOK, CheckpointOK,
     AbortPreparedOK, SettlementFailsOK
<1>6. CASE \/ CompleteTodo(p) \/ RecordCompletion(p) \/ RefreshState(p) \/ RecordRefresh(p)
           \/ SpendQuotaSlot(p) \/ RecordSpend(p)
  BY <1>6, CompleteTodoOK, RecordCompletionOK, RefreshStateOK, RecordRefreshOK,
     SpendQuotaSlotOK, RecordSpendOK
<1>7. CASE \/ Schedule(p, "done") \/ ScheduleAndHook(p, "done", "observed")
           \/ EndTurn(p) \/ FinishRecovery(p)
  BY <1>7, ScheduleOK, ScheduleAndHookOK, EndTurnOK, FinishRecoveryOK DEF Answers
<1> QED BY <1>1, <1>2, <1>3, <1>4, <1>5, <1>6, <1>7 DEF Step

LEMMA FaultyOK ==
  ASSUME Inv, NEW p \in Processes, Faulty(p)
  PROVE  Inv'
<1>1. CASE NotAdmitted(p)
  <2>1. ~At(p, "idle") /\ Leave(p) /\ UNCHANGED <<store, effects>> /\ Fault
    BY <1>1 DEF NotAdmitted, Continues, At
  <2> QED BY <2>1, LeaveOK
<1>2. CASE Crash(p)
  <2>1. ~At(p, "idle") /\ Leave(p) /\ UNCHANGED <<store, effects>> /\ Fault
    BY <1>2 DEF Crash
  <2> QED BY <2>1, LeaveOK
<1>3. CASE \/ HostBreaksContract(p) \/ TaskRejected(p)
           \/ \E k \in HostFailures : HostFails(p, k)
           \/ ResolveFails(p) \/ ProviderRejects(p)
  BY <1>3, HostBreaksContractOK, TaskRejectedOK, HostFailsOK, ResolveFailsOK,
     ProviderRejectsOK
<1>4. CASE \/ \E s \in Incomplete : Schedule(p, s)
           \/ \E s \in Incomplete \cup {"done"}, r \in {"retryable", "observed"} :
                /\ s # "done" \/ r # "observed"
                /\ ScheduleAndHook(p, s, r)
  BY <1>4, ScheduleOK, ScheduleAndHookOK DEF Answers
<1> QED BY <1>1, <1>2, <1>3, <1>4 DEF Faulty

LEMMA InitOK == Init => Inv
<1> SUFFICES ASSUME Init PROVE Inv
  OBVIOUS
<1>1. proc \in [Processes -> Process] /\ \A p \in Processes : At(p, "idle")
  BY RestType DEF Init, At
<1>2. \A t \in Turns :
        /\ journal[t] = None
        /\ world[t] \in World /\ world[t].launches = world[t].reported
        /\ world[t].wbRuns = 0 /\ world[t].spRuns = 0
        /\ todo[t] \in TodoState /\ todo[t].done = None
  BY DEF Init, World, TodoState
<1>3. TypeOK
  <2>1. world \in [Turns -> World] /\ todo \in [Turns -> TodoState]
    BY <1>2 DEF Init
  <2>2. /\ journal \in [Turns -> Journal \cup {None}] /\ lane \in Processes \cup {None}
        /\ jlock \in [Turns -> Processes \cup {None}] /\ faults \in 0..MaxFaults
        /\ refused \subseteq Writes
    BY BoundsAssumption DEF Init
  <2> QED BY <1>1, <2>1, <2>2 DEF TypeOK, Process, World, TodoState
<1>4. ControlInv /\ WorkInv /\ ProgressAdmitted
  BY <1>1 DEF ControlInv, Holding, WorkInv, ProgressAdmitted, Init
<1>5. TurnsInv
  BY <1>2 DEF TurnsInv, TurnOK, Untouched
<1> QED BY <1>3, <1>4, <1>5 DEF Inv

(* The inductive invariant holds of every behaviour of the lane: each step   *)
(* of run_loopx_turn_once, each fault and each edit of the Todo keeps it.    *)
THEOREM InvHolds == Spec => []Inv
<1>1. Inv /\ [Next]_vars => Inv'
  <2> SUFFICES ASSUME Inv, [Next]_vars PROVE Inv'
    OBVIOUS
  <2>1. CASE \E p \in Processes, t \in Turns, r \in BOOLEAN : TakeLane(p, t, r)
    BY <2>1, TakeLaneOK
  <2>2. CASE \E p \in Processes : Step(p) \/ Faulty(p)
    BY <2>2, StepOK, FaultyOK
  <2>3. CASE \E t \in Turns : EditTodo(t)
    BY <2>3, EditTodoOK
  <2>4. CASE UNCHANGED vars
    BY <2>4
    DEF vars, store, effects, Inv, TypeOK, ControlInv, Holding, At, TurnsInv, WorkInv,
        ProgressAdmitted
  <2> QED BY <2>1, <2>2, <2>3, <2>4 DEF Next
<1> QED BY <1>1, InitOK, PTL DEF Spec

(* Every variable keeps its type. *)
THEOREM TypesHold == Spec => []TypeOK
<1>1. Inv => TypeOK
  BY DEF Inv
<1> QED BY <1>1, InvHolds, PTL

(* A host is started again only when the journal has the outcome of its      *)
(* earlier starts, whatever crashed in between and however often.            *)
THEOREM HostsAreAccountedFor == Spec => []NoBlindRelaunch
<1>1. Inv => NoBlindRelaunch
  BY DEF Inv, TypeOK, TurnsInv, TurnOK, Untouched, WorldOK, NoBlindRelaunch
<1> QED BY <1>1, InvHolds, PTL

(* The work of a Turn is written back once and its slot is spent once, and   *)
(* only for validated work that was written back.                            *)
THEOREM SettlementIsIdempotent == Spec => []SettledOnce
<1>1. Inv => SettledOnce
  <2> SUFFICES ASSUME Inv, NEW t \in Turns
               PROVE  /\ world[t].wbRuns <= 1 /\ world[t].spRuns <= 1
                      /\ world[t].spRuns > 0 => world[t].passed /\ world[t].wbRuns > 0
    BY DEF SettledOnce
  <2>1. /\ world[t] \in World /\ journal[t] \in Journal \cup {None}
        /\ TurnOK(journal[t], world[t], todo[t])
    BY DEF Inv, TypeOK, TurnsInv, World
  <2>2. CASE journal[t] = None
    BY <2>1, <2>2 DEF TurnOK, Untouched
  <2>3. CASE journal[t] # None
    <3>1. /\ journal[t] \in Journal /\ JournalOK(journal[t])
          /\ WorldOK(journal[t], world[t], todo[t])
      BY <2>1, <2>3 DEF TurnOK
    <3>2. journal[t].phases >= 4 /\ journal[t].kind = "stop" => FALSE
      BY <3>1, JournalFields DEF JournalOK, Consistent
    <3> QED BY <3>1, <3>2, JournalFields DEF WorldOK, World
  <2> QED BY <2>2, <2>3
<1> QED BY <1>1, InvHolds, PTL

(* A committed journal tells the truth about the world and the Todo; a       *)
(* stopped Turn has touched neither.                                         *)
THEOREM JournalTellsTheTruth == Spec => []CommittedIsTrue
<1>1. Inv => CommittedIsTrue
  <2> SUFFICES ASSUME Inv, NEW t \in Turns, journal[t] # None
               PROVE  /\ journal[t].status = "committed" =>
                           /\ world[t].wbRuns > 0 /\ world[t].wbEvent
                           /\ world[t].spRuns > 0 /\ world[t].spEvent
                           /\ journal[t].kind = "completion" =>
                                todo[t].event /\ todo[t].done = journal[t].writeback
                      /\ journal[t].status = "stopped" =>
                           /\ world[t].wbRuns = 0 /\ world[t].spRuns = 0
                           /\ todo[t].done = None
    BY DEF CommittedIsTrue
  <2>1. /\ world[t] \in World /\ journal[t] \in Journal /\ JournalOK(journal[t])
        /\ WorldOK(journal[t], world[t], todo[t])
    BY DEF Inv, TypeOK, TurnsInv, TurnOK, World
  <2>2. CASE journal[t].status = "committed"
    <3>1. /\ journal[t].phases = 7
          /\ journal[t].kind = "completion" =>
               journal[t].closeout \/ journal[t].writeback = "successor"
          /\ journal[t].closeout => journal[t].writeback = "no_followup"
      BY <2>1, <2>2 DEF JournalOK, Consistent
    <3> QED BY <3>1, <2>1, <2>2 DEF WorldOK
  <2>3. CASE journal[t].status = "stopped"
    <3>1. journal[t].phases = 3 /\ journal[t].kind = "stop" /\ journal[t].prepared = None
      BY <2>1, <2>3 DEF JournalOK, Consistent
    <3> QED BY <3>1, <2>1, <2>3, NoneAssumption DEF WorldOK, World, Steps
  <2> QED BY <2>2, <2>3
<1> QED BY <1>1, InvHolds, PTL

(* The journal's owner never refuses a write that brings work forward. *)
THEOREM ProgressIsAdmitted == Spec => []ProgressAdmitted
<1>1. Inv => ProgressAdmitted
  BY DEF Inv
<1> QED BY <1>1, InvHolds, PTL
=============================================================================
