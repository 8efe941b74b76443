---------------------------- MODULE MutationLock ----------------------------
(* The cross-process file lock that serializes every local writer of LoopX:  *)
(* acquireFileMutationLock and releaseFileMutationLock over two kinds of     *)
(* files.  <target>.ts-effect.lock is the lock; a lock is only ever retired  *)
(* by the holder of its token's claim file, and both the owner's release and *)
(* a waiter that found the owner dead must create that claim first.          *)
(*                                                                           *)
(* One action is one file-system call, so the calls of all processes         *)
(* interleave.  A file is a record of who made it: its content is the        *)
(* owner's pid and token once written, nothing before.  n tells apart files  *)
(* that the same call made one after the other (the inode and birth time of  *)
(* sameFileIdentity).  Unlinked and renamed files are gone from their path.  *)
EXTENDS Integers

CONSTANTS
  Procs,         \* operating-system processes; a restarted one is a new member
  MaxCalls,      \* bound: withFileMutationLock calls of each process
  MaxInodes,     \* bound: files of one maker remembered at the same time
  InvalidToken,  \* INVALID_LOCK_CLAIM_TOKEN
  None,          \* JavaScript null, or no file at a path
  Faults         \* which faults occur, a subset of FaultKinds

FaultKinds == {"crash", "crash_in_claim", "write_error", "claim_error"}

ASSUME CallsAssumption == MaxCalls \in Nat \ {0} /\ MaxInodes \in Nat \ {0}
ASSUME FaultsAssumption == Faults \subseteq FaultKinds

Tokens == Procs \X (1..MaxCalls)
ClaimTokens == Tokens \cup {InvalidToken}
LockFile == [token : Tokens, n : 1..MaxInodes]
ClaimFile == [pid : Procs, token : ClaimTokens, n : 1..MaxInodes]

ASSUME DistinctAssumption ==
  None \notin ClaimTokens \cup LockFile \cup ClaimFile /\ InvalidToken \notin Tokens

VARIABLES
  lock,    \* the file at the lock path
  claim,   \* the file at each token's claim path
  torn,    \* files whose maker failed or died before writing them
  old,     \* torn files older than INVALID_LOCK_STALE_MS
  alive,   \* processes that processIsAlive finds
  local    \* each process's call

vars == <<lock, claim, torn, old, alive, local>>

(* mine: the lock file this call made.  seen, found: identity and owner read *)
(* from the lock path.  key, made: the claim token, and the claim file this  *)
(* call made.  seenClaim: identity of a claim found in the way.              *)
Fresh(calls) ==
  [pc |-> "idle", calls |-> calls, mine |-> None, seen |-> None, found |-> None,
   key |-> None, made |-> None, seenClaim |-> None, tries |-> 0,
   releasing |-> FALSE, retired |-> FALSE, retried |-> FALSE]

ClaimHeld == {"claimWrite", "undoClaim", "undoClaimRm", "recheck", "recheckAge", "same",
              "retire", "drop", "dropRm"}
Waiting == {"open", "write", "publish", "undo", "undoRm", "stat", "owner", "age", "claim",
            "deadStat", "deadOwner", "deadAge", "deadSame", "deadRm", "retry"} \cup ClaimHeld

Local ==
  [pc : Waiting \cup {"idle", "hold", "dead"}, calls : 0..MaxCalls,
   mine : LockFile \cup {None}, seen : LockFile \cup {None}, found : Tokens \cup {None},
   key : ClaimTokens \cup {None}, made : ClaimFile \cup {None},
   seenClaim : ClaimFile \cup {None}, tries : 0..1,
   releasing : BOOLEAN, retired : BOOLEAN, retried : BOOLEAN]

(* Claims are made to be dropped: whoever holds one has one of its own. *)
TypeOK ==
  /\ lock \in LockFile \cup {None}
  /\ claim \in [ClaimTokens -> ClaimFile \cup {None}]
  /\ torn \subseteq LockFile \cup ClaimFile
  /\ old \subseteq torn
  /\ alive \subseteq Procs
  /\ local \in [Procs -> Local]
  /\ \A p \in Procs : local[p].pc \in ClaimHeld => local[p].made # None

Init ==
  /\ lock = None
  /\ claim = [t \in ClaimTokens |-> None]
  /\ torn = {}
  /\ old = {}
  /\ alive = Procs
  /\ local = [p \in Procs |-> Fresh(0)]

-----------------------------------------------------------------------------
Token(p) == <<p, local[p].calls>>

(* A file is empty until its maker writes it. *)
Empty(f) ==
  \/ f \in torn
  \/ \E p \in Procs : \/ local[p].pc = "write" /\ local[p].mine = f
                      \/ local[p].pc = "claimWrite" /\ local[p].made = f

(* readMutationLockOwner at the lock path and at a claim path. *)
LockOwner == IF lock = None \/ Empty(lock) THEN None ELSE lock.token
ClaimOwner(key) ==
  IF claim[key] = None \/ Empty(claim[key]) THEN None ELSE claim[key].pid

processIsAlive(pid) == pid \in alive

(* The identities that no process still remembers; MaxInodes bounds them. *)
NewLockFiles(p) ==
  {f \in [token : {Token(p)}, n : 1..MaxInodes] :
     f \notin torn \cup {local[q].seen : q \in Procs} \cup {local[q].mine : q \in Procs}}
NewClaimFiles(p, key) ==
  {f \in [pid : {p}, token : {key}, n : 1..MaxInodes] :
     f \notin {local[q].seenClaim : q \in Procs} \cup {claim[key]}}
NewLockFile(p) == CHOOSE f \in NewLockFiles(p) : TRUE
NewClaimFile(p, key) == CHOOSE f \in NewClaimFiles(p, key) : TRUE

At(p, point) == p \in alive /\ local[p].pc = point
Set(p, l) == local' = [local EXCEPT ![p] = l]
Go(p, point) == local' = [local EXCEPT ![p].pc = point]
Return(p) == Set(p, Fresh(local[p].calls))

(* What a failed reclaim or a failed release does next. *)
GiveUp(p) == IF local[p].releasing THEN Return(p) ELSE Go(p, "retry")

-----------------------------------------------------------------------------
(* acquireFileMutationLock *)
Call(p) ==
  /\ At(p, "idle") /\ local[p].calls < MaxCalls
  /\ Set(p, [Fresh(local[p].calls + 1) EXCEPT !.pc = "open"])
  /\ UNCHANGED <<lock, claim, torn, old, alive>>

OpenLock(p) ==
  /\ At(p, "open")
  /\ \/ /\ lock = None /\ NewLockFiles(p) # {}
        /\ lock' = NewLockFile(p)
        /\ Set(p, [local[p] EXCEPT !.pc = "write", !.mine = NewLockFile(p)])
     \/ /\ lock # None
        /\ Set(p, [local[p] EXCEPT !.pc = "stat", !.retired = FALSE, !.tries = 0])
        /\ UNCHANGED lock
  /\ UNCHANGED <<claim, torn, old, alive>>

WriteOwner(p) ==
  /\ At(p, "write")
  /\ Go(p, "publish")
  /\ UNCHANGED <<lock, claim, torn, old, alive>>

(* The write fails: removeCreatedFile, a stat and then an unlink by path. *)
WriteFails(p) ==
  /\ "write_error" \in Faults
  /\ At(p, "write")
  /\ torn' = torn \cup {local[p].mine}
  /\ Go(p, "undo")
  /\ UNCHANGED <<lock, claim, old, alive>>

StatUndo(p) ==
  /\ At(p, "undo")
  /\ IF lock = local[p].mine THEN Go(p, "undoRm") ELSE Return(p)
  /\ UNCHANGED <<lock, claim, torn, old, alive>>

Undo(p) ==
  /\ At(p, "undoRm")
  /\ lock' = None
  /\ torn' = torn \ {lock}
  /\ old' = old \ {lock}
  /\ Return(p)
  /\ UNCHANGED <<claim, alive>>

(* publishedMutationLockMatches: a retired file never returns to the path,   *)
(* so its reads decide like the last one.  A mismatch retries or times out.  *)
Publish(p) ==
  /\ At(p, "publish")
  /\ \/ lock = local[p].mine /\ Go(p, "hold")
     \/ lock # local[p].mine /\ (Return(p) \/ Set(p, [local[p] EXCEPT !.pc = "open", !.mine = None]))
  /\ UNCHANGED <<lock, claim, torn, old, alive>>

(* After EEXIST and the reclaim attempt: one retry for a reclaimed lock,     *)
(* then a timeout or another poll.                                           *)
Retry(p) ==
  LET l == local[p] IN
  /\ At(p, "retry")
  /\ Set(p, [Fresh(l.calls) EXCEPT !.pc = "open", !.retried = l.retried \/ l.retired])
  /\ UNCHANGED <<lock, claim, torn, old, alive>>

TimeOut(p) ==
  /\ At(p, "retry")
  /\ ~(local[p].retired /\ ~local[p].retried)
  /\ Return(p)
  /\ UNCHANGED <<lock, claim, torn, old, alive>>

(* The protected operation ends: releaseFileMutationLock begins. *)
Finish(p) ==
  /\ At(p, "hold")
  /\ Set(p, [local[p] EXCEPT !.pc = "stat", !.releasing = TRUE, !.tries = 0, !.seen = None])
  /\ UNCHANGED <<lock, claim, torn, old, alive>>

-----------------------------------------------------------------------------
(* reclaimStaleMutationLock and releaseFileMutationLock up to the claim. *)
Stat(p) ==
  /\ At(p, "stat")
  /\ IF lock = None THEN GiveUp(p) ELSE Set(p, [local[p] EXCEPT !.pc = "owner", !.seen = lock])
  /\ UNCHANGED <<lock, claim, torn, old, alive>>

ReadOwner(p) ==
  /\ At(p, "owner")
  /\ \/ /\ local[p].releasing
        /\ IF LockOwner = Token(p)
           THEN Set(p, [local[p] EXCEPT !.pc = "claim", !.key = Token(p), !.found = Token(p)])
           ELSE Return(p)
     \/ /\ ~local[p].releasing /\ LockOwner # None
        /\ IF processIsAlive(LockOwner[1]) THEN Go(p, "retry")
           ELSE Set(p, [local[p] EXCEPT !.pc = "claim", !.key = LockOwner, !.found = LockOwner])
     \/ ~local[p].releasing /\ LockOwner = None /\ Go(p, "age")
  /\ UNCHANGED <<lock, claim, torn, old, alive>>

ReadAge(p) ==
  /\ At(p, "age")
  /\ IF lock \in old THEN Set(p, [local[p] EXCEPT !.pc = "claim", !.key = InvalidToken])
     ELSE Go(p, "retry")
  /\ UNCHANGED <<lock, claim, torn, old, alive>>

-----------------------------------------------------------------------------
(* claimFileMutationLock *)

(* Mutant: a claim in the way is taken for one's own. *)
OpenClaim_SharesClaim(p) ==
  LET key == local[p].key  file == NewClaimFile(p, key) IN
  /\ At(p, "claim")
  /\ \/ /\ claim[key] = None /\ NewClaimFiles(p, key) # {}
        /\ claim' = [claim EXCEPT ![key] = file]
        /\ Set(p, [local[p] EXCEPT !.pc = "claimWrite", !.made = file, !.seenClaim = None])
     \/ claim[key] # None /\ Go(p, "recheck") /\ UNCHANGED claim
  /\ UNCHANGED <<lock, torn, old, alive>>

OpenClaim(p) ==
  LET key == local[p].key  file == NewClaimFile(p, key) IN
  /\ At(p, "claim")
  /\ \/ /\ claim[key] = None /\ NewClaimFiles(p, key) # {}
        /\ claim' = [claim EXCEPT ![key] = file]
        /\ Set(p, [local[p] EXCEPT !.pc = "claimWrite", !.made = file, !.seenClaim = None])
     \/ claim[key] # None /\ Go(p, "deadStat") /\ UNCHANGED claim
  /\ UNCHANGED <<lock, torn, old, alive>>

WriteClaim(p) ==
  /\ At(p, "claimWrite")
  /\ Go(p, "recheck")
  /\ UNCHANGED <<lock, claim, torn, old, alive>>

(* The same for a claim.  The error ends the acquisition; a release swallows *)
(* it and leaves the lock of a live process behind.                          *)
ClaimWriteFails(p) ==
  /\ "claim_error" \in Faults
  /\ At(p, "claimWrite")
  /\ torn' = torn \cup {local[p].made}
  /\ Go(p, "undoClaim")
  /\ UNCHANGED <<lock, claim, old, alive>>

StatUndoClaim(p) ==
  /\ At(p, "undoClaim")
  /\ IF claim[local[p].key] = local[p].made THEN Go(p, "undoClaimRm") ELSE Return(p)
  /\ UNCHANGED <<lock, claim, torn, old, alive>>

UndoClaim(p) ==
  LET file == claim[local[p].key] IN
  /\ At(p, "undoClaimRm")
  /\ claim' = [claim EXCEPT ![local[p].key] = None]
  /\ torn' = torn \ {file}
  /\ old' = old \ {file}
  /\ Return(p)
  /\ UNCHANGED <<lock, alive>>

(* removeDeadMutationLockClaim: stat, read, age, stat again, unlink by path. *)
StatClaim(p) ==
  LET file == claim[local[p].key] IN
  /\ At(p, "deadStat")
  /\ IF file = None THEN GiveUp(p)
     ELSE Set(p, [local[p] EXCEPT !.pc = "deadOwner", !.seenClaim = file])
  /\ UNCHANGED <<lock, claim, torn, old, alive>>

(* Mutant: a dead process's claim is respected. *)
ReadClaimOwner_TrustsDead(p) ==
  LET pid == ClaimOwner(local[p].key) IN
  /\ At(p, "deadOwner")
  /\ \/ pid = None /\ Go(p, "deadAge")
     \/ pid # None /\ GiveUp(p)
  /\ UNCHANGED <<lock, claim, torn, old, alive>>

(* Mutant: any claim may be broken. *)
ReadClaimOwner_BreaksLive(p) ==
  LET pid == ClaimOwner(local[p].key) IN
  /\ At(p, "deadOwner")
  /\ \/ pid = None /\ Go(p, "deadAge")
     \/ pid # None /\ Go(p, "deadSame")
  /\ UNCHANGED <<lock, claim, torn, old, alive>>

ReadClaimOwner(p) ==
  LET pid == ClaimOwner(local[p].key) IN
  /\ At(p, "deadOwner")
  /\ \/ pid = None /\ Go(p, "deadAge")
     \/ pid # None /\ ~processIsAlive(pid) /\ Go(p, "deadSame")
     \/ pid # None /\ processIsAlive(pid) /\ GiveUp(p)
  /\ UNCHANGED <<lock, claim, torn, old, alive>>

ReadClaimAge(p) ==
  /\ At(p, "deadAge")
  /\ IF claim[local[p].key] \in old THEN Go(p, "deadSame") ELSE GiveUp(p)
  /\ UNCHANGED <<lock, claim, torn, old, alive>>

CompareClaim(p) ==
  /\ At(p, "deadSame")
  /\ IF claim[local[p].key] = local[p].seenClaim THEN Go(p, "deadRm") ELSE GiveUp(p)
  /\ UNCHANGED <<lock, claim, torn, old, alive>>

RemoveClaim(p) ==
  LET file == claim[local[p].key] IN
  /\ At(p, "deadRm")
  /\ claim' = [claim EXCEPT ![local[p].key] = None]
  /\ torn' = torn \ {file}
  /\ old' = old \ {file}
  /\ IF local[p].tries = 0
     THEN Set(p, [local[p] EXCEPT !.pc = "claim", !.tries = 1, !.seenClaim = None])
     ELSE GiveUp(p)
  /\ UNCHANGED <<lock, alive>>

-----------------------------------------------------------------------------
(* With the claim held: read the owner again, compare the identity, retire   *)
(* the lock by renaming whatever is at its path.                             *)
Recheck(p) ==
  LET l == local[p] IN
  /\ At(p, "recheck")
  /\ \/ l.found # None /\ LockOwner # l.found /\ Go(p, "drop")
     \/ /\ l.found = None \/ LockOwner = l.found
        /\ \/ LockOwner = None /\ Go(p, "recheckAge")
           \/ LockOwner # None /\ ~l.releasing /\ processIsAlive(LockOwner[1]) /\ Go(p, "drop")
           \/ /\ LockOwner # None /\ (l.releasing \/ ~processIsAlive(LockOwner[1]))
              /\ Go(p, "same")
  /\ UNCHANGED <<lock, claim, torn, old, alive>>

RecheckAge(p) ==
  /\ At(p, "recheckAge")
  /\ Go(p, IF lock \in old THEN "same" ELSE "drop")
  /\ UNCHANGED <<lock, claim, torn, old, alive>>

CompareLock(p) ==
  /\ At(p, "same")
  /\ Go(p, IF lock = local[p].seen THEN "retire" ELSE "drop")
  /\ UNCHANGED <<lock, claim, torn, old, alive>>

Retire(p) ==
  /\ At(p, "retire")
  /\ lock' = None
  /\ torn' = torn \ {lock}
  /\ old' = old \ {lock}
  /\ Set(p, [local[p] EXCEPT !.pc = "drop", !.retired = (lock # None)])
  /\ UNCHANGED <<claim, alive>>

(* releaseFileMutationLockClaim: a stat and then an unlink by path. *)

(* Mutant: the claim is dropped only after a retirement. *)
DropClaim_OnlyAfterRetirement(p) ==
  /\ At(p, "drop")
  /\ IF local[p].retired /\ claim[local[p].key] = local[p].made THEN Go(p, "dropRm") ELSE GiveUp(p)
  /\ UNCHANGED <<lock, claim, torn, old, alive>>

DropClaim(p) ==
  /\ At(p, "drop")
  /\ IF claim[local[p].key] = local[p].made THEN Go(p, "dropRm") ELSE GiveUp(p)
  /\ UNCHANGED <<lock, claim, torn, old, alive>>

UnlinkClaim(p) ==
  /\ At(p, "dropRm")
  /\ claim' = [claim EXCEPT ![local[p].key] = None]
  /\ GiveUp(p)
  /\ UNCHANGED <<lock, torn, old, alive>>

-----------------------------------------------------------------------------
(* A process dies; a file it had not written yet stays torn. *)
Crash(p) ==
  LET l == local[p] IN
  /\ p \in alive
  /\ IF l.pc \in ClaimHeld THEN "crash_in_claim" \in Faults ELSE "crash" \in Faults
  /\ alive' = alive \ {p}
  /\ torn' = torn \cup (IF l.pc = "write" THEN {l.mine} ELSE {})
                  \cup (IF l.pc = "claimWrite" THEN {l.made} ELSE {})
  /\ Set(p, [Fresh(l.calls) EXCEPT !.pc = "dead"])
  /\ UNCHANGED <<lock, claim, old>>

(* Ten seconds pass: a torn file becomes stale.  A live process is assumed   *)
(* to write a file, or to remove it again, within that time.                 *)
GrowOld(f) ==
  /\ f \in torn \ old
  /\ \A p \in alive : local[p].mine # f /\ local[p].made # f
  /\ old' = old \cup {f}
  /\ UNCHANGED <<lock, claim, torn, alive, local>>

AcquireStep(p) ==
  \/ OpenLock(p) \/ WriteOwner(p) \/ StatUndo(p) \/ Undo(p) \/ Publish(p)
  \/ Retry(p) \/ Finish(p) \/ Stat(p) \/ ReadOwner(p) \/ ReadAge(p)
ClaimStep(p) ==
  \/ OpenClaim(p) \/ WriteClaim(p) \/ StatUndoClaim(p) \/ UndoClaim(p) \/ StatClaim(p) \/ ReadClaimOwner(p)
  \/ ReadClaimAge(p) \/ CompareClaim(p) \/ RemoveClaim(p) \/ Recheck(p) \/ RecheckAge(p) \/ CompareLock(p)
  \/ Retire(p) \/ DropClaim(p) \/ UnlinkClaim(p)

Next ==
  \/ \E p \in Procs : \/ Call(p) \/ AcquireStep(p) \/ ClaimStep(p)
                      \/ WriteFails(p) \/ ClaimWriteFails(p) \/ TimeOut(p) \/ Crash(p)
  \/ \E f \in torn : GrowOld(f)

Spec == Init /\ [][Next]_vars

(* A live process takes its next step and protected operations end; nobody   *)
(* is forced to call, to fail, to time out or to crash.                      *)
FairSpec ==
  /\ Spec
  /\ \A p \in Procs : WF_vars(AcquireStep(p)) /\ WF_vars(ClaimStep(p))
  /\ WF_vars(\E f \in torn : GrowOld(f))

-----------------------------------------------------------------------------
(* A live holder's lock file stands at the lock path for as long as it runs  *)
(* its operation.  Two holders at once would break it.                       *)
HeldLockStands ==
  \A p \in alive : local[p].pc = "hold" => lock = local[p].mine

(* A process that returned, normally, by timeout or by error, leaves neither *)
(* its lock nor a claim: both would name a live process and never be         *)
(* reclaimed, and every other writer would time out until it exits.          *)
LeavesNothingBehind ==
  \A p \in alive : local[p].pc = "idle" =>
     /\ lock = None \/ lock.token[1] # p
     /\ \A t \in ClaimTokens : claim[t] = None \/ claim[t].pid # p

(* Every call returns: dead owners, dead claims and torn files are cleared   *)
(* away and no two processes wait for each other, without counting on the    *)
(* timeout.                                                                  *)
CallsReturn ==
  \A p \in Procs : local[p].pc \in Waiting ~> local[p].pc \in {"idle", "hold", "dead"}
=============================================================================
