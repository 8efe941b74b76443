------------------------- MODULE MutationLock_proofs -------------------------
(***************************************************************************)
(* Proofs about MutationLock, for any number of processes and calls.       *)
(***************************************************************************)
EXTENDS MutationLock, TLAPS

\* The points between the creation of a lock file and the end of its operation, and
\* the points of a call that has decided to claim a lock.
Owns == {"write", "publish", "undo", "undoRm", "hold"}
Claims == {"claim", "deadStat", "deadOwner", "deadAge", "deadSame", "deadRm"} \cup ClaimHeld

\* What a process remembers fits where it is: which lock file it made, whose lock it
\* found, and whether it releases its own.  A lock is claimed by its owner's release,
\* for a dead owner, or for no owner at all.
Flow(p) ==
  LET l == local[p] IN
  /\ l.pc \notin {"idle", "dead"} => l.calls \in 1..MaxCalls
  /\ p \in alive => l.pc # "dead"
  /\ l.mine # None => l.mine.token = Token(p)
  /\ l.pc \in Owns => l.mine # None
  /\ l.pc \in Owns \cup {"open", "stat", "owner", "age"} => l.found = None
  /\ l.pc \in Owns \cup {"open", "age", "retry"} => ~l.releasing
  /\ l.pc \in Claims \cup {"owner", "age"} => l.seen # None
  /\ l.pc \in Claims /\ l.releasing => l.found = Token(p)
  /\ l.pc \in Claims /\ l.found # None => l.key = l.found
  /\ l.pc \in Claims /\ l.found # None /\ ~l.releasing => l.found[1] \notin alive
  /\ l.pc \in Claims /\ l.found = None => l.key = InvalidToken
  /\ l.pc \in ClaimHeld => l.made # None /\ l.made.pid = p
  /\ l.pc = "recheckAge" => l.found = None

FlowInv == TypeOK /\ \A p \in Procs : Flow(p)

\* A live process that made a lock file and has not released it finds it at the path.
Standing(p) ==
  LET l == local[p] IN
  /\ l.pc \in Owns => lock = l.mine
  /\ l.pc \in {"write", "publish", "hold"} => l.mine \notin torn
  /\ l.pc \in {"undo", "undoRm"} => l.mine \in torn
  /\ l.mine \notin old

\* Whoever holds a claim has it at its path: nobody breaks a claim.
Holding(p) ==
  LET l == local[p] IN
  /\ l.pc \in ClaimHeld => claim[l.key] = l.made
  /\ l.pc \notin {"deadSame", "deadRm"}

\* A lock that is about to be retired is the one that was claimed.
Retiring(p) ==
  LET l == local[p] IN
  /\ l.pc \in Claims /\ l.found = None /\ lock = l.seen => lock \in old
  /\ l.pc \in {"same", "retire"} /\ l.found # None => lock # None /\ lock.token = l.found /\ lock \notin torn
  /\ l.pc = "retire" /\ l.found = None => lock \in old

\* Every claim has a live holder, and every torn claim one that removes it.
Claimed ==
  /\ \A t \in ClaimTokens : claim[t] # None =>
       \E p \in alive : local[p].pc \in ClaimHeld /\ local[p].key = t /\ local[p].made = claim[t]
  /\ \A f \in torn : f \in LockFile \/ \E p \in alive : local[p].pc \in {"undoClaim", "undoClaimRm"} /\ local[p].made = f
  /\ old \subseteq LockFile

HeldInv == (\A p \in alive : Standing(p) /\ Holding(p) /\ Retiring(p)) /\ Claimed

\* A live process whose lock file is at the path holds it or is on the way to retire it.
Releases == {"stat", "owner", "claim", "claimWrite", "recheck", "same", "retire"}
Cleaning(p) ==
  LET l == local[p] IN
  lock # None /\ lock.token[1] = p =>
    /\ lock = l.mine
    /\ l.pc \in Owns \/ (l.releasing /\ l.pc \in Releases)
    /\ l.pc \notin {"undo", "undoRm"} => lock \notin torn
    /\ l.releasing /\ l.pc # "stat" => l.seen = lock

\* A live process's claims are the one it holds, and nobody else claims its token.
Dropping ==
  \A t \in ClaimTokens : claim[t] # None =>
    /\ claim[t].pid \in alive => LET l == local[claim[t].pid] IN
                                 l.pc \in ClaimHeld /\ l.key = t /\ l.made = claim[t]
    /\ t \in Tokens /\ t[1] \in alive => claim[t].pid = t[1]

LeaveInv ==
  /\ \A p \in alive : Cleaning(p) /\ local[p].pc \notin {"undoClaim", "undoClaimRm"}
  /\ Dropping


-----------------------------------------------------------------------------
(* What each step writes.                                                    *)

\* Lock files, claim files, tokens and null are all different.
LEMMA FilesDiffer ==
  /\ LockFile \cap ClaimFile = {} /\ None \notin LockFile /\ None \notin ClaimFile
  /\ None \notin ClaimTokens /\ None \notin Tokens /\ InvalidToken \notin Tokens
<1>1. LockFile \cap ClaimFile = {}
  BY DEF LockFile, ClaimFile
<1> QED BY <1>1, DistinctAssumption DEF ClaimTokens

Points == Waiting \cup {"idle", "hold", "dead"}

\* The points of a call.
LEMMA PointsAre ==
  /\ "open" \in Points /\ "write" \in Points /\ "publish" \in Points /\ "undo" \in Points
  /\ "undoRm" \in Points /\ "stat" \in Points /\ "owner" \in Points /\ "age" \in Points
  /\ "claim" \in Points /\ "deadStat" \in Points /\ "deadOwner" \in Points
  /\ "deadAge" \in Points /\ "deadSame" \in Points /\ "deadRm" \in Points
  /\ "retry" \in Points /\ "claimWrite" \in Points /\ "undoClaim" \in Points
  /\ "undoClaimRm" \in Points /\ "recheck" \in Points /\ "recheckAge" \in Points
  /\ "same" \in Points /\ "retire" \in Points /\ "drop" \in Points /\ "dropRm" \in Points
  /\ "idle" \in Points /\ "hold" \in Points /\ "dead" \in Points
BY DEF Points, Waiting, ClaimHeld

\* The types of a call's fields.
LEMMA Fields ==
  ASSUME TypeOK, NEW p \in Procs
  PROVE  /\ local \in [Procs -> Local] /\ local[p] \in Local
         /\ local[p].pc \in Points /\ local[p].calls \in 0..MaxCalls
         /\ local[p].mine \in LockFile \cup {None} /\ local[p].seen \in LockFile \cup {None}
         /\ local[p].found \in Tokens \cup {None} /\ local[p].key \in ClaimTokens \cup {None}
         /\ local[p].made \in ClaimFile \cup {None} /\ local[p].seenClaim \in ClaimFile \cup {None}
         /\ local[p].releasing \in BOOLEAN /\ local[p].retired \in BOOLEAN
         /\ local[p].retried \in BOOLEAN
         /\ lock \in LockFile \cup {None} /\ claim \in [ClaimTokens -> ClaimFile \cup {None}]
         /\ torn \subseteq LockFile \cup ClaimFile /\ old \subseteq torn /\ alive \subseteq Procs
<1>1. local[p] \in Local
  BY DEF TypeOK
<1> QED BY <1>1 DEF TypeOK, Local, Points

Quiet == UNCHANGED <<lock, claim, torn, old, alive>>
Same(l, n) ==
  /\ n.calls = l.calls /\ n.mine = l.mine /\ n.seen = l.seen /\ n.found = l.found
  /\ n.key = l.key /\ n.made = l.made /\ n.releasing = l.releasing
Over(l, n) ==
  /\ n.calls = l.calls /\ n.mine = None /\ n.seen = None /\ n.found = None
  /\ n.key = None /\ n.made = None /\ n.releasing = FALSE
OnlyMoves(p) == local' \in [Procs -> Local] /\ \A q \in Procs \ {p} : local'[q] = local[q]

\* A step that moves a call to pc, ends it, or gives up.
Gone(p, pc) == OnlyMoves(p) /\ local'[p].pc = pc /\ Same(local[p], local'[p])
Left(p) == OnlyMoves(p) /\ local'[p].pc = "idle" /\ Over(local[p], local'[p])
Quit(p) == (local[p].releasing /\ Left(p)) \/ (~local[p].releasing /\ Gone(p, "retry"))

\* Set writes one call.
LEMMA SetWrite ==
  ASSUME TypeOK, NEW p \in Procs, NEW n \in Local, Set(p, n)
  PROVE  OnlyMoves(p) /\ local'[p] = n
BY DEF Set, OnlyMoves, TypeOK

\* Go changes the point alone.
LEMMA GoWrite ==
  ASSUME TypeOK, NEW p \in Procs, NEW pc \in Points, Go(p, pc)
  PROVE  Gone(p, pc)
BY DEF Go, OnlyMoves, Local, Points, Same, TypeOK, Gone

\* Return forgets everything but the number of calls.
LEMMA ReturnWrite ==
  ASSUME TypeOK, NEW p \in Procs, Return(p)
  PROVE  Left(p)
<1>1. Fresh(local[p].calls) \in Local
  BY Fields DEF Local, Fresh
<1> QED BY <1>1, SetWrite DEF Return, Fresh, Over, Left

\* GiveUp ends a release and sends an acquisition to its retry.
LEMMA GiveUpWrite ==
  ASSUME TypeOK, NEW p \in Procs, GiveUp(p)
  PROVE  Quit(p)
BY GoWrite, ReturnWrite, PointsAre DEF GiveUp, Quit

\* A new call.
LEMMA CallWrite ==
  ASSUME TypeOK, NEW p \in Procs, Call(p)
  PROVE  /\ OnlyMoves(p) /\ Quiet /\ p \in alive /\ local[p].pc = "idle"
         /\ local'[p].pc = "open" /\ local'[p].calls \in 1..MaxCalls
         /\ local'[p].mine = None /\ local'[p].seen = None /\ local'[p].found = None
         /\ local'[p].key = None /\ local'[p].made = None /\ local'[p].releasing = FALSE
<1> DEFINE n == [Fresh(local[p].calls + 1) EXCEPT !.pc = "open"]
<1>1. local[p].calls + 1 \in 1..MaxCalls /\ local[p].calls + 1 \in 0..MaxCalls
  BY CallsAssumption, Fields DEF Call
<1>2. n \in Local
  <2>1. "open" \in Points /\ "idle" \in Points /\ 0 \in 0..1
    BY PointsAre
  <2> QED BY <1>1, <2>1, Zenon DEF Local, Fresh, Points
<1>3. /\ n.pc = "open" /\ n.calls = local[p].calls + 1 /\ n.mine = None /\ n.seen = None
      /\ n.found = None /\ n.key = None /\ n.made = None /\ n.releasing = FALSE
  BY DEF Fresh
<1>4. Set(p, n) /\ Quiet /\ p \in alive /\ local[p].pc = "idle"
  BY DEF Call, Quiet, At
<1> HIDE DEF n
<1> QED BY <1>1, <1>2, <1>3, <1>4, SetWrite

\* A lock file is created, with an identity nobody remembers, or one is in the way.
LEMMA OpenLockWrite ==
  ASSUME TypeOK, NEW p \in Procs, Token(p) \in Tokens, OpenLock(p)
  PROVE  /\ OnlyMoves(p) /\ p \in alive /\ local[p].pc = "open"
         /\ UNCHANGED <<claim, torn, old, alive>>
         /\ \/ /\ lock = None /\ lock' \in LockFile /\ lock'.token = Token(p)
               /\ lock' \notin torn /\ \A q \in Procs : lock' # local[q].seen
               /\ local'[p].pc = "write" /\ local'[p].mine = lock'
               /\ local'[p].calls = local[p].calls /\ local'[p].seen = local[p].seen
               /\ local'[p].found = local[p].found /\ local'[p].key = local[p].key
               /\ local'[p].made = local[p].made /\ local'[p].releasing = local[p].releasing
            \/ /\ lock # None /\ UNCHANGED lock
               /\ local'[p].pc = "stat" /\ Same(local[p], local'[p])
<1>0. p \in alive /\ local[p].pc = "open" /\ UNCHANGED <<claim, torn, old, alive>>
  BY DEF OpenLock, At
<1>l. local[p] \in Local
  BY Fields
<1>1. CASE /\ lock = None /\ NewLockFiles(p) # {} /\ lock' = NewLockFile(p)
           /\ Set(p, [local[p] EXCEPT !.pc = "write", !.mine = NewLockFile(p)])
  <2>1. PICK f \in NewLockFiles(p) : f = NewLockFile(p)
    BY <1>1 DEF NewLockFile
  <2>2. /\ f \in LockFile /\ f.token = Token(p) /\ f \notin torn
        /\ \A q \in Procs : f # local[q].seen
    BY <2>1 DEF NewLockFiles, LockFile
  <2> DEFINE n == [local[p] EXCEPT !.pc = "write", !.mine = f]
  <2>3. n \in Local
    <3>1. "write" \in Points /\ f \in LockFile \cup {None}
      BY PointsAre, <2>2
    <3> QED BY <3>1, <1>l, Zenon DEF Local, Points
  <2>4. Set(p, n)
    BY <1>1, <2>1
  <2>5. /\ n.pc = "write" /\ n.mine = f /\ n.calls = local[p].calls /\ n.seen = local[p].seen
        /\ n.found = local[p].found /\ n.key = local[p].key
        /\ n.made = local[p].made /\ n.releasing = local[p].releasing
    BY <1>l DEF Local
  <2> HIDE DEF n
  <2> QED BY <1>0, <1>1, <2>1, <2>2, <2>3, <2>4, <2>5, SetWrite
<1>2. CASE /\ lock # None /\ UNCHANGED lock
           /\ Set(p, [local[p] EXCEPT !.pc = "stat", !.retired = FALSE, !.tries = 0])
  <2> DEFINE n == [local[p] EXCEPT !.pc = "stat", !.retired = FALSE, !.tries = 0]
  <2>1. n \in Local
    <3>1. "stat" \in Points /\ 0 \in 0..1 /\ FALSE \in BOOLEAN
      BY PointsAre
    <3> QED BY <3>1, <1>l, Zenon DEF Local, Points
  <2>2. n.pc = "stat" /\ Same(local[p], n)
    BY <1>l DEF Local, Same
  <2>3. Set(p, n)
    BY <1>2
  <2> HIDE DEF n
  <2> QED BY <1>0, <1>2, <2>1, <2>2, <2>3, SetWrite
<1> QED BY <1>1, <1>2 DEF OpenLock

\* The published lock is one's own, or the call ends or starts again.
LEMMA PublishWrite ==
  ASSUME TypeOK, NEW p \in Procs, Publish(p)
  PROVE  /\ Quiet /\ p \in alive /\ local[p].pc = "publish"
         /\ \/ lock = local[p].mine /\ Gone(p, "hold")
            \/ lock # local[p].mine /\ Left(p)
            \/ /\ lock # local[p].mine /\ OnlyMoves(p) /\ local'[p].pc = "open"
               /\ local'[p].calls = local[p].calls /\ local'[p].mine = None
               /\ local'[p].found = local[p].found /\ local'[p].key = local[p].key
               /\ local'[p].made = local[p].made /\ local'[p].releasing = local[p].releasing
<1> DEFINE n == [local[p] EXCEPT !.pc = "open", !.mine = None]
<1>l. local[p] \in Local
  BY Fields
<1>1. n \in Local
  <2>1. "open" \in Points /\ None \in LockFile \cup {None}
    BY PointsAre
  <2> QED BY <2>1, <1>l, Zenon DEF Local, Points
<1>2. /\ n.pc = "open" /\ n.calls = local[p].calls /\ n.mine = None
      /\ n.found = local[p].found /\ n.key = local[p].key
      /\ n.made = local[p].made /\ n.releasing = local[p].releasing
  BY <1>l DEF Local
<1>3. /\ Quiet /\ p \in alive /\ local[p].pc = "publish"
      /\ \/ lock = local[p].mine /\ Go(p, "hold")
         \/ lock # local[p].mine /\ (Return(p) \/ Set(p, n))
  BY DEF Publish, At, Quiet
<1> HIDE DEF n
<1> QED BY <1>1, <1>2, <1>3, SetWrite, GoWrite, ReturnWrite, PointsAre

\* Another attempt starts from nothing.
LEMMA RetryWrite ==
  ASSUME TypeOK, NEW p \in Procs, Retry(p)
  PROVE  /\ OnlyMoves(p) /\ Quiet /\ p \in alive /\ local[p].pc = "retry"
         /\ local'[p].pc = "open" /\ Over(local[p], local'[p])
<1> DEFINE n == [Fresh(local[p].calls) EXCEPT !.pc = "open", !.retried = local[p].retried \/ local[p].retired]
<1>1. n \in Local
  <2>1. "open" \in Points /\ "idle" \in Points /\ 0 \in 0..1 /\ local[p].calls \in 0..MaxCalls
    BY PointsAre, Fields
  <2>2. (local[p].retried \/ local[p].retired) \in BOOLEAN
    OBVIOUS
  <2> QED BY <2>1, <2>2, Zenon DEF Local, Fresh, Points
<1>2. n.pc = "open" /\ Over(local[p], n)
  BY DEF Fresh, Over
<1>3. Set(p, n) /\ Quiet /\ p \in alive /\ local[p].pc = "retry"
  BY DEF Retry, Quiet, At
<1> HIDE DEF n
<1> QED BY <1>1, <1>2, <1>3, SetWrite

\* The operation ends and the release begins.
LEMMA FinishWrite ==
  ASSUME TypeOK, NEW p \in Procs, Finish(p)
  PROVE  /\ OnlyMoves(p) /\ Quiet /\ p \in alive /\ local[p].pc = "hold"
         /\ local'[p].pc = "stat" /\ local'[p].releasing = TRUE
         /\ local'[p].calls = local[p].calls /\ local'[p].mine = local[p].mine
         /\ local'[p].found = local[p].found /\ local'[p].key = local[p].key
         /\ local'[p].made = local[p].made
<1> DEFINE n == [local[p] EXCEPT !.pc = "stat", !.releasing = TRUE, !.tries = 0, !.seen = None]
<1>l. local[p] \in Local
  BY Fields
<1>1. n \in Local
  <2>1. "stat" \in Points /\ 0 \in 0..1 /\ None \in LockFile \cup {None} /\ TRUE \in BOOLEAN
    BY PointsAre
  <2> QED BY <2>1, <1>l, Zenon DEF Local, Points
<1>2. /\ n.pc = "stat" /\ n.releasing = TRUE /\ n.calls = local[p].calls /\ n.mine = local[p].mine
      /\ n.found = local[p].found /\ n.key = local[p].key /\ n.made = local[p].made
  BY <1>l DEF Local
<1>3. Set(p, n) /\ Quiet /\ p \in alive /\ local[p].pc = "hold"
  BY DEF Finish, Quiet, At
<1> HIDE DEF n
<1> QED BY <1>1, <1>2, <1>3, SetWrite

\* The identity of the lock in the way is read.
LEMMA StatWrite ==
  ASSUME TypeOK, NEW p \in Procs, Stat(p)
  PROVE  /\ Quiet /\ p \in alive /\ local[p].pc = "stat"
         /\ \/ lock = None /\ Quit(p)
            \/ /\ lock # None /\ OnlyMoves(p) /\ local'[p].pc = "owner" /\ local'[p].seen = lock
               /\ local'[p].calls = local[p].calls /\ local'[p].mine = local[p].mine
               /\ local'[p].found = local[p].found /\ local'[p].key = local[p].key
               /\ local'[p].made = local[p].made /\ local'[p].releasing = local[p].releasing
<1> DEFINE n == [local[p] EXCEPT !.pc = "owner", !.seen = lock]
<1>l. local[p] \in Local
  BY Fields
<1>1. n \in Local
  <2>1. "owner" \in Points /\ lock \in LockFile \cup {None}
    BY PointsAre, Fields
  <2> QED BY <2>1, <1>l, Zenon DEF Local, Points
<1>2. /\ n.pc = "owner" /\ n.seen = lock /\ n.calls = local[p].calls /\ n.mine = local[p].mine
      /\ n.found = local[p].found /\ n.key = local[p].key /\ n.made = local[p].made
      /\ n.releasing = local[p].releasing
  BY <1>l DEF Local
<1>3. /\ Quiet /\ p \in alive /\ local[p].pc = "stat"
      /\ (lock = None /\ GiveUp(p)) \/ (lock # None /\ Set(p, n))
  BY DEF Stat, Quiet, At
<1> HIDE DEF n
<1> QED BY <1>1, <1>2, <1>3, SetWrite, GiveUpWrite

\* What readMutationLockOwner finds.
LEMMA OwnerRead ==
  ASSUME TypeOK
  PROVE  /\ LockOwner \in Tokens \cup {None}
         /\ LockOwner # None => lock # None /\ lock.token = LockOwner /\ lock \notin torn
<1>1. lock \in LockFile \cup {None}
  BY DEF TypeOK
<1> QED BY <1>1, FilesDiffer DEF LockOwner, LockFile, Empty

\* A call aims at the lock of its own token.
Aims(p, key, found) ==
  /\ OnlyMoves(p) /\ local'[p].pc = "claim" /\ local'[p].key = key /\ local'[p].found = found
  /\ local'[p].calls = local[p].calls /\ local'[p].mine = local[p].mine
  /\ local'[p].seen = local[p].seen /\ local'[p].made = local[p].made
  /\ local'[p].releasing = local[p].releasing

\* The owner decides: a release claims its own lock, a waiter a dead process's.
LEMMA ReadOwnerWrite ==
  ASSUME TypeOK, NEW p \in Procs, Token(p) \in Tokens, ReadOwner(p)
  PROVE  /\ Quiet /\ p \in alive /\ local[p].pc = "owner"
         /\ \/ /\ local[p].releasing /\ LockOwner = Token(p)
               /\ Aims(p, Token(p), Token(p)) /\ Token(p) \in Tokens
            \/ local[p].releasing /\ LockOwner # Token(p) /\ Left(p)
            \/ ~local[p].releasing /\ LockOwner # None /\ Gone(p, "retry")
            \/ /\ ~local[p].releasing /\ LockOwner \in Tokens /\ LockOwner[1] \notin alive
               /\ Aims(p, LockOwner, LockOwner)
            \/ ~local[p].releasing /\ LockOwner = None /\ Gone(p, "age")
<1>l. local[p] \in Local
  BY Fields
<1>2. Quiet /\ p \in alive /\ local[p].pc = "owner"
  BY DEF ReadOwner, Quiet, At
<1>3. LockOwner \in Tokens \cup {None}
  BY OwnerRead
<1>4. CASE local[p].releasing /\ LockOwner = Token(p)
  <2> DEFINE n == [local[p] EXCEPT !.pc = "claim", !.key = Token(p), !.found = Token(p)]
  <2>0. Set(p, n)
    BY <1>4 DEF ReadOwner
  <2>1. n \in Local
    <3>1. "claim" \in Points /\ Token(p) \in ClaimTokens \cup {None} /\ Token(p) \in Tokens \cup {None}
      BY PointsAre DEF ClaimTokens
    <3> QED BY <3>1, <1>l, Zenon DEF Local, Points
  <2>3. /\ n.pc = "claim" /\ n.key = Token(p) /\ n.found = Token(p)
      /\ n.calls = local[p].calls /\ n.mine = local[p].mine /\ n.seen = local[p].seen
      /\ n.made = local[p].made /\ n.releasing = local[p].releasing
    BY <1>l DEF Local
  <2> HIDE DEF n
  <2>2. Aims(p, Token(p), Token(p))
    BY <2>0, <2>1, <2>3, SetWrite DEF Aims
  <2> QED BY <1>2, <1>4, <2>2
<1>5. CASE local[p].releasing /\ LockOwner # Token(p)
  BY <1>2, <1>5, ReturnWrite DEF ReadOwner
<1>6. CASE ~local[p].releasing /\ LockOwner = None
  BY <1>2, <1>6, GoWrite, PointsAre DEF ReadOwner
<1>7. CASE ~local[p].releasing /\ LockOwner # None
  <2>1. LockOwner \in Tokens
    BY <1>3, <1>7
  <2>2. CASE processIsAlive(LockOwner[1])
    BY <1>2, <1>7, <2>2, GoWrite, PointsAre DEF ReadOwner
  <2>3. CASE ~processIsAlive(LockOwner[1])
    <3> DEFINE n == [local[p] EXCEPT !.pc = "claim", !.key = LockOwner, !.found = LockOwner]
    <3>0. Set(p, n)
      BY <1>7, <2>3 DEF ReadOwner
    <3>1. n \in Local
      <4>1. "claim" \in Points /\ LockOwner \in ClaimTokens \cup {None} /\ LockOwner \in Tokens \cup {None}
        BY <2>1, PointsAre DEF ClaimTokens
      <4> QED BY <4>1, <1>l, Zenon DEF Local, Points
    <3>3. /\ n.pc = "claim" /\ n.key = LockOwner /\ n.found = LockOwner
        /\ n.calls = local[p].calls /\ n.mine = local[p].mine /\ n.seen = local[p].seen
        /\ n.made = local[p].made /\ n.releasing = local[p].releasing
      BY <1>l DEF Local
    <3> HIDE DEF n
    <3>2. Aims(p, LockOwner, LockOwner)
      BY <3>0, <3>1, <3>3, SetWrite DEF Aims
    <3> QED BY <1>2, <1>7, <2>1, <2>3, <3>2 DEF processIsAlive
  <2> QED BY <2>2, <2>3
<1> QED BY <1>4, <1>5, <1>6, <1>7

\* An old torn lock is claimed under the fixed token.
LEMMA ReadAgeWrite ==
  ASSUME TypeOK, NEW p \in Procs, ReadAge(p)
  PROVE  /\ Quiet /\ p \in alive /\ local[p].pc = "age"
         /\ \/ lock \in old /\ Aims(p, InvalidToken, local[p].found)
            \/ Gone(p, "retry")
<1> DEFINE n == [local[p] EXCEPT !.pc = "claim", !.key = InvalidToken]
<1>l. local[p] \in Local
  BY Fields
<1>1. n \in Local
  <2>1. "claim" \in Points /\ InvalidToken \in ClaimTokens \cup {None}
    BY PointsAre DEF ClaimTokens
  <2> QED BY <2>1, <1>l, Zenon DEF Local, Points
<1>2. /\ n.pc = "claim" /\ n.key = InvalidToken /\ n.found = local[p].found
      /\ n.calls = local[p].calls /\ n.mine = local[p].mine /\ n.seen = local[p].seen
      /\ n.made = local[p].made /\ n.releasing = local[p].releasing
  BY <1>l DEF Local
<1>3. /\ Quiet /\ p \in alive /\ local[p].pc = "age"
      /\ (lock \in old /\ Set(p, n)) \/ Go(p, "retry")
  BY DEF ReadAge, Quiet, At
<1> HIDE DEF n
<1> QED BY <1>1, <1>2, <1>3, SetWrite, GoWrite, PointsAre DEF Aims

\* A claim is created, or one is in the way.
LEMMA OpenClaimWrite ==
  ASSUME TypeOK, NEW p \in Procs, local[p].key \in ClaimTokens, OpenClaim(p)
  PROVE  /\ UNCHANGED <<lock, torn, old, alive>> /\ p \in alive /\ local[p].pc = "claim"
         /\ \/ /\ claim[local[p].key] = None /\ OnlyMoves(p) /\ local'[p].pc = "claimWrite"
               /\ local'[p].made \in ClaimFile /\ local'[p].made.pid = p
               /\ claim' = [claim EXCEPT ![local[p].key] = local'[p].made]
               /\ local'[p].calls = local[p].calls /\ local'[p].mine = local[p].mine
               /\ local'[p].seen = local[p].seen /\ local'[p].found = local[p].found
               /\ local'[p].key = local[p].key /\ local'[p].releasing = local[p].releasing
            \/ claim[local[p].key] # None /\ UNCHANGED claim /\ Gone(p, "deadStat")
<1> DEFINE key == local[p].key
<1>l. local[p] \in Local
  BY Fields
<1>0. UNCHANGED <<lock, torn, old, alive>> /\ p \in alive /\ local[p].pc = "claim"
  BY DEF OpenClaim, At
<1>1. CASE /\ claim[key] = None /\ NewClaimFiles(p, key) # {}
           /\ claim' = [claim EXCEPT ![key] = NewClaimFile(p, key)]
           /\ Set(p, [local[p] EXCEPT !.pc = "claimWrite", !.made = NewClaimFile(p, key), !.seenClaim = None])
  <2>1. PICK f \in NewClaimFiles(p, key) : f = NewClaimFile(p, key)
    BY <1>1 DEF NewClaimFile
  <2>2. f \in ClaimFile /\ f.pid = p
    BY <2>1 DEF NewClaimFiles, ClaimFile
  <2> DEFINE n == [local[p] EXCEPT !.pc = "claimWrite", !.made = f, !.seenClaim = None]
  <2>3. n \in Local
    <3>1. "claimWrite" \in Points /\ f \in ClaimFile \cup {None} /\ None \in ClaimFile \cup {None}
      BY PointsAre, <2>2
    <3> QED BY <3>1, <1>l, Zenon DEF Local, Points
  <2>4. Set(p, n)
    BY <1>1, <2>1
  <2>5. /\ n.pc = "claimWrite" /\ n.made = f /\ n.calls = local[p].calls
        /\ n.mine = local[p].mine /\ n.seen = local[p].seen /\ n.found = local[p].found
        /\ n.key = local[p].key /\ n.releasing = local[p].releasing
    BY <1>l DEF Local
  <2> HIDE DEF n
  <2>6. OnlyMoves(p) /\ local'[p] = n
    BY <2>3, <2>4, SetWrite
  <2> QED BY <1>0, <1>1, <2>1, <2>2, <2>5, <2>6
<1>2. CASE claim[key] # None /\ UNCHANGED claim /\ Go(p, "deadStat")
  BY <1>0, <1>2, GoWrite, PointsAre
<1> QED BY <1>1, <1>2 DEF OpenClaim

\* The identity of the claim in the way is read.
LEMMA StatClaimWrite ==
  ASSUME TypeOK, NEW p \in Procs, local[p].key \in ClaimTokens, StatClaim(p)
  PROVE  /\ Quiet /\ p \in alive /\ local[p].pc = "deadStat"
         /\ Quit(p) \/ Gone(p, "deadOwner")
<1> DEFINE file == claim[local[p].key]
           n == [local[p] EXCEPT !.pc = "deadOwner", !.seenClaim = file]
<1>l. local[p] \in Local
  BY Fields
<1>1. n \in Local
  <2>1. "deadOwner" \in Points /\ file \in ClaimFile \cup {None}
    BY PointsAre, Fields
  <2> QED BY <2>1, <1>l, Zenon DEF Local, Points
<1>2. n.pc = "deadOwner" /\ Same(local[p], n)
  BY <1>l DEF Local, Same
<1>3. Quiet /\ p \in alive /\ local[p].pc = "deadStat" /\ (GiveUp(p) \/ Set(p, n))
  BY DEF StatClaim, Quiet, At
<1> HIDE DEF n
<1> QED BY <1>1, <1>2, <1>3, SetWrite, GiveUpWrite DEF Gone

\* A dead claim is unlinked.
LEMMA RemoveClaimWrite ==
  ASSUME TypeOK, NEW p \in Procs, local[p].key \in ClaimTokens, RemoveClaim(p)
  PROVE  /\ UNCHANGED <<lock, alive>> /\ p \in alive /\ local[p].pc = "deadRm"
         /\ claim' = [claim EXCEPT ![local[p].key] = None]
         /\ torn' = torn \ {claim[local[p].key]} /\ old' = old \ {claim[local[p].key]}
         /\ Quit(p) \/ Gone(p, "claim")
<1> DEFINE n == [local[p] EXCEPT !.pc = "claim", !.tries = 1, !.seenClaim = None]
<1>l. local[p] \in Local
  BY Fields
<1>1. n \in Local
  <2>1. "claim" \in Points /\ None \in ClaimFile \cup {None} /\ 1 \in 0..1
    BY PointsAre
  <2> QED BY <2>1, <1>l, Zenon DEF Local, Points
<1>2. n.pc = "claim" /\ Same(local[p], n)
  BY <1>l DEF Local, Same
<1>3. /\ UNCHANGED <<lock, alive>> /\ p \in alive /\ local[p].pc = "deadRm"
      /\ claim' = [claim EXCEPT ![local[p].key] = None]
      /\ torn' = torn \ {claim[local[p].key]} /\ old' = old \ {claim[local[p].key]}
      /\ GiveUp(p) \/ Set(p, n)
  BY DEF RemoveClaim, At
<1> HIDE DEF n
<1>4. Quit(p) \/ Gone(p, "claim")
  BY <1>1, <1>2, <1>3, SetWrite, GiveUpWrite DEF Gone
<1> QED BY <1>3, <1>4

\* The lock at the path is retired.
LEMMA RetireWrite ==
  ASSUME TypeOK, NEW p \in Procs, Retire(p)
  PROVE  /\ UNCHANGED <<claim, alive>> /\ p \in alive /\ local[p].pc = "retire"
         /\ lock' = None /\ torn' = torn \ {lock} /\ old' = old \ {lock}
         /\ Gone(p, "drop")
<1>0. PICK some \in BOOLEAN : some = (lock # None)
  OBVIOUS
<1> DEFINE n == [local[p] EXCEPT !.pc = "drop", !.retired = some]
<1>l. local[p] \in Local
  BY Fields
<1>1. n \in Local
  <2>1. "drop" \in Points /\ some \in BOOLEAN
    BY <1>0, PointsAre
  <2> QED BY <2>1, <1>l, Zenon DEF Local, Points
<1>2. n.pc = "drop" /\ Same(local[p], n)
  BY <1>l DEF Local, Same
<1>3. /\ UNCHANGED <<claim, alive>> /\ p \in alive /\ local[p].pc = "retire"
      /\ lock' = None /\ torn' = torn \ {lock} /\ old' = old \ {lock} /\ Set(p, n)
  BY <1>0 DEF Retire, At
<1> HIDE DEF n
<1>4. Gone(p, "drop")
  BY <1>1, <1>2, <1>3, SetWrite DEF Gone
<1> QED BY <1>3, <1>4

\* A process dies.
LEMMA CrashWrite ==
  ASSUME TypeOK, NEW p \in Procs, Crash(p)
  PROVE  /\ UNCHANGED <<lock, claim, old>> /\ p \in alive /\ alive' = alive \ {p}
         /\ local[p].pc \in ClaimHeld => "crash_in_claim" \in Faults
         /\ torn' = torn \cup (IF local[p].pc = "write" THEN {local[p].mine} ELSE {})
                         \cup (IF local[p].pc = "claimWrite" THEN {local[p].made} ELSE {})
         /\ OnlyMoves(p) /\ local'[p].pc = "dead" /\ Over(local[p], local'[p])
<1> DEFINE n == [Fresh(local[p].calls) EXCEPT !.pc = "dead"]
<1>1. n \in Local
  <2>1. "dead" \in Points /\ "idle" \in Points /\ 0 \in 0..1 /\ local[p].calls \in 0..MaxCalls
    BY PointsAre, Fields
  <2> QED BY <2>1, Zenon DEF Local, Fresh, Points
<1>2. n.pc = "dead" /\ Over(local[p], n)
  BY DEF Fresh, Over
<1>3. /\ UNCHANGED <<lock, claim, old>> /\ p \in alive /\ alive' = alive \ {p}
      /\ local[p].pc \in ClaimHeld => "crash_in_claim" \in Faults
      /\ torn' = torn \cup (IF local[p].pc = "write" THEN {local[p].mine} ELSE {})
                      \cup (IF local[p].pc = "claimWrite" THEN {local[p].made} ELSE {})
      /\ Set(p, n)
  BY DEF Crash
<1> HIDE DEF n
<1>4. OnlyMoves(p) /\ local'[p] = n
  BY <1>1, <1>3, SetWrite
<1> QED BY <1>2, <1>3, <1>4

-----------------------------------------------------------------------------
(* The flow of a call.                                                       *)

\* A call under way has a token, and one that claims has the key of a claim.
LEMMA CallFacts ==
  ASSUME FlowInv, NEW p \in Procs
  PROVE  /\ TypeOK /\ Flow(p)
         /\ local[p].pc \notin {"idle", "dead"} => Token(p) \in Tokens
         /\ local[p].pc \in Claims => local[p].key \in ClaimTokens
<1>1. TypeOK /\ Flow(p)
  BY DEF FlowInv
<1>2. ASSUME local[p].pc \notin {"idle", "dead"}
      PROVE  Token(p) \in Tokens
  <2>1. local[p].calls \in 1..MaxCalls
    BY <1>1, <1>2 DEF Flow
  <2> QED BY <2>1 DEF Token, Tokens
<1>3. ASSUME local[p].pc \in Claims
      PROVE  local[p].key \in ClaimTokens
  <2>1. local[p].found = None => local[p].key = InvalidToken
    BY <1>1, <1>3 DEF Flow
  <2>2. local[p].found # None => local[p].key = local[p].found
    BY <1>1, <1>3 DEF Flow
  <2>3. local[p].found \in Tokens \cup {None}
    BY <1>1, Fields
  <2> QED BY <2>1, <2>2, <2>3 DEF ClaimTokens
<1> QED BY <1>1, <1>2, <1>3

\* The rest of the world keeps its types.
Typed ==
  /\ lock \in LockFile \cup {None} /\ claim \in [ClaimTokens -> ClaimFile \cup {None}]
  /\ torn \subseteq LockFile \cup ClaimFile /\ old \subseteq torn

\* One call moves and the others go on.
LEMMA FlowKept ==
  ASSUME FlowInv, NEW p \in Procs, OnlyMoves(p), Flow(p)', alive' \subseteq alive, Typed'
  PROVE  FlowInv'
<1>1. ASSUME NEW q \in Procs
      PROVE  Flow(q)'
  <2>1. CASE q = p
    BY <2>1
  <2>2. CASE q # p
    <3>1. local'[q] = local[q] /\ Flow(q)
      BY <2>2 DEF OnlyMoves, FlowInv
    <3> QED BY <3>1 DEF Flow, Token
  <2> QED BY <2>1, <2>2
<1>2. TypeOK'
  <2>1. ASSUME NEW q \in Procs, local'[q].pc \in ClaimHeld
        PROVE  local'[q].made # None
    BY <1>1, <2>1 DEF Flow
  <2>2. local' \in [Procs -> Local] /\ alive' \subseteq Procs
    BY DEF OnlyMoves, FlowInv, TypeOK
  <2> QED BY <2>1, <2>2 DEF TypeOK, Typed
<1> QED BY <1>1, <1>2 DEF FlowInv

\* A call that ended or starts again remembers nothing.
LEMMA FlowOver ==
  ASSUME TypeOK, NEW p \in Procs, Flow(p), Over(local[p], local'[p]),
         \/ local'[p].pc = "idle" /\ alive' = alive
         \/ local'[p].pc = "dead" /\ p \notin alive'
         \/ local'[p].pc = "open" /\ alive' = alive /\ local[p].calls \in 1..MaxCalls
  PROVE  Flow(p)'
BY FilesDiffer DEF Flow, Over, Token, Owns, Claims, ClaimHeld

\* A step to a later point keeps what the call remembers.
Follows(p, pc) ==
  LET l == local[p] IN
  /\ l.pc \notin {"idle", "dead"} /\ pc \notin {"idle", "dead"}
  /\ pc \in Owns => l.pc \in Owns
  /\ pc \in Owns \cup {"open", "stat", "owner", "age"} => l.found = None
  /\ pc \in Owns \cup {"open", "age", "retry"} => ~l.releasing
  /\ pc \in Claims => l.pc \in Claims
  /\ pc \in {"owner", "age"} => l.seen # None
  /\ pc \in ClaimHeld => l.pc \in ClaimHeld
  /\ pc = "recheckAge" => l.found = None

\* A step to a later point preserves the flow of its call.
LEMMA FlowGone ==
  ASSUME TypeOK, NEW p \in Procs, NEW pc, Flow(p), Gone(p, pc), Follows(p, pc), alive' \subseteq alive
  PROVE  Flow(p)'
<1>1. local'[p].pc = pc /\ Same(local[p], local'[p])
  BY DEF Gone
<1> QED BY <1>1 DEF Flow, Same, Token, Follows

\* So does a step that gives up.
LEMMA FlowQuit ==
  ASSUME TypeOK, NEW p \in Procs, Flow(p), local[p].pc \notin {"idle", "dead"}, Quit(p),
         alive' = alive
  PROVE  Flow(p)' /\ OnlyMoves(p)
<1>1. CASE Left(p)
  BY <1>1, FlowOver DEF Left
<1>2. CASE ~local[p].releasing /\ Gone(p, "retry")
  <2>1. Follows(p, "retry")
    BY <1>2 DEF Follows, Owns, Claims, ClaimHeld
  <2> QED BY <1>2, <2>1, FlowGone DEF Gone
<1> QED BY <1>1, <1>2 DEF Quit

\* The steps of an acquisition preserve the flow.
LEMMA FlowAcquire ==
  ASSUME FlowInv, NEW p \in Procs, Call(p) \/ AcquireStep(p) \/ WriteFails(p) \/ TimeOut(p)
  PROVE  FlowInv'
<1>0. TypeOK /\ Flow(p) /\ Typed
  BY CallFacts DEF FlowInv, TypeOK, Typed
<1>t. local[p].pc \notin {"idle", "dead"} => Token(p) \in Tokens /\ local[p].calls \in 1..MaxCalls
  BY CallFacts DEF Flow
<1>q. Quiet => Typed' /\ alive' = alive
  BY <1>0 DEF Quiet, Typed
<1>1. CASE Call(p)
  <2>1. Flow(p)'
    BY <1>1, <1>0, CallWrite DEF Flow, Token, Owns, Claims, ClaimHeld, Quiet
  <2> QED BY <1>1, <1>0, <1>q, <2>1, CallWrite, FlowKept
<1>2. CASE OpenLock(p)
  <2>0. local[p].pc = "open" /\ Token(p) \in Tokens
    BY <1>2, <1>t DEF OpenLock, At
  <2>1. Typed' /\ alive' = alive /\ OnlyMoves(p)
    BY <1>2, <1>0, <2>0, OpenLockWrite DEF Typed
  <2>2. CASE lock' \in LockFile /\ local'[p].pc = "write"
    <3>1. /\ lock'.token = Token(p) /\ local'[p].mine = lock' /\ local'[p].calls = local[p].calls
          /\ local'[p].found = local[p].found /\ local'[p].releasing = local[p].releasing
          /\ local[p].pc = "open"
      BY <1>2, <1>0, <2>0, <2>2, OpenLockWrite
    <3>2. local'[p].mine # None
      BY <2>2, <3>1, FilesDiffer
    <3>3. Flow(p)'
      BY <1>0, <2>1, <2>2, <3>1, <3>2 DEF Flow, Token, Owns, Claims, ClaimHeld
    <3> QED BY <2>1, <3>3, FlowKept
  <2>3. CASE local'[p].pc = "stat" /\ Same(local[p], local'[p])
    <3>1. Follows(p, "stat")
      BY <1>0, <2>0 DEF Follows, Flow, Owns, Claims, ClaimHeld
    <3>2. Flow(p)'
      BY <1>0, <2>1, <2>3, <3>1, FlowGone DEF Gone
    <3> QED BY <2>1, <3>2, FlowKept
  <2> QED BY <1>2, <1>0, <2>0, <2>2, <2>3, OpenLockWrite
<1>3. CASE WriteOwner(p)
  <2>1. local[p].pc = "write" /\ Gone(p, "publish")
    BY <1>3, <1>0, GoWrite, PointsAre DEF WriteOwner, At
  <2>2. Follows(p, "publish")
    BY <1>0, <2>1 DEF Follows, Flow, Owns, Claims, ClaimHeld
  <2>3. Typed' /\ alive' = alive
    BY <1>3, <1>q DEF WriteOwner, Quiet
  <2> QED BY <1>0, <2>1, <2>2, <2>3, FlowGone, FlowKept DEF Gone
<1>4. CASE WriteFails(p)
  <2>1. local[p].pc = "write" /\ Gone(p, "undo")
    BY <1>4, <1>0, GoWrite, PointsAre DEF WriteFails, At
  <2>2. Follows(p, "undo")
    BY <1>0, <2>1 DEF Follows, Flow, Owns, Claims, ClaimHeld
  <2>3. Typed' /\ alive' = alive
    <3>1. local[p].mine \in LockFile
      BY <1>0, <2>1, Fields DEF Flow, Owns
    <3> QED BY <1>4, <1>0, <3>1 DEF WriteFails, Typed
  <2> QED BY <1>0, <2>1, <2>2, <2>3, FlowGone, FlowKept DEF Gone
<1>5. CASE StatUndo(p)
  <2>1. local[p].pc = "undo" /\ Quiet /\ (Gone(p, "undoRm") \/ Left(p))
    BY <1>5, <1>0, GoWrite, ReturnWrite, PointsAre DEF StatUndo, At, Quiet
  <2>2. CASE Gone(p, "undoRm")
    <3>1. Follows(p, "undoRm")
      BY <1>0, <2>1 DEF Follows, Flow, Owns, Claims, ClaimHeld
    <3> QED BY <1>0, <1>q, <2>1, <2>2, <3>1, FlowGone, FlowKept DEF Gone
  <2>3. CASE Left(p)
    BY <1>0, <1>q, <2>1, <2>3, FlowOver, FlowKept DEF Left
  <2> QED BY <2>1, <2>2, <2>3
<1>6. CASE Undo(p)
  <2>1. Left(p) /\ alive' = alive /\ Typed'
    BY <1>6, <1>0, ReturnWrite DEF Undo, Typed
  <2> QED BY <1>0, <2>1, FlowOver, FlowKept DEF Left
<1>7. CASE Publish(p)
  <2>1. local[p].pc = "publish" /\ Quiet
    BY <1>7, <1>0, PublishWrite
  <2>2. CASE Gone(p, "hold")
    <3>1. Follows(p, "hold")
      BY <1>0, <2>1 DEF Follows, Flow, Owns, Claims, ClaimHeld
    <3> QED BY <1>0, <1>q, <2>1, <2>2, <3>1, FlowGone, FlowKept DEF Gone
  <2>3. CASE Left(p)
    BY <1>0, <1>q, <2>1, <2>3, FlowOver, FlowKept DEF Left
  <2>4. CASE /\ OnlyMoves(p) /\ local'[p].pc = "open" /\ local'[p].calls = local[p].calls
             /\ local'[p].mine = None /\ local'[p].found = local[p].found
             /\ local'[p].releasing = local[p].releasing
    <3>1. Flow(p)'
      BY <1>0, <1>q, <2>1, <2>4 DEF Flow, Token, Owns, Claims, ClaimHeld
    <3> QED BY <1>q, <2>1, <2>4, <3>1, FlowKept
  <2> QED BY <1>7, <1>0, <2>2, <2>3, <2>4, PublishWrite
<1>8. CASE Retry(p)
  <2>1. /\ OnlyMoves(p) /\ Quiet /\ local[p].pc = "retry" /\ local'[p].pc = "open"
        /\ Over(local[p], local'[p])
    BY <1>8, <1>0, RetryWrite
  <2> QED BY <1>0, <1>t, <1>q, <2>1, FlowOver, FlowKept
<1>9. CASE TimeOut(p)
  <2>1. Left(p) /\ Quiet
    BY <1>9, <1>0, ReturnWrite DEF TimeOut, Quiet
  <2> QED BY <1>0, <1>q, <2>1, FlowOver, FlowKept DEF Left
<1>10. CASE Finish(p)
  <2>1. Flow(p)'
    BY <1>10, <1>0, <1>q, FinishWrite DEF Flow, Token, Owns, Claims, ClaimHeld
  <2> QED BY <1>10, <1>0, <1>q, <2>1, FinishWrite, FlowKept
<1>11. CASE Stat(p)
  <2>1. local[p].pc = "stat" /\ Quiet
    BY <1>11, <1>0, StatWrite
  <2>2. CASE Quit(p)
    BY <1>0, <1>q, <2>1, <2>2, FlowQuit, FlowKept
  <2>3. CASE /\ lock # None /\ OnlyMoves(p) /\ local'[p].pc = "owner" /\ local'[p].seen = lock
             /\ local'[p].calls = local[p].calls /\ local'[p].mine = local[p].mine
             /\ local'[p].found = local[p].found /\ local'[p].releasing = local[p].releasing
    <3>1. Flow(p)'
      BY <1>0, <1>q, <2>1, <2>3 DEF Flow, Token, Owns, Claims, ClaimHeld
    <3> QED BY <1>q, <2>1, <2>3, <3>1, FlowKept
  <2> QED BY <1>11, <1>0, <2>2, <2>3, StatWrite
<1>12. CASE ReadOwner(p)
  <2>0. local[p].pc = "owner" /\ Quiet /\ Token(p) \in Tokens
    BY <1>12, <1>t DEF ReadOwner, At, Quiet
  <2>1. CASE Left(p)
    BY <1>0, <1>q, <2>0, <2>1, FlowOver, FlowKept DEF Left
  <2>2. CASE ~local[p].releasing /\ Gone(p, "retry")
    BY <1>0, <1>q, <2>0, <2>2, FlowQuit, FlowKept DEF Quit
  <2>3. CASE ~local[p].releasing /\ Gone(p, "age")
    <3>1. Follows(p, "age")
      BY <1>0, <2>0, <2>3 DEF Follows, Flow, Owns, Claims, ClaimHeld
    <3> QED BY <1>0, <1>q, <2>0, <2>3, <3>1, FlowGone, FlowKept DEF Gone
  <2>4. CASE local[p].releasing /\ Aims(p, Token(p), Token(p))
    <3>1. Token(p) # None /\ Token(p)' = Token(p)
      BY <2>0, <2>4, FilesDiffer DEF Aims, Token
    <3>2. Flow(p)'
      BY <1>0, <1>q, <2>0, <2>4, <3>1 DEF Flow, Aims, Owns, Claims, ClaimHeld
    <3> QED BY <1>q, <2>0, <2>4, <3>2, FlowKept DEF Aims
  <2>5. CASE /\ ~local[p].releasing /\ LockOwner \in Tokens /\ LockOwner[1] \notin alive
             /\ Aims(p, LockOwner, LockOwner)
    <3>1. LockOwner # None /\ Token(p)' = Token(p)
      BY <2>5, FilesDiffer DEF Aims, Token
    <3>2. Flow(p)'
      BY <1>0, <1>q, <2>0, <2>5, <3>1 DEF Flow, Aims, Owns, Claims, ClaimHeld
    <3> QED BY <1>q, <2>0, <2>5, <3>2, FlowKept DEF Aims
  <2> QED BY <1>12, <1>0, <2>0, <2>1, <2>2, <2>3, <2>4, <2>5, ReadOwnerWrite
<1>13. CASE ReadAge(p)
  <2>0. local[p].pc = "age" /\ Quiet
    BY <1>13, <1>0, ReadAgeWrite
  <2>1. CASE Gone(p, "retry")
    <3>1. ~local[p].releasing
      BY <1>0, <2>0 DEF Flow
    <3> QED BY <1>0, <1>q, <2>0, <2>1, <3>1, FlowQuit, FlowKept DEF Quit
  <2>2. CASE Aims(p, InvalidToken, local[p].found)
    <3>1. Flow(p)'
      BY <1>0, <1>q, <2>0, <2>2 DEF Flow, Aims, Token, Owns, Claims, ClaimHeld
    <3> QED BY <1>q, <2>0, <2>2, <3>1, FlowKept DEF Aims
  <2> QED BY <1>13, <1>0, <2>1, <2>2, ReadAgeWrite
<1> QED BY <1>1, <1>2, <1>3, <1>4, <1>5, <1>6, <1>7, <1>8, <1>9, <1>10, <1>11, <1>12, <1>13 DEF AcquireStep

\* The steps under and around a claim preserve the flow.
LEMMA FlowClaim ==
  ASSUME FlowInv, NEW p \in Procs, ClaimStep(p) \/ ClaimWriteFails(p)
  PROVE  FlowInv'
<1>0. TypeOK /\ Flow(p) /\ Typed
  BY CallFacts DEF FlowInv, TypeOK, Typed
<1>k. local[p].pc \in Claims => local[p].key \in ClaimTokens
  BY CallFacts
<1>q. Quiet => Typed' /\ alive' = alive
  BY <1>0 DEF Quiet, Typed
<1>1. CASE OpenClaim(p)
  <2>0. local[p].pc = "claim" /\ local[p].key \in ClaimTokens
    BY <1>1, <1>k DEF OpenClaim, At, Claims
  <2>1. CASE /\ OnlyMoves(p) /\ local'[p].pc = "claimWrite" /\ local'[p].made \in ClaimFile
             /\ local'[p].made.pid = p /\ claim' = [claim EXCEPT ![local[p].key] = local'[p].made]
             /\ local'[p].calls = local[p].calls /\ local'[p].mine = local[p].mine
             /\ local'[p].seen = local[p].seen /\ local'[p].found = local[p].found
             /\ local'[p].key = local[p].key /\ local'[p].releasing = local[p].releasing
    <3>1. Typed' /\ alive' = alive
      BY <1>1, <1>0, <2>0, <2>1 DEF OpenClaim, Typed
    <3>2. local'[p].made # None
      BY <2>1, FilesDiffer
    <3>3. Flow(p)'
      BY <1>0, <2>0, <2>1, <3>1, <3>2 DEF Flow, Token, Owns, Claims, ClaimHeld
    <3> QED BY <2>1, <3>1, <3>3, FlowKept
  <2>2. CASE UNCHANGED claim /\ Gone(p, "deadStat")
    <3>1. Typed' /\ alive' = alive
      BY <1>1, <1>0, <2>2 DEF OpenClaim, Typed
    <3>2. Follows(p, "deadStat")
      BY <1>0, <2>0 DEF Follows, Flow, Owns, Claims, ClaimHeld
    <3> QED BY <1>0, <2>2, <3>1, <3>2, FlowGone, FlowKept DEF Gone
  <2> QED BY <1>1, <1>0, <2>0, <2>1, <2>2, OpenClaimWrite
<1>2. CASE WriteClaim(p)
  <2>0. local[p].pc = "claimWrite" /\ local[p].key \in ClaimTokens
    BY <1>2, <1>k DEF WriteClaim, At, Claims, ClaimHeld
  <2>1. Gone(p, "recheck")
    BY <1>2, <1>0, <2>0, GoWrite, GiveUpWrite, ReturnWrite, PointsAre DEF WriteClaim, At
  <2>2. Typed' /\ alive' = alive
    BY <1>2, <1>q DEF WriteClaim, Quiet
  <2>3. CASE Gone(p, "recheck")
    <3>1. Follows(p, "recheck")
      BY <1>0, <2>0 DEF Follows, Flow, Owns, Claims, ClaimHeld
    <3> QED BY <1>0, <2>2, <2>3, <3>1, FlowGone, FlowKept DEF Gone
  <2> QED BY <2>1, <2>3
<1>3. CASE ClaimWriteFails(p)
  <2>0. local[p].pc = "claimWrite" /\ local[p].key \in ClaimTokens
    BY <1>3, <1>k DEF ClaimWriteFails, At, Claims, ClaimHeld
  <2>1. Gone(p, "undoClaim")
    BY <1>3, <1>0, <2>0, GoWrite, GiveUpWrite, ReturnWrite, PointsAre DEF ClaimWriteFails, At
  <2>2. Typed' /\ alive' = alive
    <3>1. local[p].made \in ClaimFile
      BY <1>0, <2>0, Fields DEF Flow, ClaimHeld
    <3> QED BY <1>3, <1>0, <3>1 DEF ClaimWriteFails, Typed
  <2>3. CASE Gone(p, "undoClaim")
    <3>1. Follows(p, "undoClaim")
      BY <1>0, <2>0 DEF Follows, Flow, Owns, Claims, ClaimHeld
    <3> QED BY <1>0, <2>2, <2>3, <3>1, FlowGone, FlowKept DEF Gone
  <2> QED BY <2>1, <2>3
<1>4. CASE StatUndoClaim(p)
  <2>0. local[p].pc = "undoClaim" /\ local[p].key \in ClaimTokens
    BY <1>4, <1>k DEF StatUndoClaim, At, Claims, ClaimHeld
  <2>1. (Gone(p, "undoClaimRm") \/ Left(p))
    BY <1>4, <1>0, <2>0, GoWrite, GiveUpWrite, ReturnWrite, PointsAre DEF StatUndoClaim, At
  <2>2. Typed' /\ alive' = alive
    BY <1>4, <1>q DEF StatUndoClaim, Quiet
  <2>3. CASE Gone(p, "undoClaimRm")
    <3>1. Follows(p, "undoClaimRm")
      BY <1>0, <2>0 DEF Follows, Flow, Owns, Claims, ClaimHeld
    <3> QED BY <1>0, <2>2, <2>3, <3>1, FlowGone, FlowKept DEF Gone
  <2>4. CASE Left(p)
    BY <1>0, <2>2, <2>4, FlowOver, FlowKept DEF Left
  <2> QED BY <2>1, <2>3, <2>4
<1>5. CASE UndoClaim(p)
  <2>0. local[p].pc = "undoClaimRm" /\ local[p].key \in ClaimTokens
    BY <1>5, <1>k DEF UndoClaim, At, Claims, ClaimHeld
  <2>1. Left(p)
    BY <1>5, <1>0, <2>0, GoWrite, GiveUpWrite, ReturnWrite, PointsAre DEF UndoClaim, At
  <2>2. Typed' /\ alive' = alive
    BY <1>5, <1>0 DEF UndoClaim, Typed
  <2>3. CASE Left(p)
    BY <1>0, <2>2, <2>3, FlowOver, FlowKept DEF Left
  <2> QED BY <2>1, <2>3
<1>6. CASE StatClaim(p)
  <2>0. local[p].pc = "deadStat" /\ local[p].key \in ClaimTokens
    BY <1>6, <1>k DEF StatClaim, At, Claims, ClaimHeld
  <2>1. (Quit(p) \/ Gone(p, "deadOwner"))
    BY <1>6, <1>0, <2>0, StatClaimWrite
  <2>2. Typed' /\ alive' = alive
    BY <1>6, <1>q DEF StatClaim, Quiet
  <2>3. CASE Quit(p)
    BY <1>0, <2>0, <2>2, <2>3, FlowQuit, FlowKept
  <2>4. CASE Gone(p, "deadOwner")
    <3>1. Follows(p, "deadOwner")
      BY <1>0, <2>0 DEF Follows, Flow, Owns, Claims, ClaimHeld
    <3> QED BY <1>0, <2>2, <2>4, <3>1, FlowGone, FlowKept DEF Gone
  <2> QED BY <2>1, <2>3, <2>4
<1>7. CASE ReadClaimOwner(p)
  <2>0. local[p].pc = "deadOwner" /\ local[p].key \in ClaimTokens
    BY <1>7, <1>k DEF ReadClaimOwner, At, Claims, ClaimHeld
  <2>1. (Gone(p, "deadAge") \/ Gone(p, "deadSame") \/ Quit(p))
    BY <1>7, <1>0, <2>0, GoWrite, GiveUpWrite, ReturnWrite, PointsAre DEF ReadClaimOwner, At
  <2>2. Typed' /\ alive' = alive
    BY <1>7, <1>q DEF ReadClaimOwner, Quiet
  <2>3. CASE Gone(p, "deadAge")
    <3>1. Follows(p, "deadAge")
      BY <1>0, <2>0 DEF Follows, Flow, Owns, Claims, ClaimHeld
    <3> QED BY <1>0, <2>2, <2>3, <3>1, FlowGone, FlowKept DEF Gone
  <2>4. CASE Gone(p, "deadSame")
    <3>1. Follows(p, "deadSame")
      BY <1>0, <2>0 DEF Follows, Flow, Owns, Claims, ClaimHeld
    <3> QED BY <1>0, <2>2, <2>4, <3>1, FlowGone, FlowKept DEF Gone
  <2>5. CASE Quit(p)
    BY <1>0, <2>0, <2>2, <2>5, FlowQuit, FlowKept
  <2> QED BY <2>1, <2>3, <2>4, <2>5
<1>8. CASE ReadClaimAge(p)
  <2>0. local[p].pc = "deadAge" /\ local[p].key \in ClaimTokens
    BY <1>8, <1>k DEF ReadClaimAge, At, Claims, ClaimHeld
  <2>1. (Gone(p, "deadSame") \/ Quit(p))
    BY <1>8, <1>0, <2>0, GoWrite, GiveUpWrite, ReturnWrite, PointsAre DEF ReadClaimAge, At
  <2>2. Typed' /\ alive' = alive
    BY <1>8, <1>q DEF ReadClaimAge, Quiet
  <2>3. CASE Gone(p, "deadSame")
    <3>1. Follows(p, "deadSame")
      BY <1>0, <2>0 DEF Follows, Flow, Owns, Claims, ClaimHeld
    <3> QED BY <1>0, <2>2, <2>3, <3>1, FlowGone, FlowKept DEF Gone
  <2>4. CASE Quit(p)
    BY <1>0, <2>0, <2>2, <2>4, FlowQuit, FlowKept
  <2> QED BY <2>1, <2>3, <2>4
<1>9. CASE CompareClaim(p)
  <2>0. local[p].pc = "deadSame" /\ local[p].key \in ClaimTokens
    BY <1>9, <1>k DEF CompareClaim, At, Claims, ClaimHeld
  <2>1. (Gone(p, "deadRm") \/ Quit(p))
    BY <1>9, <1>0, <2>0, GoWrite, GiveUpWrite, ReturnWrite, PointsAre DEF CompareClaim, At
  <2>2. Typed' /\ alive' = alive
    BY <1>9, <1>q DEF CompareClaim, Quiet
  <2>3. CASE Gone(p, "deadRm")
    <3>1. Follows(p, "deadRm")
      BY <1>0, <2>0 DEF Follows, Flow, Owns, Claims, ClaimHeld
    <3> QED BY <1>0, <2>2, <2>3, <3>1, FlowGone, FlowKept DEF Gone
  <2>4. CASE Quit(p)
    BY <1>0, <2>0, <2>2, <2>4, FlowQuit, FlowKept
  <2> QED BY <2>1, <2>3, <2>4
<1>10. CASE RemoveClaim(p)
  <2>0. local[p].pc = "deadRm" /\ local[p].key \in ClaimTokens
    BY <1>10, <1>k DEF RemoveClaim, At, Claims, ClaimHeld
  <2>1. (Quit(p) \/ Gone(p, "claim"))
    BY <1>10, <1>0, <2>0, RemoveClaimWrite
  <2>2. Typed' /\ alive' = alive
    BY <1>10, <1>0 DEF RemoveClaim, Typed
  <2>3. CASE Quit(p)
    BY <1>0, <2>0, <2>2, <2>3, FlowQuit, FlowKept
  <2>4. CASE Gone(p, "claim")
    <3>1. Follows(p, "claim")
      BY <1>0, <2>0 DEF Follows, Flow, Owns, Claims, ClaimHeld
    <3> QED BY <1>0, <2>2, <2>4, <3>1, FlowGone, FlowKept DEF Gone
  <2> QED BY <2>1, <2>3, <2>4
<1>11. CASE Recheck(p)
  <2>0. local[p].pc = "recheck" /\ local[p].key \in ClaimTokens /\ Quiet
    BY <1>11, <1>k DEF Recheck, At, Claims, ClaimHeld, Quiet
  <2>1. CASE local[p].found = None /\ Go(p, "recheckAge")
    <3>1. Gone(p, "recheckAge")
      BY <1>0, <2>1, GoWrite, PointsAre
    <3>2. Follows(p, "recheckAge")
      BY <1>0, <2>0, <2>1 DEF Follows, Flow, Owns, Claims, ClaimHeld
    <3> QED BY <1>0, <1>q, <2>0, <3>1, <3>2, FlowGone, FlowKept DEF Gone
  <2>2. CASE Go(p, "drop") \/ Go(p, "same")
    <3>1. Gone(p, "drop") \/ Gone(p, "same")
      BY <1>0, <2>2, GoWrite, PointsAre
    <3>2. Follows(p, "drop") /\ Follows(p, "same")
      BY <1>0, <2>0 DEF Follows, Flow, Owns, Claims, ClaimHeld
    <3> QED BY <1>0, <1>q, <2>0, <3>1, <3>2, FlowGone, FlowKept DEF Gone
  <2> QED BY <1>11, <2>1, <2>2 DEF Recheck
<1>12. CASE RecheckAge(p)
  <2>0. local[p].pc = "recheckAge" /\ local[p].key \in ClaimTokens
    BY <1>12, <1>k DEF RecheckAge, At, Claims, ClaimHeld
  <2>1. (Gone(p, "same") \/ Gone(p, "drop"))
    BY <1>12, <1>0, <2>0, GoWrite, GiveUpWrite, ReturnWrite, PointsAre DEF RecheckAge, At
  <2>2. Typed' /\ alive' = alive
    BY <1>12, <1>q DEF RecheckAge, Quiet
  <2>3. CASE Gone(p, "same")
    <3>1. Follows(p, "same")
      BY <1>0, <2>0 DEF Follows, Flow, Owns, Claims, ClaimHeld
    <3> QED BY <1>0, <2>2, <2>3, <3>1, FlowGone, FlowKept DEF Gone
  <2>4. CASE Gone(p, "drop")
    <3>1. Follows(p, "drop")
      BY <1>0, <2>0 DEF Follows, Flow, Owns, Claims, ClaimHeld
    <3> QED BY <1>0, <2>2, <2>4, <3>1, FlowGone, FlowKept DEF Gone
  <2> QED BY <2>1, <2>3, <2>4
<1>13. CASE CompareLock(p)
  <2>0. local[p].pc = "same" /\ local[p].key \in ClaimTokens
    BY <1>13, <1>k DEF CompareLock, At, Claims, ClaimHeld
  <2>1. (Gone(p, "retire") \/ Gone(p, "drop"))
    BY <1>13, <1>0, <2>0, GoWrite, GiveUpWrite, ReturnWrite, PointsAre DEF CompareLock, At
  <2>2. Typed' /\ alive' = alive
    BY <1>13, <1>q DEF CompareLock, Quiet
  <2>3. CASE Gone(p, "retire")
    <3>1. Follows(p, "retire")
      BY <1>0, <2>0 DEF Follows, Flow, Owns, Claims, ClaimHeld
    <3> QED BY <1>0, <2>2, <2>3, <3>1, FlowGone, FlowKept DEF Gone
  <2>4. CASE Gone(p, "drop")
    <3>1. Follows(p, "drop")
      BY <1>0, <2>0 DEF Follows, Flow, Owns, Claims, ClaimHeld
    <3> QED BY <1>0, <2>2, <2>4, <3>1, FlowGone, FlowKept DEF Gone
  <2> QED BY <2>1, <2>3, <2>4
<1>14. CASE Retire(p)
  <2>0. local[p].pc = "retire" /\ local[p].key \in ClaimTokens
    BY <1>14, <1>k DEF Retire, At, Claims, ClaimHeld
  <2>1. Gone(p, "drop")
    BY <1>14, <1>0, <2>0, RetireWrite
  <2>2. Typed' /\ alive' = alive
    BY <1>14, <1>0 DEF Retire, Typed
  <2>3. CASE Gone(p, "drop")
    <3>1. Follows(p, "drop")
      BY <1>0, <2>0 DEF Follows, Flow, Owns, Claims, ClaimHeld
    <3> QED BY <1>0, <2>2, <2>3, <3>1, FlowGone, FlowKept DEF Gone
  <2> QED BY <2>1, <2>3
<1>15. CASE DropClaim(p)
  <2>0. local[p].pc = "drop" /\ local[p].key \in ClaimTokens
    BY <1>15, <1>k DEF DropClaim, At, Claims, ClaimHeld
  <2>1. (Gone(p, "dropRm") \/ Quit(p))
    BY <1>15, <1>0, <2>0, GoWrite, GiveUpWrite, ReturnWrite, PointsAre DEF DropClaim, At
  <2>2. Typed' /\ alive' = alive
    BY <1>15, <1>q DEF DropClaim, Quiet
  <2>3. CASE Gone(p, "dropRm")
    <3>1. Follows(p, "dropRm")
      BY <1>0, <2>0 DEF Follows, Flow, Owns, Claims, ClaimHeld
    <3> QED BY <1>0, <2>2, <2>3, <3>1, FlowGone, FlowKept DEF Gone
  <2>4. CASE Quit(p)
    BY <1>0, <2>0, <2>2, <2>4, FlowQuit, FlowKept
  <2> QED BY <2>1, <2>3, <2>4
<1>16. CASE UnlinkClaim(p)
  <2>0. local[p].pc = "dropRm" /\ local[p].key \in ClaimTokens
    BY <1>16, <1>k DEF UnlinkClaim, At, Claims, ClaimHeld
  <2>1. Quit(p)
    BY <1>16, <1>0, <2>0, GoWrite, GiveUpWrite, ReturnWrite, PointsAre DEF UnlinkClaim, At
  <2>2. Typed' /\ alive' = alive
    BY <1>16, <1>0 DEF UnlinkClaim, Typed
  <2>3. CASE Quit(p)
    BY <1>0, <2>0, <2>2, <2>3, FlowQuit, FlowKept
  <2> QED BY <2>1, <2>3
<1> QED BY <1>1, <1>2, <1>3, <1>4, <1>5, <1>6, <1>7, <1>8, <1>9, <1>10, <1>11, <1>12, <1>13, <1>14, <1>15, <1>16 DEF ClaimStep

\* A crash preserves the flow.
LEMMA FlowCrash ==
  ASSUME FlowInv, NEW p \in Procs, Crash(p)
  PROVE  FlowInv'
<1>0. TypeOK /\ Flow(p) /\ Typed
  BY CallFacts DEF FlowInv, TypeOK, Typed
<1>1. local[p].pc = "write" => local[p].mine \in LockFile
  BY <1>0, Fields DEF Flow, Owns
<1>2. local[p].pc = "claimWrite" => local[p].made \in ClaimFile
  BY <1>0, Fields DEF Flow, ClaimHeld
<1>3. Typed' /\ alive' \subseteq alive /\ OnlyMoves(p)
  BY <1>0, <1>1, <1>2, CrashWrite DEF Typed
<1>4. Flow(p)'
  BY <1>0, CrashWrite, FlowOver
<1> QED BY <1>3, <1>4, FlowKept

\* Every step preserves the types and the flow of every call.
LEMMA FlowStep ==
  ASSUME FlowInv, [Next]_vars
  PROVE  FlowInv'
<1>1. CASE UNCHANGED vars
  BY <1>1 DEF FlowInv, TypeOK, Flow, Token, vars
<1>2. ASSUME NEW f \in torn, GrowOld(f)
      PROVE  FlowInv'
  <2>1. UNCHANGED <<lock, claim, torn, alive, local>> /\ old' \subseteq torn
    BY <1>2 DEF GrowOld, FlowInv, TypeOK
  <2>2. TypeOK'
    BY <2>1 DEF FlowInv, TypeOK
  <2>3. \A p \in Procs : Flow(p)'
    BY <2>1 DEF FlowInv, Flow, Token
  <2> QED BY <2>2, <2>3 DEF FlowInv
<1> QED BY <1>1, <1>2, FlowAcquire, FlowClaim, FlowCrash DEF Next

\* The first state.
LEMMA FlowInit == Init => FlowInv
<1> SUFFICES ASSUME Init PROVE FlowInv
  OBVIOUS
<1>1. Fresh(0) \in Local
  BY CallsAssumption DEF Fresh, Local
<1>2. ASSUME NEW p \in Procs
      PROVE  local[p] = Fresh(0)
  <2>1. local = [q \in Procs |-> Fresh(0)]
    BY DEF Init
  <2> QED BY <2>1
<1>3. ASSUME NEW p \in Procs
      PROVE  local[p].pc = "idle"
  BY <1>2 DEF Fresh
<1>4. ASSUME NEW p \in Procs
      PROVE  Flow(p)
  <2>1. local[p] = Fresh(0)
    BY <1>2
  <2> QED BY <2>1 DEF Flow, Fresh, Owns, Claims, ClaimHeld
<1>5. TypeOK
  <2>1. local \in [Procs -> Local]
    BY <1>1 DEF Init
  <2>2. ASSUME NEW p \in Procs
        PROVE  local[p].pc \notin ClaimHeld
    BY <1>3 DEF ClaimHeld
  <2> QED BY <2>1, <2>2 DEF Init, TypeOK
<1> QED BY <1>4, <1>5 DEF FlowInv

-----------------------------------------------------------------------------
(* Nobody retires a live holder's lock, as long as nobody dies with a claim. *)

Own(p) == Standing(p) /\ Holding(p) /\ Retiring(p)

\* Whoever holds a claim goes on holding it.
Stays(p) ==
  /\ local[p].pc \in ClaimHeld => /\ local'[p].pc \in ClaimHeld
                                  /\ local'[p].key = local[p].key /\ local'[p].made = local[p].made
  /\ local[p].pc \in {"undoClaim", "undoClaimRm"} => local'[p].pc \in {"undoClaim", "undoClaimRm"}

\* Two processes never made the same lock file.
LEMMA OneMaker ==
  ASSUME FlowInv, NEW p \in Procs, NEW q \in Procs, local[p].mine # None,
         local[p].mine = local[q].mine
  PROVE  p = q
<1>1. local[p].mine.token = Token(p) /\ local[q].mine.token = Token(q)
  BY DEF FlowInv, Flow
<1> QED BY <1>1 DEF Token

\* Two live processes never hold the claim of the same token.
LEMMA OneHolder ==
  ASSUME FlowInv, HeldInv, NEW p \in alive, NEW q \in alive, local[p].pc \in ClaimHeld,
         local[q].pc \in ClaimHeld, local[p].key = local[q].key
  PROVE  p = q
<1>1. p \in Procs /\ q \in Procs
  BY DEF FlowInv, TypeOK
<1>2. local[p].made = local[q].made
  BY DEF HeldInv, Holding
<1>3. local[p].made.pid = p /\ local[q].made.pid = q
  BY <1>1 DEF FlowInv, Flow
<1> QED BY <1>2, <1>3

\* Claims keep their holders when no claim or torn file changes.
LEMMA ClaimedKept ==
  ASSUME FlowInv, Claimed, NEW p \in Procs, OnlyMoves(p), Stays(p), alive' = alive,
         claim' = claim, torn' \subseteq torn \cup LockFile, old' \subseteq LockFile
  PROVE  Claimed'
<1>1. ASSUME NEW t \in ClaimTokens, claim'[t] # None
      PROVE  \E q \in alive' : local'[q].pc \in ClaimHeld /\ local'[q].key = t /\ local'[q].made = claim'[t]
  <2>1. PICK q \in alive : local[q].pc \in ClaimHeld /\ local[q].key = t /\ local[q].made = claim[t]
    BY <1>1 DEF Claimed
  <2>2. q \in Procs
    BY <2>1 DEF FlowInv, TypeOK
  <2>3. local'[q].pc \in ClaimHeld /\ local'[q].key = t /\ local'[q].made = claim[t]
    BY <2>1, <2>2 DEF OnlyMoves, Stays
  <2> QED BY <2>1, <2>3
<1>2. ASSUME NEW f \in torn', f \notin LockFile
      PROVE  \E q \in alive' : local'[q].pc \in {"undoClaim", "undoClaimRm"} /\ local'[q].made = f
  <2>1. PICK q \in alive : local[q].pc \in {"undoClaim", "undoClaimRm"} /\ local[q].made = f
    BY <1>2 DEF Claimed
  <2>2. q \in Procs
    BY <2>1 DEF FlowInv, TypeOK
  <2>3. local'[q].pc \in {"undoClaim", "undoClaimRm"} /\ local'[q].made = f
    BY <2>1, <2>2 DEF OnlyMoves, Stays, ClaimHeld
  <2> QED BY <2>1, <2>3
<1> QED BY <1>1, <1>2 DEF Claimed

\* A step that only moves one call.
LEMMA HeldQuiet ==
  ASSUME FlowInv, HeldInv, NEW p \in alive, OnlyMoves(p), Quiet, Stays(p), Own(p)'
  PROVE  HeldInv'
<1>0. p \in Procs /\ alive \subseteq Procs
  BY DEF FlowInv, TypeOK
<1>1. Claimed'
  <2>1. /\ Claimed /\ alive' = alive /\ claim' = claim
        /\ torn' \subseteq torn \cup LockFile /\ old' \subseteq LockFile
    BY DEF HeldInv, Claimed, Quiet
  <2> QED BY <1>0, <2>1, ClaimedKept
<1>2. ASSUME NEW q \in alive'
      PROVE  Own(q)'
  <2>1. CASE q = p
    BY <2>1
  <2>2. CASE q # p
    <3>1. local'[q] = local[q] /\ q \in alive
      BY <1>0, <1>2, <2>2 DEF OnlyMoves, Quiet
    <3>2. Standing(q) /\ Holding(q) /\ Retiring(q)
      BY <3>1 DEF HeldInv
    <3> QED BY <3>1, <3>2 DEF Own, Standing, Holding, Retiring, Quiet
  <2> QED BY <2>1, <2>2
<1> QED BY <1>1, <1>2 DEF HeldInv, Own

\* A call that has nothing stands and holds nothing.
LEMMA OwnNothing ==
  ASSUME TypeOK, old' \subseteq LockFile, NEW p \in Procs, local'[p].mine = None,
         local'[p].pc \notin Owns \cup Claims
  PROVE  Own(p)'
<1>1. local'[p].mine \notin old'
  BY FilesDiffer
<1>2. local'[p].pc \notin Owns /\ local'[p].pc \notin Claims /\ local'[p].pc \notin ClaimHeld
  BY DEF Claims
<1>3. local'[p].pc \notin {"write", "publish", "hold", "undo", "undoRm", "deadSame", "deadRm", "same", "retire"}
  BY <1>2 DEF Owns, Claims, ClaimHeld
<1> QED BY <1>1, <1>2, <1>3 DEF Own, Standing, Holding, Retiring

\* A call that ends.
LEMMA HeldLeft ==
  ASSUME FlowInv, HeldInv, NEW p \in alive, Left(p), Quiet, local[p].pc \notin ClaimHeld
  PROVE  HeldInv'
<1>1. OnlyMoves(p) /\ local'[p].pc = "idle" /\ local'[p].mine = None
  BY DEF Left, Over
<1>2. Stays(p)
  BY DEF Stays, ClaimHeld
<1>3. Own(p)'
  <2>1. old' \subseteq LockFile /\ TypeOK /\ p \in Procs
    BY DEF HeldInv, Claimed, Quiet, FlowInv, TypeOK
  <2>2. local'[p].pc \notin Owns \cup Claims
    BY <1>1 DEF Owns, Claims, ClaimHeld
  <2> QED BY <1>1, <2>1, <2>2, OwnNothing
<1> QED BY <1>1, <1>2, <1>3, HeldQuiet

\* A call that gives up.
LEMMA HeldQuit ==
  ASSUME FlowInv, HeldInv, NEW p \in alive, Quit(p), Quiet, local[p].pc \notin ClaimHeld
  PROVE  HeldInv'
<1>1. CASE Left(p)
  BY <1>1, HeldLeft
<1>2. CASE Gone(p, "retry")
  <2>1. OnlyMoves(p) /\ local'[p].pc = "retry" /\ local'[p].mine = local[p].mine
    BY <1>2 DEF Gone, Same
  <2>2. Stays(p)
    BY DEF Stays, ClaimHeld
  <2>3. Own(p)'
    <3>1. Standing(p)
      BY DEF HeldInv
    <3> QED BY <2>1, <3>1 DEF Own, Standing, Holding, Retiring, Owns, Claims, ClaimHeld, Quiet
  <2> QED BY <2>1, <2>2, <2>3, HeldQuiet
<1> QED BY <1>1, <1>2 DEF Quit

\* The steps of an acquisition that leave the files alone.
LEMMA HeldQuietAcquire ==
  ASSUME FlowInv, HeldInv, NEW p \in Procs,
         \/ Call(p) \/ WriteOwner(p) \/ StatUndo(p) \/ Publish(p) \/ Retry(p) \/ TimeOut(p)
         \/ Finish(p) \/ Stat(p) \/ ReadOwner(p) \/ ReadAge(p)
  PROVE  HeldInv'
<1>0. TypeOK /\ Flow(p)
  BY CallFacts
<1>t. local[p].pc \notin {"idle", "dead"} => Token(p) \in Tokens
  BY CallFacts
<1>h. p \in alive => Standing(p) /\ Holding(p) /\ Retiring(p)
  BY DEF HeldInv
<1>o. Quiet => old' \subseteq LockFile
  BY DEF HeldInv, Claimed, Quiet
<1>1. CASE Call(p)
  <2>1. /\ OnlyMoves(p) /\ Quiet /\ p \in alive /\ local[p].pc = "idle" /\ local'[p].pc = "open"
        /\ local'[p].mine = None
    BY <1>0, <1>1, CallWrite
  <2>2. Stays(p) /\ local'[p].pc \notin Owns \cup Claims
    BY <2>1 DEF Stays, Owns, Claims, ClaimHeld
  <2> QED BY <1>0, <1>o, <2>1, <2>2, OwnNothing, HeldQuiet
<1>2. CASE WriteOwner(p)
  <2>1. Gone(p, "publish") /\ Quiet /\ p \in alive /\ local[p].pc = "write"
    BY <1>0, <1>2, GoWrite, PointsAre DEF WriteOwner, At, Quiet
  <2>2. Stays(p)
    BY <2>1 DEF Stays, ClaimHeld
  <2>3. Own(p)'
    BY <1>h, <2>1 DEF Gone, Same, Own, Standing, Holding, Retiring, Owns, Claims, ClaimHeld, Quiet
  <2> QED BY <2>1, <2>2, <2>3, HeldQuiet DEF Gone
<1>3. CASE StatUndo(p)
  <2>1. (Gone(p, "undoRm") \/ Left(p)) /\ Quiet /\ p \in alive /\ local[p].pc = "undo"
    BY <1>0, <1>3, GoWrite, ReturnWrite, PointsAre DEF StatUndo, At, Quiet
  <2>2. local[p].pc \notin ClaimHeld
    BY <2>1 DEF ClaimHeld
  <2>3. CASE Gone(p, "undoRm")
    <3>1. Stays(p)
      BY <2>1 DEF Stays, ClaimHeld
    <3>2. Own(p)'
      BY <1>h, <2>1, <2>3 DEF Gone, Same, Own, Standing, Holding, Retiring, Owns, Claims, ClaimHeld, Quiet
    <3> QED BY <2>1, <2>3, <3>1, <3>2, HeldQuiet DEF Gone
  <2> QED BY <2>1, <2>2, <2>3, HeldLeft
<1>4. CASE Publish(p)
  <2>1. Quiet /\ p \in alive /\ local[p].pc = "publish"
    BY <1>0, <1>4, PublishWrite
  <2>2. Stays(p) /\ local[p].pc \notin ClaimHeld
    BY <2>1 DEF Stays, ClaimHeld
  <2>3. CASE lock = local[p].mine /\ Gone(p, "hold")
    <3>2. Own(p)'
      BY <1>h, <2>1, <2>3 DEF Gone, Same, Own, Standing, Holding, Retiring, Owns, Claims, ClaimHeld, Quiet
    <3> QED BY <2>1, <2>2, <2>3, <3>2, HeldQuiet DEF Gone
  <2>4. CASE Left(p)
    BY <2>1, <2>2, <2>4, HeldLeft
  <2>5. CASE OnlyMoves(p) /\ local'[p].pc = "open" /\ local'[p].mine = None
    <3>1. local'[p].pc \notin Owns \cup Claims
      BY <2>5 DEF Owns, Claims, ClaimHeld
    <3> QED BY <1>0, <1>o, <2>1, <2>2, <2>5, <3>1, OwnNothing, HeldQuiet
  <2> QED BY <1>0, <1>4, <2>3, <2>4, <2>5, PublishWrite
<1>5. CASE Retry(p)
  <2>1. /\ OnlyMoves(p) /\ Quiet /\ p \in alive /\ local[p].pc = "retry" /\ local'[p].pc = "open"
        /\ local'[p].mine = None
    BY <1>0, <1>5, RetryWrite DEF Over
  <2>2. Stays(p) /\ local'[p].pc \notin Owns \cup Claims
    BY <2>1 DEF Stays, Owns, Claims, ClaimHeld
  <2> QED BY <1>0, <1>o, <2>1, <2>2, OwnNothing, HeldQuiet
<1>6. CASE TimeOut(p)
  <2>1. Left(p) /\ Quiet /\ p \in alive /\ local[p].pc = "retry"
    BY <1>0, <1>6, ReturnWrite DEF TimeOut, At, Quiet
  <2>2. local[p].pc \notin ClaimHeld
    BY <2>1 DEF ClaimHeld
  <2> QED BY <2>1, <2>2, HeldLeft
<1>7. CASE Finish(p)
  <2>1. /\ OnlyMoves(p) /\ Quiet /\ p \in alive /\ local[p].pc = "hold" /\ local'[p].pc = "stat"
        /\ local'[p].mine = local[p].mine
    BY <1>0, <1>7, FinishWrite
  <2>2. Stays(p)
    BY <2>1 DEF Stays, ClaimHeld
  <2>3. Own(p)'
    BY <1>h, <2>1 DEF Own, Standing, Holding, Retiring, Owns, Claims, ClaimHeld, Quiet
  <2> QED BY <2>1, <2>2, <2>3, HeldQuiet
<1>8. CASE Stat(p)
  <2>1. Quiet /\ p \in alive /\ local[p].pc = "stat"
    BY <1>0, <1>8, StatWrite
  <2>2. Stays(p) /\ local[p].pc \notin ClaimHeld
    BY <2>1 DEF Stays, ClaimHeld
  <2>3. CASE OnlyMoves(p) /\ local'[p].pc = "owner" /\ local'[p].mine = local[p].mine
    <3>1. Own(p)'
      BY <1>h, <2>1, <2>3 DEF Own, Standing, Holding, Retiring, Owns, Claims, ClaimHeld, Quiet
    <3> QED BY <2>1, <2>2, <2>3, <3>1, HeldQuiet
  <2> QED BY <1>0, <1>8, <2>1, <2>2, <2>3, StatWrite, HeldQuit
<1>9. CASE ReadOwner(p)
  <2>1. Quiet /\ p \in alive /\ local[p].pc = "owner" /\ Token(p) \in Tokens
    BY <1>9, <1>t DEF ReadOwner, At, Quiet
  <2>2. Stays(p) /\ local[p].pc \notin ClaimHeld
    BY <2>1 DEF Stays, ClaimHeld
  <2>3. CASE Left(p)
    BY <2>1, <2>2, <2>3, HeldLeft
  <2>4. CASE ~local[p].releasing /\ Gone(p, "retry")
    BY <2>1, <2>2, <2>4, HeldQuit DEF Quit
  <2>5. CASE Gone(p, "age")
    <3>1. Own(p)'
      BY <1>h, <2>1, <2>5 DEF Gone, Same, Own, Standing, Holding, Retiring, Owns, Claims, ClaimHeld, Quiet
    <3> QED BY <2>1, <2>2, <2>5, <3>1, HeldQuiet DEF Gone
  <2>6. CASE Aims(p, Token(p), Token(p)) \/ (LockOwner \in Tokens /\ Aims(p, LockOwner, LockOwner))
    <3>1. local'[p].found # None /\ local'[p].pc = "claim" /\ local'[p].mine = local[p].mine /\ OnlyMoves(p)
      BY <2>1, <2>6, FilesDiffer DEF Aims
    <3>2. Own(p)'
      BY <1>h, <2>1, <3>1 DEF Own, Standing, Holding, Retiring, Owns, Claims, ClaimHeld, Quiet
    <3> QED BY <2>1, <2>2, <3>1, <3>2, HeldQuiet
  <2> QED BY <1>0, <1>9, <2>1, <2>3, <2>4, <2>5, <2>6, ReadOwnerWrite
<1>10. CASE ReadAge(p)
  <2>1. Quiet /\ p \in alive /\ local[p].pc = "age"
    BY <1>0, <1>10, ReadAgeWrite
  <2>2. Stays(p) /\ local[p].pc \notin ClaimHeld /\ ~local[p].releasing
    BY <1>0, <2>1 DEF Stays, ClaimHeld, Flow
  <2>3. CASE Gone(p, "retry")
    BY <2>1, <2>2, <2>3, HeldQuit DEF Quit
  <2>4. CASE lock \in old /\ Aims(p, InvalidToken, local[p].found)
    <3>1. Own(p)'
      BY <1>h, <2>1, <2>4 DEF Aims, Own, Standing, Holding, Retiring, Owns, Claims, ClaimHeld, Quiet
    <3> QED BY <2>1, <2>2, <2>4, <3>1, HeldQuiet DEF Aims
  <2> QED BY <1>0, <1>10, <2>3, <2>4, ReadAgeWrite
<1> QED BY <1>1, <1>2, <1>3, <1>4, <1>5, <1>6, <1>7, <1>8, <1>9, <1>10

\* The steps around a claim that leave the files alone.
LEMMA HeldQuietClaim ==
  ASSUME FlowInv, HeldInv, NEW p \in Procs,
         \/ WriteClaim(p) \/ StatUndoClaim(p) \/ StatClaim(p) \/ ReadClaimOwner(p)
         \/ ReadClaimAge(p) \/ CompareClaim(p) \/ Recheck(p) \/ RecheckAge(p)
         \/ CompareLock(p) \/ DropClaim(p)
  PROVE  HeldInv'
<1>0. TypeOK /\ Flow(p)
  BY CallFacts
<1>k. local[p].pc \in Claims => local[p].key \in ClaimTokens
  BY CallFacts
<1>h. p \in alive => Standing(p) /\ Holding(p) /\ Retiring(p)
  BY DEF HeldInv
<1>1. CASE WriteClaim(p)
  <2>0. Quiet /\ p \in alive /\ local[p].pc = "claimWrite" /\ local[p].key \in ClaimTokens
    BY <1>1, <1>k DEF WriteClaim, At, Quiet, Claims, ClaimHeld
  <2>1. Gone(p, "recheck")
    BY <1>1, <1>0, <2>0, GoWrite, GiveUpWrite, ReturnWrite, PointsAre DEF WriteClaim
  <2>2. CASE Gone(p, "recheck")
    <3>1. Stays(p)
      BY <2>0, <2>2 DEF Stays, ClaimHeld, Gone, Same
    <3>2. Own(p)'
      BY <1>0, <1>h, <2>0, <2>2 DEF Flow, Gone, Same, Own, Standing, Holding, Retiring, Owns, Claims, ClaimHeld, Quiet
    <3> QED BY <2>0, <2>2, <3>1, <3>2, HeldQuiet DEF Gone
  <2> QED BY <2>1, <2>2
<1>2. CASE StatUndoClaim(p)
  <2>0. Quiet /\ p \in alive /\ local[p].pc = "undoClaim" /\ local[p].key \in ClaimTokens
    BY <1>2, <1>k DEF StatUndoClaim, At, Quiet, Claims, ClaimHeld
  <2>9. claim[local[p].key] = local[p].made
    BY <1>h, <2>0 DEF Holding, ClaimHeld
  <2>1. Gone(p, "undoClaimRm")
    BY <1>2, <1>0, <2>0, <2>9, GoWrite, GiveUpWrite, ReturnWrite, PointsAre DEF StatUndoClaim
  <2>2. CASE Gone(p, "undoClaimRm")
    <3>1. Stays(p)
      BY <2>0, <2>2 DEF Stays, ClaimHeld, Gone, Same
    <3>2. Own(p)'
      BY <1>0, <1>h, <2>0, <2>2, <2>9 DEF Flow, Gone, Same, Own, Standing, Holding, Retiring, Owns, Claims, ClaimHeld, Quiet
    <3> QED BY <2>0, <2>2, <3>1, <3>2, HeldQuiet DEF Gone
  <2> QED BY <2>1, <2>2
<1>3. CASE StatClaim(p)
  <2>0. Quiet /\ p \in alive /\ local[p].pc = "deadStat" /\ local[p].key \in ClaimTokens
    BY <1>3, <1>k DEF StatClaim, At, Quiet, Claims, ClaimHeld
  <2>1. (Gone(p, "deadOwner") \/ Quit(p))
    BY <1>3, <1>0, <2>0, StatClaimWrite
  <2>2. CASE Gone(p, "deadOwner")
    <3>1. Stays(p)
      BY <2>0, <2>2 DEF Stays, ClaimHeld, Gone, Same
    <3>2. Own(p)'
      BY <1>0, <1>h, <2>0, <2>2 DEF Flow, Gone, Same, Own, Standing, Holding, Retiring, Owns, Claims, ClaimHeld, Quiet
    <3> QED BY <2>0, <2>2, <3>1, <3>2, HeldQuiet DEF Gone
  <2>3. CASE Quit(p)
    <3>1. local[p].pc \notin ClaimHeld
      BY <2>0 DEF ClaimHeld
    <3> QED BY <2>0, <2>3, <3>1, HeldQuit
  <2> QED BY <2>1, <2>2, <2>3
<1>4. CASE ReadClaimOwner(p)
  <2>0. Quiet /\ p \in alive /\ local[p].pc = "deadOwner" /\ local[p].key \in ClaimTokens
    BY <1>4, <1>k DEF ReadClaimOwner, At, Quiet, Claims, ClaimHeld
  <2>9. ClaimOwner(local[p].key) # None => ClaimOwner(local[p].key) \in alive
    <3> SUFFICES ASSUME ClaimOwner(local[p].key) # None
                 PROVE  ClaimOwner(local[p].key) \in alive
      OBVIOUS
    <3>1. claim[local[p].key] # None /\ ClaimOwner(local[p].key) = claim[local[p].key].pid
      BY DEF ClaimOwner
    <3>2. PICK q \in alive : local[q].pc \in ClaimHeld /\ local[q].made = claim[local[p].key]
      BY <2>0, <3>1 DEF HeldInv, Claimed
    <3>3. local[q].made.pid = q
      BY <3>2 DEF FlowInv, TypeOK, Flow
    <3> QED BY <3>1, <3>2, <3>3
  <2>1. (Gone(p, "deadAge") \/ Quit(p))
    BY <1>4, <1>0, <2>0, <2>9, GoWrite, GiveUpWrite, ReturnWrite, PointsAre DEF ReadClaimOwner, processIsAlive
  <2>2. CASE Gone(p, "deadAge")
    <3>1. Stays(p)
      BY <2>0, <2>2 DEF Stays, ClaimHeld, Gone, Same
    <3>2. Own(p)'
      BY <1>0, <1>h, <2>0, <2>2, <2>9 DEF Flow, Gone, Same, Own, Standing, Holding, Retiring, Owns, Claims, ClaimHeld, Quiet
    <3> QED BY <2>0, <2>2, <3>1, <3>2, HeldQuiet DEF Gone
  <2>3. CASE Quit(p)
    <3>1. local[p].pc \notin ClaimHeld
      BY <2>0 DEF ClaimHeld
    <3> QED BY <2>0, <2>3, <3>1, HeldQuit
  <2> QED BY <2>1, <2>2, <2>3
<1>5. CASE ReadClaimAge(p)
  <2>0. Quiet /\ p \in alive /\ local[p].pc = "deadAge" /\ local[p].key \in ClaimTokens
    BY <1>5, <1>k DEF ReadClaimAge, At, Quiet, Claims, ClaimHeld
  <2>9. claim[local[p].key] \notin old
    <3>1. old \subseteq LockFile /\ claim[local[p].key] \in ClaimFile \cup {None}
      BY <1>0, <2>0, Fields DEF HeldInv, Claimed
    <3> QED BY <3>1, FilesDiffer
  <2>1. Quit(p)
    BY <1>5, <1>0, <2>0, <2>9, GoWrite, GiveUpWrite, ReturnWrite, PointsAre DEF ReadClaimAge
  <2>2. CASE Quit(p)
    <3>1. local[p].pc \notin ClaimHeld
      BY <2>0 DEF ClaimHeld
    <3> QED BY <2>0, <2>2, <3>1, HeldQuit
  <2> QED BY <2>1, <2>2
<1>6. CASE CompareClaim(p)
  BY <1>6, <1>h DEF CompareClaim, At, Holding
<1>7. CASE Recheck(p)
  <2>0. Quiet /\ p \in alive /\ local[p].pc = "recheck" /\ local[p].key \in ClaimTokens
    BY <1>7, <1>k DEF Recheck, At, Quiet, Claims, ClaimHeld
  <2>1. CASE Gone(p, "drop") \/ (local[p].found = None /\ Gone(p, "recheckAge"))
    <3>1. Stays(p)
      BY <2>0, <2>1 DEF Stays, ClaimHeld, Gone, Same
    <3>2. Own(p)'
      BY <1>0, <1>h, <2>0, <2>1 DEF Flow, Gone, Same, Own, Standing, Holding, Retiring, Owns, Claims, ClaimHeld, Quiet
    <3> QED BY <2>0, <2>1, <3>1, <3>2, HeldQuiet DEF Gone
  <2>2. CASE (local[p].found = None \/ LockOwner = local[p].found) /\ LockOwner # None /\ Gone(p, "same")
    <3>1. Stays(p)
      BY <2>0, <2>2 DEF Stays, ClaimHeld, Gone, Same
    <3>2. local[p].found # None => lock # None /\ lock.token = local[p].found /\ lock \notin torn
      BY <1>0, <2>2, OwnerRead
    <3>3. Own(p)'
      BY <1>0, <1>h, <2>0, <2>2, <3>2 DEF Flow, Gone, Same, Own, Standing, Holding, Retiring, Owns, Claims, ClaimHeld, Quiet
    <3> QED BY <2>0, <2>2, <3>1, <3>3, HeldQuiet DEF Gone
  <2> QED BY <1>7, <1>0, <2>1, <2>2, GoWrite, PointsAre DEF Recheck
<1>8. CASE RecheckAge(p)
  <2>0. Quiet /\ p \in alive /\ local[p].pc = "recheckAge" /\ local[p].key \in ClaimTokens
    BY <1>8, <1>k DEF RecheckAge, At, Quiet, Claims, ClaimHeld
  <2>1. (Gone(p, "same") \/ Gone(p, "drop"))
    BY <1>8, <1>0, <2>0, GoWrite, GiveUpWrite, ReturnWrite, PointsAre DEF RecheckAge
  <2>2. CASE Gone(p, "same")
    <3>1. Stays(p)
      BY <2>0, <2>2 DEF Stays, ClaimHeld, Gone, Same
    <3>2. Own(p)'
      BY <1>0, <1>h, <2>0, <2>2 DEF Flow, Gone, Same, Own, Standing, Holding, Retiring, Owns, Claims, ClaimHeld, Quiet
    <3> QED BY <2>0, <2>2, <3>1, <3>2, HeldQuiet DEF Gone
  <2>3. CASE Gone(p, "drop")
    <3>1. Stays(p)
      BY <2>0, <2>3 DEF Stays, ClaimHeld, Gone, Same
    <3>2. Own(p)'
      BY <1>0, <1>h, <2>0, <2>3 DEF Flow, Gone, Same, Own, Standing, Holding, Retiring, Owns, Claims, ClaimHeld, Quiet
    <3> QED BY <2>0, <2>3, <3>1, <3>2, HeldQuiet DEF Gone
  <2> QED BY <2>1, <2>2, <2>3
<1>9. CASE CompareLock(p)
  <2>0. Quiet /\ p \in alive /\ local[p].pc = "same" /\ local[p].key \in ClaimTokens
    BY <1>9, <1>k DEF CompareLock, At, Quiet, Claims, ClaimHeld
  <2>1. Gone(p, "drop") \/ (lock = local[p].seen /\ Gone(p, "retire"))
    BY <1>9, <1>0, <2>0, GoWrite, GiveUpWrite, ReturnWrite, PointsAre DEF CompareLock
  <2>2. CASE Gone(p, "drop")
    <3>1. Stays(p)
      BY <2>0, <2>2 DEF Stays, ClaimHeld, Gone, Same
    <3>2. Own(p)'
      BY <1>0, <1>h, <2>0, <2>2 DEF Flow, Gone, Same, Own, Standing, Holding, Retiring, Owns, Claims, ClaimHeld, Quiet
    <3> QED BY <2>0, <2>2, <3>1, <3>2, HeldQuiet DEF Gone
  <2>3. CASE lock = local[p].seen /\ Gone(p, "retire")
    <3>1. Stays(p)
      BY <2>0, <2>3 DEF Stays, ClaimHeld, Gone, Same
    <3>2. Own(p)'
      BY <1>0, <1>h, <2>0, <2>3 DEF Flow, Gone, Same, Own, Standing, Holding, Retiring, Owns, Claims, ClaimHeld, Quiet
    <3> QED BY <2>0, <2>3, <3>1, <3>2, HeldQuiet DEF Gone
  <2> QED BY <2>1, <2>2, <2>3
<1>10. CASE DropClaim(p)
  <2>0. Quiet /\ p \in alive /\ local[p].pc = "drop" /\ local[p].key \in ClaimTokens
    BY <1>10, <1>k DEF DropClaim, At, Quiet, Claims, ClaimHeld
  <2>9. claim[local[p].key] = local[p].made
    BY <1>h, <2>0 DEF Holding, ClaimHeld
  <2>1. Gone(p, "dropRm")
    BY <1>10, <1>0, <2>0, <2>9, GoWrite, GiveUpWrite, ReturnWrite, PointsAre DEF DropClaim
  <2>2. CASE Gone(p, "dropRm")
    <3>1. Stays(p)
      BY <2>0, <2>2 DEF Stays, ClaimHeld, Gone, Same
    <3>2. Own(p)'
      BY <1>0, <1>h, <2>0, <2>2, <2>9 DEF Flow, Gone, Same, Own, Standing, Holding, Retiring, Owns, Claims, ClaimHeld, Quiet
    <3> QED BY <2>0, <2>2, <3>1, <3>2, HeldQuiet DEF Gone
  <2> QED BY <2>1, <2>2
<1> QED BY <1>1, <1>2, <1>3, <1>4, <1>5, <1>6, <1>7, <1>8, <1>9, <1>10

\* A file step: the others keep what they have, the process itself has what it should.
LEMMA HeldFiles ==
  ASSUME FlowInv, HeldInv, NEW p \in alive, OnlyMoves(p), alive' = alive, Own(p)', Claimed',
         \A q \in alive \ {p} : Own(q) /\ local'[q] = local[q] => Own(q)'
  PROVE  HeldInv'
<1>1. alive \subseteq Procs
  BY DEF FlowInv, TypeOK
<1>2. ASSUME NEW q \in alive \ {p}
      PROVE  Own(q)'
  BY <1>1 DEF OnlyMoves, HeldInv, Own
<1>3. \A q \in alive' : Own(q)'
  BY <1>2
<1> QED BY <1>3 DEF HeldInv, Own

\* A new lock stands where no lock was.
LEMMA HeldOpenLock ==
  ASSUME FlowInv, HeldInv, NEW p \in Procs, OpenLock(p)
  PROVE  HeldInv'
<1>0. TypeOK /\ Flow(p) /\ local[p].pc = "open" /\ p \in alive /\ Token(p) \in Tokens
  BY CallFacts DEF OpenLock, At
<1>s. Stays(p)
  BY <1>0 DEF Stays, ClaimHeld
<1>h. Standing(p) /\ old \subseteq LockFile /\ old \subseteq torn
  BY <1>0, Fields DEF HeldInv, Claimed
<1>1. CASE lock # None /\ UNCHANGED lock /\ local'[p].pc = "stat" /\ Same(local[p], local'[p])
  <2>1. OnlyMoves(p) /\ Quiet
    BY <1>0, <1>1, OpenLockWrite DEF Quiet
  <2>2. Own(p)'
    BY <1>h, <1>1, <2>1 DEF Same, Own, Standing, Holding, Retiring, Owns, Claims, ClaimHeld, Quiet
  <2> QED BY <1>0, <1>s, <2>1, <2>2, HeldQuiet
<1>2. CASE /\ lock = None /\ lock' \in LockFile /\ lock' \notin torn
           /\ \A q \in Procs : lock' # local[q].seen
           /\ local'[p].pc = "write" /\ local'[p].mine = lock'
  <2>1. OnlyMoves(p) /\ UNCHANGED <<claim, torn, old, alive>>
    BY <1>0, OpenLockWrite
  <2>2. Own(p)'
    BY <1>h, <1>2, <2>1 DEF Own, Standing, Holding, Retiring, Owns, Claims, ClaimHeld
  <2>3. ASSUME NEW q \in alive \ {p}, Own(q), local'[q] = local[q]
        PROVE  Own(q)'
    <3>1. q \in Procs /\ TypeOK /\ Flow(q) /\ lock' # local[q].seen
      BY <1>0, <1>2, CallFacts, Fields
    <3>2. lock \notin old
      BY <1>h, <1>2, FilesDiffer
    <3>3. Standing(q)'
      BY <1>2, <2>1, <2>3, <3>1 DEF Own, Standing, Flow
    <3>4. Holding(q)'
      BY <2>1, <2>3 DEF Own, Holding
    <3>5. Retiring(q)'
      BY <1>2, <2>1, <2>3, <3>1, <3>2 DEF Own, Retiring
    <3> QED BY <3>3, <3>4, <3>5 DEF Own
  <2>4. Claimed'
    BY <1>0, <1>s, <1>h, <2>1, ClaimedKept DEF HeldInv
  <2> QED BY <1>0, <2>1, <2>2, <2>3, <2>4, HeldFiles
<1> QED BY <1>0, <1>1, <1>2, OpenLockWrite

\* Only its maker's lock becomes torn when a write fails.
LEMMA HeldWriteFails ==
  ASSUME FlowInv, HeldInv, NEW p \in Procs, WriteFails(p)
  PROVE  HeldInv'
<1>0. TypeOK /\ Flow(p) /\ local[p].pc = "write" /\ p \in alive /\ Token(p) \in Tokens
  BY CallFacts DEF WriteFails, At
<1>1. /\ Gone(p, "undo") /\ UNCHANGED <<lock, claim, old, alive>>
      /\ torn' = torn \cup {local[p].mine}
  BY <1>0, GoWrite, PointsAre DEF WriteFails
<1>2. /\ local[p].mine \in LockFile /\ local[p].mine # None /\ lock = local[p].mine
      /\ local[p].mine.token = Token(p)
  BY <1>0, Fields DEF Flow, Owns, HeldInv, Standing
<1>3. Own(p)'
  <2>1. Standing(p)
    BY <1>0 DEF HeldInv
  <2> QED BY <1>0, <1>1, <1>2, <2>1
      DEF Gone, Same, Own, Standing, Holding, Retiring, Owns, Claims, ClaimHeld
<1>4. Claimed'
  <2>1. Stays(p)
    BY <1>0 DEF Stays, ClaimHeld
  <2>2. torn' \subseteq torn \cup LockFile /\ old' \subseteq LockFile /\ Claimed
    BY <1>1, <1>2 DEF HeldInv, Claimed
  <2> QED BY <1>1, <2>1, <2>2, ClaimedKept DEF Gone
<1>5. ASSUME NEW q \in alive \ {p}, Own(q), local'[q] = local[q]
      PROVE  Own(q)'
  <2>1. q \in Procs /\ Flow(q) /\ local[q].mine # local[p].mine
    BY <1>0, <1>2, OneMaker, CallFacts, Fields
  <2>2. Standing(q)'
    BY <1>1, <1>5, <2>1 DEF Own, Standing
  <2>3. Holding(q)'
    BY <1>1, <1>5 DEF Own, Holding
  <2>4. Retiring(q)'
    <3>1. ASSUME local[q].pc \in {"same", "retire"}, local[q].found # None
          PROVE  FALSE
      <4>1. lock.token = local[q].found /\ local[q].pc \in Claims
        BY <1>5, <3>1 DEF Own, Retiring, Claims, ClaimHeld
      <4>2. local[q].found = Token(q) \/ local[q].found[1] \notin alive
        BY <2>1, <3>1, <4>1 DEF Flow
      <4> QED BY <1>0, <1>2, <1>5, <4>1, <4>2 DEF Token
    <3> QED BY <1>1, <1>5, <3>1 DEF Own, Retiring
  <2> QED BY <2>2, <2>3, <2>4 DEF Own
<1> QED BY <1>0, <1>1, <1>3, <1>4, <1>5, HeldFiles DEF Gone

\* A lock that nobody else made or is about to retire can go.
LEMMA HeldGoes ==
  ASSUME FlowInv, HeldInv, NEW p \in alive, NEW q \in alive, Own(q), local'[q] = local[q],
         lock' = None, torn' = torn \ {lock}, old' = old \ {lock}, claim' = claim,
         local[q].pc \in Owns => local[q].mine # lock,
         local[q].pc # "retire", local[q].pc = "same" => local[q].found = None
  PROVE  Own(q)'
<1>0. q \in Procs /\ Flow(q)
  BY CallFacts DEF FlowInv, TypeOK
<1>1. Standing(q)'
  BY <1>0 DEF Own, Standing, Flow, Owns
<1>2. Holding(q)'
  BY DEF Own, Holding
<1>3. Retiring(q)'
  BY <1>0 DEF Own, Retiring, Flow
<1> QED BY <1>1, <1>2, <1>3 DEF Own

\* A torn lock file is removed by its maker.
LEMMA HeldUndo ==
  ASSUME FlowInv, HeldInv, NEW p \in Procs, Undo(p)
  PROVE  HeldInv'
<1>0. TypeOK /\ Flow(p) /\ local[p].pc = "undoRm" /\ p \in alive
  BY CallFacts DEF Undo, At
<1>1. /\ Left(p) /\ UNCHANGED <<claim, alive>> /\ lock' = None /\ torn' = torn \ {lock}
      /\ old' = old \ {lock}
  BY <1>0, ReturnWrite DEF Undo
<1>2. /\ local[p].mine # None /\ lock = local[p].mine /\ lock \in torn /\ lock \notin old
  BY <1>0 DEF Flow, Owns, HeldInv, Standing
<1>3. old' \subseteq LockFile /\ torn' \subseteq torn \cup LockFile /\ Claimed
  BY <1>1 DEF HeldInv, Claimed
<1>4. Own(p)'
  <2>1. local'[p].pc \notin Owns \cup Claims /\ local'[p].mine = None
    BY <1>1 DEF Left, Over, Owns, Claims, ClaimHeld
  <2> QED BY <1>0, <1>3, <2>1, OwnNothing
<1>5. Claimed'
  <2>1. Stays(p)
    BY <1>0 DEF Stays, ClaimHeld
  <2> QED BY <1>1, <1>3, <2>1, ClaimedKept DEF Left
<1>6. ASSUME NEW q \in alive \ {p}, Own(q), local'[q] = local[q]
      PROVE  Own(q)'
  <2>1. q \in Procs /\ local[q].mine # local[p].mine
    BY <1>0, <1>2, OneMaker, Fields
  <2>2. local[q].pc # "retire" /\ (local[q].pc = "same" => local[q].found = None)
    BY <1>2, <1>6 DEF Own, Retiring
  <2> QED BY <1>0, <1>1, <1>2, <1>6, <2>1, <2>2, HeldGoes
<1> QED BY <1>0, <1>1, <1>4, <1>5, <1>6, HeldFiles DEF Left

\* A lock that is retired is a dead process's, torn, or one's own.
LEMMA HeldRetire ==
  ASSUME FlowInv, HeldInv, NEW p \in Procs, Retire(p)
  PROVE  HeldInv'
<1>0. TypeOK /\ Flow(p) /\ local[p].pc = "retire" /\ p \in alive
  BY CallFacts DEF Retire, At
<1>1. /\ Gone(p, "drop") /\ UNCHANGED <<claim, alive>> /\ lock' = None /\ torn' = torn \ {lock}
      /\ old' = old \ {lock}
  BY <1>0, RetireWrite
<1>2. Standing(p) /\ Holding(p) /\ Retiring(p) /\ old \subseteq torn
  BY <1>0, Fields DEF HeldInv
<1>3. old' \subseteq LockFile /\ torn' \subseteq torn \cup LockFile /\ Claimed
  BY <1>1 DEF HeldInv, Claimed
<1>4. Own(p)'
  BY <1>0, <1>1, <1>2 DEF Gone, Same, Own, Standing, Holding, Retiring, Flow, Owns, Claims, ClaimHeld
<1>5. Claimed'
  <2>1. Stays(p)
    BY <1>0, <1>1 DEF Stays, ClaimHeld, Gone, Same
  <2> QED BY <1>1, <1>3, <2>1, ClaimedKept DEF Gone
<1>6. ASSUME NEW q \in alive \ {p}, Own(q), local'[q] = local[q]
      PROVE  Own(q)'
  <2>0. q \in Procs /\ Flow(q)
    BY <1>0, CallFacts, Fields
  <2>1. CASE local[p].found = None
    <3>1. lock \in old /\ lock \in torn
      BY <1>0, <1>2, <2>1 DEF Retiring
    <3>2. local[q].pc \in Owns => local[q].mine # lock
      BY <1>6, <3>1 DEF Own, Standing
    <3>3. local[q].pc \in {"same", "retire"} => local[q].found = None
      BY <1>6, <3>1 DEF Own, Retiring
    <3>4. local[q].pc # "retire"
      <4> SUFFICES ASSUME local[q].pc = "retire" PROVE FALSE
        OBVIOUS
      <4>1. local[q].key = InvalidToken /\ local[p].key = InvalidToken
        BY <1>0, <2>0, <2>1, <3>3 DEF Flow, Claims, ClaimHeld
      <4>2. local[q].pc \in ClaimHeld /\ local[p].pc \in ClaimHeld
        BY <1>0 DEF ClaimHeld
      <4> QED BY <1>0, <1>6, <4>1, <4>2, OneHolder
    <3> QED BY <1>0, <1>1, <1>6, <3>2, <3>3, <3>4, HeldGoes
  <2>2. CASE local[p].found # None
    <3>1. lock # None /\ lock.token = local[p].found /\ lock \notin torn
      BY <1>0, <1>2, <2>2 DEF Retiring
    <3>2. local[p].found[1] \notin alive \/ local[p].found = Token(p)
      BY <1>0, <2>2 DEF Flow, Claims, ClaimHeld
    <3>3. local[q].pc \in Owns => local[q].mine # lock
      <4> SUFFICES ASSUME local[q].pc \in Owns, local[q].mine = lock PROVE FALSE
        OBVIOUS
      <4>1. lock.token = Token(q)
        BY <2>0, <3>1 DEF Flow
      <4> QED BY <1>6, <3>1, <3>2, <4>1 DEF Token
    <3>4. ~(local[q].pc \in {"same", "retire"} /\ local[q].found # None)
      <4> SUFFICES ASSUME local[q].pc \in {"same", "retire"}, local[q].found # None PROVE FALSE
        OBVIOUS
      <4>1. local[q].found = lock.token
        BY <1>6 DEF Own, Retiring
      <4>2. /\ local[q].key = local[q].found /\ local[p].key = local[p].found
            /\ local[q].pc \in ClaimHeld /\ local[p].pc \in ClaimHeld
        BY <1>0, <2>0, <2>2 DEF Flow, Claims, ClaimHeld
      <4> QED BY <1>0, <1>6, <3>1, <4>1, <4>2, OneHolder
    <3>5. ~(local[q].pc = "retire" /\ local[q].found = None)
      BY <1>2, <1>6, <3>1 DEF Own, Retiring
    <3> QED BY <1>0, <1>1, <1>6, <3>3, <3>4, <3>5, HeldGoes
  <2> QED BY <2>1, <2>2
<1> QED BY <1>0, <1>1, <1>4, <1>5, <1>6, HeldFiles DEF Gone

\* A new claim is held by its maker.
LEMMA HeldOpenClaim ==
  ASSUME FlowInv, HeldInv, NEW p \in Procs, OpenClaim(p)
  PROVE  HeldInv'
<1>0. TypeOK /\ Flow(p) /\ local[p].pc = "claim" /\ p \in alive /\ local[p].key \in ClaimTokens
  BY CallFacts DEF OpenClaim, At, Claims
<1>h. Standing(p) /\ Holding(p) /\ Retiring(p) /\ Claimed
  BY <1>0 DEF HeldInv
<1>s. Stays(p)
  BY <1>0 DEF Stays, ClaimHeld
<1>1. CASE UNCHANGED claim /\ Gone(p, "deadStat")
  <2>1. Quiet
    BY <1>1 DEF OpenClaim, Quiet
  <2>2. Own(p)'
    BY <1>0, <1>h, <1>1, <2>1
       DEF Gone, Same, Own, Standing, Holding, Retiring, Owns, Claims, ClaimHeld, Quiet
  <2> QED BY <1>0, <1>s, <1>1, <2>1, <2>2, HeldQuiet DEF Gone
<1>2. CASE /\ claim[local[p].key] = None /\ OnlyMoves(p) /\ local'[p].pc = "claimWrite"
           /\ claim' = [claim EXCEPT ![local[p].key] = local'[p].made]
           /\ local'[p].mine = local[p].mine /\ local'[p].seen = local[p].seen
           /\ local'[p].found = local[p].found /\ local'[p].key = local[p].key
  <2>1. UNCHANGED <<lock, torn, old, alive>> /\ claim \in [ClaimTokens -> ClaimFile \cup {None}]
    BY <1>0, Fields DEF OpenClaim
  <2>2. claim'[local[p].key] = local'[p].made
    BY <1>0, <1>2, <2>1
  <2>3. \A t \in ClaimTokens \ {local[p].key} : claim'[t] = claim[t]
    BY <1>0, <1>2, <2>1
  <2>4. Own(p)'
    BY <1>0, <1>h, <1>2, <2>1, <2>2 DEF Own, Standing, Holding, Retiring, Owns, Claims, ClaimHeld
  <2>5. ASSUME NEW q \in alive \ {p}, Own(q), local'[q] = local[q]
        PROVE  Own(q)'
    <3>0. q \in Procs /\ Flow(q) /\ (local[q].pc \in Claims => local[q].key \in ClaimTokens)
      BY <1>0, CallFacts, Fields
    <3>1. ASSUME local[q].pc \in ClaimHeld
          PROVE  claim'[local[q].key] = claim[local[q].key]
      <4>1. local[q].key \in ClaimTokens
        BY <3>0, <3>1 DEF Claims
      <4>2. claim[local[q].key] = local[q].made /\ local[q].made # None
        BY <2>5, <3>0, <3>1 DEF Own, Holding, Flow
      <4> QED BY <1>2, <2>3, <4>1, <4>2
    <3> QED BY <2>1, <2>5, <3>1 DEF Own, Standing, Holding, Retiring
  <2>6. Claimed'
    <3>1. ASSUME NEW t \in ClaimTokens, claim'[t] # None
          PROVE  \E q \in alive' : local'[q].pc \in ClaimHeld /\ local'[q].key = t /\ local'[q].made = claim'[t]
      <4>1. CASE t = local[p].key
        <5>1. local'[p].pc \in ClaimHeld
          BY <1>2 DEF ClaimHeld
        <5> QED BY <1>0, <1>2, <2>1, <2>2, <4>1, <5>1
      <4>2. CASE t # local[p].key
        <5>1. claim'[t] = claim[t]
          BY <2>3, <4>2
        <5>2. PICK q \in alive : local[q].pc \in ClaimHeld /\ local[q].key = t /\ local[q].made = claim[t]
          BY <1>h, <3>1, <5>1 DEF Claimed
        <5>3. q # p /\ q \in Procs
          BY <1>0, <4>2, <5>2, Fields
        <5>4. local'[q] = local[q]
          BY <1>2, <5>3 DEF OnlyMoves
        <5> QED BY <2>1, <5>1, <5>2, <5>4
      <4> QED BY <4>1, <4>2
    <3>2. ASSUME NEW f \in torn', f \notin LockFile
          PROVE  \E q \in alive' : local'[q].pc \in {"undoClaim", "undoClaimRm"} /\ local'[q].made = f
      <4>1. PICK q \in alive : local[q].pc \in {"undoClaim", "undoClaimRm"} /\ local[q].made = f
        BY <1>h, <2>1, <3>2 DEF Claimed
      <4>2. q # p /\ q \in Procs
        BY <1>0, <4>1, Fields
      <4>3. local'[q] = local[q]
        BY <1>2, <4>2 DEF OnlyMoves
      <4> QED BY <2>1, <4>1, <4>3
    <3>3. old' \subseteq LockFile
      BY <1>h, <2>1 DEF Claimed
    <3> QED BY <3>1, <3>2, <3>3 DEF Claimed
  <2> QED BY <1>0, <1>2, <2>1, <2>4, <2>5, <2>6, HeldFiles
<1> QED BY <1>0, <1>1, <1>2, OpenClaimWrite

\* A claim whose write failed stays with its maker.
LEMMA HeldClaimWriteFails ==
  ASSUME FlowInv, HeldInv, NEW p \in Procs, ClaimWriteFails(p)
  PROVE  HeldInv'
<1>0. TypeOK /\ Flow(p) /\ local[p].pc = "claimWrite" /\ p \in alive
  BY CallFacts DEF ClaimWriteFails, At
<1>h. Standing(p) /\ Holding(p) /\ Retiring(p) /\ Claimed
  BY <1>0 DEF HeldInv
<1>1. /\ Gone(p, "undoClaim") /\ UNCHANGED <<lock, claim, old, alive>>
      /\ torn' = torn \cup {local[p].made}
  BY <1>0, GoWrite, PointsAre DEF ClaimWriteFails
<1>2. local[p].made \in ClaimFile /\ local[p].made \notin LockFile
  BY <1>0, Fields, FilesDiffer DEF Flow, ClaimHeld
<1>3. /\ local[p].mine # local[p].made
      /\ \A q \in Procs : local[q].mine # local[p].made
      /\ lock # local[p].made
  BY <1>0, <1>2, Fields, FilesDiffer
<1>4. Own(p)'
  BY <1>0, <1>h, <1>1, <1>3 DEF Gone, Same, Own, Standing, Holding, Retiring, Owns, Claims, ClaimHeld
<1>5. ASSUME NEW q \in alive \ {p}, Own(q), local'[q] = local[q]
      PROVE  Own(q)'
  <2>0. q \in Procs
    BY <1>0, Fields
  <2> QED BY <1>1, <1>3, <1>5, <2>0 DEF Own, Standing, Holding, Retiring
<1>6. Claimed'
  <2>0. local'[p].pc = "undoClaim" /\ local'[p].made = local[p].made /\ local'[p].key = local[p].key
    BY <1>1 DEF Gone, Same
  <2>1. ASSUME NEW t \in ClaimTokens, claim'[t] # None
        PROVE  \E q \in alive' : local'[q].pc \in ClaimHeld /\ local'[q].key = t /\ local'[q].made = claim'[t]
    <3>1. PICK q \in alive : local[q].pc \in ClaimHeld /\ local[q].key = t /\ local[q].made = claim[t]
      BY <1>h, <1>1, <2>1 DEF Claimed
    <3>2. q \in Procs /\ (q # p => local'[q] = local[q])
      BY <1>0, <1>1, <3>1, Fields DEF Gone, OnlyMoves
    <3>3. local'[q].pc \in ClaimHeld /\ local'[q].key = t /\ local'[q].made = claim[t]
      BY <2>0, <3>1, <3>2 DEF ClaimHeld
    <3> QED BY <1>1, <3>1, <3>3
  <2>2. ASSUME NEW f \in torn', f \notin LockFile
        PROVE  \E q \in alive' : local'[q].pc \in {"undoClaim", "undoClaimRm"} /\ local'[q].made = f
    <3>1. CASE f = local[p].made
      BY <1>0, <1>1, <2>0, <3>1
    <3>2. CASE f # local[p].made
      <4>1. PICK q \in alive : local[q].pc \in {"undoClaim", "undoClaimRm"} /\ local[q].made = f
        BY <1>h, <1>1, <2>2, <3>2 DEF Claimed
      <4>2. local'[q] = local[q]
        BY <1>0, <1>1, <4>1, Fields DEF Gone, OnlyMoves
      <4> QED BY <1>1, <4>1, <4>2
    <3> QED BY <3>1, <3>2
  <2>3. old' \subseteq LockFile
    BY <1>h, <1>1 DEF Claimed
  <2> QED BY <2>1, <2>2, <2>3 DEF Claimed
<1> QED BY <1>0, <1>1, <1>4, <1>5, <1>6, HeldFiles DEF Gone

\* A holder unlinks its own claim and nothing else.
LEMMA HeldUnlink ==
  ASSUME FlowInv, HeldInv, NEW p \in alive, local[p].pc \in {"undoClaimRm", "dropRm"},
         Left(p) \/ Gone(p, "retry"), UNCHANGED <<lock, alive>>,
         claim' = [claim EXCEPT ![local[p].key] = None],
         torn' = torn \ {local[p].made} \/ (torn' = torn /\ local[p].pc = "dropRm"),
         old' = old \ {local[p].made} \/ old' = old
  PROVE  HeldInv'
<1>0. TypeOK /\ p \in Procs /\ Flow(p) /\ local[p].key \in ClaimTokens /\ local[p].pc \in ClaimHeld
  BY CallFacts DEF FlowInv, TypeOK, Claims, ClaimHeld
<1>h. Standing(p) /\ Holding(p) /\ Retiring(p) /\ Claimed
  BY DEF HeldInv
<1>1. /\ OnlyMoves(p) /\ local'[p].pc \in {"idle", "retry"}
      /\ local'[p].mine \in {None, local[p].mine}
  BY DEF Left, Gone, Over, Same
<1>2. local[p].made \in ClaimFile /\ local[p].made \notin LockFile /\ claim[local[p].key] = local[p].made
  BY <1>0, <1>h, Fields, FilesDiffer DEF Flow, Holding
<1>3. /\ \A q \in Procs : local[q].mine # local[p].made
      /\ lock # local[p].made
  BY <1>0, <1>2, Fields, FilesDiffer
<1>4. claim \in [ClaimTokens -> ClaimFile \cup {None}]
  BY <1>0, Fields
<1>5. claim'[local[p].key] = None /\ \A t \in ClaimTokens \ {local[p].key} : claim'[t] = claim[t]
  BY <1>0, <1>4
<1>6. Own(p)'
  <2>1. local'[p].mine \notin old' /\ local'[p].pc \notin Owns /\ local'[p].pc \notin Claims
    BY <1>h, <1>1, FilesDiffer DEF Standing, Claimed, Owns, Claims, ClaimHeld
  <2> QED BY <1>1, <2>1 DEF Own, Standing, Holding, Retiring, Owns, Claims, ClaimHeld
<1>7. ASSUME NEW q \in alive \ {p}, Own(q), local'[q] = local[q]
      PROVE  Own(q)'
  <2>0. q \in Procs /\ Flow(q) /\ (local[q].pc \in Claims => local[q].key \in ClaimTokens)
    BY <1>0, CallFacts, Fields
  <2>1. ASSUME local[q].pc \in ClaimHeld
        PROVE  claim'[local[q].key] = claim[local[q].key]
    <3>1. local[q].key \in ClaimTokens
      BY <2>0, <2>1 DEF Claims
    <3>2. local[q].key # local[p].key
      BY <1>0, <1>7, <2>1, OneHolder
    <3> QED BY <1>5, <3>1, <3>2
  <2>2. Standing(q)'
    BY <1>3, <1>7, <2>0 DEF Own, Standing
  <2>3. Holding(q)'
    BY <1>7, <2>1 DEF Own, Holding
  <2>4. Retiring(q)'
    BY <1>3, <1>7 DEF Own, Retiring
  <2> QED BY <2>2, <2>3, <2>4 DEF Own
<1>8. Claimed'
  <2>1. ASSUME NEW t \in ClaimTokens, claim'[t] # None
        PROVE  \E q \in alive' : local'[q].pc \in ClaimHeld /\ local'[q].key = t /\ local'[q].made = claim'[t]
    <3>0. t # local[p].key /\ claim'[t] = claim[t]
      BY <1>5, <2>1
    <3>1. PICK q \in alive : local[q].pc \in ClaimHeld /\ local[q].key = t /\ local[q].made = claim[t]
      BY <1>h, <2>1, <3>0 DEF Claimed
    <3>2. local'[q] = local[q]
      BY <1>0, <1>1, <3>0, <3>1, Fields DEF OnlyMoves
    <3> QED BY <3>0, <3>1, <3>2
  <2>2. ASSUME NEW f \in torn', f \notin LockFile
        PROVE  \E q \in alive' : local'[q].pc \in {"undoClaim", "undoClaimRm"} /\ local'[q].made = f
    <3>1. PICK q \in alive : local[q].pc \in {"undoClaim", "undoClaimRm"} /\ local[q].made = f
      BY <1>h, <2>2 DEF Claimed
    <3>2. q # p
      BY <2>2, <3>1
    <3>3. local'[q] = local[q]
      BY <1>0, <1>1, <3>1, <3>2, Fields DEF OnlyMoves
    <3> QED BY <3>1, <3>3
  <2>3. old' \subseteq LockFile
    BY <1>h DEF Claimed
  <2> QED BY <2>1, <2>2, <2>3 DEF Claimed
<1> QED BY <1>1, <1>6, <1>7, <1>8, HeldFiles

\* A process that dies without a claim takes nothing with it.
LEMMA HeldCrash ==
  ASSUME FlowInv, HeldInv, "crash_in_claim" \notin Faults, NEW p \in Procs, Crash(p)
  PROVE  HeldInv'
<1>0. TypeOK /\ Flow(p) /\ Claimed
  BY CallFacts DEF HeldInv
<1>1. /\ UNCHANGED <<lock, claim, old>> /\ p \in alive /\ alive' = alive \ {p}
      /\ local[p].pc \notin ClaimHeld /\ OnlyMoves(p)
  BY <1>0, CrashWrite
<1>2. torn' = torn \cup (IF local[p].pc = "write" THEN {local[p].mine} ELSE {})
  BY <1>0, <1>1, CrashWrite DEF ClaimHeld
<1>3. local[p].pc = "write" => /\ local[p].mine \in LockFile /\ local[p].mine # None
                               /\ lock = local[p].mine /\ local[p].mine.token = Token(p)
  BY <1>0, <1>1, Fields DEF Flow, Owns, HeldInv, Standing
<1>4. ASSUME NEW q \in alive'
      PROVE  Own(q)'
  <2>0. q \in Procs /\ q # p /\ q \in alive /\ Flow(q) /\ local'[q] = local[q]
    BY <1>0, <1>1, <1>4, CallFacts, Fields DEF OnlyMoves
  <2>1. Standing(q) /\ Holding(q) /\ Retiring(q)
    BY <2>0 DEF HeldInv
  <2>2. Standing(q)'
    <3>1. local[p].pc = "write" => local[q].mine # local[p].mine
      BY <1>3, <2>0, OneMaker
    <3> QED BY <1>1, <1>2, <2>0, <2>1, <3>1 DEF Standing
  <2>3. Holding(q)'
    BY <1>1, <2>0, <2>1 DEF Holding
  <2>4. Retiring(q)'
    <3>1. ASSUME local[q].pc \in {"same", "retire"}, local[q].found # None, local[p].pc = "write"
          PROVE  FALSE
      <4>1. lock.token = local[q].found /\ local[q].pc \in Claims
        BY <2>1, <3>1 DEF Retiring, Claims, ClaimHeld
      <4>2. local[q].found = Token(q) \/ local[q].found[1] \notin alive
        BY <2>0, <3>1, <4>1 DEF Flow
      <4> QED BY <1>1, <1>3, <2>0, <3>1, <4>1, <4>2 DEF Token
    <3> QED BY <1>1, <1>2, <2>0, <2>1, <3>1 DEF Retiring
  <2> QED BY <2>2, <2>3, <2>4 DEF Own
<1>5. Claimed'
  <2>1. ASSUME NEW t \in ClaimTokens, claim'[t] # None
        PROVE  \E q \in alive' : local'[q].pc \in ClaimHeld /\ local'[q].key = t /\ local'[q].made = claim'[t]
    <3>1. PICK q \in alive : local[q].pc \in ClaimHeld /\ local[q].key = t /\ local[q].made = claim[t]
      BY <1>0, <1>1, <2>1 DEF Claimed
    <3>2. q # p
      BY <1>1, <3>1
    <3>3. local'[q] = local[q]
      BY <1>0, <1>1, <3>1, <3>2, Fields DEF OnlyMoves
    <3> QED BY <1>1, <3>1, <3>2, <3>3
  <2>2. ASSUME NEW f \in torn', f \notin LockFile
        PROVE  \E q \in alive' : local'[q].pc \in {"undoClaim", "undoClaimRm"} /\ local'[q].made = f
    <3>1. PICK q \in alive : local[q].pc \in {"undoClaim", "undoClaimRm"} /\ local[q].made = f
      BY <1>0, <1>2, <1>3, <2>2 DEF Claimed
    <3>2. q # p
      BY <1>1, <3>1 DEF ClaimHeld
    <3>3. local'[q] = local[q]
      BY <1>0, <1>1, <3>1, <3>2, Fields DEF OnlyMoves
    <3> QED BY <1>1, <3>1, <3>2, <3>3
  <2>3. old' \subseteq LockFile
    BY <1>0, <1>1 DEF Claimed
  <2> QED BY <2>1, <2>2, <2>3 DEF Claimed
<1> QED BY <1>4, <1>5 DEF HeldInv, Own

\* Only lock files that no live process made grow old.
LEMMA HeldGrowOld ==
  ASSUME FlowInv, HeldInv, NEW f \in torn, GrowOld(f)
  PROVE  HeldInv'
<1>1. /\ UNCHANGED <<lock, claim, torn, alive, local>> /\ old' = old \cup {f}
      /\ \A p \in alive : local[p].mine # f /\ local[p].made # f
  BY DEF GrowOld
<1>2. f \in LockFile
  BY <1>1 DEF HeldInv, Claimed
<1>3. ASSUME NEW q \in alive
      PROVE  Own(q)'
  <2>1. Standing(q) /\ Holding(q) /\ Retiring(q)
    BY DEF HeldInv
  <2> QED BY <1>1, <2>1 DEF Own, Standing, Holding, Retiring
<1>4. Claimed'
  <2>1. Claimed
    BY DEF HeldInv
  <2> QED BY <1>1, <1>2, <2>1 DEF Claimed
<1> QED BY <1>1, <1>3, <1>4 DEF HeldInv, Own

\* Every step keeps what holders hold.
LEMMA HeldStep ==
  ASSUME FlowInv, HeldInv, "crash_in_claim" \notin Faults, [Next]_vars
  PROVE  HeldInv'
<1>1. CASE UNCHANGED vars
  BY <1>1 DEF HeldInv, Standing, Holding, Retiring, Claimed, vars
<1>2. ASSUME NEW p \in Procs, UndoClaim(p)
      PROVE  HeldInv'
  <2>0. TypeOK /\ p \in alive /\ local[p].pc = "undoClaimRm"
    BY <1>2, CallFacts DEF UndoClaim, At
  <2>1. Left(p)
    BY <1>2, <2>0, ReturnWrite DEF UndoClaim
  <2>2. claim[local[p].key] = local[p].made
    BY <2>0 DEF HeldInv, Holding, ClaimHeld
  <2> QED BY <1>2, <2>0, <2>1, <2>2, HeldUnlink DEF UndoClaim
<1>3. ASSUME NEW p \in Procs, UnlinkClaim(p)
      PROVE  HeldInv'
  <2>0. TypeOK /\ p \in alive /\ local[p].pc = "dropRm"
    BY <1>3, CallFacts DEF UnlinkClaim, At
  <2>1. Left(p) \/ Gone(p, "retry")
    BY <1>3, <2>0, GiveUpWrite DEF UnlinkClaim, Quit
  <2> QED BY <1>3, <2>0, <2>1, HeldUnlink DEF UnlinkClaim
<1>4. ASSUME NEW p \in Procs, RemoveClaim(p)
      PROVE  HeldInv'
  BY <1>4 DEF RemoveClaim, At, HeldInv, Holding
<1>5. ASSUME NEW p \in Procs, Call(p) \/ AcquireStep(p) \/ WriteFails(p) \/ TimeOut(p)
      PROVE  HeldInv'
  BY <1>5, HeldQuietAcquire, HeldOpenLock, HeldUndo, HeldWriteFails DEF AcquireStep
<1>6. ASSUME NEW p \in Procs, ClaimStep(p) \/ ClaimWriteFails(p)
      PROVE  HeldInv'
  BY <1>2, <1>3, <1>4, <1>6, HeldQuietClaim, HeldOpenClaim, HeldRetire, HeldClaimWriteFails
     DEF ClaimStep
<1> QED BY <1>1, <1>5, <1>6, HeldCrash, HeldGrowOld DEF Next

-----------------------------------------------------------------------------
(* A returned process leaves nothing behind, unless a claim cannot be        *)
(* written.                                                                  *)

Away(p) == lock = None \/ lock.token[1] # p
Bare(p) == \A t \in ClaimTokens : claim[t] # None => claim[t].pid # p

\* A process outside a claim has none at any path.
LEMMA BareOutside ==
  ASSUME LeaveInv, NEW p \in alive, local[p].pc \notin ClaimHeld
  PROVE  Bare(p)
BY DEF LeaveInv, Dropping, Bare

\* Claims stay with their makers when no claim changes.
LEMMA DroppingKept ==
  ASSUME FlowInv, LeaveInv, NEW p \in Procs, OnlyMoves(p), claim' = claim, alive' = alive,
         Stays(p) \/ Bare(p)
  PROVE  Dropping'
<1>1. ASSUME NEW t \in ClaimTokens, claim[t] # None, claim[t].pid \in alive
      PROVE  /\ local'[claim[t].pid].pc \in ClaimHeld /\ local'[claim[t].pid].key = t
             /\ local'[claim[t].pid].made = claim[t]
  <2>1. /\ local[claim[t].pid].pc \in ClaimHeld /\ local[claim[t].pid].key = t
        /\ local[claim[t].pid].made = claim[t] /\ claim[t].pid \in Procs
    BY <1>1 DEF LeaveInv, Dropping, FlowInv, TypeOK
  <2>2. CASE claim[t].pid # p
    <3>1. local'[claim[t].pid] = local[claim[t].pid]
      BY <2>1, <2>2 DEF OnlyMoves
    <3> QED BY <2>1, <3>1
  <2>3. CASE claim[t].pid = p
    <3>1. Stays(p)
      BY <1>1, <2>3 DEF Bare
    <3> QED BY <2>1, <2>3, <3>1 DEF Stays
  <2> QED BY <2>2, <2>3
<1>2. ASSUME NEW t \in ClaimTokens, claim[t] # None, t \in Tokens, t[1] \in alive
      PROVE  claim[t].pid = t[1]
  BY <1>2 DEF LeaveInv, Dropping
<1> QED BY <1>1, <1>2 DEF Dropping

\* One process moves and the others keep their files.
LEMMA LeaveFiles ==
  ASSUME FlowInv, LeaveInv, NEW p \in alive, OnlyMoves(p), alive' = alive, Cleaning(p)',
         local'[p].pc \notin {"undoClaim", "undoClaimRm"}, Dropping',
         \A q \in alive \ {p} : Cleaning(q) /\ local'[q] = local[q] => Cleaning(q)'
  PROVE  LeaveInv'
<1>1. alive \subseteq Procs
  BY DEF FlowInv, TypeOK
<1>2. ASSUME NEW q \in alive \ {p}
      PROVE  Cleaning(q)' /\ local'[q].pc \notin {"undoClaim", "undoClaimRm"}
  BY <1>1 DEF OnlyMoves, LeaveInv
<1> QED BY <1>2 DEF LeaveInv

\* A step that only moves one call.
LEMMA LeaveQuiet ==
  ASSUME FlowInv, LeaveInv, NEW p \in alive, OnlyMoves(p), Quiet, Cleaning(p)',
         local'[p].pc \notin {"undoClaim", "undoClaimRm"}, Stays(p) \/ Bare(p)
  PROVE  LeaveInv'
<1>1. p \in Procs /\ claim' = claim /\ alive' = alive
  BY DEF FlowInv, TypeOK, Quiet
<1>2. Dropping'
  BY <1>1, DroppingKept
<1>3. ASSUME NEW q \in alive \ {p}, Cleaning(q), local'[q] = local[q]
      PROVE  Cleaning(q)'
  BY <1>3 DEF Cleaning, Quiet
<1> QED BY <1>1, <1>2, <1>3, LeaveFiles

\* A process without a lock at the path.
LEMMA CleanAway ==
  ASSUME NEW p, Away(p), lock' = lock
  PROVE  Cleaning(p)'
BY DEF Away, Cleaning

\* A process that is neither acquiring nor releasing has no lock at the path.
LEMMA AwayOutside ==
  ASSUME LeaveInv, NEW p \in alive, local[p].pc \notin Owns,
         local[p].releasing => local[p].pc \notin Releases
  PROVE  Away(p)
BY DEF LeaveInv, Cleaning, Away

\* An owner that releases reads its own token at the path.
LEMMA OwnRead ==
  ASSUME FlowInv, LeaveInv, NEW p \in alive, ~Away(p), local[p].pc \notin {"write", "undo", "undoRm"}
  PROVE  LockOwner = Token(p) /\ lock = local[p].mine
<1>0. p \in Procs /\ TypeOK /\ Flow(p) /\ Cleaning(p)
  BY CallFacts DEF FlowInv, TypeOK, LeaveInv
<1>1. lock # None /\ lock = local[p].mine /\ lock \notin torn /\ lock \in LockFile
  BY <1>0, Fields DEF Cleaning, Away
<1>2. lock.token = Token(p)
  BY <1>0, <1>1 DEF Flow
<1>3. ~Empty(lock)
  <2>1. ASSUME NEW q \in Procs, local[q].pc = "write", local[q].mine = lock
        PROVE  FALSE
    <3>1. q = p
      BY <1>0, <1>1, <2>1, OneMaker
    <3> QED BY <2>1, <3>1
  <2>2. ASSUME NEW q \in Procs, local[q].made = lock
        PROVE  FALSE
    BY <1>0, <1>1, <2>2, Fields, FilesDiffer
  <2> QED BY <1>1, <2>1, <2>2 DEF Empty
<1> QED BY <1>1, <1>2, <1>3 DEF LockOwner

\* The steps of an acquisition leave nothing behind.
LEMMA LeaveAcquire ==
  ASSUME FlowInv, LeaveInv, NEW p \in Procs,
         \/ Call(p) \/ WriteOwner(p) \/ StatUndo(p) \/ Publish(p) \/ Retry(p) \/ TimeOut(p)
         \/ Finish(p) \/ Stat(p) \/ ReadOwner(p) \/ ReadAge(p)
  PROVE  LeaveInv'
<1>0. TypeOK /\ Flow(p)
  BY CallFacts
<1>t. local[p].pc \notin {"idle", "dead"} => Token(p) \in Tokens
  BY CallFacts
<1>c. p \in alive => Cleaning(p) /\ local[p].pc \notin {"undoClaim", "undoClaimRm"}
  BY DEF LeaveInv
<1>b. p \in alive /\ local[p].pc \notin ClaimHeld => Bare(p)
  BY BareOutside
<1>a. Quiet /\ p \in alive /\ Away(p) /\ OnlyMoves(p) /\ local[p].pc \notin ClaimHeld
         /\ local'[p].pc \notin {"undoClaim", "undoClaimRm"} => LeaveInv'
  BY <1>b, CleanAway, LeaveQuiet DEF Quiet
<1>1. CASE Call(p)
  <2>1. Quiet /\ p \in alive /\ OnlyMoves(p) /\ local[p].pc = "idle" /\ local'[p].pc \in {"open"}
    BY <1>0, <1>1, CallWrite
  <2>2. local[p].pc \notin ClaimHeld /\ local[p].pc \notin Owns /\ (local[p].releasing => local[p].pc \notin Releases)
    BY <1>0, <2>1 DEF Flow, ClaimHeld, Owns, Releases
  <2> QED BY <1>a, <2>1, <2>2, AwayOutside
<1>2. CASE Retry(p)
  <2>1. Quiet /\ p \in alive /\ OnlyMoves(p) /\ local[p].pc = "retry" /\ local'[p].pc \in {"open"}
    BY <1>0, <1>2, RetryWrite
  <2>2. local[p].pc \notin ClaimHeld /\ local[p].pc \notin Owns /\ (local[p].releasing => local[p].pc \notin Releases)
    BY <1>0, <2>1 DEF Flow, ClaimHeld, Owns, Releases
  <2> QED BY <1>a, <2>1, <2>2, AwayOutside
<1>3. CASE TimeOut(p)
  <2>1. Quiet /\ p \in alive /\ OnlyMoves(p) /\ local[p].pc = "retry" /\ local'[p].pc \in {"idle"}
    BY <1>0, <1>3, GoWrite, ReturnWrite, GiveUpWrite, PointsAre DEF Gone, Left, Quit, At, Quiet, TimeOut
  <2>2. local[p].pc \notin ClaimHeld /\ local[p].pc \notin Owns /\ (local[p].releasing => local[p].pc \notin Releases)
    BY <1>0, <2>1 DEF Flow, ClaimHeld, Owns, Releases
  <2> QED BY <1>a, <2>1, <2>2, AwayOutside
<1>4. CASE ReadAge(p)
  <2>1. Quiet /\ p \in alive /\ OnlyMoves(p) /\ local[p].pc = "age" /\ local'[p].pc \in {"claim", "retry"}
    BY <1>0, <1>4, ReadAgeWrite DEF Gone, Aims
  <2>2. local[p].pc \notin ClaimHeld /\ local[p].pc \notin Owns /\ (local[p].releasing => local[p].pc \notin Releases)
    BY <1>0, <2>1 DEF Flow, ClaimHeld, Owns, Releases
  <2> QED BY <1>a, <2>1, <2>2, AwayOutside
<1>5. CASE WriteOwner(p)
  <2>1. Gone(p, "publish") /\ Quiet /\ p \in alive /\ local[p].pc = "write"
    BY <1>0, <1>5, GoWrite, PointsAre DEF WriteOwner, At, Quiet
  <2>2. Cleaning(p)'
    BY <1>0, <1>c, <2>1 DEF Flow, Gone, Same, Cleaning, Owns, Releases, Quiet
  <2>3. OnlyMoves(p) /\ local'[p].pc = "publish" /\ Bare(p)
    BY <1>b, <2>1 DEF Gone, ClaimHeld
  <2> QED BY <2>1, <2>2, <2>3, LeaveQuiet
<1>6. CASE StatUndo(p)
  <2>1. Quiet /\ p \in alive /\ local[p].pc = "undo" /\ local[p].pc \notin ClaimHeld
    BY <1>6 DEF StatUndo, At, Quiet, ClaimHeld
  <2>2. CASE lock = local[p].mine
    <3>1. Gone(p, "undoRm")
      BY <1>0, <1>6, <2>2, GoWrite, PointsAre DEF StatUndo
    <3>2. Cleaning(p)'
      BY <1>0, <1>c, <2>1, <3>1 DEF Flow, Gone, Same, Cleaning, Owns, Releases, Quiet
    <3> QED BY <1>b, <2>1, <3>1, <3>2, LeaveQuiet DEF Gone
  <2>3. CASE lock # local[p].mine
    <3>1. Away(p)
      BY <1>c, <2>1, <2>3 DEF Cleaning, Away
    <3>2. OnlyMoves(p) /\ local'[p].pc = "idle"
      BY <1>0, <1>6, <2>3, ReturnWrite DEF StatUndo, Left
    <3> QED BY <1>a, <2>1, <3>1, <3>2
  <2> QED BY <2>2, <2>3
<1>7. CASE Publish(p)
  <2>1. Quiet /\ p \in alive /\ local[p].pc = "publish" /\ local[p].pc \notin ClaimHeld
    BY <1>7 DEF Publish, At, Quiet, ClaimHeld
  <2>2. CASE lock = local[p].mine
    <3>1. Gone(p, "hold")
      BY <1>0, <1>7, <2>2, PublishWrite
    <3>2. Cleaning(p)'
      BY <1>0, <1>c, <2>1, <3>1 DEF Flow, Gone, Same, Cleaning, Owns, Releases, Quiet
    <3> QED BY <1>b, <2>1, <3>1, <3>2, LeaveQuiet DEF Gone
  <2>3. CASE lock # local[p].mine
    <3>1. Away(p)
      BY <1>c, <2>1, <2>3 DEF Cleaning, Away
    <3>2. OnlyMoves(p) /\ local'[p].pc \in {"idle", "open"}
      BY <1>0, <1>7, <2>3, PublishWrite DEF Left
    <3> QED BY <1>a, <2>1, <3>1, <3>2
  <2> QED BY <2>2, <2>3
<1>8. CASE Finish(p)
  <2>1. /\ Quiet /\ p \in alive /\ local[p].pc = "hold" /\ OnlyMoves(p) /\ local'[p].pc = "stat"
        /\ local'[p].releasing /\ local'[p].mine = local[p].mine
    BY <1>0, <1>8, FinishWrite
  <2>2. Cleaning(p)'
    BY <1>c, <2>1 DEF Cleaning, Owns, Releases, Quiet
  <2>3. Bare(p)
    BY <1>b, <2>1 DEF ClaimHeld
  <2> QED BY <2>1, <2>2, <2>3, LeaveQuiet
<1>9. CASE Stat(p)
  <2>1. Quiet /\ p \in alive /\ local[p].pc = "stat" /\ local[p].pc \notin ClaimHeld
    BY <1>9 DEF Stat, At, Quiet, ClaimHeld
  <2>2. CASE lock = None
    <3>1. Away(p)
      BY <2>2 DEF Away
    <3>2. OnlyMoves(p) /\ local'[p].pc \in {"idle", "retry"}
      BY <1>0, <1>9, <2>2, StatWrite DEF Quit, Left, Gone
    <3> QED BY <1>a, <2>1, <3>1, <3>2
  <2>3. CASE lock # None
    <3>1. /\ OnlyMoves(p) /\ local'[p].pc = "owner" /\ local'[p].seen = lock
          /\ local'[p].mine = local[p].mine /\ local'[p].releasing = local[p].releasing
      BY <1>0, <1>9, <2>3, StatWrite
    <3>2. Cleaning(p)'
      BY <1>0, <1>c, <2>1, <3>1 DEF Cleaning, Owns, Releases, Quiet
    <3> QED BY <1>b, <2>1, <3>1, <3>2, LeaveQuiet
  <2> QED BY <2>2, <2>3
<1>10. CASE ReadOwner(p)
  <2>1. Quiet /\ p \in alive /\ local[p].pc = "owner" /\ local[p].pc \notin ClaimHeld /\ Token(p) \in Tokens
    BY <1>10, <1>t DEF ReadOwner, At, Quiet, ClaimHeld
  <2>2. CASE local[p].releasing /\ LockOwner = Token(p)
    <3>1. Aims(p, Token(p), Token(p))
      BY <1>0, <1>10, <2>1, <2>2, ReadOwnerWrite
    <3>2. Cleaning(p)'
      BY <1>c, <2>1, <3>1 DEF Aims, Cleaning, Owns, Releases, Quiet
    <3> QED BY <1>b, <2>1, <3>1, <3>2, LeaveQuiet DEF Aims
  <2>3. CASE local[p].releasing /\ LockOwner # Token(p)
    <3>1. Away(p)
      BY <2>1, <2>3, OwnRead
    <3>2. OnlyMoves(p) /\ local'[p].pc = "idle"
      BY <1>0, <1>10, <2>1, <2>3, ReadOwnerWrite DEF Left
    <3> QED BY <1>a, <2>1, <3>1, <3>2
  <2>4. CASE ~local[p].releasing
    <3>1. Away(p)
      BY <2>1, <2>4, AwayOutside DEF Owns
    <3>2. OnlyMoves(p) /\ local'[p].pc \in {"retry", "claim", "age"}
      BY <1>0, <1>10, <2>1, <2>4, ReadOwnerWrite DEF Gone, Aims
    <3> QED BY <1>a, <2>1, <3>1, <3>2
  <2> QED BY <2>2, <2>3, <2>4
<1> QED BY <1>1, <1>2, <1>3, <1>4, <1>5, <1>6, <1>7, <1>8, <1>9, <1>10

\* The steps around a claim that leave the files alone.
LEMMA LeaveClaim ==
  ASSUME FlowInv, LeaveInv, NEW p \in Procs,
         \/ WriteClaim(p) \/ StatUndoClaim(p) \/ StatClaim(p) \/ ReadClaimOwner(p)
         \/ ReadClaimAge(p) \/ CompareClaim(p) \/ Recheck(p) \/ RecheckAge(p)
         \/ CompareLock(p) \/ DropClaim(p)
  PROVE  LeaveInv'
<1>0. TypeOK /\ Flow(p)
  BY CallFacts
<1>t. local[p].pc \notin {"idle", "dead"} => Token(p) \in Tokens
  BY CallFacts
<1>c. p \in alive => Cleaning(p) /\ local[p].pc \notin {"undoClaim", "undoClaimRm"}
  BY DEF LeaveInv
<1>b. p \in alive /\ local[p].pc \notin ClaimHeld => Bare(p)
  BY BareOutside
<1>a. Quiet /\ p \in alive /\ Away(p) /\ OnlyMoves(p) /\ local[p].pc \notin ClaimHeld
         /\ local'[p].pc \notin {"undoClaim", "undoClaimRm"} => LeaveInv'
  BY <1>b, CleanAway, LeaveQuiet DEF Quiet
<1>k. local[p].pc \in Claims => local[p].key \in ClaimTokens
  BY CallFacts
<1>1. CASE ReadClaimOwner(p)
  <2>1. Quiet /\ p \in alive /\ OnlyMoves(p) /\ local[p].pc = "deadOwner" /\ local'[p].pc \in {"deadAge", "deadSame", "idle", "retry"}
    BY <1>0, <1>1, GoWrite, ReturnWrite, GiveUpWrite, PointsAre DEF Gone, Left, Quit, At, Quiet, ReadClaimOwner
  <2>2. local[p].pc \notin ClaimHeld /\ local[p].pc \notin Owns /\ (local[p].releasing => local[p].pc \notin Releases)
    BY <1>0, <2>1 DEF Flow, ClaimHeld, Owns, Releases
  <2> QED BY <1>a, <2>1, <2>2, AwayOutside
<1>2. CASE ReadClaimAge(p)
  <2>1. Quiet /\ p \in alive /\ OnlyMoves(p) /\ local[p].pc = "deadAge" /\ local'[p].pc \in {"deadSame", "idle", "retry"}
    BY <1>0, <1>2, GoWrite, ReturnWrite, GiveUpWrite, PointsAre DEF Gone, Left, Quit, At, Quiet, ReadClaimAge
  <2>2. local[p].pc \notin ClaimHeld /\ local[p].pc \notin Owns /\ (local[p].releasing => local[p].pc \notin Releases)
    BY <1>0, <2>1 DEF Flow, ClaimHeld, Owns, Releases
  <2> QED BY <1>a, <2>1, <2>2, AwayOutside
<1>3. CASE CompareClaim(p)
  <2>1. Quiet /\ p \in alive /\ OnlyMoves(p) /\ local[p].pc = "deadSame" /\ local'[p].pc \in {"deadRm", "idle", "retry"}
    BY <1>0, <1>3, GoWrite, ReturnWrite, GiveUpWrite, PointsAre DEF Gone, Left, Quit, At, Quiet, CompareClaim
  <2>2. local[p].pc \notin ClaimHeld /\ local[p].pc \notin Owns /\ (local[p].releasing => local[p].pc \notin Releases)
    BY <1>0, <2>1 DEF Flow, ClaimHeld, Owns, Releases
  <2> QED BY <1>a, <2>1, <2>2, AwayOutside
<1>4. CASE StatClaim(p)
  <2>0. local[p].pc = "deadStat" /\ local[p].key \in ClaimTokens
    BY <1>4, <1>k DEF StatClaim, At, Claims
  <2>1. Quiet /\ p \in alive /\ OnlyMoves(p) /\ local'[p].pc \in {"deadOwner", "idle", "retry"}
    BY <1>0, <1>4, <2>0, StatClaimWrite DEF Gone, Left, Quit
  <2>2. local[p].pc \notin ClaimHeld /\ local[p].pc \notin Owns /\ local[p].pc \notin Releases
    BY <2>0 DEF ClaimHeld, Owns, Releases
  <2> QED BY <1>a, <2>1, <2>2, AwayOutside
<1>5. CASE StatUndoClaim(p)
  BY <1>5, <1>c DEF StatUndoClaim, At
<1>6. CASE WriteClaim(p)
  <2>1. Gone(p, "recheck") /\ Quiet /\ p \in alive /\ local[p].pc = "claimWrite"
    BY <1>0, <1>6, GoWrite, PointsAre DEF WriteClaim, At, Quiet
  <2>2. Cleaning(p)'
    BY <1>c, <2>1 DEF Gone, Same, Cleaning, Owns, Releases, Quiet
  <2>3. Stays(p)
    BY <2>1 DEF Stays, Gone, Same, ClaimHeld
  <2> QED BY <2>1, <2>2, <2>3, LeaveQuiet DEF Gone
<1>7. CASE Recheck(p)
  <2>1. Quiet /\ p \in alive /\ local[p].pc = "recheck"
    BY <1>7 DEF Recheck, At, Quiet
  <2>2. Gone(p, "drop") \/ Gone(p, "recheckAge") \/ Gone(p, "same")
    BY <1>0, <1>7, GoWrite, PointsAre DEF Recheck
  <2>3. Stays(p) /\ OnlyMoves(p) /\ local'[p].pc \in {"drop", "recheckAge", "same"}
    BY <2>1, <2>2 DEF Stays, Gone, Same, ClaimHeld
  <2>4. Cleaning(p)'
    <3>1. CASE Away(p)
      BY <2>1, <3>1, CleanAway DEF Quiet
    <3>2. CASE ~Away(p)
      <4>1. LockOwner = Token(p) /\ Token(p) # None
        BY <1>t, <2>1, <3>2, OwnRead, FilesDiffer
      <4>2. local[p].releasing
        BY <1>c, <2>1, <3>2 DEF Cleaning, Away, Owns
      <4>3. local[p].found = Token(p)
        BY <1>0, <2>1, <4>2 DEF Flow, Claims, ClaimHeld
      <4>4. Gone(p, "same")
        BY <1>0, <1>7, <4>1, <4>2, <4>3, GoWrite, PointsAre DEF Recheck
      <4> QED BY <1>c, <2>1, <4>4 DEF Gone, Same, Cleaning, Owns, Releases, Quiet
    <3> QED BY <3>1, <3>2
  <2> QED BY <2>1, <2>3, <2>4, LeaveQuiet
<1>8. CASE RecheckAge(p)
  <2>1. Quiet /\ p \in alive /\ local[p].pc = "recheckAge" /\ (Gone(p, "drop") \/ Gone(p, "same"))
    BY <1>0, <1>8, GoWrite, PointsAre DEF RecheckAge, At, Quiet
  <2>2. Stays(p) /\ OnlyMoves(p) /\ local'[p].pc \in {"drop", "same"}
    BY <2>1 DEF Stays, Gone, Same, ClaimHeld
  <2>3. Away(p)
    BY <2>1, AwayOutside DEF Owns, Releases
  <2> QED BY <2>1, <2>2, <2>3, CleanAway, LeaveQuiet DEF Quiet
<1>9. CASE CompareLock(p)
  <2>1. Quiet /\ p \in alive /\ local[p].pc = "same"
    BY <1>9 DEF CompareLock, At, Quiet
  <2>2. Gone(p, "drop") \/ Gone(p, "retire")
    BY <1>0, <1>9, GoWrite, PointsAre DEF CompareLock
  <2>3. Stays(p) /\ OnlyMoves(p) /\ local'[p].pc \in {"drop", "retire"}
    BY <2>1, <2>2 DEF Stays, Gone, Same, ClaimHeld
  <2>4. Cleaning(p)'
    <3>1. CASE Away(p)
      BY <2>1, <3>1, CleanAway DEF Quiet
    <3>2. CASE ~Away(p)
      <4>1. lock = local[p].seen
        BY <1>c, <2>1, <3>2 DEF Cleaning, Away, Owns
      <4>2. Gone(p, "retire")
        BY <1>0, <1>9, <4>1, GoWrite, PointsAre DEF CompareLock
      <4> QED BY <1>c, <2>1, <4>2 DEF Gone, Same, Cleaning, Owns, Releases, Quiet
    <3> QED BY <3>1, <3>2
  <2> QED BY <2>1, <2>3, <2>4, LeaveQuiet
<1>10. CASE DropClaim(p)
  <2>1. Quiet /\ p \in alive /\ local[p].pc = "drop"
    BY <1>10 DEF DropClaim, At, Quiet
  <2>2. Away(p)
    BY <2>1, AwayOutside DEF Owns, Releases
  <2>3. Cleaning(p)'
    BY <2>1, <2>2, CleanAway DEF Quiet
  <2>4. CASE claim[local[p].key] = local[p].made
    <3>1. Gone(p, "dropRm")
      BY <1>0, <1>10, <2>4, GoWrite, PointsAre DEF DropClaim
    <3>2. Stays(p) /\ OnlyMoves(p) /\ local'[p].pc = "dropRm"
      BY <2>1, <3>1 DEF Stays, Gone, Same, ClaimHeld
    <3> QED BY <2>1, <2>3, <3>2, LeaveQuiet
  <2>5. CASE claim[local[p].key] # local[p].made
    <3>1. OnlyMoves(p) /\ local'[p].pc \in {"idle", "retry"}
      BY <1>0, <1>10, <2>5, GiveUpWrite DEF DropClaim, Quit, Left, Gone
    <3>2. Bare(p)
      BY <2>1, <2>5 DEF Bare, LeaveInv, Dropping
    <3> QED BY <2>1, <2>3, <3>1, <3>2, LeaveQuiet
  <2> QED BY <2>4, <2>5
<1> QED BY <1>1, <1>2, <1>3, <1>4, <1>5, <1>6, <1>7, <1>8, <1>9, <1>10

\* A new lock file is its maker's.
LEMMA LeaveOpenLock ==
  ASSUME FlowInv, LeaveInv, NEW p \in Procs, OpenLock(p)
  PROVE  LeaveInv'
<1>0. /\ TypeOK /\ Flow(p) /\ local[p].pc = "open" /\ p \in alive /\ Token(p) \in Tokens
      /\ ~local[p].releasing
  BY CallFacts DEF OpenLock, At, Flow
<1>1. OnlyMoves(p) /\ UNCHANGED <<claim, torn, old, alive>> /\ local'[p].pc \in {"write", "stat"}
  BY <1>0, OpenLockWrite
<1>2. Bare(p) /\ Away(p)
  BY <1>0, BareOutside, AwayOutside DEF ClaimHeld, Owns
<1>3. CASE UNCHANGED lock
  BY <1>0, <1>1, <1>2, <1>3, CleanAway, LeaveQuiet DEF Quiet
<1>4. CASE /\ lock' \in LockFile /\ lock'.token = Token(p) /\ lock' \notin torn
           /\ local'[p].pc = "write" /\ local'[p].mine = lock'
           /\ local'[p].releasing = local[p].releasing
  <2>1. Cleaning(p)'
    BY <1>0, <1>1, <1>4 DEF Cleaning, Owns
  <2>2. ASSUME NEW q \in alive \ {p}
        PROVE  Cleaning(q)'
    <3>1. lock'.token[1] = p
      BY <1>4 DEF Token
    <3> QED BY <2>2, <3>1 DEF Cleaning
  <2>3. Dropping'
    BY <1>1, <1>2, DroppingKept
  <2> QED BY <1>0, <1>1, <2>1, <2>2, <2>3, LeaveFiles
<1> QED BY <1>0, <1>3, <1>4, OpenLockWrite

\* A failed write tears the lock of its maker only, who removes it.
LEMMA LeaveWriteFails ==
  ASSUME FlowInv, LeaveInv, NEW p \in Procs, WriteFails(p)
  PROVE  LeaveInv'
<1>0. TypeOK /\ Flow(p) /\ local[p].pc = "write" /\ p \in alive
  BY CallFacts DEF WriteFails, At
<1>1. /\ Gone(p, "undo") /\ UNCHANGED <<lock, claim, old, alive>>
      /\ torn' = torn \cup {local[p].mine}
  BY <1>0, GoWrite, PointsAre DEF WriteFails
<1>2. local[p].mine # None /\ Cleaning(p) /\ Bare(p)
  BY <1>0, BareOutside DEF Flow, Owns, LeaveInv, ClaimHeld
<1>3. Cleaning(p)'
  BY <1>0, <1>1, <1>2 DEF Flow, Cleaning, Gone, Same, Owns, Releases
<1>4. ASSUME NEW q \in alive \ {p}, Cleaning(q), local'[q] = local[q]
      PROVE  Cleaning(q)'
  <2>1. local[q].mine # local[p].mine
    BY <1>0, <1>2, <1>4, OneMaker, Fields
  <2> QED BY <1>1, <1>4, <2>1 DEF Cleaning
<1>5. Dropping'
  BY <1>1, <1>2, DroppingKept DEF Gone
<1> QED BY <1>0, <1>1, <1>3, <1>4, <1>5, LeaveFiles DEF Gone

\* The path is free.
LEMMA LeaveFree ==
  ASSUME FlowInv, LeaveInv, NEW p \in alive, OnlyMoves(p), UNCHANGED <<claim, alive>>, lock' = None,
         local'[p].pc \notin {"undoClaim", "undoClaimRm"}, Stays(p) \/ Bare(p)
  PROVE  LeaveInv'
<1>1. \A q : Cleaning(q)'
  BY DEF Cleaning
<1>2. Dropping'
  BY DroppingKept DEF FlowInv, TypeOK
<1> QED BY <1>1, <1>2, LeaveFiles

\* A new claim is held by its maker, who claims a dead owner's lock, a torn one or its own.
LEMMA LeaveOpenClaim ==
  ASSUME FlowInv, LeaveInv, NEW p \in Procs, OpenClaim(p)
  PROVE  LeaveInv'
<1>0. TypeOK /\ Flow(p) /\ local[p].pc = "claim" /\ p \in alive /\ local[p].key \in ClaimTokens
  BY CallFacts DEF OpenClaim, At, Claims
<1>1. UNCHANGED <<lock, torn, old, alive>> /\ claim \in [ClaimTokens -> ClaimFile \cup {None}]
  BY <1>0, Fields DEF OpenClaim
<1>2. Bare(p) /\ Cleaning(p) /\ Dropping
  BY <1>0, BareOutside DEF LeaveInv, ClaimHeld
<1>3. CASE claim[local[p].key] # None /\ UNCHANGED claim /\ Gone(p, "deadStat")
  <2>1. Away(p)
    <3> SUFFICES ASSUME ~Away(p) PROVE FALSE
      OBVIOUS
    <3>1. local[p].releasing
      BY <1>0, <1>2 DEF Away, Cleaning, Owns
    <3>2. local[p].key = Token(p) /\ Token(p) \in Tokens
      BY <1>0, <3>1, CallFacts, FilesDiffer DEF Flow, Claims
    <3>3. claim[local[p].key].pid = p
      BY <1>0, <1>2, <1>3, <3>2 DEF Dropping, Token
    <3> QED BY <1>0, <1>2, <1>3, <3>3 DEF Bare
  <2> QED BY <1>0, <1>1, <1>2, <1>3, <2>1, CleanAway, LeaveQuiet DEF Gone, Quiet
<1>4. CASE /\ claim[local[p].key] = None /\ OnlyMoves(p) /\ local'[p].pc = "claimWrite"
           /\ local'[p].made.pid = p /\ claim' = [claim EXCEPT ![local[p].key] = local'[p].made]
           /\ local'[p].mine = local[p].mine /\ local'[p].seen = local[p].seen
           /\ local'[p].key = local[p].key /\ local'[p].releasing = local[p].releasing
  <2>1. Cleaning(p)'
    BY <1>0, <1>1, <1>2, <1>4 DEF Cleaning, Owns, Releases
  <2>2. ASSUME NEW q \in alive \ {p}, Cleaning(q), local'[q] = local[q]
        PROVE  Cleaning(q)'
    BY <1>1, <2>2 DEF Cleaning
  <2>3. /\ claim'[local[p].key] = local'[p].made
        /\ \A t \in ClaimTokens \ {local[p].key} : claim'[t] = claim[t]
    BY <1>0, <1>1, <1>4
  <2>4. ASSUME NEW t \in ClaimTokens, claim'[t] # None, claim'[t].pid \in alive
        PROVE  /\ local'[claim'[t].pid].pc \in ClaimHeld /\ local'[claim'[t].pid].key = t
               /\ local'[claim'[t].pid].made = claim'[t]
    <3>1. CASE t = local[p].key
      <4>1. claim'[t] = local'[p].made /\ claim'[t].pid = p
        BY <1>4, <2>3, <3>1
      <4>2. local'[p].pc \in ClaimHeld
        BY <1>4 DEF ClaimHeld
      <4> QED BY <1>4, <3>1, <4>1, <4>2
    <3>2. CASE t # local[p].key
      <4>1. claim'[t] = claim[t] /\ claim[t] # None /\ claim[t].pid # p
        BY <1>2, <2>3, <2>4, <3>2 DEF Bare
      <4>2. local'[claim[t].pid] = local[claim[t].pid]
        BY <1>0, <1>4, <2>4, <4>1, Fields DEF OnlyMoves
      <4> QED BY <1>2, <2>4, <4>1, <4>2 DEF Dropping
    <3> QED BY <3>1, <3>2
  <2>5. ASSUME NEW t \in ClaimTokens, claim'[t] # None, t \in Tokens, t[1] \in alive
        PROVE  claim'[t].pid = t[1]
    <3>1. CASE t = local[p].key
      <4>1. local[p].found # None /\ local[p].key = local[p].found
        BY <1>0, <2>5, <3>1, FilesDiffer DEF Flow, Claims
      <4>2. local[p].found = Token(p)
        BY <1>0, <2>5, <3>1, <4>1 DEF Flow, Claims
      <4> QED BY <1>4, <2>3, <3>1, <4>1, <4>2 DEF Token
    <3>2. CASE t # local[p].key
      BY <1>2, <2>3, <2>5, <3>2 DEF Dropping
    <3> QED BY <3>1, <3>2
  <2>6. Dropping'
    BY <1>1, <2>4, <2>5 DEF Dropping
  <2> QED BY <1>0, <1>1, <1>4, <2>1, <2>2, <2>6, LeaveFiles
<1> QED BY <1>0, <1>3, <1>4, OpenClaimWrite

\* A claim goes away: the others keep theirs, and this process has none left or keeps it.
LEMMA LeaveUnlink ==
  ASSUME FlowInv, LeaveInv, NEW p \in alive, local[p].pc \in {"deadRm", "dropRm"}, OnlyMoves(p),
         local'[p].pc \in {"idle", "retry", "claim"}, UNCHANGED <<lock, alive>>,
         claim' = [claim EXCEPT ![local[p].key] = None], torn' \subseteq torn,
         LockFile \cap torn \subseteq torn'
  PROVE  LeaveInv'
<1>0. TypeOK /\ p \in Procs /\ Flow(p) /\ local[p].key \in ClaimTokens /\ Dropping
  BY CallFacts DEF FlowInv, TypeOK, LeaveInv, Claims, ClaimHeld
<1>1. Away(p)
  BY AwayOutside DEF Owns, Releases
<1>2. Cleaning(p)'
  BY <1>1, CleanAway
<1>3. ASSUME NEW q \in alive \ {p}, Cleaning(q), local'[q] = local[q]
      PROVE  Cleaning(q)'
  <2>1. lock \in LockFile \cup {None}
    BY <1>0, Fields
  <2> QED BY <1>3, <2>1 DEF Cleaning
<1>4. claim \in [ClaimTokens -> ClaimFile \cup {None}]
  BY <1>0, Fields
<1>5. claim'[local[p].key] = None /\ \A t \in ClaimTokens \ {local[p].key} : claim'[t] = claim[t]
  BY <1>0, <1>4
<1>6. ASSUME NEW t \in ClaimTokens, claim'[t] # None
      PROVE  claim'[t] = claim[t] /\ t # local[p].key /\ (claim[t].pid \in alive => claim[t].pid # p)
  <2>1. claim'[t] = claim[t] /\ t # local[p].key
    BY <1>5, <1>6
  <2> QED BY <1>0, <1>6, <2>1 DEF Dropping
<1>7. Dropping'
  <2>1. ASSUME NEW t \in ClaimTokens, claim'[t] # None, claim'[t].pid \in alive
        PROVE  /\ local'[claim'[t].pid].pc \in ClaimHeld /\ local'[claim'[t].pid].key = t
               /\ local'[claim'[t].pid].made = claim'[t]
    <3>1. claim'[t] = claim[t] /\ claim[t].pid # p /\ claim[t].pid \in Procs
      BY <1>0, <1>6, <2>1, Fields
    <3>2. local'[claim[t].pid] = local[claim[t].pid]
      BY <3>1 DEF OnlyMoves
    <3> QED BY <1>0, <2>1, <3>1, <3>2 DEF Dropping
  <2>2. ASSUME NEW t \in ClaimTokens, claim'[t] # None, t \in Tokens, t[1] \in alive
        PROVE  claim'[t].pid = t[1]
    BY <1>0, <1>6, <2>2 DEF Dropping
  <2> QED BY <2>1, <2>2 DEF Dropping
<1> QED BY <1>2, <1>3, <1>7, LeaveFiles

\* What a dead process leaves is not a live one's.
LEMMA LeaveCrash ==
  ASSUME FlowInv, LeaveInv, NEW p \in Procs, Crash(p)
  PROVE  LeaveInv'
<1>0. TypeOK /\ Flow(p) /\ Dropping
  BY CallFacts DEF LeaveInv
<1>1. UNCHANGED <<lock, claim, old>> /\ p \in alive /\ alive' = alive \ {p} /\ OnlyMoves(p)
  BY <1>0, CrashWrite
<1>2. torn' \subseteq torn \cup {local[p].made} \cup (IF local[p].pc = "write" THEN {local[p].mine} ELSE {})
  BY <1>0, CrashWrite
<1>3. local[p].pc = "write" => local[p].mine # None
  BY <1>0 DEF Flow, Owns
<1>4. ASSUME NEW q \in alive'
      PROVE  Cleaning(q)' /\ local'[q].pc \notin {"undoClaim", "undoClaimRm"}
  <2>1. q \in Procs /\ q # p /\ q \in alive /\ local'[q] = local[q]
    BY <1>0, <1>1, <1>4, Fields DEF OnlyMoves
  <2>2. Cleaning(q) /\ local[q].pc \notin {"undoClaim", "undoClaimRm"}
    BY <2>1 DEF LeaveInv
  <2>3. local[p].pc = "write" => local[q].mine # local[p].mine
    BY <1>3, <2>1, OneMaker
  <2>4. lock # None => lock # local[p].made
    BY <1>0, Fields, FilesDiffer
  <2> QED BY <1>1, <1>2, <2>1, <2>2, <2>3, <2>4 DEF Cleaning
<1>5. Dropping'
  <2>1. ASSUME NEW t \in ClaimTokens, claim[t] # None, claim[t].pid \in alive'
        PROVE  /\ local'[claim[t].pid].pc \in ClaimHeld /\ local'[claim[t].pid].key = t
               /\ local'[claim[t].pid].made = claim[t]
    <3>1. local'[claim[t].pid] = local[claim[t].pid] /\ claim[t].pid \in alive
      BY <1>0, <1>1, <2>1, Fields DEF OnlyMoves
    <3> QED BY <1>0, <2>1, <3>1 DEF Dropping
  <2>2. ASSUME NEW t \in ClaimTokens, claim[t] # None, t \in Tokens, t[1] \in alive'
        PROVE  claim[t].pid = t[1]
    BY <1>0, <1>1, <2>2 DEF Dropping
  <2> QED BY <1>1, <2>1, <2>2 DEF Dropping
<1> QED BY <1>4, <1>5 DEF LeaveInv

\* Every step leaves nothing behind.
LEMMA LeaveStep ==
  ASSUME FlowInv, LeaveInv, "claim_error" \notin Faults, [Next]_vars
  PROVE  LeaveInv'
<1>1. CASE UNCHANGED vars
  BY <1>1 DEF LeaveInv, Cleaning, Dropping, vars
<1>2. ASSUME NEW f \in torn, GrowOld(f)
      PROVE  LeaveInv'
  BY <1>2 DEF LeaveInv, Cleaning, Dropping, GrowOld
<1>3. ASSUME NEW p \in Procs, Undo(p)
      PROVE  LeaveInv'
  <2>1. TypeOK /\ p \in alive /\ local[p].pc = "undoRm"
    BY <1>3, CallFacts DEF Undo, At
  <2>2. OnlyMoves(p) /\ UNCHANGED <<claim, alive>> /\ lock' = None /\ local'[p].pc = "idle"
    BY <1>3, <2>1, ReturnWrite DEF Undo, Left
  <2>3. Bare(p)
    BY <2>1, BareOutside DEF ClaimHeld
  <2> QED BY <2>1, <2>2, <2>3, LeaveFree
<1>4. ASSUME NEW p \in Procs, Retire(p)
      PROVE  LeaveInv'
  <2>1. /\ p \in alive /\ local[p].pc = "retire" /\ Gone(p, "drop") /\ UNCHANGED <<claim, alive>>
        /\ lock' = None
    BY <1>4, CallFacts, RetireWrite
  <2>2. Stays(p) /\ OnlyMoves(p) /\ local'[p].pc = "drop"
    BY <2>1 DEF Stays, Gone, Same, ClaimHeld
  <2> QED BY <2>1, <2>2, LeaveFree
<1>5. ASSUME NEW p \in Procs, UnlinkClaim(p)
      PROVE  LeaveInv'
  <2>1. /\ TypeOK /\ p \in alive /\ local[p].pc = "dropRm" /\ UNCHANGED <<lock, torn, alive>>
        /\ claim' = [claim EXCEPT ![local[p].key] = None]
    BY <1>5, CallFacts DEF UnlinkClaim, At
  <2>2. OnlyMoves(p) /\ local'[p].pc \in {"idle", "retry"}
    BY <1>5, <2>1, GiveUpWrite DEF UnlinkClaim, Quit, Left, Gone
  <2> QED BY <2>1, <2>2, LeaveUnlink
<1>6. ASSUME NEW p \in Procs, RemoveClaim(p)
      PROVE  LeaveInv'
  <2>0. TypeOK /\ local[p].pc = "deadRm" /\ local[p].key \in ClaimTokens
    BY <1>6, CallFacts DEF RemoveClaim, At, Claims
  <2>1. /\ p \in alive /\ UNCHANGED <<lock, alive>>
        /\ claim' = [claim EXCEPT ![local[p].key] = None]
        /\ torn' = torn \ {claim[local[p].key]}
        /\ OnlyMoves(p) /\ local'[p].pc \in {"idle", "retry", "claim"}
    BY <1>6, <2>0, RemoveClaimWrite DEF Quit, Left, Gone
  <2>2. claim[local[p].key] \notin LockFile
    BY <1>6, <2>0, Fields, FilesDiffer
  <2> QED BY <2>0, <2>1, <2>2, LeaveUnlink
<1>7. ASSUME NEW p \in Procs, UndoClaim(p) \/ ClaimWriteFails(p)
      PROVE  LeaveInv'
  BY <1>7 DEF UndoClaim, ClaimWriteFails, At, LeaveInv
<1>8. ASSUME NEW p \in Procs, Call(p) \/ AcquireStep(p) \/ WriteFails(p) \/ TimeOut(p)
      PROVE  LeaveInv'
  BY <1>3, <1>8, LeaveAcquire, LeaveOpenLock, LeaveWriteFails DEF AcquireStep
<1>9. ASSUME NEW p \in Procs, ClaimStep(p)
      PROVE  LeaveInv'
  BY <1>4, <1>5, <1>6, <1>7, <1>9, LeaveClaim, LeaveOpenClaim DEF ClaimStep
<1> QED BY <1>1, <1>2, <1>7, <1>8, <1>9, LeaveCrash DEF Next

\* Nothing is held and nothing is left in the first state.
LEMMA NothingAtFirst == Init => HeldInv /\ LeaveInv
<1> SUFFICES ASSUME Init PROVE HeldInv /\ LeaveInv
  OBVIOUS
<1>1. ASSUME NEW p \in Procs
      PROVE  local[p].pc = "idle" /\ local[p].mine = None
  <2>1. local = [q \in Procs |-> Fresh(0)]
    BY DEF Init
  <2>2. local[p] = Fresh(0)
    BY <2>1
  <2> QED BY <2>2 DEF Fresh
<1>2. /\ lock = None /\ torn = {} /\ old = {} /\ alive = Procs
      /\ \A t \in ClaimTokens : claim[t] = None
  BY DEF Init
<1>3. ASSUME NEW p \in Procs
      PROVE  Standing(p) /\ Holding(p) /\ Retiring(p) /\ Cleaning(p)
  BY <1>1, <1>2 DEF Standing, Holding, Retiring, Cleaning, Owns, Claims, ClaimHeld
<1>4. Claimed /\ Dropping
  BY <1>2 DEF Claimed, Dropping
<1>5. ASSUME NEW p \in Procs
      PROVE  local[p].pc \notin {"undoClaim", "undoClaimRm"}
  BY <1>1
<1> QED BY <1>2, <1>3, <1>4, <1>5 DEF HeldInv, LeaveInv

-----------------------------------------------------------------------------
\* Every process's call makes sense where it stands, whatever fails or dies: it
\* claims only the lock of a dead owner, an old torn lock, or its own to release.
THEOREM CallsFlow == Spec => []FlowInv
<1>1. FlowInv /\ [Next]_vars => FlowInv'
  BY FlowStep
<1> QED BY <1>1, FlowInit, PTL DEF Spec

\* The files and the memory of acquireFileMutationLock and releaseFileMutationLock
\* keep their types, and whoever holds a claim made it.
THEOREM LockTypesHold == Spec => []TypeOK
<1>1. FlowInv => TypeOK
  BY DEF FlowInv
<1> QED BY <1>1, CallsFlow, PTL

\* The lock excludes: as long as no process dies holding a claim, the lock file of a
\* live holder stands at the path while it runs its operation, whatever else crashes
\* and whichever writes fail.  LockClaimCrash shows that the hypothesis is needed.
THEOREM HeldLocksStand == ("crash_in_claim" \notin Faults /\ Spec) => []HeldLockStands
<1>1. ASSUME "crash_in_claim" \notin Faults
      PROVE  Spec => []HeldLockStands
  <2>1. Init => FlowInv /\ HeldInv
    BY FlowInit, NothingAtFirst
  <2>2. (FlowInv /\ HeldInv) /\ [Next]_vars => (FlowInv /\ HeldInv)'
    BY <1>1, FlowStep, HeldStep
  <2>3. FlowInv /\ HeldInv => HeldLockStands
    BY DEF HeldInv, Standing, HeldLockStands, Owns
  <2> QED BY <2>1, <2>2, <2>3, PTL DEF Spec
<1> QED BY <1>1

\* A process that returned, whatever it met and whoever crashed with or without a
\* claim, leaves neither its lock nor a claim, as long as claims can be written.
THEOREM NothingIsLeftBehind == ("claim_error" \notin Faults /\ Spec) => []LeavesNothingBehind
<1>1. ASSUME "claim_error" \notin Faults
      PROVE  Spec => []LeavesNothingBehind
  <2>1. Init => FlowInv /\ LeaveInv
    BY FlowInit, NothingAtFirst
  <2>2. (FlowInv /\ LeaveInv) /\ [Next]_vars => (FlowInv /\ LeaveInv)'
    BY <1>1, FlowStep, LeaveStep
  <2>3. FlowInv /\ LeaveInv => LeavesNothingBehind
    BY BareOutside, AwayOutside DEF LeavesNothingBehind, ClaimHeld, Owns, Releases, Bare, Away
  <2> QED BY <2>1, <2>2, <2>3, PTL DEF Spec
<1> QED BY <1>1
=============================================================================
