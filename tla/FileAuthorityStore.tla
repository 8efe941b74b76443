------------------------- MODULE FileAuthorityStore -------------------------
(* The file provider of the authority store: a directory with one journal    *)
(* document per goal and one store-identity file.  Documents are replaced by *)
(* writing and syncing a temporary file, renaming it and syncing the         *)
(* directory; the document lock of MutationLock excludes other writers and   *)
(* nobody else.  One action is one file-system step.                         *)
(*                                                                           *)
(* A rename is seen at once and outlives a power loss only after a sync of   *)
(* the directory: docDisk and identDisk hold what a power loss may leave.    *)
(* Revisions chain identity and transactions, so a revision is the document. *)
(* The verified-document cache is left out: a cached view is used only for   *)
(* the very bytes that were read again.                                      *)
EXTENDS Integers, SequencesExt

CONSTANTS
  Procs,          \* store handles, each in an Effect server process
  ExistingOnly,   \* the handles opened with existingOnly
  Operations, Bodies,
  Commits,        \* the transactions that callers ask commitAuthority for
  Pages,          \* the pages that an archive restore asks appendArchivePage for
  MaxIdentities,  \* bound: random store identities
  None,           \* JavaScript null, or no file at a path
  Faults          \* which faults occur, a subset of FaultKinds

FaultKinds == {"crash", "io_error", "power_loss"}

Row == [op : Operations, body : Bodies]
Identities == 1..MaxIdentities

ASSUME HandlesAssumption == ExistingOnly \subseteq Procs
ASSUME RequestsAssumption == Commits \subseteq Row /\ Pages \subseteq Seq(Row)
ASSUME IdentitiesAssumption == MaxIdentities \in Nat \ {0}
ASSUME FaultsAssumption == Faults \subseteq FaultKinds

VARIABLES
  doc,       \* the document at the goal's path
  docDisk,   \* the documents a power loss may leave there
  ident,     \* the identity file
  identDisk, \* what a power loss may leave of it
  minted,    \* identities drawn so far
  docLock,   \* holder of the document's mutation lock
  idLock,    \* holder of the identity file's mutation lock
  local,     \* each handle's call
  told       \* journals and identities that answers to callers spoke of

files == <<doc, docDisk, ident, identDisk>>
locks == <<docLock, idLock>>
vars == <<files, minted, locks, local, told>>

Requests ==
  {[kind |-> "commit", rows |-> <<row>>] : row \in Commits}
    \cup {[kind |-> "page", rows |-> page] : page \in Pages}
    \cup {[kind |-> k, rows |-> <<>>] : k \in {"read", "identity"}}

Document == [id : Identities, rows : Seq(Row)]

ASSUME NoneAssumption == None \notin Procs \cup Identities \cup Document

(* base, bound: the revision and the identity this handle's caller knows.    *)
(* id, view: the identity and the document read by this call.                *)
Fresh(base, bound) ==
  [pc |-> "idle", req |-> None, id |-> None, view |-> None, base |-> base, bound |-> bound]

Points == {"idle", "lock", "raw", "ident", "identLock", "identRead", "identNew", "identSync",
           "decide", "rename", "sync"}

Local ==
  [pc : Points, req : Requests \cup {None}, id : Identities \cup {None},
   view : Document \cup {None}, base : Document \cup {None}, bound : Identities \cup {None}]

(* A document being published extends the one it was computed from, and the  *)
(* lock is held from the lock's acquisition to the answer.                   *)
TypeOK ==
  /\ doc \in Document \cup {None} /\ doc \in docDisk
  /\ docDisk \subseteq Document \cup {None}
  /\ ident \in Identities \cup {None} /\ ident \in identDisk
  /\ identDisk \subseteq Identities \cup {None}
  /\ minted \in 0..MaxIdentities
  /\ docLock \in Procs \cup {None} /\ idLock \in Procs \cup {None}
  /\ local \in [Procs -> Local]
  /\ told \subseteq Document
  /\ \A p \in Procs :
       /\ local[p].pc \in {"decide", "rename", "sync"} => docLock = p
       /\ local[p].pc \in {"identRead", "identNew"} => idLock = p

Init ==
  /\ doc = None /\ docDisk = {None}
  /\ ident = None /\ identDisk = {None}
  /\ minted = 0
  /\ docLock = None /\ idLock = None
  /\ local = [p \in Procs |-> Fresh(None, None)]
  /\ told = {}

-----------------------------------------------------------------------------
At(p, point) == local[p].pc = point
Set(p, l) == local' = [local EXCEPT ![p] = l]
Go(p, point) == local' = [local EXCEPT ![p].pc = point]

Unlock(p) ==
  /\ docLock' = IF docLock = p THEN None ELSE docLock
  /\ idLock' = IF idLock = p THEN None ELSE idLock

(* Answers: nothing was learned, or a journal and its identity. *)
Fail(p) ==
  /\ Set(p, Fresh(local[p].base, local[p].bound))
  /\ Unlock(p)
  /\ UNCHANGED told
Tell(p, d) ==
  /\ Set(p, Fresh(IF d.rows = <<>> THEN local[p].base ELSE d, d.id))
  /\ Unlock(p)
  /\ told' = told \cup {d}

(* syncAuthorityDirectory *)
SyncDirectory == docDisk' = {doc} /\ identDisk' = {ident} /\ UNCHANGED <<doc, ident>>

(* readStoreIdentity's createIfMissing; pages are appended under an identity *)
(* that must exist.                                                          *)
createIfMissing(p) == p \notin ExistingOnly /\ local[p].req.kind # "page"

-----------------------------------------------------------------------------
Call(p) ==
  /\ At(p, "idle")
  /\ \E r \in Requests :
       Set(p, [local[p] EXCEPT !.req = r,
                               !.pc = CASE r.kind = "read" -> "raw"
                                        [] r.kind = "identity" -> "ident"
                                        [] OTHER -> "lock"])
  /\ UNCHANGED <<files, minted, locks, told>>

(* withFileMutationLock *)
TakeLock(p) ==
  \/ /\ At(p, "lock") /\ docLock = None
     /\ docLock' = p
     /\ Go(p, "ident")
     /\ UNCHANGED <<files, minted, idLock, told>>
  \/ /\ At(p, "identLock") /\ idLock = None
     /\ idLock' = p
     /\ Go(p, "identRead")
     /\ UNCHANGED <<files, minted, docLock, told>>

(* Mutant: after the timeout the operation runs without the lock. *)
LockTimeout_GoesOn(p) ==
  /\ At(p, "lock") /\ docLock # None
  /\ Go(p, "ident")
  /\ UNCHANGED <<files, minted, locks, told>>

LockTimeout(p) ==
  /\ \/ At(p, "lock") /\ docLock # None
     \/ At(p, "identLock") /\ idLock # None
  /\ Fail(p)
  /\ UNCHANGED <<files, minted>>

(* readVerified: the bytes first, then the identity they must carry. *)
ReadRaw(p) ==
  /\ At(p, "raw")
  /\ \/ doc = None /\ Set(p, Fresh(None, local[p].bound)) /\ UNCHANGED <<locks, told>>
     \/ doc # None /\ Set(p, [local[p] EXCEPT !.pc = "ident", !.view = doc]) /\ UNCHANGED <<locks, told>>
  /\ UNCHANGED <<files, minted>>

(* What the call does once it has its identity. *)
HaveIdentity(p, id) ==
  LET l == local[p] IN
  CASE l.req.kind = "identity" -> Tell(p, [id |-> id, rows |-> <<>>])
    [] l.req.kind = "read" -> IF l.view.id = id THEN Tell(p, l.view) ELSE Fail(p)
    [] OTHER -> /\ Set(p, [l EXCEPT !.pc = "decide", !.id = id])
                /\ idLock' = (IF idLock = p THEN None ELSE idLock)
                /\ UNCHANGED <<docLock, told>>

(* readStoreIdentity *)

(* Mutant: an identity found in the file is not synced. *)
ReadIdentity_Unsynced(p) ==
  /\ At(p, "ident") \/ At(p, "identRead")
  /\ \/ ident # None /\ HaveIdentity(p, ident)
     \/ ident = None /\ ~createIfMissing(p) /\ Fail(p)
     \/ /\ ident = None /\ createIfMissing(p)
        /\ Go(p, IF At(p, "ident") THEN "identLock" ELSE "identNew")
        /\ UNCHANGED <<locks, told>>
  /\ UNCHANGED <<files, minted>>

ReadIdentity(p) ==
  /\ At(p, "ident") \/ At(p, "identRead")
  /\ \/ /\ ident # None /\ createIfMissing(p)
        /\ Set(p, [local[p] EXCEPT !.pc = "identSync", !.id = ident])
        /\ UNCHANGED <<locks, told>>
     \/ ident # None /\ ~createIfMissing(p) /\ HaveIdentity(p, ident)
     \/ ident = None /\ ~createIfMissing(p) /\ Fail(p)
     \/ /\ ident = None /\ createIfMissing(p)
        /\ Go(p, IF At(p, "ident") THEN "identLock" ELSE "identNew")
        /\ UNCHANGED <<locks, told>>
  /\ UNCHANGED <<files, minted>>

NewIdentity(p) ==
  /\ At(p, "identNew") /\ minted < MaxIdentities
  /\ minted' = minted + 1
  /\ ident' = minted'
  /\ identDisk' = identDisk \cup {ident'}
  /\ Set(p, [local[p] EXCEPT !.pc = "identSync", !.id = ident'])
  /\ UNCHANGED <<doc, docDisk, locks, told>>

(* Mutant: the directory is not synced after a new identity's rename. *)
SyncIdentity_Skipped(p) ==
  /\ At(p, "identSync")
  /\ HaveIdentity(p, local[p].id)
  /\ UNCHANGED <<files, minted>>

SyncIdentity(p) ==
  /\ At(p, "identSync")
  /\ SyncDirectory
  /\ HaveIdentity(p, local[p].id)
  /\ UNCHANGED minted

-----------------------------------------------------------------------------
(* commitAuthority and appendArchivePage under the lock. *)
Journal(d) == IF d = None THEN <<>> ELSE d.rows

(* The position of the request's operation in the journal, if any. *)
Existing(p) == {i \in DOMAIN Journal(doc) : Journal(doc)[i].op = local[p].req.rows[1].op}

UniqueOperations(rows) ==
  \A i, j \in DOMAIN rows : rows[i].op = rows[j].op => i = j

ReadFails(p) ==
  \/ doc # None /\ doc.id # local[p].id
  \/ doc = None /\ p \in ExistingOnly
  \/ local[p].req.kind = "page" /\ local[p].bound # local[p].id

PageRepeats(p) ==
  local[p].req.kind = "page" /\ ~UniqueOperations(Journal(doc) \o local[p].req.rows)

(* Mutant: a known operation id goes through the revision check. *)
Replays_Never(p) == FALSE

(* Content-aware idempotency, before the revision is compared. *)
Replays(p) == local[p].req.kind = "commit" /\ Existing(p) # {}

Decide(p) ==
  LET l == local[p]  rows == Journal(doc) IN
  /\ At(p, "decide")
  /\ \/ ReadFails(p) /\ Fail(p)
     \/ /\ ~ReadFails(p) /\ Replays(p)
        /\ \E i \in Existing(p) :
             IF rows[i] = l.req.rows[1]
             THEN Tell(p, [id |-> l.id, rows |-> SubSeq(rows, 1, i)])
             ELSE Fail(p)
     \/ /\ ~ReadFails(p) /\ ~Replays(p)
        /\ doc # l.base \/ PageRepeats(p)
        /\ Fail(p)
     \/ /\ ~ReadFails(p) /\ ~Replays(p)
        /\ doc = l.base /\ ~PageRepeats(p)
        /\ Set(p, [l EXCEPT !.pc = "rename", !.view = [id |-> l.id, rows |-> rows \o l.req.rows]])
        /\ UNCHANGED <<locks, told>>
  /\ UNCHANGED <<files, minted>>

(* replaceFileAuthorityDurably; the temporary file is synced before. *)
Rename(p) ==
  /\ At(p, "rename")
  /\ doc' = local[p].view
  /\ docDisk' = docDisk \cup {doc'}
  /\ Go(p, "sync")
  /\ UNCHANGED <<ident, identDisk, minted, locks, told>>

(* Mutant: the directory is not synced after the document's rename. *)
SyncDocument_Skipped(p) ==
  /\ At(p, "sync")
  /\ Tell(p, local[p].view)
  /\ UNCHANGED <<files, minted>>

SyncDocument(p) ==
  /\ At(p, "sync")
  /\ SyncDirectory
  /\ Tell(p, local[p].view)
  /\ UNCHANGED minted

-----------------------------------------------------------------------------
(* A write, a rename or a sync throws: before the document's rename the call *)
(* answers failed or unavailable, in publishDocument it answers ambiguous.   *)
IoError(p) ==
  /\ "io_error" \in Faults
  /\ local[p].pc \in {"identNew", "identSync", "rename", "sync"}
  /\ Fail(p)
  /\ UNCHANGED <<files, minted>>

(* The process dies; waiters reclaim its locks. *)
Crash(p) ==
  /\ "crash" \in Faults
  /\ ~At(p, "idle")
  /\ Set(p, Fresh(None, None))
  /\ Unlock(p)
  /\ UNCHANGED <<files, minted, told>>

PowerLoss ==
  /\ "power_loss" \in Faults
  /\ doc' \in docDisk /\ docDisk' = {doc'}
  /\ ident' \in identDisk /\ identDisk' = {ident'}
  /\ local' = [p \in Procs |-> Fresh(None, None)]
  /\ docLock' = None /\ idLock' = None
  /\ UNCHANGED <<minted, told>>

Next ==
  \/ \E p \in Procs :
       \/ Call(p) \/ TakeLock(p) \/ LockTimeout(p) \/ ReadRaw(p) \/ ReadIdentity(p)
       \/ NewIdentity(p) \/ SyncIdentity(p) \/ Decide(p) \/ Rename(p) \/ SyncDocument(p)
       \/ IoError(p) \/ Crash(p)
  \/ PowerLoss

Spec == Init /\ [][Next]_vars

-----------------------------------------------------------------------------
(* durable_same_key_readback: the journal an answer spoke of - a committed   *)
(* or replayed transaction, a loaded head, a receipt - is still there after  *)
(* every power loss that could happen now.                                   *)
DurableReadback ==
  \A d \in told : \A left \in docDisk : IsPrefix(d.rows, Journal(left))

(* An identity that storeIdentity or a journal's readback answered, and that *)
(* a provider selector may have recorded since, is never replaced.           *)
DurableIdentity ==
  \A d \in told : identDisk = {d.id}

(* stable_store_lineage: no power loss leaves a document whose identity is   *)
(* missing or another one; such a store could never be read again.           *)
StableLineage ==
  \A left \in docDisk : left # None => identDisk = {left.id}

(* The file store implements the abstract one: its journal is the visible    *)
(* document and the durable part is what every power loss leaves.            *)
Lengths(disk) == {Len(Journal(d)) : d \in disk}
Store == INSTANCE AuthorityStore WITH
  journal <- Journal(doc),
  durable <- CHOOSE n \in Lengths(docDisk) : \A m \in Lengths(docDisk) : n <= m,
  answered <- {d.rows : d \in told}
ImplementsStore == Store!StoreSpec
=============================================================================
