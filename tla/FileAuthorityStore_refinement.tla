-------------------- MODULE FileAuthorityStore_refinement --------------------
(* The file provider implements the authority store contract: every step of  *)
(* a handle and every power loss is a step of AuthorityStore or changes      *)
(* nothing it speaks of.                                                     *)
EXTENDS FileAuthorityStore_proofs

(* What the simulation needs besides StoreInv: the documents that a power    *)
(* loss may leave are prefixes of the visible one, one of them is shortest,  *)
(* and neither the document nor one about to be published repeats an         *)
(* operation.                                                                *)
ChainOK(d, dDisk) ==
  /\ \A left \in dDisk : IsPrefix(Journal(left), Journal(d))
  /\ \E least \in dDisk : \A left \in dDisk : Len(Journal(least)) <= Len(Journal(left))
  /\ UniqueOperations(Journal(d))

PublishesUnique == \A p \in Procs : local[p].pc = "rename" => UniqueOperations(local[p].view.rows)

ChainInv == ChainOK(doc, docDisk) /\ PublishesUnique

(* The refinement mapping's durable part. *)
Shortest(disk) == CHOOSE n \in Lengths(disk) : \A m \in Lengths(disk) : n <= m

-----------------------------------------------------------------------------
(* The durable part is the length of a shortest document on disk. *)
LEMMA ShortestIs ==
  ASSUME NEW dDisk \in SUBSET (Document \cup {None}), NEW least \in dDisk,
         \A left \in dDisk : Len(Journal(least)) <= Len(Journal(left))
  PROVE  Shortest(dDisk) = Len(Journal(least)) /\ Shortest(dDisk) \in Nat
<1> DEFINE n == Len(Journal(least))
<1>1. \A left \in dDisk : Len(Journal(left)) \in Nat
  BY JournalRows
<1>2. n \in Lengths(dDisk) /\ n \in Nat /\ \A m \in Lengths(dDisk) : m \in Nat /\ n <= m
  BY <1>1 DEF Lengths
<1> HIDE DEF n
<1>3. \A k \in Lengths(dDisk) : (\A m \in Lengths(dDisk) : k <= m) => k = n
  BY <1>2
<1>4. Shortest(dDisk) = n
  BY <1>2, <1>3 DEF Shortest
<1> QED
  BY <1>2, <1>4 DEF n

(* Nothing on disk is shorter than the durable part, nor longer than the     *)
(* visible journal.                                                          *)
LEMMA ShortestBounds ==
  ASSUME NEW d, NEW dDisk \in SUBSET (Document \cup {None}), d \in dDisk, ChainOK(d, dDisk)
  PROVE  /\ Shortest(dDisk) \in Nat
         /\ \A left \in dDisk : /\ Len(Journal(left)) \in Nat
                                /\ Shortest(dDisk) <= Len(Journal(left))
                                /\ Len(Journal(left)) <= Len(Journal(d))
         /\ \E least \in dDisk : Shortest(dDisk) = Len(Journal(least))
<1>1. PICK least \in dDisk : \A left \in dDisk : Len(Journal(least)) <= Len(Journal(left))
  BY DEF ChainOK
<1>2. Shortest(dDisk) = Len(Journal(least)) /\ Shortest(dDisk) \in Nat
  BY <1>1, ShortestIs
<1>3. ASSUME NEW left \in dDisk
      PROVE  Len(Journal(left)) \in Nat /\ Len(Journal(left)) <= Len(Journal(d))
  <2>1. Journal(left) \in Seq(Row) /\ Journal(d) \in Seq(Row)
    BY JournalRows
  <2>2. IsPrefix(Journal(left), Journal(d))
    BY DEF ChainOK
  <2> QED
    BY <2>1, <2>2, PrefixByPosition
<1> QED
  BY <1>1, <1>2, <1>3

(* One document on disk is the durable one. *)
LEMMA ShortestOfOne ==
  ASSUME NEW d \in Document \cup {None}
  PROVE  Shortest({d}) = Len(Journal(d)) /\ Len(Journal(d)) \in Nat
<1>1. Len(Journal(d)) \in Nat
  BY JournalRows
<1>2. \A left \in {d} : Len(Journal(d)) <= Len(Journal(left))
  BY <1>1
<1> QED
  BY <1>1, <1>2, ShortestIs

(* A prefix is what its length cuts off the longer journal. *)
LEMMA PrefixIsUpto ==
  ASSUME NEW s \in Seq(Row), NEW t \in Seq(Row), IsPrefix(s, t)
  PROVE  Store!Upto(t, Len(s)) = s
<1>1. Len(s) \in Nat /\ Len(s) <= Len(t) /\ \A i \in 1..Len(s) : s[i] = t[i]
  BY PrefixByPosition
<1> DEFINE u == SubSeq(t, 1, Len(s))
<1>2. u \in Seq(Row) /\ Len(u) = Len(s) /\ \A i \in 1..Len(s) : u[i] = t[i]
  BY <1>1
<1> HIDE DEF u
<1>3. u = s
  BY <1>1, <1>2
<1> QED
  BY <1>3 DEF u, Store!Upto

(* A prefix of a journal without repetitions has none. *)
LEMMA PrefixOfUnique ==
  ASSUME NEW s \in Seq(Row), NEW t \in Seq(Row), IsPrefix(s, t), UniqueOperations(t)
  PROVE  UniqueOperations(s)
<1>1. Len(s) \in Nat /\ Len(t) \in Nat /\ Len(s) <= Len(t) /\ \A i \in 1..Len(s) : s[i] = t[i]
  BY PrefixByPosition
<1>2. DOMAIN s = 1..Len(s) /\ DOMAIN t = 1..Len(t)
  OBVIOUS
<1> QED
  BY <1>1, <1>2 DEF UniqueOperations

(* An operation that is not in a journal may be appended to it. *)
LEMMA AppendUnique ==
  ASSUME NEW s \in Seq(Row), NEW row \in Row, UniqueOperations(s),
         \A i \in DOMAIN s : s[i].op # row.op
  PROVE  UniqueOperations(s \o <<row>>)
<1> DEFINE t == s \o <<row>>
<1>1. /\ DOMAIN s = 1..Len(s) /\ Len(s) \in Nat /\ DOMAIN t = 1..(Len(s) + 1)
      /\ \A i \in 1..Len(s) : t[i] = s[i]
      /\ t[Len(s) + 1] = row
  OBVIOUS
<1> HIDE DEF t
<1>2. ASSUME NEW i \in DOMAIN t, NEW j \in DOMAIN t, t[i].op = t[j].op
      PROVE  i = j
  <2>1. CASE i \in 1..Len(s) /\ j \in 1..Len(s)
    BY <1>1, <1>2, <2>1 DEF UniqueOperations
  <2>2. CASE i = Len(s) + 1 /\ j \in 1..Len(s)
    BY <1>1, <1>2, <2>2
  <2>3. CASE i \in 1..Len(s) /\ j = Len(s) + 1
    BY <1>1, <1>2, <2>3
  <2> QED
    BY <1>1, <2>1, <2>2, <2>3
<1>3. UniqueOperations(t)
  BY <1>2 DEF UniqueOperations
<1> QED
  BY <1>3 DEF t

-----------------------------------------------------------------------------
(* A step that publishes nothing: it may sync, answer one journal, and send  *)
(* no repeated operation on its way to the rename.                           *)
Quiet ==
  /\ doc' = doc
  /\ docDisk' \in {docDisk, {doc}}
  /\ \/ told' = told
     \/ \E d : told' = told \cup {d}
  /\ PublishesUnique'

(* The call of one handle moves, not to the rename. *)
LEMMA OthersPublish ==
  ASSUME StoreInv, ChainInv, NEW p \in Procs, NEW l, local' = [local EXCEPT ![p] = l],
         l.pc = "rename" => UniqueOperations(l.view.rows)
  PROVE  PublishesUnique'
<1>1. local \in [Procs -> Local]
  BY DEF StoreInv
<1>2. \A q \in Procs : local'[q] = IF q = p THEN l ELSE local[q]
  BY <1>1
<1> QED
  BY <1>2 DEF ChainInv, PublishesUnique

LEMMA FailIsQuiet ==
  ASSUME StoreInv, ChainInv, NEW p \in Procs, Fail(p), doc' = doc, docDisk' \in {docDisk, {doc}}
  PROVE  Quiet
<1> DEFINE l == Fresh(local[p].base, local[p].bound)
<1>1. local' = [local EXCEPT ![p] = l] /\ told' = told
  BY DEF Fail, Set
<1>2. l.pc # "rename"
  BY DEF Fresh
<1> HIDE DEF l
<1> QED
  BY <1>1, <1>2, OthersPublish DEF Quiet

LEMMA TellIsQuiet ==
  ASSUME StoreInv, ChainInv, NEW p \in Procs, NEW d, Tell(p, d),
         doc' = doc, docDisk' \in {docDisk, {doc}}
  PROVE  Quiet
<1> DEFINE l == Fresh(IF d.rows = <<>> THEN local[p].base ELSE d, d.id)
<1>1. local' = [local EXCEPT ![p] = l] /\ told' = told \cup {d}
  BY DEF Tell, Set
<1>2. l.pc # "rename"
  BY DEF Fresh
<1> HIDE DEF l
<1> QED
  BY <1>1, <1>2, OthersPublish DEF Quiet

(* A call moves to another step, the rename excepted. *)
LEMMA MoveIsQuiet ==
  ASSUME StoreInv, ChainInv, NEW p \in Procs, NEW l, local' = [local EXCEPT ![p] = l],
         l.pc = "rename" => UniqueOperations(l.view.rows),
         doc' = doc, docDisk' \in {docDisk, {doc}}, told' = told
  PROVE  Quiet
BY OthersPublish DEF Quiet

LEMMA HaveIdentityIsQuiet ==
  ASSUME StoreInv, ChainInv, NEW p \in Procs, NEW id, HaveIdentity(p, id),
         doc' = doc, docDisk' \in {docDisk, {doc}}
  PROVE  Quiet
<1>1. CASE Fail(p)
  BY <1>1, FailIsQuiet
<1>2. CASE Tell(p, [id |-> id, rows |-> <<>>])
  BY <1>2, TellIsQuiet
<1>3. CASE Tell(p, local[p].view)
  BY <1>3, TellIsQuiet
<1>4. CASE Set(p, [local[p] EXCEPT !.pc = "decide", !.id = id]) /\ UNCHANGED told
  <2> DEFINE l == [local[p] EXCEPT !.pc = "decide", !.id = id]
  <2>1. local[p] \in Local
    BY CallOf
  <2>2. l.pc # "rename" /\ local' = [local EXCEPT ![p] = l]
    BY <1>4, <2>1 DEF Set, Local
  <2> HIDE DEF l
  <2> QED
    BY <1>4, <2>2, MoveIsQuiet
<1> QED
  BY <1>1, <1>2, <1>3, <1>4 DEF HaveIdentity

(* Only a decision whose journal stays free of repetitions goes to the       *)
(* rename: a commit's operation is new, a page was checked.                  *)
LEMMA DecideIsQuiet ==
  ASSUME StoreInv, ChainInv, NEW p \in Procs, Decide(p)
  PROVE  Quiet
<1> DEFINE l == local[p]
           rows == Journal(doc)
<1>1. l.pc = "decide" /\ l \in Local /\ doc' = doc /\ docDisk' \in {docDisk, {doc}}
  BY CallOf DEF Decide, At, files
<1>2. l.req \in Requests /\ l.req.kind \in {"commit", "page"} /\ l.req.rows \in Seq(Row)
  BY <1>1, CallOf, RequestShape DEF ControlOK
<1>3. rows \in Seq(Row)
  BY CallOf, JournalRows DEF FilesOK
<1>4. CASE Fail(p)
  BY <1>1, <1>4, FailIsQuiet
<1>5. ASSUME NEW i \in Existing(p), Tell(p, [id |-> l.id, rows |-> SubSeq(rows, 1, i)])
      PROVE  Quiet
  BY <1>1, <1>5, TellIsQuiet
<1>6. CASE /\ ~Replays(p) /\ ~PageRepeats(p)
           /\ Set(p, [l EXCEPT !.pc = "rename", !.view = [id |-> l.id, rows |-> rows \o l.req.rows]])
           /\ UNCHANGED <<locks, told>>
  <2> DEFINE d == [id |-> l.id, rows |-> rows \o l.req.rows]
             k == [l EXCEPT !.pc = "rename", !.view = d]
  <2>1. UniqueOperations(rows \o l.req.rows)
    <3>1. CASE l.req.kind = "page"
      BY <1>6, <3>1 DEF PageRepeats
    <3>2. CASE l.req.kind = "commit"
      <4>1. PICK row \in Commits : l.req = [kind |-> "commit", rows |-> <<row>>]
        BY <1>2, <3>2 DEF Requests
      <4>2. row \in Row /\ l.req.rows = <<row>> /\ l.req.rows[1] = row
        BY <4>1, RequestsAssumption
      <4>3. \A i \in DOMAIN rows : rows[i].op # row.op
        BY <1>6, <3>2, <4>2 DEF Replays, Existing
      <4>4. UniqueOperations(rows)
        BY DEF ChainInv, ChainOK
      <4> HIDE DEF l, rows
      <4>5. UniqueOperations(rows \o <<row>>)
        BY <1>3, <4>2, <4>3, <4>4, AppendUnique
      <4> QED
        BY <4>2, <4>5
    <3> QED
      BY <1>2, <3>1, <3>2
  <2>2. d.rows = rows \o l.req.rows
    OBVIOUS
  <2> HIDE DEF d
  <2>3. k.view = d
    BY <1>1 DEF Local
  <2>4. local' = [local EXCEPT ![p] = k] /\ told' = told
    BY <1>6 DEF Set, d
  <2>5. UniqueOperations(k.view.rows)
    BY <2>1, <2>2, <2>3
  <2> HIDE DEF k
  <2> QED
    BY <1>1, <2>4, <2>5, MoveIsQuiet
<1> QED
  BY <1>4, <1>5, <1>6 DEF Decide

(* The other steps of a call. *)
LEMMA PlainStepsAreQuiet ==
  ASSUME StoreInv, ChainInv, NEW p \in Procs,
         \/ Call(p) \/ TakeLock(p) \/ LockTimeout(p) \/ ReadRaw(p) \/ ReadIdentity(p)
         \/ NewIdentity(p) \/ SyncIdentity(p) \/ SyncDocument(p) \/ IoError(p) \/ Crash(p)
  PROVE  Quiet
<1>1. local[p] \in Local
  BY CallOf
<1>2. CASE Call(p)
  <2>1. PICK r \in Requests :
          Set(p, [local[p] EXCEPT !.req = r,
                                  !.pc = CASE r.kind = "read" -> "raw"
                                           [] r.kind = "identity" -> "ident"
                                           [] OTHER -> "lock"])
    BY <1>2 DEF Call
  <2>2. PICK point : point = CASE r.kind = "read" -> "raw"
                               [] r.kind = "identity" -> "ident"
                               [] OTHER -> "lock"
    OBVIOUS
  <2>3. point # "rename"
    BY <2>2
  <2> DEFINE l == [local[p] EXCEPT !.req = r, !.pc = point]
  <2>4. l.pc = point
    BY <1>1 DEF Local
  <2>5. local' = [local EXCEPT ![p] = l]
    BY <2>1, <2>2 DEF Set
  <2>6. doc' = doc /\ docDisk' \in {docDisk, {doc}} /\ told' = told
    BY <1>2 DEF Call, files
  <2> HIDE DEF l
  <2> QED
    BY <2>3, <2>4, <2>5, <2>6, MoveIsQuiet
<1>3. ASSUME NEW point, Go(p, point), point # "rename", told' = told,
             doc' = doc, docDisk' = docDisk
      PROVE  Quiet
  <2> DEFINE l == [local[p] EXCEPT !.pc = point]
  <2>1. l.pc # "rename" /\ local' = [local EXCEPT ![p] = l]
    BY <1>1, <1>3 DEF Go, Local
  <2> HIDE DEF l
  <2> QED
    BY <1>3, <2>1, MoveIsQuiet
<1>4. CASE TakeLock(p)
  <2>1. CASE Go(p, "ident")
    BY <1>3, <1>4, <2>1 DEF TakeLock, files
  <2>2. CASE Go(p, "identRead")
    BY <1>3, <1>4, <2>2 DEF TakeLock, files
  <2> QED
    BY <1>4, <2>1, <2>2 DEF TakeLock
<1>5. CASE LockTimeout(p) \/ IoError(p)
  <2>1. Fail(p) /\ doc' = doc /\ docDisk' \in {docDisk, {doc}}
    BY <1>5 DEF LockTimeout, IoError, files
  <2> QED
    BY <2>1, FailIsQuiet
<1>6. CASE ReadRaw(p)
  <2>1. doc' = doc /\ docDisk' \in {docDisk, {doc}} /\ told' = told
    BY <1>6 DEF ReadRaw, files
  <2>2. CASE Set(p, Fresh(None, local[p].bound))
    <3> DEFINE l == Fresh(None, local[p].bound)
    <3>1. l.pc # "rename" /\ local' = [local EXCEPT ![p] = l]
      BY <2>2 DEF Set, Fresh
    <3> HIDE DEF l
    <3> QED
      BY <2>1, <3>1, MoveIsQuiet
  <2>3. CASE Set(p, [local[p] EXCEPT !.pc = "ident", !.view = doc])
    <3> DEFINE l == [local[p] EXCEPT !.pc = "ident", !.view = doc]
    <3>1. l.pc # "rename" /\ local' = [local EXCEPT ![p] = l]
      BY <1>1, <2>3 DEF Set, Local
    <3> HIDE DEF l
    <3> QED
      BY <2>1, <3>1, MoveIsQuiet
  <2> QED
    BY <1>6, <2>2, <2>3 DEF ReadRaw
<1>7. CASE ReadIdentity(p)
  <2>1. doc' = doc /\ docDisk' = docDisk
    BY <1>7 DEF ReadIdentity, files
  <2>2. CASE Set(p, [local[p] EXCEPT !.pc = "identSync", !.id = ident]) /\ UNCHANGED told
    <3> DEFINE l == [local[p] EXCEPT !.pc = "identSync", !.id = ident]
    <3>1. l.pc # "rename" /\ local' = [local EXCEPT ![p] = l]
      BY <1>1, <2>2 DEF Set, Local
    <3> HIDE DEF l
    <3> QED
      BY <2>1, <2>2, <3>1, MoveIsQuiet
  <2>3. CASE HaveIdentity(p, ident)
    BY <2>1, <2>3, HaveIdentityIsQuiet
  <2>4. CASE Fail(p)
    BY <2>1, <2>4, FailIsQuiet
  <2>5. CASE Go(p, IF At(p, "ident") THEN "identLock" ELSE "identNew") /\ UNCHANGED told
    BY <1>3, <2>1, <2>5
  <2> QED
    BY <1>7, <2>2, <2>3, <2>4, <2>5 DEF ReadIdentity
<1>8. CASE NewIdentity(p)
  <2> DEFINE l == [local[p] EXCEPT !.pc = "identSync", !.id = ident']
  <2>1. l.pc # "rename" /\ local' = [local EXCEPT ![p] = l]
    BY <1>1, <1>8 DEF NewIdentity, Set, Local
  <2> HIDE DEF l
  <2> QED
    BY <1>8, <2>1, MoveIsQuiet DEF NewIdentity
<1>9. CASE SyncIdentity(p)
  BY <1>9, HaveIdentityIsQuiet DEF SyncIdentity, SyncDirectory
<1>10. CASE SyncDocument(p)
  BY <1>10, TellIsQuiet DEF SyncDocument, SyncDirectory
<1>11. CASE Crash(p)
  <2> DEFINE l == Fresh(None, None)
  <2>1. l.pc # "rename" /\ local' = [local EXCEPT ![p] = l]
    BY <1>11 DEF Crash, Set, Fresh
  <2> HIDE DEF l
  <2> QED
    BY <1>11, <2>1, MoveIsQuiet DEF Crash, files
<1> QED
  BY <1>2, <1>4, <1>5, <1>6, <1>7, <1>8, <1>9, <1>10, <1>11

-----------------------------------------------------------------------------
(* What is published: a longer document that repeats no operation. *)
LEMMA RenameFacts ==
  ASSUME StoreInv, ChainInv, NEW p \in Procs, Rename(p)
  PROVE  /\ doc' \in Document /\ docDisk' = docDisk \cup {doc'} /\ told' = told
         /\ Journal(doc) \in Seq(Row) /\ Journal(doc') \in Seq(Row)
         /\ IsPrefix(Journal(doc), Journal(doc'))
         /\ UniqueOperations(Journal(doc'))
         /\ PublishesUnique'
<1>1. /\ local[p].pc = "rename" /\ doc' = local[p].view /\ docDisk' = docDisk \cup {doc'}
      /\ told' = told /\ Go(p, "sync")
  BY DEF Rename, At
<1>2. local[p].view \in Document /\ IsPrefix(Journal(doc), local[p].view.rows)
  BY <1>1, CallOf DEF ControlOK, Knows, Publishing
<1>3. Journal(local[p].view) = local[p].view.rows /\ Journal(local[p].view) \in Seq(Row)
  BY <1>2, NoneAssumption, JournalRows
<1>4. Journal(doc) \in Seq(Row)
  BY CallOf, JournalRows DEF FilesOK
<1>5. UniqueOperations(local[p].view.rows)
  BY <1>1 DEF ChainInv, PublishesUnique
<1> DEFINE l == [local[p] EXCEPT !.pc = "sync"]
<1>6. l.pc # "rename" /\ local' = [local EXCEPT ![p] = l]
  BY <1>1, CallOf DEF Go, Local
<1> HIDE DEF l
<1>7. PublishesUnique'
  BY <1>6, OthersPublish
<1> QED
  BY <1>1, <1>2, <1>3, <1>4, <1>5, <1>7

(* A rename leaves the durable part as it was. *)
LEMMA RenameKeepsChain ==
  ASSUME StoreInv, ChainInv, NEW p \in Procs, Rename(p)
  PROVE  ChainInv' /\ Shortest(docDisk') = Shortest(docDisk)
<1>1. /\ doc' \in Document /\ docDisk' = docDisk \cup {doc'}
      /\ Journal(doc) \in Seq(Row) /\ Journal(doc') \in Seq(Row)
      /\ IsPrefix(Journal(doc), Journal(doc')) /\ UniqueOperations(Journal(doc'))
      /\ PublishesUnique'
  BY RenameFacts
<1>2. doc \in docDisk /\ docDisk \in SUBSET (Document \cup {None}) /\ ChainOK(doc, docDisk)
  BY DEF StoreInv, FilesOK, ChainInv
<1>3. ASSUME NEW left \in docDisk' PROVE IsPrefix(Journal(left), Journal(doc'))
  <2>1. CASE left \in docDisk
    <3>1. Journal(left) \in Seq(Row) /\ IsPrefix(Journal(left), Journal(doc))
      BY <1>2, <2>1, JournalRows DEF ChainOK
    <3> QED
      BY <1>1, <3>1, PrefixTransitive
  <2>2. CASE left = doc'
    BY <1>1, <2>2, PrefixFacts
  <2> QED
    BY <1>1, <1>3, <2>1, <2>2
<1>4. PICK least \in docDisk : \A left \in docDisk : Len(Journal(least)) <= Len(Journal(left))
  BY <1>2 DEF ChainOK
<1>5. Len(Journal(least)) <= Len(Journal(doc'))
  <2>1. Journal(least) \in Seq(Row)
    BY <1>2, JournalRows
  <2> QED
    BY <1>1, <1>3, <2>1, PrefixByPosition
<1>6. least \in docDisk' /\ \A left \in docDisk' : Len(Journal(least)) <= Len(Journal(left))
  BY <1>1, <1>4, <1>5
<1>7. ChainOK(doc', docDisk')
  BY <1>1, <1>3, <1>6 DEF ChainOK
<1>8. docDisk' \in SUBSET (Document \cup {None})
  BY <1>1, <1>2
<1>9. Shortest(docDisk') = Len(Journal(least)) /\ Shortest(docDisk) = Len(Journal(least))
  BY <1>2, <1>4, <1>6, <1>8, ShortestIs
<1> QED
  BY <1>1, <1>7, <1>9 DEF ChainInv

(* A single document on disk is a chain. *)
LEMMA ChainOfOne ==
  ASSUME NEW d \in Document \cup {None}, UniqueOperations(Journal(d))
  PROVE  ChainOK(d, {d})
<1>1. Journal(d) \in Seq(Row) /\ Len(Journal(d)) \in Nat
  BY JournalRows
<1>2. IsPrefix(Journal(d), Journal(d))
  BY <1>1, PrefixFacts
<1> QED
  BY <1>1, <1>2 DEF ChainOK

(* A quiet step keeps the chain. *)
LEMMA QuietKeepsChain ==
  ASSUME StoreInv, ChainInv, Quiet
  PROVE  ChainInv'
<1>1. doc \in Document \cup {None} /\ UniqueOperations(Journal(doc)) /\ ChainOK(doc, docDisk)
  BY DEF StoreInv, FilesOK, ChainInv, ChainOK
<1>2. ChainOK(doc, docDisk')
  BY <1>1, ChainOfOne DEF Quiet
<1> QED
  BY <1>2 DEF Quiet, ChainInv

(* So does a power loss, which leaves one document of it. *)
LEMMA PowerLossKeepsChain ==
  ASSUME StoreInv, ChainInv, PowerLoss
  PROVE  ChainInv'
<1>1. doc' \in docDisk /\ docDisk' = {doc'} /\ local' = [p \in Procs |-> Fresh(None, None)]
  BY DEF PowerLoss
<1>2. /\ doc' \in Document \cup {None} /\ doc \in Document \cup {None}
      /\ IsPrefix(Journal(doc'), Journal(doc)) /\ UniqueOperations(Journal(doc))
  BY <1>1 DEF StoreInv, FilesOK, ChainInv, ChainOK
<1>3. Journal(doc') \in Seq(Row) /\ Journal(doc) \in Seq(Row)
  BY <1>2, JournalRows
<1>4. UniqueOperations(Journal(doc'))
  BY <1>2, <1>3, PrefixOfUnique
<1>5. ChainOK(doc', docDisk')
  BY <1>1, <1>2, <1>4, ChainOfOne
<1>6. PublishesUnique'
  BY <1>1 DEF PublishesUnique, Fresh
<1> QED
  BY <1>5, <1>6 DEF ChainInv

(* Every step is quiet, a rename, a power loss or none. *)
LEMMA StepKinds ==
  ASSUME StoreInv, ChainInv, [Next]_vars
  PROVE  \/ Quiet
         \/ \E p \in Procs : Rename(p)
         \/ PowerLoss
<1>1. CASE UNCHANGED vars
  BY <1>1 DEF vars, files, Quiet, ChainInv, PublishesUnique
<1>2. CASE Next
  BY <1>2, DecideIsQuiet, PlainStepsAreQuiet DEF Next
<1> QED
  BY <1>1, <1>2

LEMMA NextKeepsChain ==
  ASSUME StoreInv, ChainInv, [Next]_vars
  PROVE  ChainInv'
BY StepKinds, QuietKeepsChain, RenameKeepsChain, PowerLossKeepsChain

LEMMA InitChain == Init => ChainInv
<1> SUFFICES ASSUME Init PROVE ChainInv
  OBVIOUS
<1>1. doc = None /\ docDisk = {doc} /\ local = [p \in Procs |-> Fresh(None, None)]
  BY DEF Init
<1>2. UniqueOperations(Journal(doc))
  BY <1>1 DEF Journal, UniqueOperations
<1>3. ChainOK(doc, docDisk)
  BY <1>1, <1>2, ChainOfOne
<1>4. PublishesUnique
  BY <1>1 DEF PublishesUnique, Fresh
<1> QED
  BY <1>3, <1>4 DEF ChainInv

-----------------------------------------------------------------------------
(* The journals that callers were told of. *)
Answers == {d.rows : d \in told}

(* An empty directory is an empty store. *)
LEMMA InitIsInit == Init => Store!StoreInit
<1> SUFFICES ASSUME Init PROVE Store!StoreInit
  OBVIOUS
<1>1. doc = None /\ docDisk = {None} /\ told = {}
  BY DEF Init
<1>2. Journal(doc) = <<>> /\ Len(Journal(doc)) = 0
  BY <1>1 DEF Journal
<1>3. Shortest(docDisk) = 0
  BY <1>1, <1>2, ShortestOfOne
<1> QED
  BY <1>1, <1>2, <1>3 DEF Store!StoreInit, Shortest

(* A sync, an answer, both or neither.  What is answered is durable, so it   *)
(* is a part of the journal that the durable part contains.                  *)
LEMMA QuietIsMakeDurable ==
  ASSUME ExistingOnly = {}, StoreInv, ChainInv, StoreInv', ChainInv', Quiet
  PROVE  Store!MakeDurable
<1> DEFINE n0 == Shortest(docDisk)
           n1 == Shortest(docDisk')
           rows == Journal(doc)
<1>1. /\ doc \in Document \cup {None} /\ doc \in docDisk /\ docDisk \in SUBSET (Document \cup {None})
      /\ ChainOK(doc, docDisk)
  BY DEF StoreInv, FilesOK, ChainInv
<1>2. /\ doc' = doc /\ doc \in docDisk' /\ docDisk' \in SUBSET (Document \cup {None})
      /\ ChainOK(doc, docDisk')
  BY DEF StoreInv, FilesOK, ChainInv, Quiet
<1>3. rows \in Seq(Row) /\ Len(rows) \in Nat
  BY <1>1, JournalRows
<1>4. n0 \in Nat /\ n1 \in Nat /\ n0 <= Len(rows) /\ n1 <= Len(rows)
  BY <1>1, <1>2, ShortestBounds
<1>5. n0 <= n1
  <2>1. CASE docDisk' = docDisk
    BY <1>4, <2>1
  <2>2. CASE docDisk' = {doc}
    BY <1>1, <1>4, <2>2, ShortestOfOne
  <2> QED
    BY <2>1, <2>2 DEF Quiet
<1>6. n1 \in n0..Len(rows)
  BY <1>3, <1>4, <1>5
<1>7. \E n \in 0..n1 : Answers' \in {Answers, Answers \cup {Store!Upto(rows, n)}}
  <2>1. CASE told' = told
    <3>1. Answers' = Answers /\ 0 \in 0..n1
      BY <1>4, <2>1 DEF Answers
    <3> QED
      BY <3>1
  <2>2. ASSUME NEW d, told' = told \cup {d}
        PROVE  \E n \in 0..n1 : Answers' = Answers \cup {Store!Upto(rows, n)}
    <3>1. d \in Document /\ d.rows \in Seq(Row)
      BY <2>2 DEF StoreInv, Document
    <3>2. \A left \in docDisk' : IsPrefix(d.rows, Journal(left))
      BY <2>2 DEF StoreInv, Durable
    <3>3. PICK least \in docDisk' : n1 = Len(Journal(least))
      BY <1>2, ShortestBounds
    <3>4. Len(d.rows) \in 0..n1
      <4>1. Journal(least) \in Seq(Row)
        BY <1>2, JournalRows
      <4> QED
        BY <3>1, <3>2, <3>3, <4>1, PrefixByPosition
    <3>5. Store!Upto(rows, Len(d.rows)) = d.rows
      BY <1>2, <1>3, <3>1, <3>2, PrefixIsUpto
    <3>6. Answers' = Answers \cup {d.rows}
      BY <2>2 DEF Answers
    <3> QED
      BY <3>4, <3>5, <3>6
  <2> QED
    BY <2>1, <2>2 DEF Quiet
<1>8. Journal(doc)' = Journal(doc)
  BY <1>2
<1> QED
  BY <1>6, <1>7, <1>8 DEF Store!MakeDurable, Shortest, Answers

(* A rename publishes, or changes nothing when the page was empty. *)
LEMMA RenameIsPublish ==
  ASSUME StoreInv, ChainInv, NEW p \in Procs, Rename(p)
  PROVE  Store!Publish \/ UNCHANGED Store!storeVars
<1>1. /\ Journal(doc) \in Seq(Row) /\ Journal(doc') \in Seq(Row) /\ told' = told
      /\ IsPrefix(Journal(doc), Journal(doc')) /\ UniqueOperations(Journal(doc'))
  BY RenameFacts
<1>2. Shortest(docDisk') = Shortest(docDisk)
  BY RenameKeepsChain
<1>3. /\ Len(Journal(doc)) \in Nat /\ Len(Journal(doc')) \in Nat
      /\ Len(Journal(doc)) <= Len(Journal(doc'))
      /\ \A i \in 1..Len(Journal(doc)) : Journal(doc)[i] = Journal(doc')[i]
  BY <1>1, PrefixByPosition
<1>4. CASE Len(Journal(doc')) = Len(Journal(doc))
  <2>1. Journal(doc') = Journal(doc)
    BY <1>1, <1>3, <1>4
  <2> QED
    BY <1>1, <1>2, <2>1 DEF Store!storeVars, Shortest
<1>5. CASE Len(Journal(doc')) > Len(Journal(doc))
  <2>1. Store!UniqueOperations(Journal(doc'))
    BY <1>1 DEF UniqueOperations, Store!UniqueOperations
  <2>2. Store!Row = Row
    BY DEF Row, Store!Row
  <2>3. Store!IsPrefix(Journal(doc), Journal(doc'))
    BY <1>1 DEF IsPrefix, Store!IsPrefix
  <2> QED
    BY <1>1, <1>2, <1>5, <2>1, <2>2, <2>3 DEF Store!Publish, Shortest
<1> QED
  BY <1>3, <1>4, <1>5

(* A power loss cuts the journal, never below the durable part. *)
LEMMA PowerLossIsLose ==
  ASSUME StoreInv, ChainInv, PowerLoss
  PROVE  Store!Lose
<1>1. doc' \in docDisk /\ docDisk' = {doc'} /\ told' = told
  BY DEF PowerLoss
<1>2. /\ doc \in Document \cup {None} /\ doc' \in Document \cup {None} /\ doc \in docDisk
      /\ docDisk \in SUBSET (Document \cup {None}) /\ ChainOK(doc, docDisk)
  BY <1>1 DEF StoreInv, FilesOK, ChainInv
<1>3. /\ Journal(doc) \in Seq(Row) /\ Journal(doc') \in Seq(Row)
      /\ IsPrefix(Journal(doc'), Journal(doc))
  BY <1>1, <1>2, JournalRows DEF ChainOK
<1>4. Len(Journal(doc')) \in Shortest(docDisk)..Len(Journal(doc))
  BY <1>1, <1>2, ShortestBounds
<1>5. Journal(doc') = Store!Upto(Journal(doc), Len(Journal(doc')))
  BY <1>3, PrefixIsUpto
<1>6. Shortest(docDisk') = Len(Journal(doc'))
  BY <1>1, <1>2, ShortestOfOne
<1> QED
  BY <1>1, <1>4, <1>5, <1>6 DEF Store!Lose, Shortest

(* The file provider implements the authority store contract for every       *)
(* number of handles, transactions, pages and identities and under crashes,  *)
(* failing writes and power losses: its journal only grows by new operations *)
(* and a power loss takes back nothing that an answer spoke of.  Handles     *)
(* opened with existingOnly are excluded: they answer without the sync.      *)
THEOREM FileStoreImplementsStore ==
  ASSUME ExistingOnly = {}
  PROVE  Spec => ImplementsStore
<1>1. Init => StoreInv /\ ChainInv /\ Store!StoreInit
  BY InitStore, InitChain, InitIsInit
<1>2. StoreInv /\ ChainInv /\ [Next]_vars => StoreInv' /\ ChainInv'
  BY NextKeepsStore, NextKeepsChain
<1>3. StoreInv /\ ChainInv /\ [Next]_vars /\ StoreInv' /\ ChainInv'
        => [Store!StoreNext]_Store!storeVars
  <2> SUFFICES ASSUME StoreInv, ChainInv, [Next]_vars, StoreInv', ChainInv'
               PROVE  Store!StoreNext \/ UNCHANGED Store!storeVars
    OBVIOUS
  <2>1. CASE Quiet
    BY <2>1, QuietIsMakeDurable DEF Store!StoreNext
  <2>2. ASSUME NEW p \in Procs, Rename(p)
        PROVE  Store!StoreNext \/ UNCHANGED Store!storeVars
    BY <2>2, RenameIsPublish DEF Store!StoreNext
  <2>3. CASE PowerLoss
    BY <2>3, PowerLossIsLose DEF Store!StoreNext
  <2> QED
    BY <2>1, <2>2, <2>3, StepKinds
<1> QED
  BY <1>1, <1>2, <1>3, PTL DEF Spec, ImplementsStore, Store!StoreSpec
=============================================================================
