---------------------- MODULE FileAuthorityStore_proofs ----------------------
(* Proofs about the file authority store, for every number of handles,       *)
(* transactions, pages and identities: its types, its lineage and, without   *)
(* existing-only handles, the durability of everything it answers.           *)
EXTENDS FileAuthorityStore, SequenceTheorems, TLAPS

(* Prefixes of journals, position by position. *)
LEMMA PrefixByPosition ==
  ASSUME NEW s \in Seq(Row), NEW t \in Seq(Row)
  PROVE  IsPrefix(s, t) <=> Len(s) <= Len(t) /\ \A i \in 1..Len(s) : s[i] = t[i]
<1>1. SubSeq(s, 1, Len(s)) = s
  BY SubSeqFull
<1>2. CASE ~(Len(s) <= Len(t))
  BY <1>2 DEF IsPrefix
<1>3. CASE Len(s) <= Len(t)
  <2> DEFINE u == SubSeq(t, 1, Len(s))
  <2>1. u \in Seq(Row) /\ Len(u) = Len(s) /\ \A i \in 1..Len(s) : u[i] = t[i]
    BY <1>3
  <2>2. s = u <=> \A i \in 1..Len(s) : s[i] = u[i]
    BY <2>1
  <2> HIDE DEF u
  <2>3. IsPrefix(s, t) <=> s = u
    BY <1>1, <1>3 DEF IsPrefix, u
  <2> QED
    BY <1>3, <2>1, <2>2, <2>3
<1> QED
  BY <1>2, <1>3

(* A prefix of a prefix is a prefix. *)
LEMMA PrefixTransitive ==
  ASSUME NEW r \in Seq(Row), NEW s \in Seq(Row), NEW t \in Seq(Row),
         IsPrefix(r, s), IsPrefix(s, t)
  PROVE  IsPrefix(r, t)
<1>1. /\ Len(r) \in Nat /\ Len(s) \in Nat /\ Len(t) \in Nat
      /\ Len(r) <= Len(s) /\ Len(s) <= Len(t)
      /\ \A i \in 1..Len(r) : r[i] = s[i]
      /\ \A i \in 1..Len(s) : s[i] = t[i]
  BY PrefixByPosition
<1>2. Len(r) <= Len(t) /\ \A i \in 1..Len(r) : r[i] = t[i]
  BY <1>1
<1> QED
  BY <1>2, PrefixByPosition

(* Appending keeps a prefix; nothing and everything are prefixes. *)
LEMMA PrefixFacts ==
  ASSUME NEW s \in Seq(Row), NEW t \in Seq(Row)
  PROVE  /\ IsPrefix(s, s)
         /\ IsPrefix(<<>>, s)
         /\ s \o t \in Seq(Row) /\ IsPrefix(s, s \o t)
         /\ \A i \in DOMAIN s : SubSeq(s, 1, i) \in Seq(Row) /\ IsPrefix(SubSeq(s, 1, i), s)
<1>1. IsPrefix(s, s)
  BY PrefixByPosition
<1>2. IsPrefix(<<>>, s)
  <2> DEFINE e == <<>>
  <2>1. e \in Seq(Row) /\ Len(e) = 0
    OBVIOUS
  <2> HIDE DEF e
  <2>2. Len(s) \in Nat
    OBVIOUS
  <2>3. Len(e) <= Len(s) /\ \A i \in 1..Len(e) : e[i] = s[i]
    BY <2>1, <2>2
  <2>4. IsPrefix(e, s)
    BY <2>1, <2>3, PrefixByPosition
  <2> QED
    BY <2>4 DEF e
<1>3. s \o t \in Seq(Row) /\ IsPrefix(s, s \o t)
  <2>1. s \o t \in Seq(Row) /\ Len(s) <= Len(s \o t) /\ \A i \in 1..Len(s) : (s \o t)[i] = s[i]
    OBVIOUS
  <2> QED
    BY <2>1, PrefixByPosition
<1>4. ASSUME NEW i \in DOMAIN s
      PROVE  SubSeq(s, 1, i) \in Seq(Row) /\ IsPrefix(SubSeq(s, 1, i), s)
  <2> DEFINE u == SubSeq(s, 1, i)
  <2>1. u \in Seq(Row) /\ Len(u) = i /\ i <= Len(s) /\ \A j \in 1..i : u[j] = s[j]
    BY <1>4
  <2> HIDE DEF u
  <2>2. u \in Seq(Row) /\ IsPrefix(u, s)
    BY <2>1, PrefixByPosition
  <2> QED
    BY <2>2 DEF u
<1> QED
  BY <1>1, <1>2, <1>3, <1>4
-----------------------------------------------------------------------------
Looking == {"ident", "identLock", "identRead", "identNew", "identSync"}
Publishing == {"rename", "sync"}

(* What a call carries at each of its steps. *)
ControlOK(p, l) ==
  /\ l \in Local
  /\ l.pc # "idle" => l.req \in Requests
  /\ l.pc = "raw" => l.req.kind = "read"
  /\ l.pc \in {"lock", "decide"} \cup Publishing => l.req.kind \in {"commit", "page"}
  /\ l.pc \in Looking /\ l.req.kind = "read" => l.view \in Document
  /\ l.pc \in Looking \ {"ident"} => p \notin ExistingOnly /\ l.req.kind # "page"
  /\ l.pc \in {"identSync", "decide"} \cup Publishing => l.id \in Identities
  /\ l.pc \in Publishing => l.view \in Document

(* The locks a call holds. *)
LocksOK(p, l, dLock, iLock) ==
  /\ l.pc \in Looking \cup {"decide"} \cup Publishing /\ l.req.kind \in {"commit", "page"}
       => dLock = p
  /\ l.pc \in {"identRead", "identNew"} => iLock = p

(* What a call may count on.  A handle that is not existing-only knows its   *)
(* identity, and the document it decides a commit on, to be durable.  A      *)
(* reader's view is a prefix of the document, which only grows while the     *)
(* reader lives.                                                             *)
Knows(p, l, d, dDisk, i, iDisk) ==
  /\ l.pc = "identNew" => i = None
  /\ l.pc = "identSync" => i = l.id
  /\ p \notin ExistingOnly /\ l.bound # None => iDisk = {l.bound}
  /\ p \notin ExistingOnly /\ l.pc = "decide" /\ l.req.kind = "commit"
       => iDisk = {l.id} /\ dDisk = {d}
  /\ l.pc \in Publishing => iDisk = {l.view.id}
  /\ l.pc \in Looking /\ l.req.kind = "read" => IsPrefix(l.view.rows, Journal(d))
  /\ l.pc = "rename" => IsPrefix(Journal(d), l.view.rows)
  /\ l.pc = "sync" => d = l.view

FilesOK(d, dDisk, i, iDisk) ==
  /\ d \in Document \cup {None} /\ d \in dDisk /\ dDisk \subseteq Document \cup {None}
  /\ i \in Identities \cup {None} /\ i \in iDisk /\ iDisk \subseteq Identities \cup {None}
  /\ \A left \in dDisk : left # None => iDisk = {left.id}

(* An answered journal and its identity outlive every power loss. *)
Durable(t, dDisk, iDisk) ==
  /\ iDisk = {t.id}
  /\ \A left \in dDisk : IsPrefix(t.rows, Journal(left))

StoreInv ==
  /\ FilesOK(doc, docDisk, ident, identDisk)
  /\ minted \in 0..MaxIdentities
  /\ docLock \in Procs \cup {None} /\ idLock \in Procs \cup {None}
  /\ local \in [Procs -> Local]
  /\ told \subseteq Document
  /\ ExistingOnly = {} => \A t \in told : Durable(t, docDisk, identDisk)
  /\ \A p \in Procs : /\ ControlOK(p, local[p])
                      /\ LocksOK(p, local[p], docLock, idLock)
                      /\ Knows(p, local[p], doc, docDisk, ident, identDisk)

(* What one process may do to the files while the others sleep: nothing, a   *)
(* sync, a new identity under the identity lock where there was none, or a   *)
(* longer document under the document lock.                                  *)
FileStep(p, dLock, iLock, d, dDisk, i, iDisk, d2, dDisk2, i2, iDisk2) ==
  \/ d2 = d /\ dDisk2 = dDisk /\ i2 = i /\ iDisk2 = iDisk
  \/ d2 = d /\ dDisk2 = {d} /\ i2 = i /\ iDisk2 = {i}
  \/ /\ iLock = p /\ i = None /\ i2 \in Identities /\ iDisk2 = iDisk \cup {i2}
     /\ d2 = d /\ dDisk2 = dDisk
  \/ /\ dLock = p /\ d2 \in Document /\ dDisk2 = dDisk \cup {d2} /\ iDisk = {d2.id}
     /\ IsPrefix(Journal(d), Journal(d2))
     /\ i2 = i /\ iDisk2 = iDisk

-----------------------------------------------------------------------------
(* A document's journal is a sequence of rows. *)
LEMMA JournalRows ==
  ASSUME NEW d \in Document \cup {None}
  PROVE  Journal(d) \in Seq(Row) /\ (d \in Document /\ d # None => Journal(d) = d.rows)
BY DEF Journal, Document

(* Requests are well formed. *)
LEMMA RequestShape ==
  ASSUME NEW r \in Requests
  PROVE  r.kind \in {"commit", "page", "read", "identity"} /\ r.rows \in Seq(Row)
<1>1. \A row \in Row : <<row>> \in Seq(Row)
  OBVIOUS
<1>2. <<>> \in Seq(Row)
  OBVIOUS
<1>3. CASE \E row \in Commits : r = [kind |-> "commit", rows |-> <<row>>]
  BY <1>1, <1>3, RequestsAssumption
<1>4. CASE \E page \in Pages : r = [kind |-> "page", rows |-> page]
  BY <1>4, RequestsAssumption
<1>5. CASE \E k \in {"read", "identity"} : r = [kind |-> k, rows |-> <<>>]
  BY <1>2, <1>5
<1> QED
  BY <1>3, <1>4, <1>5 DEF Requests

(* A durable identity stays: only a missing one is ever written. *)
LEMMA IdentityStays ==
  ASSUME NEW p, NEW dLock, NEW iLock, NEW d, NEW dDisk, NEW i, NEW iDisk,
         NEW d2, NEW dDisk2, NEW i2, NEW iDisk2, NEW x \in Identities,
         FilesOK(d, dDisk, i, iDisk),
         FileStep(p, dLock, iLock, d, dDisk, i, iDisk, d2, dDisk2, i2, iDisk2),
         iDisk = {x}
  PROVE  iDisk2 = {x}
BY NoneAssumption DEF FilesOK, FileStep

(* Such a step keeps the files in order and a durable answer durable. *)
LEMMA FilesStayOK ==
  ASSUME NEW p, NEW dLock, NEW iLock, NEW d, NEW dDisk, NEW i, NEW iDisk,
         NEW d2, NEW dDisk2, NEW i2, NEW iDisk2,
         FilesOK(d, dDisk, i, iDisk),
         FileStep(p, dLock, iLock, d, dDisk, i, iDisk, d2, dDisk2, i2, iDisk2)
  PROVE  /\ FilesOK(d2, dDisk2, i2, iDisk2)
         /\ \A t \in Document : Durable(t, dDisk, iDisk) => Durable(t, dDisk2, iDisk2)
<1>1. \A left \in Document : left.id \in Identities /\ left.rows \in Seq(Row)
  BY DEF Document
<1>2. FilesOK(d2, dDisk2, i2, iDisk2)
  BY <1>1, NoneAssumption DEF FilesOK, FileStep
<1>3. ASSUME NEW t \in Document, Durable(t, dDisk, iDisk)
      PROVE  Durable(t, dDisk2, iDisk2)
  <2>1. iDisk2 = {t.id}
    BY <1>1, <1>3, IdentityStays DEF Durable
  <2>2. ASSUME NEW left \in dDisk2 PROVE IsPrefix(t.rows, Journal(left))
    <3>1. CASE left \in dDisk
      BY <1>3, <3>1 DEF Durable
    <3>2. CASE left \notin dDisk
      <4>1. left = d2 /\ IsPrefix(Journal(d), Journal(d2)) /\ d \in dDisk
        BY <2>2, <3>2 DEF FileStep, FilesOK
      <4>2. IsPrefix(t.rows, Journal(d))
        BY <1>3, <4>1 DEF Durable
      <4>3. Journal(d) \in Seq(Row) /\ Journal(d2) \in Seq(Row) /\ t.rows \in Seq(Row)
        BY <1>1, <1>2, JournalRows DEF FilesOK
      <4> QED
        BY <4>1, <4>2, <4>3, PrefixTransitive
    <3> QED
      BY <3>1, <3>2
  <2> QED
    BY <2>1, <2>2 DEF Durable
<1> QED
  BY <1>2, <1>3

(* What a sleeping call counts on survives the others' steps. *)
LEMMA OthersKeepKnowing ==
  ASSUME NEW p, NEW q, q # p, NEW l, NEW dLock, NEW iLock,
         NEW d, NEW dDisk, NEW i, NEW iDisk, NEW d2, NEW dDisk2, NEW i2, NEW iDisk2,
         FilesOK(d, dDisk, i, iDisk),
         FileStep(p, dLock, iLock, d, dDisk, i, iDisk, d2, dDisk2, i2, iDisk2),
         ControlOK(q, l), LocksOK(q, l, dLock, iLock), Knows(q, l, d, dDisk, i, iDisk)
  PROVE  Knows(q, l, d2, dDisk2, i2, iDisk2)
<1>1. FilesOK(d2, dDisk2, i2, iDisk2)
  BY FilesStayOK
<1>2. \A t \in Document : t.id \in Identities /\ t.rows \in Seq(Row)
  BY DEF Document
<1>3. Journal(d) \in Seq(Row) /\ Journal(d2) \in Seq(Row)
  BY <1>1, JournalRows DEF FilesOK
<1>4. l.pc = "identNew" => i2 = None
  BY DEF LocksOK, Knows, FileStep
<1>5. l.pc = "identSync" => i2 = l.id
  BY NoneAssumption DEF ControlOK, Knows, FileStep
<1>6. q \notin ExistingOnly /\ l.bound # None => iDisk2 = {l.bound}
  <2>1. l.bound # None => l.bound \in Identities
    BY DEF ControlOK, Local
  <2> QED
    BY <2>1, IdentityStays DEF Knows
<1>7. q \notin ExistingOnly /\ l.pc = "decide" /\ l.req.kind = "commit"
        => iDisk2 = {l.id} /\ dDisk2 = {d2}
  <2> SUFFICES ASSUME q \notin ExistingOnly, l.pc = "decide", l.req.kind = "commit"
               PROVE  iDisk2 = {l.id} /\ dDisk2 = {d2}
    OBVIOUS
  <2>1. l.id \in Identities /\ iDisk = {l.id} /\ dDisk = {d} /\ dLock = q
    BY DEF ControlOK, Knows, LocksOK
  <2>2. iDisk2 = {l.id}
    BY <2>1, IdentityStays
  <2> QED
    BY <2>1, <2>2 DEF FileStep
<1>8. l.pc \in Publishing => iDisk2 = {l.view.id}
  BY <1>2, IdentityStays DEF ControlOK, Knows
<1>9. l.pc \in Looking /\ l.req.kind = "read" => IsPrefix(l.view.rows, Journal(d2))
  <2> SUFFICES ASSUME l.pc \in Looking, l.req.kind = "read"
               PROVE  IsPrefix(l.view.rows, Journal(d2))
    OBVIOUS
  <2>1. l.view.rows \in Seq(Row) /\ IsPrefix(l.view.rows, Journal(d))
    BY <1>2 DEF ControlOK, Knows
  <2>2. d2 = d \/ IsPrefix(Journal(d), Journal(d2))
    BY DEF FileStep
  <2> QED
    BY <1>3, <2>1, <2>2, PrefixTransitive
<1>10. l.pc \in Publishing => d2 = d
  <2>1. l.pc \in Publishing => dLock = q
    BY DEF ControlOK, LocksOK
  <2> QED
    BY <2>1 DEF FileStep
<1>11. /\ l.pc = "rename" => IsPrefix(Journal(d2), l.view.rows)
       /\ l.pc = "sync" => d2 = l.view
  BY <1>10 DEF Knows, Publishing
<1> QED
  BY <1>4, <1>5, <1>6, <1>7, <1>8, <1>9, <1>11 DEF Knows

(* A step of one call keeps the invariant if it keeps it for that call,      *)
(* touches the files as FileStep allows, takes no lock from another, and     *)
(* tells nothing but what is durable.                                        *)
LEMMA StepOfOne ==
  ASSUME StoreInv, NEW p \in Procs, NEW l, local' = [local EXCEPT ![p] = l],
         FileStep(p, docLock, idLock, doc, docDisk, ident, identDisk,
                  doc', docDisk', ident', identDisk'),
         minted' \in 0..MaxIdentities,
         docLock' \in Procs \cup {None}, idLock' \in Procs \cup {None},
         \A q \in Procs \ {p} : /\ docLock = q => docLock' = q
                                /\ idLock = q => idLock' = q,
         told' \subseteq Document,
         ExistingOnly = {} => \A t \in told' \ told : Durable(t, docDisk', identDisk'),
         ControlOK(p, l), LocksOK(p, l, docLock', idLock'),
         Knows(p, l, doc', docDisk', ident', identDisk')
  PROVE  StoreInv'
<1>1. FilesOK(doc, docDisk, ident, identDisk)
  BY DEF StoreInv
<1>2. FilesOK(doc', docDisk', ident', identDisk')
  BY <1>1, FilesStayOK
<1>3. ExistingOnly = {} => \A t \in told' : Durable(t, docDisk', identDisk')
  <2>1. \A t \in Document : Durable(t, docDisk, identDisk) => Durable(t, docDisk', identDisk')
    BY <1>1, FilesStayOK
  <2> QED
    BY <2>1 DEF StoreInv
<1>4. \A q \in Procs : local'[q] = IF q = p THEN l ELSE local[q]
  BY DEF StoreInv
<1>5. local' \in [Procs -> Local]
  BY DEF StoreInv, ControlOK
<1>6. ASSUME NEW q \in Procs
      PROVE  /\ ControlOK(q, local'[q])
             /\ LocksOK(q, local'[q], docLock', idLock')
             /\ Knows(q, local'[q], doc', docDisk', ident', identDisk')
  <2>1. CASE q = p
    BY <1>4, <2>1
  <2>2. CASE q # p
    <3>1. /\ ControlOK(q, local[q])
          /\ LocksOK(q, local[q], docLock, idLock)
          /\ Knows(q, local[q], doc, docDisk, ident, identDisk)
      BY DEF StoreInv
    <3>2. Knows(q, local[q], doc', docDisk', ident', identDisk')
      BY <1>1, <2>2, <3>1, OthersKeepKnowing
    <3>3. LocksOK(q, local[q], docLock', idLock')
      BY <2>2, <3>1 DEF LocksOK
    <3>4. local'[q] = local[q]
      BY <1>4, <2>2
    <3> QED
      BY <3>1, <3>2, <3>3, <3>4
  <2> QED
    BY <2>1, <2>2
<1> QED
  BY <1>2, <1>3, <1>5, <1>6 DEF StoreInv

-----------------------------------------------------------------------------
(* The invariant at one call. *)
LEMMA CallOf ==
  ASSUME StoreInv, NEW p \in Procs
  PROVE  /\ ControlOK(p, local[p])
         /\ LocksOK(p, local[p], docLock, idLock)
         /\ Knows(p, local[p], doc, docDisk, ident, identDisk)
         /\ local[p] \in Local
         /\ FilesOK(doc, docDisk, ident, identDisk)
BY DEF StoreInv

(* A call that has ended counts on its caller's identity only. *)
LEMMA FreshOK ==
  ASSUME NEW p, NEW base \in Document \cup {None}, NEW bound \in Identities \cup {None},
         NEW dLock, NEW iLock, NEW d, NEW dDisk, NEW i, NEW iDisk,
         p \notin ExistingOnly /\ bound # None => iDisk = {bound}
  PROVE  /\ ControlOK(p, Fresh(base, bound))
         /\ LocksOK(p, Fresh(base, bound), dLock, iLock)
         /\ Knows(p, Fresh(base, bound), d, dDisk, i, iDisk)
BY DEF ControlOK, LocksOK, Knows, Fresh, Local, Points, Looking, Publishing

(* Unlocking takes no lock from another process. *)
LEMMA UnlockOfOne ==
  ASSUME StoreInv, NEW p \in Procs, Unlock(p)
  PROVE  /\ docLock' \in Procs \cup {None} /\ idLock' \in Procs \cup {None}
         /\ \A q \in Procs \ {p} : (docLock = q => docLock' = q) /\ (idLock = q => idLock' = q)
BY DEF StoreInv, Unlock

(* An answer from which the caller learns nothing. *)
LEMMA FailKeeps ==
  ASSUME StoreInv, NEW p \in Procs, Fail(p), minted' = minted,
         FileStep(p, docLock, idLock, doc, docDisk, ident, identDisk,
                  doc', docDisk', ident', identDisk')
  PROVE  StoreInv'
<1> DEFINE l == Fresh(local[p].base, local[p].bound)
<1>1. /\ ControlOK(p, l) /\ LocksOK(p, l, docLock', idLock')
      /\ Knows(p, l, doc', docDisk', ident', identDisk')
  <2>1. local[p].base \in Document \cup {None} /\ local[p].bound \in Identities \cup {None}
    BY CallOf DEF Local
  <2>2. p \notin ExistingOnly /\ local[p].bound # None => identDisk' = {local[p].bound}
    BY <2>1, CallOf, IdentityStays DEF Knows
  <2> QED
    BY <2>1, <2>2, FreshOK
<1>2. local' = [local EXCEPT ![p] = l] /\ Unlock(p) /\ told' = told
  BY DEF Fail, Set
<1>3. minted' \in 0..MaxIdentities /\ told' \subseteq Document
  BY <1>2 DEF StoreInv
<1> HIDE DEF l
<1> QED
  BY <1>1, <1>2, <1>3, UnlockOfOne, StepOfOne

(* An answer that speaks of a journal. *)
LEMMA TellKeeps ==
  ASSUME StoreInv, NEW p \in Procs, NEW d \in Document, Tell(p, d), minted' = minted,
         FileStep(p, docLock, idLock, doc, docDisk, ident, identDisk,
                  doc', docDisk', ident', identDisk'),
         p \notin ExistingOnly => Durable(d, docDisk', identDisk')
  PROVE  StoreInv'
<1> DEFINE base == IF d.rows = <<>> THEN local[p].base ELSE d
           l == Fresh(base, d.id)
<1>1. /\ ControlOK(p, l) /\ LocksOK(p, l, docLock', idLock')
      /\ Knows(p, l, doc', docDisk', ident', identDisk')
  <2>1. base \in Document \cup {None} /\ d.id \in Identities \cup {None}
    BY CallOf DEF Local, Document
  <2>2. p \notin ExistingOnly /\ d.id # None => identDisk' = {d.id}
    BY DEF Durable
  <2> HIDE DEF base
  <2> QED
    BY <2>1, <2>2, FreshOK
<1>2. local' = [local EXCEPT ![p] = l] /\ Unlock(p) /\ told' = told \cup {d}
  BY DEF Tell, Set
<1>3. minted' \in 0..MaxIdentities /\ told' \subseteq Document
  BY <1>2 DEF StoreInv
<1>4. ExistingOnly = {} => \A t \in told' \ told : Durable(t, docDisk', identDisk')
  BY <1>2
<1> HIDE DEF l
<1> QED
  BY <1>1, <1>2, <1>3, <1>4, UnlockOfOne, StepOfOne

(* The call goes on with its identity, which a handle that may create one    *)
(* has synced before, and the document with it.                              *)
LEMMA HaveIdentityKeeps ==
  ASSUME StoreInv, NEW p \in Procs, NEW id \in Identities, HaveIdentity(p, id),
         local[p].pc \in Looking, minted' = minted, doc' = doc,
         FileStep(p, docLock, idLock, doc, docDisk, ident, identDisk,
                  doc', docDisk', ident', identDisk'),
         createIfMissing(p) => identDisk' = {id} /\ docDisk' = {doc}
  PROVE  StoreInv'
<1> DEFINE l == local[p]
<1>1. /\ ControlOK(p, l) /\ LocksOK(p, l, docLock, idLock)
      /\ Knows(p, l, doc, docDisk, ident, identDisk) /\ FilesOK(doc, docDisk, ident, identDisk)
      /\ l \in Local
  BY CallOf
<1>2. l.req \in Requests /\ l.req.kind \in {"commit", "page", "read", "identity"}
  BY <1>1, RequestShape DEF ControlOK, Looking
<1>3. CASE l.req.kind = "identity"
  <2> DEFINE d == [id |-> id, rows |-> <<>>]
  <2>1. d \in Document
    BY DEF Document
  <2>2. Tell(p, d)
    BY <1>3 DEF HaveIdentity
  <2>3. p \notin ExistingOnly => Durable(d, docDisk', identDisk')
    <3>1. Journal(doc) \in Seq(Row)
      BY <1>1, JournalRows DEF FilesOK
    <3> QED
      BY <1>3, <3>1, PrefixFacts DEF createIfMissing, Durable
  <2> HIDE DEF d
  <2> QED
    BY <2>1, <2>2, <2>3, TellKeeps
<1>4. CASE l.req.kind = "read"
  <2>1. l.view \in Document /\ IsPrefix(l.view.rows, Journal(doc))
    BY <1>1, <1>4 DEF ControlOK, Knows
  <2>2. CASE l.view.id = id
    <3>1. Tell(p, l.view)
      BY <1>4, <2>2 DEF HaveIdentity
    <3>2. p \notin ExistingOnly => Durable(l.view, docDisk', identDisk')
      BY <1>4, <2>1, <2>2 DEF createIfMissing, Durable
    <3> QED
      BY <2>1, <3>1, <3>2, TellKeeps
  <2>3. CASE l.view.id # id
    <3>1. Fail(p)
      BY <1>4, <2>3 DEF HaveIdentity
    <3> QED
      BY <3>1, FailKeeps
  <2> QED
    BY <2>2, <2>3
<1>5. CASE l.req.kind \in {"commit", "page"}
  <2> DEFINE k == [l EXCEPT !.pc = "decide", !.id = id]
  <2>1. /\ local' = [local EXCEPT ![p] = k]
        /\ idLock' = (IF idLock = p THEN None ELSE idLock)
        /\ docLock' = docLock /\ told' = told
    BY <1>5 DEF HaveIdentity, Set
  <2>2. k \in Local /\ k.pc = "decide" /\ k.id = id /\ k.req = l.req /\ k.bound = l.bound
    BY <1>1 DEF Local, Points
  <2>3. docLock = p
    BY <1>1, <1>5 DEF LocksOK
  <2>4. l.bound \in Identities \cup {None}
    BY <1>1 DEF Local
  <2>5. p \notin ExistingOnly /\ l.bound # None => identDisk' = {l.bound}
    BY <1>1, <2>4, IdentityStays DEF Knows
  <2> HIDE DEF k
  <2>6. ControlOK(p, k)
    BY <1>2, <1>5, <2>2 DEF ControlOK, Looking, Publishing
  <2>7. LocksOK(p, k, docLock', idLock')
    BY <2>1, <2>2, <2>3 DEF LocksOK
  <2>8. p \notin ExistingOnly /\ l.req.kind = "commit" => identDisk' = {id} /\ docDisk' = {doc'}
    BY DEF createIfMissing
  <2>9. Knows(p, k, doc', docDisk', ident', identDisk')
    BY <2>2, <2>5, <2>8 DEF Knows, Looking, Publishing
  <2>10. /\ minted' \in 0..MaxIdentities /\ told' \subseteq Document
         /\ docLock' \in Procs \cup {None} /\ idLock' \in Procs \cup {None}
         /\ \A q \in Procs \ {p} : (docLock = q => docLock' = q) /\ (idLock = q => idLock' = q)
    BY <2>1 DEF StoreInv
  <2> QED
    BY <2>1, <2>6, <2>7, <2>9, <2>10, StepOfOne
<1> QED
  BY <1>2, <1>3, <1>4, <1>5

-----------------------------------------------------------------------------
(* A step that leaves the files alone, and a sync. *)
LEMMA PlainFileSteps ==
  ASSUME NEW p, UNCHANGED files \/ SyncDirectory
  PROVE  /\ FileStep(p, docLock, idLock, doc, docDisk, ident, identDisk,
                     doc', docDisk', ident', identDisk')
         /\ doc' = doc
BY DEF FileStep, SyncDirectory, files

(* One call moves on without touching files, answers or others' locks. *)
LEMMA MoveKeeps ==
  ASSUME StoreInv, NEW p \in Procs, NEW l, local' = [local EXCEPT ![p] = l],
         UNCHANGED <<files, minted, told>>,
         docLock' \in Procs \cup {None}, idLock' \in Procs \cup {None},
         \A q \in Procs \ {p} : (docLock = q => docLock' = q) /\ (idLock = q => idLock' = q),
         ControlOK(p, l), LocksOK(p, l, docLock', idLock'),
         Knows(p, l, doc, docDisk, ident, identDisk)
  PROVE  StoreInv'
<1>1. FileStep(p, docLock, idLock, doc, docDisk, ident, identDisk,
               doc', docDisk', ident', identDisk')
  BY PlainFileSteps
<1>2. Knows(p, l, doc', docDisk', ident', identDisk')
  BY DEF files
<1>3. minted' \in 0..MaxIdentities /\ told' \subseteq Document /\ told' = told
  BY DEF StoreInv
<1> QED
  BY <1>1, <1>2, <1>3, StepOfOne

(* A new call knows only what its caller knew. *)
LEMMA CallKeeps ==
  ASSUME StoreInv, NEW p \in Procs, Call(p)
  PROVE  StoreInv'
<1> PICK r \in Requests :
      Set(p, [local[p] EXCEPT !.req = r,
                              !.pc = CASE r.kind = "read" -> "raw"
                                       [] r.kind = "identity" -> "ident"
                                       [] OTHER -> "lock"])
  BY DEF Call
<1> DEFINE point == CASE r.kind = "read" -> "raw"
                      [] r.kind = "identity" -> "ident"
                      [] OTHER -> "lock"
           l == [local[p] EXCEPT !.req = r, !.pc = point]
<1>1. r.kind \in {"commit", "page", "read", "identity"}
  BY RequestShape
<1>2. \/ r.kind = "read" /\ point = "raw"
      \/ r.kind = "identity" /\ point = "ident"
      \/ r.kind \in {"commit", "page"} /\ point = "lock"
  BY <1>1
<1>3. local' = [local EXCEPT ![p] = l] /\ UNCHANGED <<files, minted, locks, told>>
  BY DEF Call, Set
<1> HIDE DEF point
<1>4. /\ local[p] \in Local
      /\ p \notin ExistingOnly /\ local[p].bound # None => identDisk = {local[p].bound}
  BY CallOf DEF Knows
<1>5. l \in Local /\ l.pc = point /\ l.req = r /\ l.bound = local[p].bound
  BY <1>2, <1>4 DEF Local, Points
<1> HIDE DEF l
<1>6. ControlOK(p, l) /\ LocksOK(p, l, docLock', idLock')
  BY <1>2, <1>5 DEF ControlOK, LocksOK, Looking, Publishing
<1>7. Knows(p, l, doc, docDisk, ident, identDisk)
  BY <1>2, <1>4, <1>5 DEF Knows, Looking, Publishing
<1>8. docLock' = docLock /\ idLock' = idLock
  BY <1>3 DEF locks
<1>9. docLock' \in Procs \cup {None} /\ idLock' \in Procs \cup {None}
  BY <1>8 DEF StoreInv
<1> QED
  BY <1>3, <1>6, <1>7, <1>8, <1>9, MoveKeeps

(* A lock is taken only when it is free. *)
LEMMA TakeLockKeeps ==
  ASSUME StoreInv, NEW p \in Procs, TakeLock(p)
  PROVE  StoreInv'
<1>1. /\ ControlOK(p, local[p]) /\ LocksOK(p, local[p], docLock, idLock)
      /\ Knows(p, local[p], doc, docDisk, ident, identDisk) /\ local[p] \in Local
  BY CallOf
<1>2. docLock \in Procs \cup {None} /\ idLock \in Procs \cup {None}
  BY DEF StoreInv
<1>3. CASE At(p, "lock")
  <2> DEFINE l == [local[p] EXCEPT !.pc = "ident"]
  <2>1. /\ local' = [local EXCEPT ![p] = l] /\ UNCHANGED <<files, minted, told>>
        /\ docLock = None /\ docLock' = p /\ idLock' = idLock
    BY <1>3 DEF TakeLock, At, Go
  <2>2. /\ l \in Local /\ l.pc = "ident" /\ l.req = local[p].req /\ l.bound = local[p].bound
        /\ l.req \in Requests /\ l.req.kind \in {"commit", "page"}
    BY <1>1, <1>3 DEF Local, Points, At, ControlOK
  <2> HIDE DEF l
  <2>3. ControlOK(p, l) /\ LocksOK(p, l, docLock', idLock')
    BY <2>1, <2>2 DEF ControlOK, LocksOK, Looking, Publishing
  <2>4. Knows(p, l, doc, docDisk, ident, identDisk)
    BY <1>1, <2>2 DEF Knows, Looking, Publishing
  <2> QED
    BY <1>2, <2>1, <2>3, <2>4, NoneAssumption, MoveKeeps
<1>4. CASE At(p, "identLock")
  <2> DEFINE l == [local[p] EXCEPT !.pc = "identRead"]
  <2>1. /\ local' = [local EXCEPT ![p] = l] /\ UNCHANGED <<files, minted, told>>
        /\ idLock = None /\ idLock' = p /\ docLock' = docLock
    BY <1>4 DEF TakeLock, At, Go
  <2>2. /\ l \in Local /\ l.pc = "identRead" /\ l.req = local[p].req /\ l.bound = local[p].bound
        /\ l.view = local[p].view /\ l.id = local[p].id
    BY <1>1, <1>4 DEF Local, Points, At, ControlOK
  <2> HIDE DEF l
  <2>3. ControlOK(p, l) /\ LocksOK(p, l, docLock', idLock')
    BY <1>1, <1>4, <2>1, <2>2 DEF ControlOK, LocksOK, Looking, Publishing, At
  <2>4. Knows(p, l, doc, docDisk, ident, identDisk)
    BY <1>1, <1>4, <2>2 DEF Knows, Looking, Publishing, At
  <2> QED
    BY <1>2, <2>1, <2>3, <2>4, NoneAssumption, MoveKeeps
<1> QED
  BY <1>3, <1>4 DEF TakeLock

(* A reader's view starts as the present document. *)
LEMMA ReadRawKeeps ==
  ASSUME StoreInv, NEW p \in Procs, ReadRaw(p)
  PROVE  StoreInv'
<1>1. /\ ControlOK(p, local[p])
      /\ Knows(p, local[p], doc, docDisk, ident, identDisk) /\ local[p] \in Local
      /\ FilesOK(doc, docDisk, ident, identDisk)
  BY CallOf
<1>2. /\ docLock' = docLock /\ idLock' = idLock /\ UNCHANGED <<files, minted, told>>
      /\ local[p].pc = "raw"
  BY DEF ReadRaw, locks, At
<1>3. docLock \in Procs \cup {None} /\ idLock \in Procs \cup {None}
  BY DEF StoreInv
<1>4. CASE doc = None
  <2> DEFINE l == Fresh(None, local[p].bound)
  <2>1. local' = [local EXCEPT ![p] = l]
    BY <1>4 DEF ReadRaw, Set
  <2>2. local[p].bound \in Identities \cup {None}
    BY <1>1 DEF Local
  <2>3. p \notin ExistingOnly /\ local[p].bound # None => identDisk = {local[p].bound}
    BY <1>1 DEF Knows
  <2>4. /\ ControlOK(p, l) /\ LocksOK(p, l, docLock', idLock')
        /\ Knows(p, l, doc, docDisk, ident, identDisk)
    BY <2>2, <2>3, FreshOK
  <2> HIDE DEF l
  <2> QED
    BY <1>2, <1>3, <2>1, <2>4, MoveKeeps
<1>5. CASE doc # None
  <2> DEFINE l == [local[p] EXCEPT !.pc = "ident", !.view = doc]
  <2>1. local' = [local EXCEPT ![p] = l]
    BY <1>5 DEF ReadRaw, Set
  <2>2. doc \in Document /\ Journal(doc) = doc.rows /\ IsPrefix(doc.rows, Journal(doc))
    <3>1. doc \in Document
      BY <1>1, <1>5 DEF FilesOK
    <3>2. Journal(doc) = doc.rows /\ Journal(doc) \in Seq(Row)
      BY <1>5, <3>1, JournalRows
    <3> QED
      BY <3>1, <3>2, PrefixFacts
  <2>3. l \in Local /\ l.pc = "ident" /\ l.view = doc /\ l.req = local[p].req /\ l.bound = local[p].bound
    BY <1>1, <2>2 DEF Local, Points
  <2> HIDE DEF l
  <2>4. ControlOK(p, l) /\ LocksOK(p, l, docLock', idLock')
    BY <1>1, <1>2, <2>2, <2>3 DEF ControlOK, LocksOK, Looking, Publishing
  <2>5. Knows(p, l, doc, docDisk, ident, identDisk)
    BY <1>1, <2>2, <2>3 DEF Knows, Looking, Publishing
  <2> QED
    BY <1>2, <1>3, <2>1, <2>4, <2>5, MoveKeeps
<1> QED
  BY <1>4, <1>5

(* An identity found in the file is the one that is synced or used next. *)
LEMMA ReadIdentityKeeps ==
  ASSUME StoreInv, NEW p \in Procs, ReadIdentity(p)
  PROVE  StoreInv'
<1>1. /\ ControlOK(p, local[p]) /\ LocksOK(p, local[p], docLock, idLock)
      /\ Knows(p, local[p], doc, docDisk, ident, identDisk) /\ local[p] \in Local
      /\ FilesOK(doc, docDisk, ident, identDisk)
  BY CallOf
<1>2. /\ local[p].pc \in {"ident", "identRead"} /\ local[p].req \in Requests
      /\ UNCHANGED files /\ minted' = minted
  BY <1>1 DEF ReadIdentity, At, ControlOK
<1>3. /\ FileStep(p, docLock, idLock, doc, docDisk, ident, identDisk,
                  doc', docDisk', ident', identDisk')
      /\ doc' = doc
  BY <1>2, PlainFileSteps
<1>4. docLock \in Procs \cup {None} /\ idLock \in Procs \cup {None}
  BY DEF StoreInv
<1>5. CASE ident # None /\ createIfMissing(p)
  <2> DEFINE l == [local[p] EXCEPT !.pc = "identSync", !.id = ident]
  <2>1. /\ local' = [local EXCEPT ![p] = l] /\ UNCHANGED <<files, minted, told>>
        /\ docLock' = docLock /\ idLock' = idLock
    BY <1>5 DEF ReadIdentity, Set, locks
  <2>2. ident \in Identities
    BY <1>1, <1>5 DEF FilesOK
  <2>3. /\ l \in Local /\ l.pc = "identSync" /\ l.id = ident /\ l.req = local[p].req
        /\ l.bound = local[p].bound /\ l.view = local[p].view
    BY <1>1, <2>2 DEF Local, Points
  <2> HIDE DEF l
  <2>4. ControlOK(p, l) /\ LocksOK(p, l, docLock', idLock')
    BY <1>1, <1>2, <1>5, <2>1, <2>2, <2>3
    DEF ControlOK, LocksOK, Looking, Publishing, createIfMissing
  <2>5. Knows(p, l, doc, docDisk, ident, identDisk)
    BY <1>1, <1>2, <2>3 DEF Knows, Looking, Publishing
  <2> QED
    BY <1>4, <2>1, <2>4, <2>5, MoveKeeps
<1>6. CASE ident # None /\ ~createIfMissing(p)
  <2>1. HaveIdentity(p, ident)
    BY <1>6 DEF ReadIdentity
  <2>2. ident \in Identities /\ local[p].pc \in Looking
    BY <1>1, <1>2, <1>6 DEF FilesOK, Looking
  <2> QED
    BY <1>2, <1>3, <1>6, <2>1, <2>2, HaveIdentityKeeps
<1>7. CASE ident = None /\ ~createIfMissing(p)
  <2>1. Fail(p)
    BY <1>7 DEF ReadIdentity
  <2> QED
    BY <1>2, <1>3, <2>1, FailKeeps
<1>8. CASE ident = None /\ createIfMissing(p)
  <2> DEFINE point == IF At(p, "ident") THEN "identLock" ELSE "identNew"
             l == [local[p] EXCEPT !.pc = point]
  <2>1. /\ local' = [local EXCEPT ![p] = l] /\ UNCHANGED <<files, minted, told>>
        /\ docLock' = docLock /\ idLock' = idLock
    BY <1>8 DEF ReadIdentity, Go, locks
  <2>2. \/ local[p].pc = "ident" /\ point = "identLock"
        \/ local[p].pc = "identRead" /\ point = "identNew"
    BY <1>2 DEF At
  <2> HIDE DEF point
  <2>3. /\ l \in Local /\ l.pc = point /\ l.req = local[p].req
        /\ l.bound = local[p].bound /\ l.view = local[p].view
    BY <1>1, <2>2 DEF Local, Points
  <2> HIDE DEF l
  <2>4. ControlOK(p, l) /\ LocksOK(p, l, docLock', idLock')
    BY <1>1, <1>2, <1>8, <2>1, <2>2, <2>3
    DEF ControlOK, LocksOK, Looking, Publishing, createIfMissing
  <2>5. Knows(p, l, doc, docDisk, ident, identDisk)
    BY <1>1, <1>8, <2>2, <2>3 DEF Knows, Looking, Publishing
  <2> QED
    BY <1>4, <2>1, <2>4, <2>5, MoveKeeps
<1> QED
  BY <1>5, <1>6, <1>7, <1>8

(* The first identity is written under its lock, where there was none. *)
LEMMA NewIdentityKeeps ==
  ASSUME StoreInv, NEW p \in Procs, NewIdentity(p)
  PROVE  StoreInv'
<1> DEFINE l == [local[p] EXCEPT !.pc = "identSync", !.id = minted + 1]
<1>1. /\ ControlOK(p, local[p]) /\ LocksOK(p, local[p], docLock, idLock)
      /\ Knows(p, local[p], doc, docDisk, ident, identDisk) /\ local[p] \in Local
      /\ FilesOK(doc, docDisk, ident, identDisk)
  BY CallOf
<1>2. /\ local[p].pc = "identNew" /\ local' = [local EXCEPT ![p] = l]
      /\ ident' = minted + 1 /\ identDisk' = identDisk \cup {ident'} /\ minted' = minted + 1
      /\ UNCHANGED <<doc, docDisk, docLock, idLock, told>>
  BY DEF NewIdentity, At, Set, locks
<1>3. minted + 1 \in Identities /\ minted' \in 0..MaxIdentities
  BY IdentitiesAssumption DEF NewIdentity, StoreInv, Identities
<1>4. idLock = p /\ ident = None
  BY <1>1, <1>2 DEF LocksOK, Knows
<1>5. FileStep(p, docLock, idLock, doc, docDisk, ident, identDisk,
               doc', docDisk', ident', identDisk')
  BY <1>2, <1>3, <1>4 DEF FileStep
<1>6. /\ l \in Local /\ l.pc = "identSync" /\ l.id = ident' /\ l.req = local[p].req
      /\ l.bound = local[p].bound /\ l.view = local[p].view
  BY <1>1, <1>2, <1>3 DEF Local, Points
<1> HIDE DEF l
<1>7. ControlOK(p, l) /\ LocksOK(p, l, docLock', idLock')
  BY <1>1, <1>2, <1>3, <1>6 DEF ControlOK, LocksOK, Looking, Publishing
<1>8. p \notin ExistingOnly /\ l.bound # None => identDisk' = {l.bound}
  <2>1. l.bound \in Identities \cup {None}
    BY <1>6 DEF Local
  <2> QED
    BY <1>1, <1>5, <1>6, <2>1, IdentityStays DEF Knows
<1>9. Knows(p, l, doc', docDisk', ident', identDisk')
  BY <1>1, <1>2, <1>6, <1>8 DEF Knows, Looking, Publishing
<1>10. docLock' \in Procs \cup {None} /\ idLock' \in Procs \cup {None} /\ told' \subseteq Document
  BY <1>2 DEF StoreInv
<1> QED
  BY <1>2, <1>3, <1>5, <1>7, <1>9, <1>10, StepOfOne

(* After the sync the identity, and the document beside it, are durable. *)
LEMMA SyncIdentityKeeps ==
  ASSUME StoreInv, NEW p \in Procs, SyncIdentity(p)
  PROVE  StoreInv'
<1>1. /\ local[p].pc = "identSync" /\ SyncDirectory /\ HaveIdentity(p, local[p].id)
      /\ minted' = minted
  BY DEF SyncIdentity, At
<1>2. local[p].id \in Identities /\ ident = local[p].id /\ local[p].pc \in Looking
  BY <1>1, CallOf DEF ControlOK, Knows, Looking
<1>3. identDisk' = {local[p].id} /\ docDisk' = {doc}
  BY <1>1, <1>2 DEF SyncDirectory
<1> QED
  BY <1>1, <1>2, <1>3, PlainFileSteps, HaveIdentityKeeps

(* Under the lock: a replay answers from a document its handle has synced;   *)
(* a new transaction is bound to an identity that is durable, because the    *)
(* handle synced it, because the document already has it, or because the     *)
(* archive's caller was told of it.                                          *)
LEMMA DecideKeeps ==
  ASSUME StoreInv, NEW p \in Procs, Decide(p)
  PROVE  StoreInv'
<1> DEFINE l == local[p]
           rows == Journal(doc)
<1>1. /\ ControlOK(p, l) /\ LocksOK(p, l, docLock, idLock)
      /\ Knows(p, l, doc, docDisk, ident, identDisk) /\ l \in Local
      /\ FilesOK(doc, docDisk, ident, identDisk)
  BY CallOf
<1>2. /\ l.pc = "decide" /\ l.req \in Requests /\ l.req.kind \in {"commit", "page"}
      /\ l.id \in Identities /\ docLock = p /\ l.req.rows \in Seq(Row)
      /\ UNCHANGED files /\ minted' = minted
  BY <1>1, RequestShape DEF Decide, At, ControlOK, LocksOK
<1>3. FileStep(p, docLock, idLock, doc, docDisk, ident, identDisk,
               doc', docDisk', ident', identDisk')
  BY <1>2, PlainFileSteps
<1>4. rows \in Seq(Row)
  BY <1>1, JournalRows DEF FilesOK
<1>5. CASE Fail(p)
  BY <1>2, <1>3, <1>5, FailKeeps
<1>6. ASSUME Replays(p), NEW i \in Existing(p),
             Tell(p, [id |-> l.id, rows |-> SubSeq(rows, 1, i)])
      PROVE  StoreInv'
  <2> DEFINE d == [id |-> l.id, rows |-> SubSeq(rows, 1, i)]
  <2>1. i \in DOMAIN rows
    BY <1>6 DEF Existing
  <2>2. SubSeq(rows, 1, i) \in Seq(Row) /\ IsPrefix(SubSeq(rows, 1, i), rows)
    BY <1>4, <2>1, PrefixFacts
  <2>3. d \in Document
    BY <1>2, <2>2 DEF Document
  <2>4. p \notin ExistingOnly => identDisk' = {l.id} /\ docDisk' = {doc}
    BY <1>1, <1>2, <1>6 DEF Knows, Replays, files
  <2>5. p \notin ExistingOnly => Durable(d, docDisk', identDisk')
    BY <2>2, <2>4 DEF Durable
  <2>6. Tell(p, d)
    BY <1>6
  <2> HIDE DEF d
  <2> QED
    BY <1>2, <1>3, <2>3, <2>5, <2>6, TellKeeps
<1>7. CASE /\ ~ReadFails(p)
           /\ Set(p, [l EXCEPT !.pc = "rename", !.view = [id |-> l.id, rows |-> rows \o l.req.rows]])
           /\ UNCHANGED <<locks, told>>
  <2> DEFINE d == [id |-> l.id, rows |-> rows \o l.req.rows]
             k == [l EXCEPT !.pc = "rename", !.view = d]
  <2>1. rows \o l.req.rows \in Seq(Row) /\ IsPrefix(rows, rows \o l.req.rows)
    BY <1>2, <1>4, PrefixFacts
  <2>2. d \in Document /\ d.id = l.id /\ d.rows = rows \o l.req.rows
    BY <1>2, <2>1 DEF Document
  <2>3. identDisk = {l.id}
    <3>1. CASE doc # None
      BY <1>1, <1>7, <3>1 DEF FilesOK, ReadFails
    <3>2. CASE doc = None /\ l.req.kind = "commit"
      BY <1>1, <1>2, <1>7, <3>2 DEF ReadFails, Knows
    <3>3. CASE doc = None /\ l.req.kind = "page"
      <4>1. p \notin ExistingOnly /\ l.bound = l.id
        BY <1>7, <3>3 DEF ReadFails
      <4> QED
        BY <1>1, <1>2, <4>1, NoneAssumption DEF Knows
    <3> QED
      BY <1>2, <3>1, <3>2, <3>3
  <2>4. /\ local' = [local EXCEPT ![p] = k] /\ UNCHANGED <<files, minted, told>>
        /\ docLock' = docLock /\ idLock' = idLock
    BY <1>2, <1>7 DEF Set, locks
  <2> HIDE DEF d
  <2>5. /\ k \in Local /\ k.pc = "rename" /\ k.view = d /\ k.id = l.id /\ k.req = l.req
        /\ k.bound = l.bound
    BY <1>1, <2>2 DEF Local, Points
  <2> HIDE DEF k
  <2>6. ControlOK(p, k) /\ LocksOK(p, k, docLock', idLock')
    BY <1>2, <2>2, <2>4, <2>5 DEF ControlOK, LocksOK, Looking, Publishing
  <2>7. Knows(p, k, doc, docDisk, ident, identDisk)
    BY <1>1, <2>1, <2>2, <2>3, <2>5 DEF Knows, Looking, Publishing
  <2>8. docLock' \in Procs \cup {None} /\ idLock' \in Procs \cup {None}
    BY <2>4 DEF StoreInv
  <2> QED
    BY <2>4, <2>6, <2>7, <2>8, MoveKeeps
<1> QED
  BY <1>5, <1>6, <1>7 DEF Decide

(* A published document extends the present one under its identity. *)
LEMMA RenameKeeps ==
  ASSUME StoreInv, NEW p \in Procs, Rename(p)
  PROVE  StoreInv'
<1> DEFINE l == [local[p] EXCEPT !.pc = "sync"]
<1>1. /\ ControlOK(p, local[p]) /\ LocksOK(p, local[p], docLock, idLock)
      /\ Knows(p, local[p], doc, docDisk, ident, identDisk) /\ local[p] \in Local
  BY CallOf
<1>2. /\ local[p].pc = "rename" /\ local' = [local EXCEPT ![p] = l]
      /\ doc' = local[p].view /\ docDisk' = docDisk \cup {doc'}
      /\ UNCHANGED <<ident, identDisk, minted, docLock, idLock, told>>
  BY DEF Rename, At, Go, locks
<1>3. /\ local[p].view \in Document /\ docLock = p /\ identDisk = {local[p].view.id}
      /\ IsPrefix(Journal(doc), local[p].view.rows)
  BY <1>1, <1>2 DEF ControlOK, LocksOK, Knows, Publishing
<1>4. Journal(local[p].view) = local[p].view.rows
  BY <1>3, NoneAssumption, JournalRows
<1>5. FileStep(p, docLock, idLock, doc, docDisk, ident, identDisk,
               doc', docDisk', ident', identDisk')
  BY <1>2, <1>3, <1>4 DEF FileStep
<1>6. /\ l \in Local /\ l.pc = "sync" /\ l.req = local[p].req /\ l.id = local[p].id
      /\ l.bound = local[p].bound /\ l.view = local[p].view
  BY <1>1 DEF Local, Points
<1> HIDE DEF l
<1>7. ControlOK(p, l) /\ LocksOK(p, l, docLock', idLock')
  BY <1>1, <1>2, <1>6 DEF ControlOK, LocksOK, Looking, Publishing
<1>8. Knows(p, l, doc', docDisk', ident', identDisk')
  BY <1>1, <1>2, <1>3, <1>6 DEF Knows, Looking, Publishing
<1>9. /\ docLock' \in Procs \cup {None} /\ idLock' \in Procs \cup {None}
      /\ told' \subseteq Document /\ minted' \in 0..MaxIdentities
  BY <1>2 DEF StoreInv
<1> QED
  BY <1>2, <1>5, <1>7, <1>8, <1>9, StepOfOne

(* After the sync the published journal may be answered. *)
LEMMA SyncDocumentKeeps ==
  ASSUME StoreInv, NEW p \in Procs, SyncDocument(p)
  PROVE  StoreInv'
<1>1. /\ local[p].pc = "sync" /\ SyncDirectory /\ Tell(p, local[p].view) /\ minted' = minted
  BY DEF SyncDocument, At
<1>2. local[p].view \in Document /\ doc = local[p].view /\ identDisk = {local[p].view.id}
  BY <1>1, CallOf DEF ControlOK, Knows, Publishing
<1>3. ident = local[p].view.id
  BY <1>2, CallOf DEF FilesOK
<1>4. Journal(doc) = local[p].view.rows /\ Journal(doc) \in Seq(Row)
  BY <1>2, NoneAssumption, JournalRows
<1>5. Durable(local[p].view, docDisk', identDisk')
  BY <1>1, <1>3, <1>4, PrefixFacts DEF SyncDirectory, Durable
<1> QED
  BY <1>1, <1>2, <1>5, PlainFileSteps, TellKeeps

(* A dead process leaves the files as they are. *)
LEMMA CrashKeeps ==
  ASSUME StoreInv, NEW p \in Procs, Crash(p)
  PROVE  StoreInv'
<1> DEFINE l == Fresh(None, None)
<1>1. local' = [local EXCEPT ![p] = l] /\ Unlock(p) /\ UNCHANGED <<files, minted, told>>
  BY DEF Crash, Set
<1>2. /\ ControlOK(p, l) /\ LocksOK(p, l, docLock', idLock')
      /\ Knows(p, l, doc, docDisk, ident, identDisk)
  BY FreshOK
<1> HIDE DEF l
<1> QED
  BY <1>1, <1>2, UnlockOfOne, MoveKeeps

(* A power loss leaves one document and one identity that belong together. *)
LEMMA PowerLossKeeps ==
  ASSUME StoreInv, PowerLoss
  PROVE  StoreInv'
<1>1. /\ doc' \in docDisk /\ docDisk' = {doc'} /\ ident' \in identDisk /\ identDisk' = {ident'}
      /\ local' = [p \in Procs |-> Fresh(None, None)]
      /\ docLock' = None /\ idLock' = None /\ minted' = minted /\ told' = told
  BY DEF PowerLoss
<1>2. FilesOK(doc, docDisk, ident, identDisk)
  BY DEF StoreInv
<1>3. FilesOK(doc', docDisk', ident', identDisk')
  BY <1>1, <1>2 DEF FilesOK
<1>4. ExistingOnly = {} => \A t \in told' : Durable(t, docDisk', identDisk')
  BY <1>1 DEF StoreInv, Durable
<1>5. ASSUME NEW p \in Procs
      PROVE  /\ local'[p] \in Local
             /\ ControlOK(p, local'[p])
             /\ LocksOK(p, local'[p], docLock', idLock')
             /\ Knows(p, local'[p], doc', docDisk', ident', identDisk')
  <2> DEFINE l == Fresh(None, None)
  <2>1. local'[p] = l
    BY <1>1
  <2>2. /\ ControlOK(p, l) /\ LocksOK(p, l, docLock', idLock')
        /\ Knows(p, l, doc', docDisk', ident', identDisk')
    BY FreshOK
  <2> HIDE DEF l
  <2> QED
    BY <2>1, <2>2 DEF ControlOK
<1>6. local' \in [Procs -> Local]
  BY <1>1, <1>5
<1> QED
  BY <1>1, <1>3, <1>4, <1>5, <1>6 DEF StoreInv

(* Every step keeps the invariant. *)
LEMMA NextKeepsStore ==
  ASSUME StoreInv, [Next]_vars
  PROVE  StoreInv'
<1>1. CASE UNCHANGED vars
  BY <1>1 DEF vars, files, locks, StoreInv
<1>2. ASSUME NEW p \in Procs, LockTimeout(p) \/ IoError(p) PROVE StoreInv'
  <2>1. Fail(p) /\ UNCHANGED files /\ minted' = minted
    BY <1>2 DEF LockTimeout, IoError
  <2> QED
    BY <2>1, PlainFileSteps, FailKeeps
<1>3. CASE PowerLoss
  BY <1>3, PowerLossKeeps
<1> QED
  BY <1>1, <1>2, <1>3, CallKeeps, TakeLockKeeps, ReadRawKeeps, ReadIdentityKeeps,
     NewIdentityKeeps, SyncIdentityKeeps, DecideKeeps, RenameKeeps, SyncDocumentKeeps, CrashKeeps
  DEF Next

(* It holds of an empty directory. *)
LEMMA InitStore == Init => StoreInv
<1> SUFFICES ASSUME Init PROVE StoreInv
  OBVIOUS
<1>1. FilesOK(doc, docDisk, ident, identDisk)
  BY DEF Init, FilesOK
<1>2. ASSUME NEW p \in Procs
      PROVE  /\ local[p] \in Local
             /\ ControlOK(p, local[p]) /\ LocksOK(p, local[p], docLock, idLock)
             /\ Knows(p, local[p], doc, docDisk, ident, identDisk)
  <2> DEFINE l == Fresh(None, None)
  <2>1. local[p] = l
    BY DEF Init
  <2>2. /\ ControlOK(p, l) /\ LocksOK(p, l, docLock, idLock)
        /\ Knows(p, l, doc, docDisk, ident, identDisk)
    BY FreshOK
  <2> HIDE DEF l
  <2> QED
    BY <2>1, <2>2 DEF ControlOK
<1>3. local \in [Procs -> Local]
  BY <1>2 DEF Init
<1> QED
  BY <1>1, <1>2, <1>3, IdentitiesAssumption DEF Init, StoreInv

-----------------------------------------------------------------------------
(* Every call keeps its types, holds the document lock from its acquisition  *)
(* to the answer and writes the identity file only under its lock.           *)
THEOREM StoreTypeCorrect == Spec => []TypeOK
<1>1. Spec => []StoreInv
  BY InitStore, NextKeepsStore, PTL DEF Spec
<1>2. StoreInv => TypeOK
  <2> SUFFICES ASSUME StoreInv PROVE TypeOK
    OBVIOUS
  <2>1. ASSUME NEW p \in Procs
        PROVE  /\ local[p].pc \in {"decide", "rename", "sync"} => docLock = p
               /\ local[p].pc \in {"identRead", "identNew"} => idLock = p
    BY CallOf DEF ControlOK, LocksOK, Publishing
  <2> QED
    BY <2>1 DEF StoreInv, FilesOK, TypeOK
<1> QED
  BY <1>1, <1>2, PTL

(* Whatever a power loss leaves, a document never outlives its store         *)
(* identity: for every mix of handles, also existing-only ones and archive   *)
(* restores, no document is bound to an identity that can still disappear.   *)
THEOREM LineageIsStable == Spec => []StableLineage
<1>1. Spec => []StoreInv
  BY InitStore, NextKeepsStore, PTL DEF Spec
<1>2. StoreInv => StableLineage
  BY DEF StoreInv, FilesOK, StableLineage
<1> QED
  BY <1>1, <1>2, PTL

(* Without existing-only handles, every journal that an answer spoke of is   *)
(* durable: commits, replays, loaded heads and receipts.                     *)
THEOREM AnswersAreDurable ==
  ASSUME ExistingOnly = {}
  PROVE  Spec => []DurableReadback
<1>1. Spec => []StoreInv
  BY InitStore, NextKeepsStore, PTL DEF Spec
<1>2. StoreInv => DurableReadback
  BY DEF StoreInv, Durable, DurableReadback
<1> QED
  BY <1>1, <1>2, PTL

(* Without existing-only handles, a store identity that was answered is      *)
(* never lost or replaced.                                                   *)
THEOREM AnsweredIdentityStays ==
  ASSUME ExistingOnly = {}
  PROVE  Spec => []DurableIdentity
<1>1. Spec => []StoreInv
  BY InitStore, NextKeepsStore, PTL DEF Spec
<1>2. StoreInv => DurableIdentity
  BY DEF StoreInv, Durable, DurableIdentity
<1> QED
  BY <1>1, <1>2, PTL
=============================================================================
