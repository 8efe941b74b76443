--------------------------- MODULE AuthorityStore ---------------------------
(* What every authority store promises LoopX (the guarantees listed in       *)
(* authority_store.ts): one goal's journal of committed transactions, which  *)
(* only grows by transactions whose operation ids are new, except that a     *)
(* power loss may take back what is not durable yet - and nobody was told    *)
(* of anything that is not durable.                                          *)
EXTENDS Integers, SequencesExt

CONSTANTS
  Operations,  \* operation ids
  Bodies       \* events, receipts and projection of one transaction

VARIABLES
  journal,   \* the committed transactions a reader finds
  durable,   \* how many of them outlive a power loss
  answered   \* the journals that answers to callers spoke of

storeVars == <<journal, durable, answered>>

Row == [op : Operations, body : Bodies]

(* No operation id is in a journal twice. *)
UniqueOperations(rows) ==
  \A i, j \in DOMAIN rows : rows[i].op = rows[j].op => i = j

(* The first n rows of a journal. *)
Upto(rows, n) == SubSeq(rows, 1, n)

StoreInit ==
  /\ journal = <<>>
  /\ durable = 0
  /\ answered = {}

(* One transaction, or one bounded page of them, is published at once. *)
Publish ==
  /\ journal' \in Seq(Row)
  /\ Len(journal') > Len(journal)
  /\ IsPrefix(journal, journal')
  /\ UniqueOperations(journal')
  /\ durable' = durable
  /\ answered' = answered

(* The sync after which a committer or a reader may be answered. *)
MakeDurable ==
  /\ durable' \in durable..Len(journal)
  /\ \E n \in 0..durable' : answered' \in {answered, answered \cup {Upto(journal, n)}}
  /\ journal' = journal

(* A caller is told of some journal: committed, replayed or read. *)
Answer ==
  /\ \E n \in 0..durable : answered' = answered \cup {Upto(journal, n)}
  /\ UNCHANGED <<journal, durable>>

(* A power loss. *)
Lose ==
  /\ \E n \in durable..Len(journal) : journal' = Upto(journal, n)
  /\ durable' = Len(journal')
  /\ answered' = answered

StoreNext == Publish \/ MakeDurable \/ Answer \/ Lose

StoreSpec == StoreInit /\ [][StoreNext]_storeVars
=============================================================================
