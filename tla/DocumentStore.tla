--------------------------- MODULE DocumentStore ---------------------------
(***************************************************************************)
(* What the managers are promised by a store of sessions or simulations:   *)
(* one document per id, a compare-and-swap on its revision, and a document *)
(* that is kept for its retention after the last write and is gone for     *)
(* good once it is gone.                                                   *)
(*                                                                         *)
(* The in-memory stores are this specification as it stands: each of their *)
(* operations is one section under the lock of one map.  RedisStores       *)
(* implements it with several keys per document.                           *)
(***************************************************************************)
EXTENDS Naturals

CONSTANTS Ids,        \* the ids of sessions and simulations, each drawn once
          Keep,       \* Keep[d]: how long a document is kept, in ticks
          Early,      \* Early[d]: how much earlier it may be given up
          Absent      \* no document

VARIABLES clock,    \* the store's clock
          docs,     \* docs[d]: the document of d, or Absent
          created,  \* the ids that have been created
          deleted   \* the ids that a request has deleted

storeVars == <<clock, docs, created, deleted>>

\* A document is its revision and the end of its retention.
Written(d, version) == [version |-> version, until |-> clock + Keep[d]]

StoreInit ==
    /\ clock = 0
    /\ docs = [d \in Ids |-> Absent]
    /\ created = {}
    /\ deleted = {}

Create(d) ==
    /\ d \notin created
    /\ docs' = [docs EXCEPT ![d] = Written(d, 0)]
    /\ created' = created \cup {d}
    /\ UNCHANGED <<clock, deleted>>

\* save_cas with a revision that was read before: if it is still the stored
\* one, the next one is written.  A refusal leaves the store as it is.
SaveCas(d, expected) ==
    /\ docs[d] # Absent
    /\ docs[d].version = expected
    /\ docs' = [docs EXCEPT ![d] = Written(d, expected + 1)]
    /\ UNCHANGED <<clock, created, deleted>>

Delete(d) ==
    /\ d \in created
    /\ docs' = [docs EXCEPT ![d] = Absent]
    /\ deleted' = deleted \cup {d}
    /\ UNCHANGED <<clock, created>>

Over(d, t) == docs[d] # Absent /\ t + Early[d] >= docs[d].until

\* Time passes, or documents past their retention go away, or both.
Elapse ==
    /\ clock' \in {clock, clock + 1}
    /\ \E gone \in SUBSET {d \in Ids : Over(d, clock')} :
          docs' = [d \in Ids |-> IF d \in gone THEN Absent ELSE docs[d]]
    /\ UNCHANGED <<created, deleted>>

StoreNext ==
    \/ \E d \in Ids :
          \/ Create(d)
          \/ docs[d] # Absent /\ SaveCas(d, docs[d].version)
          \/ Delete(d)
    \/ Elapse

StoreSpec == StoreInit /\ [][StoreNext]_storeVars
=============================================================================
