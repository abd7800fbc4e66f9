--------------------------- MODULE LessonsProofs ---------------------------
(***************************************************************************)
(* For any runs, organizations, operators, wordings and thresholds: the    *)
(* variables of Lessons keep their types; what is in GLOBAL was mined in   *)
(* MinOrgs organizations; ingestions into a shared collection lose no      *)
(* merge; and, with one operator, a forgotten organization stays out of    *)
(* the candidates.                                                         *)
(***************************************************************************)
EXTENDS Lessons, FiniteSetTheorems, TLAPS

USE DEF storeVars, handVars, historyVars, Goto, Done

(***************************************************************************)
(* Types.                                                                  *)
(***************************************************************************)

(* Where runs and operators stand, and who holds what there.                *)
RunSteps == {"idle", "find", "upsert", "delete", "evict", "evicting", "annotate"}
OperatorSteps == Steps \ {"evict", "evicting", "annotate"}
Holding == {"delete", "evict", "evicting", "annotate", "publish", "approved", "rejecting"}
AtAnOrg == {"scanning", "find", "upsert", "delete", "drop", "withdraw", "withdrawing"}

StepInv ==
    /\ \A r \in Runs : pc[r] \in RunSteps /\ (pc[r] = "annotate" => scoped)
    /\ \A p \in Operators :
            /\ pc[p] \in OperatorSteps
            /\ pc[p] # "idle" => scoped
            /\ pc[p] \in AtAnOrg => org[p] \in Orgs

HandInv == \A p \in Procs :
    /\ pc[p] \in {"find", "upsert"} => text[p] \in Texts
    /\ pc[p] \in Holding => hand[p] \in Entries

LEMMA InType ==
    ASSUME NEW p \in Procs
    PROVE  In(p) \in Collections /\ (p \in Runs => In(p) # Queue)
  BY LessonsAssumption DEF LessonsAssumption, In, Procs, Collections

LEMMA PutType ==
    ASSUME TypeOK, NEW c \in Collections, NEW e \in Entries
    PROVE  Put(c, e) \subseteq Entries
  BY DEF TypeOK, Put

LEMMA WithoutType ==
    ASSUME TypeOK, NEW c \in Collections, NEW t
    PROVE  Without(c, t) \subseteq Entries
  BY DEF TypeOK, Without

LEMMA IngestedType ==
    ASSUME TypeOK, StepInv, HandInv, NEW p \in Procs, pc[p] = "upsert"
    PROVE  /\ Ingested(p) \in Entries
           /\ Ingested(p).sources = (IF hand[p] = None THEN {} ELSE hand[p].sources) \cup {Source(p)}
<1>1. text[p] \in Texts /\ hand[p] \in Entries \cup {None}
  BY DEF TypeOK, HandInv
<1>2. Source(p) \in Runs \cup Orgs
  BY LessonsAssumption DEF LessonsAssumption, StepInv, AtAnOrg, Source, Procs
<1>3. CASE hand[p] = None
  BY <1>1, <1>2, <1>3 DEF Ingested, Entries
<1>4. CASE hand[p] # None
  <2>1. hand[p] \in Entries
    BY <1>1, <1>4
  <2>2. ASSUME NEW n PROVE /\ Merged(hand[p], text[p], Source(p), n) \in Entries
                           /\ Merged(hand[p], text[p], Source(p), n).sources = hand[p].sources \cup {Source(p)}
    BY <1>1, <1>2, <2>1 DEF Merged, Entries
  <2>3. QED
    BY <1>4, <2>2 DEF Ingested
<1>5. QED
  BY <1>3, <1>4

LEMMA StepStep == TypeOK /\ StepInv /\ [Next]_vars => StepInv'
<1> SUFFICES ASSUME TypeOK, StepInv, [Next]_vars PROVE StepInv'
  OBVIOUS
<1> USE LessonsAssumption DEF LessonsAssumption, TypeOK, StepInv, RunSteps, OperatorSteps, AtAnOrg, Steps, Procs
<1>1. ASSUME NEW p \in Procs, Find(p) PROVE StepInv'
  BY <1>1 DEF Find
<1>2. ASSUME NEW p \in Procs, Upsert(p) PROVE StepInv'
  BY <1>2 DEF Upsert, After
<1>3. ASSUME NEW p \in Procs, DeleteOld(p) PROVE StepInv'
  BY <1>3 DEF DeleteOld, After
<1>4. ASSUME NEW p \in Procs, Die(p) PROVE StepInv'
  BY <1>4 DEF Die
<1>5. ASSUME NEW r \in Runs, Mine(r) PROVE StepInv'
  BY <1>5 DEF Mine
<1>6. ASSUME NEW r \in Runs, Evict(r) PROVE StepInv'
  BY <1>6 DEF Evict
<1>7. ASSUME NEW r \in Runs, EvictOne(r) PROVE StepInv'
  BY <1>7 DEF EvictOne
<1>8. ASSUME NEW r \in Runs, Evicted(r) PROVE StepInv'
  BY <1>8 DEF Evicted, After
<1>9. ASSUME NEW r \in Runs, Annotate(r) PROVE StepInv'
  BY <1>9 DEF Annotate
<1>10. ASSUME NEW r \in Runs, Raise(r) PROVE StepInv'
  BY <1>10 DEF Raise
<1>11. ASSUME NEW p \in Operators, Command(p) PROVE StepInv'
  BY <1>11 DEF Command
<1>12. ASSUME NEW p \in Operators, ScanOrg(p) PROVE StepInv'
  BY <1>12 DEF ScanOrg
<1>13. ASSUME NEW p \in Operators, ScanEntry(p) PROVE StepInv'
  BY <1>13 DEF ScanEntry
<1>14. ASSUME NEW p \in Operators, ScanNext(p) PROVE StepInv'
  BY <1>14 DEF ScanNext
<1>15. ASSUME NEW p \in Operators, Scanned(p) PROVE StepInv'
  BY <1>15 DEF Scanned
<1>16. ASSUME NEW p \in Operators, Approve(p) PROVE StepInv'
  BY <1>16 DEF Approve
<1>17. ASSUME NEW p \in Operators, Publish(p) PROVE StepInv'
  BY <1>17 DEF Publish
<1>18. ASSUME NEW p \in Operators, MarkApproved(p) PROVE StepInv'
  BY <1>18 DEF MarkApproved
<1>19. ASSUME NEW p \in Operators, Reject(p) PROVE StepInv'
  BY <1>19 DEF Reject
<1>20. ASSUME NEW p \in Operators, MarkRejected(p) PROVE StepInv'
  BY <1>20 DEF MarkRejected
<1>21. ASSUME NEW p \in Operators, NoCandidate(p) PROVE StepInv'
  BY <1>21 DEF NoCandidate
<1>22. ASSUME NEW p \in Operators, Drop(p) PROVE StepInv'
  BY <1>22 DEF Drop
<1>23. ASSUME NEW p \in Operators, ListCandidates(p) PROVE StepInv'
  BY <1>23 DEF ListCandidates
<1>24. ASSUME NEW p \in Operators, Withdraw(p) PROVE StepInv'
  BY <1>24 DEF Withdraw
<1>25. ASSUME NEW p \in Operators, Forgot(p) PROVE StepInv'
  BY <1>25 DEF Forgot
<1>26. CASE UNCHANGED vars
  BY <1>26 DEF vars
<1>27. QED
  BY <1>1, <1>2, <1>3, <1>4, <1>5, <1>6, <1>7, <1>8, <1>9, <1>10, <1>11, <1>12, <1>13, <1>14, <1>15, <1>16, <1>17, <1>18, <1>19, <1>20, <1>21, <1>22, <1>23, <1>24, <1>25, <1>26 DEF Next, Ingest, Run, Operate

LEMMA HandStep == TypeOK /\ StepInv /\ HandInv /\ [Next]_vars => HandInv'
<1> SUFFICES ASSUME TypeOK, StepInv, HandInv, [Next]_vars PROVE HandInv'
  OBVIOUS
<1> USE LessonsAssumption, NoneAssumption DEF LessonsAssumption, TypeOK, StepInv, HandInv, RunSteps, OperatorSteps, Holding, Procs
<1>1. ASSUME NEW p \in Procs, Find(p) PROVE HandInv'
  BY <1>1 DEF Find
<1>2. ASSUME NEW p \in Procs, Upsert(p) PROVE HandInv'
  <2>1. Ingested(p) \in Entries
    BY <1>2, IngestedType DEF Upsert
  <2>2. hand' = [hand EXCEPT ![p] = Ingested(p)] /\ UNCHANGED text
    BY <1>2 DEF Upsert
  <2>3. pc' = [pc EXCEPT ![p] = pc'[p]] /\ pc'[p] \notin {"find", "upsert"}
    BY <1>2 DEF Upsert, After
  <2>4. QED
    BY <2>1, <2>2, <2>3
<1>3. ASSUME NEW p \in Procs, DeleteOld(p) PROVE HandInv'
  BY <1>3 DEF DeleteOld, After
<1>4. ASSUME NEW p \in Procs, Die(p) PROVE HandInv'
  BY <1>4 DEF Die
<1>5. ASSUME NEW r \in Runs, Mine(r) PROVE HandInv'
  <2>1. PICK t \in TextsOf[r] : text' = [text EXCEPT ![r] = t]
    BY <1>5 DEF Mine
  <2>2. t \in Texts
    BY <2>1
  <2>3. QED
    BY <1>5, <2>1, <2>2 DEF Mine
<1>6. ASSUME NEW r \in Runs, Evict(r) PROVE HandInv'
  BY <1>6 DEF Evict
<1>7. ASSUME NEW r \in Runs, EvictOne(r) PROVE HandInv'
  BY <1>7 DEF EvictOne
<1>8. ASSUME NEW r \in Runs, Evicted(r) PROVE HandInv'
  BY <1>8 DEF Evicted, After
<1>9. ASSUME NEW r \in Runs, Annotate(r) PROVE HandInv'
  BY <1>9 DEF Annotate
<1>10. ASSUME NEW r \in Runs, Raise(r) PROVE HandInv'
  BY <1>10 DEF Raise
<1>11. ASSUME NEW p \in Operators, Command(p) PROVE HandInv'
  BY <1>11 DEF Command
<1>12. ASSUME NEW p \in Operators, ScanOrg(p) PROVE HandInv'
  BY <1>12 DEF ScanOrg
<1>13. ASSUME NEW p \in Operators, ScanEntry(p) PROVE HandInv'
  <2>1. PICK e \in batch[p] : (Goto(p, "scanning", "find") /\ text' = [text EXCEPT ![p] = Scrubbed(e)])
                            \/ (Goto(p, "scanning", "scanning") /\ UNCHANGED text)
    BY <1>13 DEF ScanEntry
  <2>2. Scrubbed(e) \in Texts
    BY <2>1 DEF Scrubbed, Entries, Texts
  <2>3. QED
    BY <1>13, <2>1, <2>2 DEF ScanEntry
<1>14. ASSUME NEW p \in Operators, ScanNext(p) PROVE HandInv'
  BY <1>14 DEF ScanNext
<1>15. ASSUME NEW p \in Operators, Scanned(p) PROVE HandInv'
  BY <1>15 DEF Scanned
<1>16. ASSUME NEW p \in Operators, Approve(p) PROVE HandInv'
  <2>1. PICK e \in coll[Queue] : hand' = [hand EXCEPT ![p] = e]
    BY <1>16 DEF Approve
  <2>2. e \in Entries
    BY <2>1 DEF Collections
  <2>3. QED
    BY <1>16, <2>1, <2>2 DEF Approve
<1>17. ASSUME NEW p \in Operators, Publish(p) PROVE HandInv'
  BY <1>17 DEF Publish
<1>18. ASSUME NEW p \in Operators, MarkApproved(p) PROVE HandInv'
  BY <1>18 DEF MarkApproved
<1>19. ASSUME NEW p \in Operators, Reject(p) PROVE HandInv'
  <2>1. PICK e \in coll[Queue] : hand' = [hand EXCEPT ![p] = e]
    BY <1>19 DEF Reject
  <2>2. e \in Entries
    BY <2>1 DEF Collections
  <2>3. QED
    BY <1>19, <2>1, <2>2 DEF Reject
<1>20. ASSUME NEW p \in Operators, MarkRejected(p) PROVE HandInv'
  BY <1>20 DEF MarkRejected
<1>21. ASSUME NEW p \in Operators, NoCandidate(p) PROVE HandInv'
  BY <1>21 DEF NoCandidate
<1>22. ASSUME NEW p \in Operators, Drop(p) PROVE HandInv'
  BY <1>22 DEF Drop
<1>23. ASSUME NEW p \in Operators, ListCandidates(p) PROVE HandInv'
  BY <1>23 DEF ListCandidates
<1>24. ASSUME NEW p \in Operators, Withdraw(p) PROVE HandInv'
  BY <1>24 DEF Withdraw
<1>25. ASSUME NEW p \in Operators, Forgot(p) PROVE HandInv'
  BY <1>25 DEF Forgot
<1>26. CASE UNCHANGED vars
  BY <1>26 DEF vars
<1>27. QED
  BY <1>1, <1>2, <1>3, <1>4, <1>5, <1>6, <1>7, <1>8, <1>9, <1>10, <1>11, <1>12, <1>13, <1>14, <1>15, <1>16, <1>17, <1>18, <1>19, <1>20, <1>21, <1>22, <1>23, <1>24, <1>25, <1>26 DEF Next, Ingest, Run, Operate

LEMMA TypeStep == TypeOK /\ StepInv /\ HandInv /\ [Next]_vars => TypeOK'
<1> SUFFICES ASSUME TypeOK, StepInv, HandInv, [Next]_vars PROVE TypeOK'
  OBVIOUS
<1> USE LessonsAssumption DEF LessonsAssumption, TypeOK
<1>1. ASSUME NEW p \in Procs, Find(p) PROVE TypeOK'
  <2>1. p \in Procs /\ In(p) \in Collections /\ Queue \in Collections
    BY InType DEF Procs, Collections
  <2>2. pc' \in [Procs -> Steps]
    BY <1>1, <2>1 DEF Find, Steps
  <2>3. hand' \in [Procs -> Entries \cup {None}]
    BY <1>1, <2>1 DEF Find, Found
  <2>4. QED
    BY <1>1, <2>1, <2>2, <2>3 DEF Find
<1>2. ASSUME NEW p \in Procs, Upsert(p) PROVE TypeOK'
  <2>1. p \in Procs /\ In(p) \in Collections /\ Queue \in Collections
    BY InType DEF Procs, Collections
  <2>2. pc' \in [Procs -> Steps]
    BY <1>2, <2>1 DEF Upsert, Steps, After
  <2>3. Ingested(p) \in Entries
    BY <1>2, IngestedType DEF Upsert
  <2>4. coll' \in [Collections -> SUBSET Entries]
    BY <1>2, <2>1, <2>3, PutType DEF Upsert
  <2>5. old' \in [Procs -> Texts \cup {None}]
    BY <1>2, <2>1, NoneAssumption DEF Upsert, Entries
  <2>6. known' \subseteq Orgs /\ kept' \subseteq Runs
    BY <1>2, <2>1 DEF Upsert
  <2>7. QED
    BY <1>2, <2>1, <2>2, <2>3, <2>4, <2>5, <2>6 DEF Upsert
<1>3. ASSUME NEW p \in Procs, DeleteOld(p) PROVE TypeOK'
  <2>1. p \in Procs /\ In(p) \in Collections /\ Queue \in Collections
    BY InType DEF Procs, Collections
  <2>2. pc' \in [Procs -> Steps]
    BY <1>3, <2>1 DEF DeleteOld, Steps, After
  <2>3. coll' \in [Collections -> SUBSET Entries]
    BY <1>3, <2>1, WithoutType DEF DeleteOld
  <2>4. QED
    BY <1>3, <2>1, <2>2, <2>3 DEF DeleteOld
<1>4. ASSUME NEW p \in Procs, Die(p) PROVE TypeOK'
  <2>1. p \in Procs /\ In(p) \in Collections /\ Queue \in Collections
    BY InType DEF Procs, Collections
  <2>2. pc' \in [Procs -> Steps]
    BY <1>4, <2>1 DEF Die, Steps
  <2>3. QED
    BY <1>4, <2>1, <2>2 DEF Die
<1>5. ASSUME NEW r \in Runs, Mine(r) PROVE TypeOK'
  <2>1. r \in Procs /\ In(r) \in Collections /\ Queue \in Collections
    BY InType DEF Procs, Collections
  <2>2. pc' \in [Procs -> Steps]
    BY <1>5, <2>1 DEF Mine, Steps
  <2>3. text' \in [Procs -> Texts \cup {None}]
    BY <1>5, <2>1 DEF Mine
  <2>4. exists' \subseteq Orgs /\ forgotten' \subseteq Orgs /\ requests' \in 0 .. MaxRequests
    BY <1>5, <2>1 DEF Mine
  <2>5. QED
    BY <1>5, <2>1, <2>2, <2>3, <2>4 DEF Mine
<1>6. ASSUME NEW r \in Runs, Evict(r) PROVE TypeOK'
  <2>1. r \in Procs /\ In(r) \in Collections /\ Queue \in Collections
    BY InType DEF Procs, Collections
  <2>2. pc' \in [Procs -> Steps]
    BY <1>6, <2>1 DEF Evict, Steps
  <2>3. batch' \in [Procs -> SUBSET Entries]
    BY <1>6, <2>1 DEF Evict
  <2>4. QED
    BY <1>6, <2>1, <2>2, <2>3 DEF Evict
<1>7. ASSUME NEW r \in Runs, EvictOne(r) PROVE TypeOK'
  <2>1. r \in Procs /\ In(r) \in Collections /\ Queue \in Collections
    BY InType DEF Procs, Collections
  <2>2. pc' \in [Procs -> Steps]
    BY <1>7, <2>1 DEF EvictOne, Steps
  <2>3. coll' \in [Collections -> SUBSET Entries]
    BY <1>7, <2>1, WithoutType DEF EvictOne
  <2>4. batch' \in [Procs -> SUBSET Entries] /\ kept' \subseteq Runs
    BY <1>7, <2>1 DEF EvictOne
  <2>5. QED
    BY <1>7, <2>1, <2>2, <2>3, <2>4 DEF EvictOne
<1>8. ASSUME NEW r \in Runs, Evicted(r) PROVE TypeOK'
  <2>1. r \in Procs /\ In(r) \in Collections /\ Queue \in Collections
    BY InType DEF Procs, Collections
  <2>2. pc' \in [Procs -> Steps]
    BY <1>8, <2>1 DEF Evicted, Steps, After
  <2>3. QED
    BY <1>8, <2>1, <2>2 DEF Evicted
<1>9. ASSUME NEW r \in Runs, Annotate(r) PROVE TypeOK'
  <2>1. r \in Procs /\ In(r) \in Collections /\ Queue \in Collections
    BY InType DEF Procs, Collections
  <2>2. pc' \in [Procs -> Steps]
    BY <1>9, <2>1 DEF Annotate, Steps
  <2>3. [hand[r] EXCEPT !.aliases = NamesOf[r]] \in Entries
    BY <1>9, <2>1 DEF Annotate, HandInv, Holding, Entries
  <2>4. coll' \in [Collections -> SUBSET Entries]
    BY <1>9, <2>1, <2>3, PutType DEF Annotate
  <2>5. QED
    BY <1>9, <2>1, <2>2, <2>4 DEF Annotate
<1>10. ASSUME NEW r \in Runs, Raise(r) PROVE TypeOK'
  <2>1. r \in Procs /\ In(r) \in Collections /\ Queue \in Collections
    BY InType DEF Procs, Collections
  <2>2. pc' \in [Procs -> Steps]
    BY <1>10, <2>1 DEF Raise, Steps
  <2>3. QED
    BY <1>10, <2>1, <2>2 DEF Raise
<1>11. ASSUME NEW p \in Operators, Command(p) PROVE TypeOK'
  <2>1. p \in Procs /\ In(p) \in Collections /\ Queue \in Collections
    BY InType DEF Procs, Collections
  <2>2. pc' \in [Procs -> Steps]
    BY <1>11, <2>1 DEF Command, Steps
  <2>3. todo' \in [Procs -> SUBSET Orgs] /\ org' \in [Procs -> Orgs \cup {None}] /\ requests' \in 0 .. MaxRequests
    BY <1>11, <2>1 DEF Command
  <2>4. QED
    BY <1>11, <2>1, <2>2, <2>3 DEF Command
<1>12. ASSUME NEW p \in Operators, ScanOrg(p) PROVE TypeOK'
  <2>1. p \in Procs /\ In(p) \in Collections /\ Queue \in Collections
    BY InType DEF Procs, Collections
  <2>2. pc' \in [Procs -> Steps]
    BY <1>12, <2>1 DEF ScanOrg, Steps
  <2>3. batch' \in [Procs -> SUBSET Entries] /\ todo' \in [Procs -> SUBSET Orgs] /\ org' \in [Procs -> Orgs \cup {None}] /\ exists' \subseteq Orgs
    BY <1>12, <2>1 DEF ScanOrg, Collections
  <2>4. QED
    BY <1>12, <2>1, <2>2, <2>3 DEF ScanOrg
<1>13. ASSUME NEW p \in Operators, ScanEntry(p) PROVE TypeOK'
  <2>1. p \in Procs /\ In(p) \in Collections /\ Queue \in Collections
    BY InType DEF Procs, Collections
  <2>2. pc' \in [Procs -> Steps]
    BY <1>13, <2>1 DEF ScanEntry, Steps
  <2>3. text' \in [Procs -> Texts \cup {None}] /\ batch' \in [Procs -> SUBSET Entries]
    BY <1>13, <2>1 DEF ScanEntry, Scrubbed, Entries, Texts
  <2>4. QED
    BY <1>13, <2>1, <2>2, <2>3 DEF ScanEntry
<1>14. ASSUME NEW p \in Operators, ScanNext(p) PROVE TypeOK'
  <2>1. p \in Procs /\ In(p) \in Collections /\ Queue \in Collections
    BY InType DEF Procs, Collections
  <2>2. pc' \in [Procs -> Steps]
    BY <1>14, <2>1 DEF ScanNext, Steps
  <2>3. QED
    BY <1>14, <2>1, <2>2 DEF ScanNext
<1>15. ASSUME NEW p \in Operators, Scanned(p) PROVE TypeOK'
  <2>1. p \in Procs /\ In(p) \in Collections /\ Queue \in Collections
    BY InType DEF Procs, Collections
  <2>2. pc' \in [Procs -> Steps]
    BY <1>15, <2>1 DEF Scanned, Steps
  <2>3. QED
    BY <1>15, <2>1, <2>2 DEF Scanned
<1>16. ASSUME NEW p \in Operators, Approve(p) PROVE TypeOK'
  <2>1. p \in Procs /\ In(p) \in Collections /\ Queue \in Collections
    BY InType DEF Procs, Collections
  <2>2. pc' \in [Procs -> Steps]
    BY <1>16, <2>1 DEF Approve, Steps
  <2>3. hand' \in [Procs -> Entries \cup {None}]
    BY <1>16, <2>1 DEF Approve
  <2>4. QED
    BY <1>16, <2>1, <2>2, <2>3 DEF Approve
<1>17. ASSUME NEW p \in Operators, Publish(p) PROVE TypeOK'
  <2>1. p \in Procs /\ In(p) \in Collections /\ Queue \in Collections
    BY InType DEF Procs, Collections
  <2>2. pc' \in [Procs -> Steps]
    BY <1>17, <2>1 DEF Publish, Steps
  <2>3. global' \subseteq Texts
    BY <1>17, <2>1 DEF Publish, HandInv, Holding, Entries
  <2>4. QED
    BY <1>17, <2>1, <2>2, <2>3 DEF Publish
<1>18. ASSUME NEW p \in Operators, MarkApproved(p) PROVE TypeOK'
  <2>1. p \in Procs /\ In(p) \in Collections /\ Queue \in Collections
    BY InType DEF Procs, Collections
  <2>2. pc' \in [Procs -> Steps]
    BY <1>18, <2>1 DEF MarkApproved, Steps
  <2>0. hand[p] \in Entries
    BY <1>18, <2>1 DEF MarkApproved, HandInv, Holding
  <2>3. [hand[p] EXCEPT !.status = "approved"] \in Entries
    BY <2>0 DEF Entries
  <2>4. coll' \in [Collections -> SUBSET Entries]
    BY <1>18, <2>1, <2>3, PutType DEF MarkApproved
  <2>5. QED
    BY <1>18, <2>1, <2>2, <2>4 DEF MarkApproved
<1>19. ASSUME NEW p \in Operators, Reject(p) PROVE TypeOK'
  <2>1. p \in Procs /\ In(p) \in Collections /\ Queue \in Collections
    BY InType DEF Procs, Collections
  <2>2. pc' \in [Procs -> Steps]
    BY <1>19, <2>1 DEF Reject, Steps
  <2>3. hand' \in [Procs -> Entries \cup {None}]
    BY <1>19, <2>1 DEF Reject
  <2>4. QED
    BY <1>19, <2>1, <2>2, <2>3 DEF Reject
<1>20. ASSUME NEW p \in Operators, MarkRejected(p) PROVE TypeOK'
  <2>1. p \in Procs /\ In(p) \in Collections /\ Queue \in Collections
    BY InType DEF Procs, Collections
  <2>2. pc' \in [Procs -> Steps]
    BY <1>20, <2>1 DEF MarkRejected, Steps
  <2>3. [hand[p] EXCEPT !.status = "rejected"] \in Entries
    BY <1>20, <2>1 DEF MarkRejected, HandInv, Holding, Entries
  <2>4. coll' \in [Collections -> SUBSET Entries]
    BY <1>20, <2>1, <2>3, PutType DEF MarkRejected
  <2>5. rejected' \subseteq Texts
    BY <1>20, <2>1 DEF MarkRejected, HandInv, Holding, Entries
  <2>6. QED
    BY <1>20, <2>1, <2>2, <2>4, <2>5 DEF MarkRejected
<1>21. ASSUME NEW p \in Operators, NoCandidate(p) PROVE TypeOK'
  <2>1. p \in Procs /\ In(p) \in Collections /\ Queue \in Collections
    BY InType DEF Procs, Collections
  <2>2. pc' \in [Procs -> Steps]
    BY <1>21, <2>1 DEF NoCandidate, Steps
  <2>3. QED
    BY <1>21, <2>1, <2>2 DEF NoCandidate
<1>22. ASSUME NEW p \in Operators, Drop(p) PROVE TypeOK'
  <2>1. p \in Procs /\ In(p) \in Collections /\ Queue \in Collections
    BY InType DEF Procs, Collections
  <2>2. pc' \in [Procs -> Steps]
    BY <1>22, <2>1 DEF Drop, Steps
  <2>3. org[p] \in Orgs
    BY <1>22 DEF Drop, StepInv, AtAnOrg
  <2>4. coll' \in [Collections -> SUBSET Entries]
    BY <1>22, <2>3 DEF Drop, Collections
  <2>5. QED
    BY <1>22, <2>1, <2>2, <2>3, <2>4 DEF Drop
<1>23. ASSUME NEW p \in Operators, ListCandidates(p) PROVE TypeOK'
  <2>1. p \in Procs /\ In(p) \in Collections /\ Queue \in Collections
    BY InType DEF Procs, Collections
  <2>2. pc' \in [Procs -> Steps]
    BY <1>23, <2>1 DEF ListCandidates, Steps
  <2>3. batch' \in [Procs -> SUBSET Entries]
    BY <1>23, <2>1 DEF ListCandidates
  <2>4. QED
    BY <1>23, <2>1, <2>2, <2>3 DEF ListCandidates
<1>24. ASSUME NEW p \in Operators, Withdraw(p) PROVE TypeOK'
  <2>1. p \in Procs /\ In(p) \in Collections /\ Queue \in Collections
    BY InType DEF Procs, Collections
  <2>2. pc' \in [Procs -> Steps]
    BY <1>24, <2>1 DEF Withdraw, Steps
  <2>3. PICK e \in batch[p] :
            LET rest == [e EXCEPT !.sources = @ \ {org[p]}]
            IN  /\ batch' = [batch EXCEPT ![p] = @ \ {e}]
                /\ \/ coll' = [coll EXCEPT ![Queue] = Without(Queue, e.text)]
                   \/ coll' = [coll EXCEPT ![Queue] = Put(Queue, rest)]
    BY <1>24 DEF Withdraw
  <2>4. [e EXCEPT !.sources = @ \ {org[p]}] \in Entries
    <3>1. e \in Entries
      BY <2>1, <2>3
    <3>2. QED
      BY ONLY <3>1 DEF Entries
  <2>5. coll' \in [Collections -> SUBSET Entries]
    BY <2>1, <2>3, <2>4, PutType, WithoutType
  <2>6. batch' \in [Procs -> SUBSET Entries]
    BY <2>1, <2>3
  <2>7. QED
    BY <1>24, <2>1, <2>2, <2>5, <2>6 DEF Withdraw
<1>25. ASSUME NEW p \in Operators, Forgot(p) PROVE TypeOK'
  <2>1. p \in Procs /\ In(p) \in Collections /\ Queue \in Collections
    BY InType DEF Procs, Collections
  <2>2. pc' \in [Procs -> Steps]
    BY <1>25, <2>1 DEF Forgot, Steps
  <2>3. forgotten' \subseteq Orgs
    BY <1>25 DEF Forgot, StepInv, AtAnOrg
  <2>4. QED
    BY <1>25, <2>1, <2>2, <2>3 DEF Forgot
<1>26. CASE UNCHANGED vars
  BY <1>26 DEF vars
<1>27. QED
  BY <1>1, <1>2, <1>3, <1>4, <1>5, <1>6, <1>7, <1>8, <1>9, <1>10, <1>11, <1>12, <1>13, <1>14, <1>15, <1>16, <1>17, <1>18, <1>19, <1>20, <1>21, <1>22, <1>23, <1>24, <1>25, <1>26 DEF Next, Ingest, Run, Operate

LEMMA TypeInit == Init => TypeOK /\ StepInv /\ HandInv
<1> SUFFICES ASSUME Init PROVE TypeOK /\ StepInv /\ HandInv
  OBVIOUS
<1>1. TypeOK
  <2>1. /\ coll \in [Collections -> SUBSET Entries]
        /\ pc \in [Procs -> Steps]
        /\ todo \in [Procs -> SUBSET Orgs] /\ batch \in [Procs -> SUBSET Entries]
        /\ lock \in [LockFiles -> Procs \cup {Nobody}]
    BY DEF Init, Steps
  <2>2. requests \in 0 .. MaxRequests
    BY LessonsAssumption DEF LessonsAssumption, Init
  <2>3. /\ text \in [Procs -> Texts \cup {None}] /\ hand \in [Procs -> Entries \cup {None}]
        /\ old \in [Procs -> Texts \cup {None}] /\ org \in [Procs -> Orgs \cup {None}]
    BY DEF Init
  <2>4. QED
    BY <2>1, <2>2, <2>3 DEF Init, TypeOK
<1>2. StepInv /\ HandInv
  BY DEF Init, StepInv, HandInv, RunSteps, OperatorSteps, Steps, Holding, AtAnOrg, Procs
<1>3. QED
  BY <1>1, <1>2

\* The collections hold entries, a candidate's sources are organizations, and a
\* process always has at hand what its next call to the store needs.
THEOREM TypeCorrect == Spec => []TypeOK
<1>1. QED
  BY TypeInit, TypeStep, StepStep, HandStep, PTL DEF Spec

(***************************************************************************)
(* What is in GLOBAL was mined in enough organizations.                    *)
(***************************************************************************)

(* Whoever is named in a candidate, in an operator's hand or about to be is *)
(* an organization that has mined the lesson.                               *)
OrgsKnown  == \A o \in Orgs : coll[o] # {} => o \in known
QueueKnown == \A e \in coll[Queue] : e.sources \subseteq known
RunsKnown  ==
    \A r \in Runs : pc[r] \in {"delete", "evict", "evicting", "annotate"} /\ In(r) \in Orgs => In(r) \in known
OperatorsKnown ==
    \A p \in Operators :
        /\ pc[p] \in {"upsert", "publish", "approved", "rejecting"} /\ hand[p] # None => hand[p].sources \subseteq known
        /\ pc[p] \in {"find", "upsert"} => org[p] \in known
        /\ pc[p] \in {"scanning", "find", "upsert", "delete"} /\ batch[p] # {} => org[p] \in known
        /\ pc[p] = "withdrawing" => \A e \in batch[p] : e.sources \subseteq known
        /\ pc[p] = "publish" => Cardinality(hand[p].sources) >= MinOrgs

KnownInv == OrgsKnown /\ QueueKnown /\ RunsKnown /\ OperatorsKnown

LEMMA KnownGrows == TypeOK /\ [Next]_vars => known \subseteq known'
<1> SUFFICES ASSUME TypeOK, [Next]_vars PROVE known \subseteq known'
  OBVIOUS
<1>1. ASSUME NEW p \in Procs, Find(p) PROVE known \subseteq known'
  BY <1>1 DEF Find
<1>2. ASSUME NEW p \in Procs, Upsert(p) PROVE known \subseteq known'
  BY <1>2 DEF Upsert
<1>3. ASSUME NEW p \in Procs, DeleteOld(p) PROVE known \subseteq known'
  BY <1>3 DEF DeleteOld
<1>4. ASSUME NEW p \in Procs, Die(p) PROVE known \subseteq known'
  BY <1>4 DEF Die
<1>5. ASSUME NEW r \in Runs, Mine(r) PROVE known \subseteq known'
  BY <1>5 DEF Mine
<1>6. ASSUME NEW r \in Runs, Evict(r) PROVE known \subseteq known'
  BY <1>6 DEF Evict
<1>7. ASSUME NEW r \in Runs, EvictOne(r) PROVE known \subseteq known'
  BY <1>7 DEF EvictOne
<1>8. ASSUME NEW r \in Runs, Evicted(r) PROVE known \subseteq known'
  BY <1>8 DEF Evicted
<1>9. ASSUME NEW r \in Runs, Annotate(r) PROVE known \subseteq known'
  BY <1>9 DEF Annotate
<1>10. ASSUME NEW r \in Runs, Raise(r) PROVE known \subseteq known'
  BY <1>10 DEF Raise
<1>11. ASSUME NEW p \in Operators, Command(p) PROVE known \subseteq known'
  BY <1>11 DEF Command
<1>12. ASSUME NEW p \in Operators, ScanOrg(p) PROVE known \subseteq known'
  BY <1>12 DEF ScanOrg
<1>13. ASSUME NEW p \in Operators, ScanEntry(p) PROVE known \subseteq known'
  BY <1>13 DEF ScanEntry
<1>14. ASSUME NEW p \in Operators, ScanNext(p) PROVE known \subseteq known'
  BY <1>14 DEF ScanNext
<1>15. ASSUME NEW p \in Operators, Scanned(p) PROVE known \subseteq known'
  BY <1>15 DEF Scanned
<1>16. ASSUME NEW p \in Operators, Approve(p) PROVE known \subseteq known'
  BY <1>16 DEF Approve
<1>17. ASSUME NEW p \in Operators, Publish(p) PROVE known \subseteq known'
  BY <1>17 DEF Publish
<1>18. ASSUME NEW p \in Operators, MarkApproved(p) PROVE known \subseteq known'
  BY <1>18 DEF MarkApproved
<1>19. ASSUME NEW p \in Operators, Reject(p) PROVE known \subseteq known'
  BY <1>19 DEF Reject
<1>20. ASSUME NEW p \in Operators, MarkRejected(p) PROVE known \subseteq known'
  BY <1>20 DEF MarkRejected
<1>21. ASSUME NEW p \in Operators, NoCandidate(p) PROVE known \subseteq known'
  BY <1>21 DEF NoCandidate
<1>22. ASSUME NEW p \in Operators, Drop(p) PROVE known \subseteq known'
  BY <1>22 DEF Drop
<1>23. ASSUME NEW p \in Operators, ListCandidates(p) PROVE known \subseteq known'
  BY <1>23 DEF ListCandidates
<1>24. ASSUME NEW p \in Operators, Withdraw(p) PROVE known \subseteq known'
  BY <1>24 DEF Withdraw
<1>25. ASSUME NEW p \in Operators, Forgot(p) PROVE known \subseteq known'
  BY <1>25 DEF Forgot
<1>26. CASE UNCHANGED vars
  BY <1>26 DEF vars
<1>27. QED
  BY <1>1, <1>2, <1>3, <1>4, <1>5, <1>6, <1>7, <1>8, <1>9, <1>10, <1>11, <1>12, <1>13, <1>14, <1>15, <1>16, <1>17, <1>18, <1>19, <1>20, <1>21, <1>22, <1>23, <1>24, <1>25, <1>26 DEF Next, Ingest, Run, Operate

LEMMA KnownStep == TypeOK /\ StepInv /\ HandInv /\ KnownInv /\ [Next]_vars => KnownInv'
<1> SUFFICES ASSUME TypeOK, StepInv, HandInv, KnownInv, [Next]_vars PROVE KnownInv'
  OBVIOUS
<1> USE LessonsAssumption, NoneAssumption, InType DEF LessonsAssumption, TypeOK, StepInv, RunSteps, KnownInv, OrgsKnown, QueueKnown, RunsKnown, OperatorsKnown, Procs
<1>1. ASSUME NEW p \in Procs, Find(p) PROVE KnownInv'
  <2>1. OrgsKnown'
    BY <1>1 DEF Find, In
  <2>2. QueueKnown'
    BY <1>1 DEF Find, In
  <2>3. RunsKnown'
    BY <1>1 DEF Find, In
  <2>4. OperatorsKnown'
    <3>1. p \in Operators => In(p) = Queue
      BY DEF In
    <3>2. \/ hand' = [hand EXCEPT ![p] = None]
          \/ \E e \in coll[In(p)] : hand' = [hand EXCEPT ![p] = e]
      BY <1>1 DEF Find, Found
    <3>3. pc[p] = "find" /\ pc' = [pc EXCEPT ![p] = "upsert"] /\ UNCHANGED <<batch, org, known>>
      BY <1>1 DEF Find
    <3>4. QED
      BY <3>1, <3>2, <3>3
  <2>5. QED
    BY <2>1, <2>2, <2>3, <2>4
<1>2. ASSUME NEW p \in Procs, Upsert(p) PROVE KnownInv'
  <2>1. /\ coll' = [coll EXCEPT ![In(p)] = Put(In(p), Ingested(p))]
        /\ hand' = [hand EXCEPT ![p] = Ingested(p)]
        /\ pc[p] = "upsert" /\ pc' = [pc EXCEPT ![p] = pc'[p]]
        /\ p \in Operators => pc'[p] \in {"delete", "scanning"}
        /\ p \in Runs => pc'[p] \in {"delete", "evict", "annotate", "idle"}
        /\ known' = known \cup ({In(p)} \cap Orgs)
        /\ UNCHANGED <<scoped, org, batch>>
    BY <1>2 DEF Upsert, After
  <2>2. /\ In(p) \in Collections
        /\ p \in Runs => In(p) # Queue
        /\ p \in Operators => In(p) = Queue /\ Queue \notin Orgs
    BY DEF In
  <2>3. p \in Operators => Ingested(p).sources \subseteq known
    <3>1. SUFFICES ASSUME p \in Operators PROVE Ingested(p).sources \subseteq known
      OBVIOUS
    <3>2. /\ Source(p) \in known
          /\ hand[p] # None => hand[p].sources \subseteq known
      BY <2>1, <3>1 DEF Source
    <3>3. QED
      BY <2>1, <3>2, IngestedType
  <2>4. OrgsKnown'
    BY <2>1, <2>2, <2>3 DEF Put
  <2>5. QueueKnown'
    BY <2>1, <2>2, <2>3 DEF Put
  <2>6. RunsKnown'
    BY <2>1, <2>2, <2>3 DEF In
  <2>7. OperatorsKnown'
    BY <2>1, <2>2, <2>3 DEF Put
  <2>8. QED
    BY <2>4, <2>5, <2>6, <2>7
<1>3. ASSUME NEW p \in Procs, DeleteOld(p) PROVE KnownInv'
  <2>1. /\ coll' = [coll EXCEPT ![In(p)] = Without(In(p), old[p])]
        /\ pc[p] = "delete" /\ pc' = [pc EXCEPT ![p] = pc'[p]]
        /\ p \in Operators => pc'[p] = "scanning"
        /\ p \in Runs => pc'[p] \in {"annotate", "idle"}
        /\ UNCHANGED <<scoped, hand, known, org, batch>>
    BY <1>3 DEF DeleteOld, After
  <2>2. coll'[In(p)] \subseteq coll[In(p)] /\ \A c \in Collections \ {In(p)} : coll'[c] = coll[c]
    BY <2>1 DEF Without
  <2>3. OrgsKnown'
    BY <2>1, <2>2 DEF Collections
  <2>4. QueueKnown'
    BY <2>1, <2>2 DEF Collections
  <2>5. RunsKnown'
    BY <2>1, <2>2 DEF In
  <2>6. OperatorsKnown'
    BY <2>1, <2>2 DEF In
  <2>7. QED
    BY <2>3, <2>4, <2>5, <2>6
<1>4. ASSUME NEW p \in Procs, Die(p) PROVE KnownInv'
  BY <1>4 DEF Die, In
<1>5. ASSUME NEW r \in Runs, Mine(r) PROVE KnownInv'
  BY <1>5 DEF Mine, In
<1>6. ASSUME NEW r \in Runs, Evict(r) PROVE KnownInv'
  BY <1>6 DEF Evict, In
<1>7. ASSUME NEW r \in Runs, EvictOne(r) PROVE KnownInv'
  BY <1>7 DEF EvictOne, In
<1>8. ASSUME NEW r \in Runs, Evicted(r) PROVE KnownInv'
  BY <1>8 DEF Evicted, In, After
<1>9. ASSUME NEW r \in Runs, Annotate(r) PROVE KnownInv'
  BY <1>9 DEF Annotate, In
<1>10. ASSUME NEW r \in Runs, Raise(r) PROVE KnownInv'
  BY <1>10 DEF Raise, In
<1>11. ASSUME NEW p \in Operators, Command(p) PROVE KnownInv'
  BY <1>11 DEF Command, In
<1>12. ASSUME NEW p \in Operators, ScanOrg(p) PROVE KnownInv'
  BY <1>12 DEF ScanOrg, In
<1>13. ASSUME NEW p \in Operators, ScanEntry(p) PROVE KnownInv'
  BY <1>13 DEF ScanEntry, In
<1>14. ASSUME NEW p \in Operators, ScanNext(p) PROVE KnownInv'
  BY <1>14 DEF ScanNext, In
<1>15. ASSUME NEW p \in Operators, Scanned(p) PROVE KnownInv'
  BY <1>15 DEF Scanned, In
<1>16. ASSUME NEW p \in Operators, Approve(p) PROVE KnownInv'
  <2>1. OrgsKnown'
    BY <1>16 DEF Approve, In
  <2>2. QueueKnown'
    BY <1>16 DEF Approve, In
  <2>3. RunsKnown'
    BY <1>16 DEF Approve, In
  <2>4. OperatorsKnown'
    <3>1. PICK e \in coll[Queue] : Corroborated(e) /\ hand' = [hand EXCEPT ![p] = e]
      BY <1>16 DEF Approve
    <3>2. e.sources \subseteq known /\ Cardinality(e.sources) >= MinOrgs
      BY <3>1 DEF Corroborated
    <3>3. QED
      BY <1>16, <3>1, <3>2 DEF Approve
  <2>5. QED
    BY <2>1, <2>2, <2>3, <2>4
<1>17. ASSUME NEW p \in Operators, Publish(p) PROVE KnownInv'
  BY <1>17 DEF Publish, In
<1>18. ASSUME NEW p \in Operators, MarkApproved(p) PROVE KnownInv'
  <2>1. [hand[p] EXCEPT !.status = "approved"].sources \subseteq known
    <3>1. hand[p] \in Entries /\ hand[p].sources \subseteq known
      BY <1>18 DEF MarkApproved, HandInv, Holding
    <3>2. QED
      BY <3>1 DEF Entries
  <2>2. OrgsKnown'
    BY <1>18 DEF MarkApproved, Collections
  <2>3. QueueKnown'
    BY <1>18, <2>1 DEF MarkApproved, Put, Collections
  <2>4. RunsKnown'
    BY <1>18 DEF MarkApproved, In
  <2>5. OperatorsKnown'
    BY <1>18 DEF MarkApproved, In
  <2>6. QED
    BY <2>2, <2>3, <2>4, <2>5
<1>19. ASSUME NEW p \in Operators, Reject(p) PROVE KnownInv'
  BY <1>19 DEF Reject, In
<1>20. ASSUME NEW p \in Operators, MarkRejected(p) PROVE KnownInv'
  <2>1. [hand[p] EXCEPT !.status = "rejected"].sources \subseteq known
    <3>1. hand[p] \in Entries /\ hand[p].sources \subseteq known
      BY <1>20 DEF MarkRejected, HandInv, Holding
    <3>2. QED
      BY <3>1 DEF Entries
  <2>2. OrgsKnown'
    BY <1>20 DEF MarkRejected, Collections
  <2>3. QueueKnown'
    BY <1>20, <2>1 DEF MarkRejected, Put, Collections
  <2>4. RunsKnown'
    BY <1>20 DEF MarkRejected, In
  <2>5. OperatorsKnown'
    BY <1>20 DEF MarkRejected, In
  <2>6. QED
    BY <2>2, <2>3, <2>4, <2>5
<1>21. ASSUME NEW p \in Operators, NoCandidate(p) PROVE KnownInv'
  BY <1>21 DEF NoCandidate, In
<1>22. ASSUME NEW p \in Operators, Drop(p) PROVE KnownInv'
  BY <1>22 DEF Drop, In
<1>23. ASSUME NEW p \in Operators, ListCandidates(p) PROVE KnownInv'
  BY <1>23 DEF ListCandidates, In
<1>24. ASSUME NEW p \in Operators, Withdraw(p) PROVE KnownInv'
  <2>1. PICK e \in batch[p] :
            /\ batch' = [batch EXCEPT ![p] = @ \ {e}]
            /\ pc[p] = "withdrawing" /\ pc' = [pc EXCEPT ![p] = "withdrawing"]
            /\ coll' \in {[coll EXCEPT ![Queue] = Without(Queue, e.text)],
                          [coll EXCEPT ![Queue] = Put(Queue, [e EXCEPT !.sources = @ \ {org[p]}])]}
    BY <1>24 DEF Withdraw
  <2>2. [e EXCEPT !.sources = @ \ {org[p]}].sources \subseteq known
    <3>1. e \in Entries /\ e.sources \subseteq known
      BY <2>1
    <3>2. QED
      BY <3>1 DEF Entries
  <2>3. OrgsKnown'
    BY <1>24, <2>1 DEF Withdraw, Collections
  <2>4. QueueKnown'
    <3>0. Queue \in Collections /\ UNCHANGED known
      BY <1>24 DEF Withdraw, Collections
    <3>1. CASE coll' = [coll EXCEPT ![Queue] = Without(Queue, e.text)]
      BY <3>0, <3>1 DEF Without
    <3>2. ASSUME NEW rest, rest.sources \subseteq known, coll' = [coll EXCEPT ![Queue] = Put(Queue, rest)]
          PROVE QueueKnown'
      BY <3>0, <3>2 DEF Put
    <3>3. CASE coll' = [coll EXCEPT ![Queue] = Put(Queue, [e EXCEPT !.sources = @ \ {org[p]}])]
      BY ONLY <2>2, <3>2, <3>3
    <3>4. QED
      BY ONLY <2>1, <3>1, <3>3
  <2>5. RunsKnown'
    BY <1>24, <2>1 DEF Withdraw, In
  <2>6. OperatorsKnown'
    BY <1>24, <2>1 DEF Withdraw
  <2>7. QED
    BY <2>3, <2>4, <2>5, <2>6
<1>25. ASSUME NEW p \in Operators, Forgot(p) PROVE KnownInv'
  BY <1>25 DEF Forgot, In
<1>26. CASE UNCHANGED vars
  BY <1>26 DEF vars, In
<1>27. QED
  BY <1>1, <1>2, <1>3, <1>4, <1>5, <1>6, <1>7, <1>8, <1>9, <1>10, <1>11, <1>12, <1>13, <1>14, <1>15, <1>16, <1>17, <1>18, <1>19, <1>20, <1>21, <1>22, <1>23, <1>24, <1>25, <1>26 DEF Next, Ingest, Run, Operate

LEMMA GlobalStep == TypeOK /\ TypeOK' /\ HandInv /\ KnownInv /\ GlobalIsCorroborated /\ [Next]_vars => GlobalIsCorroborated'
<1> SUFFICES ASSUME TypeOK, TypeOK', HandInv, KnownInv, GlobalIsCorroborated, [Next]_vars PROVE GlobalIsCorroborated'
  OBVIOUS
<1>1. IsFiniteSet(known') /\ IsFiniteSet(known) /\ known \subseteq known'
  BY KnownGrows, FS_Subset, LessonsAssumption DEF LessonsAssumption, TypeOK
<1>2. Cardinality(known) <= Cardinality(known') /\ Cardinality(known) \in Nat /\ Cardinality(known') \in Nat
  BY <1>1, FS_Subset, FS_CardinalityType
<1>3. global' = global \/ Cardinality(known) >= MinOrgs
  <2>1. CASE \E p \in Operators : Publish(p)
    <3>1. PICK p \in Operators : Publish(p)
      BY <2>1
    <3>2. hand[p] \in Entries /\ hand[p].sources \subseteq known /\ Cardinality(hand[p].sources) >= MinOrgs
      BY <3>1, NoneAssumption DEF Publish, HandInv, Holding, KnownInv, OperatorsKnown, Procs
    <3>3. Cardinality(hand[p].sources) \in Nat /\ Cardinality(hand[p].sources) <= Cardinality(known)
      BY <1>1, <3>2, FS_Subset, FS_CardinalityType
    <3>4. QED
      BY <1>2, <3>2, <3>3, LessonsAssumption DEF LessonsAssumption
  <2>2. CASE ~\E p \in Operators : Publish(p)
    BY <2>2 DEF Next, Ingest, Run, Operate, vars, Find, Upsert, DeleteOld, Die,
             Mine, Evict, EvictOne, Evicted, Annotate, Raise,
             Command, ScanOrg, ScanEntry, ScanNext, Scanned, Approve, MarkApproved, Reject, MarkRejected, NoCandidate, Drop, ListCandidates, Withdraw, Forgot
  <2>3. QED
    BY <2>1, <2>2
<1>4. QED
  BY <1>2, <1>3, LessonsAssumption DEF GlobalIsCorroborated, LessonsAssumption

\* What everybody can read was mined in MinOrgs organizations at least: for any number
\* of organizations, scans, merges, withdrawals and approvals at the same time, and
\* processes that die.
THEOREM Corroboration == Spec => []GlobalIsCorroborated
<1>1. Init => KnownInv /\ GlobalIsCorroborated
  BY LessonsAssumption DEF LessonsAssumption, Init, KnownInv, OrgsKnown, QueueKnown, RunsKnown, OperatorsKnown,
             GlobalIsCorroborated, Collections, Procs
<1>2. QED
  BY <1>1, TypeInit, TypeStep, StepStep, HandStep, KnownStep, GlobalStep, PTL DEF Spec

(***************************************************************************)
(* With scoping off, all runs share one collection, and those of one home  *)
(* its lock.                                                               *)
(***************************************************************************)

MainFile == <<CHOOSE h \in Homes : \A r \in Runs : HomeOf[r] = h, Main>>

(* Whoever reads the collection to write it has the lock.                   *)
LockInv ==
    /\ ~scoped => \A r \in Runs : pc[r] \in {"upsert", "delete"} <=> lock[MainFile] = r

LEMMA TheMainFile ==
    ASSUME OneHome, NEW p \in Runs, ~scoped
    PROVE  LockFile(p) = MainFile /\ MainFile \in LockFiles
<1>1. HomeOf[p] \in Homes /\ \A r \in Runs : HomeOf[r] = HomeOf[p]
  BY LessonsAssumption DEF LessonsAssumption, OneHome
<1>2. (CHOOSE h \in Homes : \A r \in Runs : HomeOf[r] = h) = HomeOf[p]
  BY <1>1
<1>3. In(p) = Main /\ Main \in Collections
  BY LessonsAssumption DEF LessonsAssumption, In, Collections
<1>4. QED
  BY <1>1, <1>2, <1>3 DEF LockFile, LockFiles, MainFile

(* The collection holds one wording, or while one replaces another these    *)
(* two; the one about to stay has every source of the one about to go.      *)
Shared == coll[Main]

FreeInv   == lock[MainFile] = Nobody => \A e, f \in Shared : e = f
UpsertInv == \A p \in Runs : pc[p] = "upsert" => Shared \subseteq {hand[p]}
DeleteInv ==
    \A p \in Runs : pc[p] = "delete" =>
        /\ \A e \in Shared : e.text = old[p] \/ e = hand[p]
        /\ hand[p].text # old[p]
        /\ \A r \in kept : r \in hand[p].sources /\ hand[p] \in Shared
KeptInv == \A r \in kept : \E e \in Shared : r \in e.sources

MergeInv == ~scoped /\ ~torn => FreeInv /\ UpsertInv /\ DeleteInv /\ KeptInv

LEMMA ScopedStays == [Next]_vars => scoped' = scoped
<1> SUFFICES ASSUME [Next]_vars PROVE scoped' = scoped
  OBVIOUS
<1>1. ASSUME NEW p \in Procs, Find(p) PROVE scoped' = scoped
  BY <1>1 DEF Find
<1>2. ASSUME NEW p \in Procs, Upsert(p) PROVE scoped' = scoped
  BY <1>2 DEF Upsert
<1>3. ASSUME NEW p \in Procs, DeleteOld(p) PROVE scoped' = scoped
  BY <1>3 DEF DeleteOld
<1>4. ASSUME NEW p \in Procs, Die(p) PROVE scoped' = scoped
  BY <1>4 DEF Die
<1>5. ASSUME NEW r \in Runs, Mine(r) PROVE scoped' = scoped
  BY <1>5 DEF Mine
<1>6. ASSUME NEW r \in Runs, Evict(r) PROVE scoped' = scoped
  BY <1>6 DEF Evict
<1>7. ASSUME NEW r \in Runs, EvictOne(r) PROVE scoped' = scoped
  BY <1>7 DEF EvictOne
<1>8. ASSUME NEW r \in Runs, Evicted(r) PROVE scoped' = scoped
  BY <1>8 DEF Evicted
<1>9. ASSUME NEW r \in Runs, Annotate(r) PROVE scoped' = scoped
  BY <1>9 DEF Annotate
<1>10. ASSUME NEW r \in Runs, Raise(r) PROVE scoped' = scoped
  BY <1>10 DEF Raise
<1>11. ASSUME NEW p \in Operators, Command(p) PROVE scoped' = scoped
  BY <1>11 DEF Command
<1>12. ASSUME NEW p \in Operators, ScanOrg(p) PROVE scoped' = scoped
  BY <1>12 DEF ScanOrg
<1>13. ASSUME NEW p \in Operators, ScanEntry(p) PROVE scoped' = scoped
  BY <1>13 DEF ScanEntry
<1>14. ASSUME NEW p \in Operators, ScanNext(p) PROVE scoped' = scoped
  BY <1>14 DEF ScanNext
<1>15. ASSUME NEW p \in Operators, Scanned(p) PROVE scoped' = scoped
  BY <1>15 DEF Scanned
<1>16. ASSUME NEW p \in Operators, Approve(p) PROVE scoped' = scoped
  BY <1>16 DEF Approve
<1>17. ASSUME NEW p \in Operators, Publish(p) PROVE scoped' = scoped
  BY <1>17 DEF Publish
<1>18. ASSUME NEW p \in Operators, MarkApproved(p) PROVE scoped' = scoped
  BY <1>18 DEF MarkApproved
<1>19. ASSUME NEW p \in Operators, Reject(p) PROVE scoped' = scoped
  BY <1>19 DEF Reject
<1>20. ASSUME NEW p \in Operators, MarkRejected(p) PROVE scoped' = scoped
  BY <1>20 DEF MarkRejected
<1>21. ASSUME NEW p \in Operators, NoCandidate(p) PROVE scoped' = scoped
  BY <1>21 DEF NoCandidate
<1>22. ASSUME NEW p \in Operators, Drop(p) PROVE scoped' = scoped
  BY <1>22 DEF Drop
<1>23. ASSUME NEW p \in Operators, ListCandidates(p) PROVE scoped' = scoped
  BY <1>23 DEF ListCandidates
<1>24. ASSUME NEW p \in Operators, Withdraw(p) PROVE scoped' = scoped
  BY <1>24 DEF Withdraw
<1>25. ASSUME NEW p \in Operators, Forgot(p) PROVE scoped' = scoped
  BY <1>25 DEF Forgot
<1>26. CASE UNCHANGED vars
  BY <1>26 DEF vars
<1>27. QED
  BY <1>1, <1>2, <1>3, <1>4, <1>5, <1>6, <1>7, <1>8, <1>9, <1>10, <1>11, <1>12, <1>13, <1>14, <1>15, <1>16, <1>17, <1>18, <1>19, <1>20, <1>21, <1>22, <1>23, <1>24, <1>25, <1>26 DEF Next, Ingest, Run, Operate

LEMMA LockStep == OneHome /\ TypeOK /\ StepInv /\ LockInv /\ [Next]_vars => LockInv'
<1> SUFFICES ASSUME OneHome, TypeOK, StepInv, LockInv, [Next]_vars PROVE LockInv'
  OBVIOUS
<1> SUFFICES ASSUME ~scoped PROVE LockInv'
  BY ScopedStays DEF LockInv
<1>0. /\ \A p \in Operators : pc[p] = "idle"
      /\ \A r \in Runs : In(r) = Main /\ Reachable(r) /\ LockFile(r) = MainFile /\ MainFile \in LockFiles
      /\ Main \in Collections
  BY LessonsAssumption, TheMainFile DEF LessonsAssumption, StepInv, In, Reachable, Collections
<1> USE <1>0, LessonsAssumption DEF LessonsAssumption, TypeOK, LockInv, Procs
<1>1. ASSUME NEW p \in Procs, Find(p) PROVE LockInv'
  BY <1>1 DEF Find
<1>2. ASSUME NEW p \in Procs, Upsert(p) PROVE LockInv'
  BY <1>2 DEF Upsert, After
<1>3. ASSUME NEW p \in Procs, DeleteOld(p) PROVE LockInv'
  BY <1>3 DEF DeleteOld, After
<1>4. ASSUME NEW p \in Procs, Die(p) PROVE LockInv'
  BY <1>4 DEF Die
<1>5. ASSUME NEW r \in Runs, Mine(r) PROVE LockInv'
  BY <1>5 DEF Mine
<1>6. ASSUME NEW r \in Runs, Evict(r) PROVE LockInv'
  BY <1>6 DEF Evict
<1>7. ASSUME NEW r \in Runs, EvictOne(r) PROVE LockInv'
  BY <1>7 DEF EvictOne
<1>8. ASSUME NEW r \in Runs, Evicted(r) PROVE LockInv'
  BY <1>8 DEF Evicted, After
<1>9. ASSUME NEW r \in Runs, Annotate(r) PROVE LockInv'
  BY <1>9 DEF Annotate
<1>10. ASSUME NEW r \in Runs, Raise(r) PROVE LockInv'
  BY <1>10 DEF Raise
<1>11. ASSUME NEW p \in Operators, Command(p) PROVE LockInv'
  BY <1>11 DEF Command
<1>12. ASSUME NEW p \in Operators, ScanOrg(p) PROVE LockInv'
  BY <1>12 DEF ScanOrg
<1>13. ASSUME NEW p \in Operators, ScanEntry(p) PROVE LockInv'
  BY <1>13 DEF ScanEntry
<1>14. ASSUME NEW p \in Operators, ScanNext(p) PROVE LockInv'
  BY <1>14 DEF ScanNext
<1>15. ASSUME NEW p \in Operators, Scanned(p) PROVE LockInv'
  BY <1>15 DEF Scanned
<1>16. ASSUME NEW p \in Operators, Approve(p) PROVE LockInv'
  BY <1>16 DEF Approve
<1>17. ASSUME NEW p \in Operators, Publish(p) PROVE LockInv'
  BY <1>17 DEF Publish
<1>18. ASSUME NEW p \in Operators, MarkApproved(p) PROVE LockInv'
  BY <1>18 DEF MarkApproved
<1>19. ASSUME NEW p \in Operators, Reject(p) PROVE LockInv'
  BY <1>19 DEF Reject
<1>20. ASSUME NEW p \in Operators, MarkRejected(p) PROVE LockInv'
  BY <1>20 DEF MarkRejected
<1>21. ASSUME NEW p \in Operators, NoCandidate(p) PROVE LockInv'
  BY <1>21 DEF NoCandidate
<1>22. ASSUME NEW p \in Operators, Drop(p) PROVE LockInv'
  BY <1>22 DEF Drop
<1>23. ASSUME NEW p \in Operators, ListCandidates(p) PROVE LockInv'
  BY <1>23 DEF ListCandidates
<1>24. ASSUME NEW p \in Operators, Withdraw(p) PROVE LockInv'
  BY <1>24 DEF Withdraw
<1>25. ASSUME NEW p \in Operators, Forgot(p) PROVE LockInv'
  BY <1>25 DEF Forgot
<1>26. CASE UNCHANGED vars
  BY <1>26 DEF vars
<1>27. QED
  BY <1>1, <1>2, <1>3, <1>4, <1>5, <1>6, <1>7, <1>8, <1>9, <1>10, <1>11, <1>12, <1>13, <1>14, <1>15, <1>16, <1>17, <1>18, <1>19, <1>20, <1>21, <1>22, <1>23, <1>24, <1>25, <1>26 DEF Next, Ingest, Run, Operate

LEMMA MergeStep == OneHome /\ TypeOK /\ StepInv /\ HandInv /\ LockInv /\ MergeInv /\ [Next]_vars => MergeInv'
<1> SUFFICES ASSUME OneHome, TypeOK, StepInv, HandInv, LockInv, MergeInv, [Next]_vars PROVE MergeInv'
  OBVIOUS
<1> SUFFICES ASSUME ~scoped PROVE MergeInv'
  BY ScopedStays DEF MergeInv
<1>0. /\ \A p \in Operators : pc[p] = "idle"
      /\ \A r \in Runs : In(r) = Main /\ Reachable(r) /\ LockFile(r) = MainFile /\ MainFile \in LockFiles
      /\ Main \in Collections /\ Nobody \notin Procs /\ Runs \subseteq Procs
      /\ Runs \cap Orgs = {} /\ Runs \cap Operators = {}
      /\ \A p \in Runs : pc[p] \in {"upsert", "delete"} <=> lock[MainFile] = p
  BY LessonsAssumption, TheMainFile DEF LessonsAssumption, StepInv, In, Reachable, Collections, LockInv, Procs
<1> USE <1>0 DEF TypeOK, MergeInv, FreeInv, UpsertInv, DeleteInv, KeptInv, Shared, Procs
<1>1. ASSUME NEW p \in Procs, Find(p) PROVE MergeInv'
  <2>1. /\ p \in Runs /\ lock[MainFile] = Nobody /\ pc[p] = "find" /\ pc' = [pc EXCEPT ![p] = "upsert"]
        /\ lock' = [lock EXCEPT ![MainFile] = p] /\ UNCHANGED <<coll, old, kept, torn>>
    BY <1>1 DEF Find
  <2>2. hand' = [hand EXCEPT ![p] = hand'[p]] /\ (Shared # {} => hand'[p] \in Shared)
    BY <1>1, <2>1 DEF Find, Found
  <2>3. \A q \in Runs : pc[q] \notin {"upsert", "delete"}
    BY <2>1
  <2>4. QED
    BY <2>1, <2>2, <2>3
<1>2. ASSUME NEW p \in Procs, Upsert(p) PROVE MergeInv'
  <2> DEFINE e == Ingested(p)
             upgraded == hand[p] # None /\ e.text # hand[p].text
  <2>1. /\ p \in Runs /\ pc[p] = "upsert" /\ coll' = [coll EXCEPT ![Main] = Put(Main, e)]
        /\ hand' = [hand EXCEPT ![p] = e] /\ kept' = kept \cup {p}
        /\ IF upgraded THEN old' = [old EXCEPT ![p] = hand[p].text] /\ UNCHANGED lock
                       ELSE lock' = [lock EXCEPT ![MainFile] = Nobody] /\ UNCHANGED old
        /\ pc' = [pc EXCEPT ![p] = pc'[p]]
        /\ torn' = torn
    <3>1. p \in Runs
      BY <1>2 DEF Upsert
    <3>2. In(p) = Main /\ {p} \cap Runs = {p}
      BY <3>1
    <3>3. QED
      BY <1>2, <3>1, <3>2 DEF Upsert
  <2>0. pc'[p] \in {"delete", "evict", "idle"} /\ (pc'[p] = "delete" <=> upgraded)
    BY <1>2, <2>1 DEF Upsert, After
  <2>2. /\ e \in Entries
        /\ e.sources = (IF hand[p] = None THEN {} ELSE hand[p].sources) \cup {p}
    BY <1>2, <2>1, IngestedType DEF Source
  <2> HIDE DEF e
  <2>3. SUFFICES ASSUME ~torn PROVE FreeInv' /\ UpsertInv' /\ DeleteInv' /\ KeptInv'
    BY <2>1
  <2>4. /\ lock[MainFile] = p /\ \A q \in Runs \ {p} : pc[q] \notin {"upsert", "delete"}
        /\ hand[p] = None => Shared = {}
        /\ Shared \subseteq {hand[p]}
    BY <2>1, <2>3, NoneAssumption
  <2>5. Shared' = (IF upgraded THEN Shared ELSE {}) \cup {e}
    BY <2>1, <2>4 DEF Put
  <2>6. \A r \in kept' : r \in e.sources
    BY <2>1, <2>2, <2>3, <2>4
  <2>7. FreeInv' /\ KeptInv'
    BY <2>0, <2>1, <2>4, <2>5, <2>6
  <2>8. UpsertInv'
    BY <2>0, <2>1, <2>4
  <2>9. DeleteInv'
    BY <2>0, <2>1, <2>4, <2>5, <2>6
  <2>10. QED
    BY <2>7, <2>8, <2>9
<1>3. ASSUME NEW p \in Procs, DeleteOld(p) PROVE MergeInv'
  <2>1. /\ p \in Runs /\ pc[p] = "delete" /\ coll' = [coll EXCEPT ![Main] = Without(Main, old[p])]
        /\ pc' = [pc EXCEPT ![p] = "idle"] /\ lock' = [lock EXCEPT ![MainFile] = Nobody]
        /\ UNCHANGED <<hand, old, kept, torn>>
    BY <1>3 DEF DeleteOld, After
  <2>2. SUFFICES ASSUME ~torn PROVE FreeInv' /\ UpsertInv' /\ DeleteInv' /\ KeptInv'
    BY <2>1
  <2>3. \A q \in Runs \ {p} : pc[q] \notin {"upsert", "delete"}
    BY <2>1
  <2>4. Shared' \subseteq {hand[p]} /\ (kept # {} => hand[p] \in Shared')
    BY <2>1, <2>2 DEF Without
  <2>5. QED
    BY <2>1, <2>2, <2>3, <2>4
<1>4. ASSUME NEW p \in Procs, Die(p) PROVE MergeInv'
  <2>1. /\ pc[p] # "idle" /\ p \in Runs /\ pc' = [pc EXCEPT ![p] = "idle"] /\ UNCHANGED <<coll, kept>>
        /\ \A q \in Runs \ {p} : hand'[q] = hand[q] /\ old'[q] = old[q]
        /\ lock'[MainFile] = IF lock[MainFile] = p THEN Nobody ELSE lock[MainFile]
        /\ torn' = (torn \/ pc[p] = "delete")
    BY <1>4 DEF Die
  <2>2. SUFFICES ASSUME ~torn' PROVE FreeInv' /\ UpsertInv' /\ DeleteInv' /\ KeptInv'
    OBVIOUS
  <2>3. ~torn /\ pc[p] # "delete"
    BY <2>1, <2>2
  <2>4. FreeInv'
    BY <2>1, <2>3
  <2>5. UpsertInv' /\ DeleteInv' /\ KeptInv'
    BY <2>1, <2>3
  <2>6. QED
    BY <2>4, <2>5
<1>5. ASSUME NEW r \in Runs, Mine(r) PROVE MergeInv'
  BY <1>5 DEF Mine
<1>6. ASSUME NEW r \in Runs, Evict(r) PROVE MergeInv'
  BY <1>6 DEF Evict
<1>7. ASSUME NEW r \in Runs, EvictOne(r) PROVE MergeInv'
  <2>1. PICK e \in batch[r] :
            /\ pc[r] = "evicting" /\ pc' = [pc EXCEPT ![r] = "evicting"]
            /\ coll' = [coll EXCEPT ![Main] = Without(Main, e.text)]
            /\ kept' = kept \ UNION {f.sources : f \in {g \in coll[Main] : g.text = e.text}}
    <3>1. In(r) = Main
      OBVIOUS
    <3>2. QED
      BY ONLY <1>7, <3>1 DEF EvictOne, Goto
  <2>2. UNCHANGED <<lock, hand, old, torn>>
    BY <1>7 DEF EvictOne
  <2>3. SUFFICES ASSUME ~torn PROVE FreeInv' /\ UpsertInv' /\ DeleteInv' /\ KeptInv'
    BY <2>2
  <2>4. /\ Shared' = {f \in Shared : f.text # e.text}
        /\ kept' \subseteq kept
        /\ \A f \in Shared : f.text = e.text => \A q \in kept' : q \notin f.sources
    BY <2>1 DEF Without
  <2>5. FreeInv' /\ UpsertInv'
    BY <2>1, <2>2, <2>3, <2>4
  <2>6. KeptInv'
    BY <2>3, <2>4
  <2>7. DeleteInv'
    <3>1. SUFFICES ASSUME NEW q \in Runs, pc[q] = "delete", NEW x \in kept'
                   PROVE  hand[q] \in Shared'
      BY <2>1, <2>2, <2>3, <2>4
    <3>2. x \in kept /\ hand[q] \in Shared /\ x \in hand[q].sources
      BY <2>3, <2>4, <3>1
    <3>3. QED
      BY <2>4, <3>2
  <2>8. QED
    BY <2>5, <2>6, <2>7
<1>8. ASSUME NEW r \in Runs, Evicted(r) PROVE MergeInv'
  BY <1>8 DEF Evicted, After
<1>9. ASSUME NEW r \in Runs, Annotate(r) PROVE MergeInv'
  BY <1>9 DEF Annotate, StepInv
<1>10. ASSUME NEW r \in Runs, Raise(r) PROVE MergeInv'
  BY <1>10 DEF Raise
<1>11. ASSUME NEW p \in Operators, Command(p) PROVE MergeInv'
  BY <1>11 DEF Command
<1>12. ASSUME NEW p \in Operators, ScanOrg(p) PROVE MergeInv'
  BY <1>12 DEF ScanOrg
<1>13. ASSUME NEW p \in Operators, ScanEntry(p) PROVE MergeInv'
  BY <1>13 DEF ScanEntry
<1>14. ASSUME NEW p \in Operators, ScanNext(p) PROVE MergeInv'
  BY <1>14 DEF ScanNext
<1>15. ASSUME NEW p \in Operators, Scanned(p) PROVE MergeInv'
  BY <1>15 DEF Scanned
<1>16. ASSUME NEW p \in Operators, Approve(p) PROVE MergeInv'
  BY <1>16 DEF Approve
<1>17. ASSUME NEW p \in Operators, Publish(p) PROVE MergeInv'
  BY <1>17 DEF Publish
<1>18. ASSUME NEW p \in Operators, MarkApproved(p) PROVE MergeInv'
  BY <1>18 DEF MarkApproved
<1>19. ASSUME NEW p \in Operators, Reject(p) PROVE MergeInv'
  BY <1>19 DEF Reject
<1>20. ASSUME NEW p \in Operators, MarkRejected(p) PROVE MergeInv'
  BY <1>20 DEF MarkRejected
<1>21. ASSUME NEW p \in Operators, NoCandidate(p) PROVE MergeInv'
  BY <1>21 DEF NoCandidate
<1>22. ASSUME NEW p \in Operators, Drop(p) PROVE MergeInv'
  BY <1>22 DEF Drop
<1>23. ASSUME NEW p \in Operators, ListCandidates(p) PROVE MergeInv'
  BY <1>23 DEF ListCandidates
<1>24. ASSUME NEW p \in Operators, Withdraw(p) PROVE MergeInv'
  BY <1>24 DEF Withdraw
<1>25. ASSUME NEW p \in Operators, Forgot(p) PROVE MergeInv'
  BY <1>25 DEF Forgot
<1>26. CASE UNCHANGED vars
  BY <1>26 DEF vars
<1>27. QED
  BY <1>1, <1>2, <1>3, <1>4, <1>5, <1>6, <1>7, <1>8, <1>9, <1>10, <1>11, <1>12, <1>13, <1>14, <1>15, <1>16, <1>17, <1>18, <1>19, <1>20, <1>21, <1>22, <1>23, <1>24, <1>25, <1>26 DEF Next, Ingest, Run, Operate

\* Ingestions of any number of runs of one home into one collection, under its lock,
\* keep each other's sources, whatever an eviction deletes meanwhile and whoever dies
\* before it has written.
THEOREM MergesKept == OneHome => (Spec => []MergesAreKept)
<1> SUFFICES ASSUME OneHome PROVE Spec => []MergesAreKept
  OBVIOUS
<1>1. Init => LockInv /\ MergeInv
  BY LessonsAssumption, TheMainFile DEF LessonsAssumption, Init, LockInv, MergeInv, FreeInv, UpsertInv, DeleteInv, KeptInv, Shared,
             Collections, Procs
<1>2. TypeOK /\ StepInv /\ MergeInv => MergesAreKept
  BY LessonsAssumption DEF LessonsAssumption, TypeOK, MergeInv, KeptInv, Shared, MergesAreKept, Kept, In
<1>3. QED
  BY <1>1, <1>2, TypeInit, TypeStep, StepStep, HandStep, LockStep, MergeStep, PTL DEF Spec

(***************************************************************************)
(* With one operator, an organization that is forgotten stays out.         *)
(***************************************************************************)

OneOperator == \A p, q \in Operators : p = q

(* Nothing the operator still has to write names a forgotten organization,  *)
(* and while one is withdrawn the candidates that name it are in its list.  *)
Gone(e) == e.sources \cap forgotten = {}

OutInv == exists \cap forgotten = {} /\ \A e \in coll[Queue] : Gone(e)
CarriedInv ==
    \A p \in Operators :
        /\ pc[p] \in {"scan", "scanning", "find", "upsert", "delete"} => todo[p] \cap forgotten = {}
        /\ pc[p] \in {"scanning", "find", "upsert", "delete"} => org[p] \notin forgotten
        /\ pc[p] \in {"upsert", "publish", "approved", "rejecting"} /\ hand[p] # None => Gone(hand[p])
WithdrawInv ==
    \A p \in Operators : pc[p] = "withdrawing" =>
        /\ \A e \in batch[p] : Gone(e)
        /\ \A e \in coll[Queue] : org[p] \in e.sources => e \in batch[p]

ForgetInv == OutInv /\ CarriedInv /\ WithdrawInv

LEMMA ForgetStep == OneOperator /\ TypeOK /\ StepInv /\ HandInv /\ ForgetInv /\ [Next]_vars => ForgetInv'
<1> SUFFICES ASSUME OneOperator, TypeOK, StepInv, HandInv, ForgetInv, [Next]_vars PROVE ForgetInv'
  OBVIOUS
<1> USE LessonsAssumption, NoneAssumption, InType
    DEF LessonsAssumption, TypeOK, StepInv, RunSteps, OneOperator, ForgetInv, OutInv, CarriedInv, WithdrawInv, Gone, Procs
<1>1. ASSUME NEW p \in Procs, Find(p) PROVE ForgetInv'
  <2>1. p \in Operators => In(p) = Queue
    BY DEF In
  <2>2. hand' = [hand EXCEPT ![p] = None] \/ \E e \in coll[In(p)] : hand' = [hand EXCEPT ![p] = e]
    BY <1>1 DEF Find, Found
  <2>3. OutInv'
    BY <1>1 DEF Find
  <2>4. CarriedInv'
    BY <1>1, <2>1, <2>2 DEF Find
  <2>5. WithdrawInv'
    BY <1>1 DEF Find
  <2>6. QED
    BY <2>3, <2>4, <2>5
<1>2. ASSUME NEW p \in Procs, Upsert(p) PROVE ForgetInv'
  <2>1. /\ coll' = [coll EXCEPT ![In(p)] = Put(In(p), Ingested(p))]
        /\ hand' = [hand EXCEPT ![p] = Ingested(p)]
        /\ pc[p] = "upsert" /\ pc' = [pc EXCEPT ![p] = pc'[p]]
        /\ p \in Operators => pc'[p] \in {"delete", "scanning"}
        /\ UNCHANGED <<exists, org, todo, batch, forgotten>>
    BY <1>2 DEF Upsert, After
  <2>2. /\ In(p) \in Collections /\ Queue \in Collections
        /\ p \in Runs => In(p) # Queue
        /\ p \in Operators => In(p) = Queue
    BY DEF In, Collections
  <2>3. p \in Operators => Gone(Ingested(p))
    <3>1. SUFFICES ASSUME p \in Operators PROVE Gone(Ingested(p))
      OBVIOUS
    <3>2. /\ Source(p) \notin forgotten
          /\ hand[p] # None => Gone(hand[p])
      BY <2>1, <3>1 DEF Source
    <3>3. QED
      BY <2>1, <3>2, IngestedType
  <2>4. p \in Operators => \A q \in Operators : pc'[q] # "withdrawing"
    BY <2>1
  <2>5. OutInv'
    BY <2>1, <2>2, <2>3 DEF Put
  <2>6. CarriedInv'
    BY <2>1, <2>3
  <2>7. WithdrawInv'
    BY <2>1, <2>2, <2>4
  <2>8. QED
    BY <2>5, <2>6, <2>7
<1>3. ASSUME NEW p \in Procs, DeleteOld(p) PROVE ForgetInv'
  <2>1. /\ coll' = [coll EXCEPT ![In(p)] = Without(In(p), old[p])]
        /\ pc[p] = "delete" /\ pc' = [pc EXCEPT ![p] = pc'[p]]
        /\ p \in Operators => pc'[p] = "scanning"
        /\ UNCHANGED <<hand, exists, org, todo, batch, forgotten>>
    BY <1>3 DEF DeleteOld, After
  <2>2. coll'[Queue] \subseteq coll[Queue]
    BY <2>1 DEF Without, Collections
  <2>3. OutInv'
    BY <2>1, <2>2
  <2>4. CarriedInv'
    BY <2>1
  <2>5. WithdrawInv'
    BY <2>1, <2>2
  <2>6. QED
    BY <2>3, <2>4, <2>5
<1>4. ASSUME NEW p \in Procs, Die(p) PROVE ForgetInv'
  BY <1>4 DEF Die
<1>5. ASSUME NEW r \in Runs, Mine(r) PROVE ForgetInv'
  BY <1>5 DEF Mine
<1>6. ASSUME NEW r \in Runs, Evict(r) PROVE ForgetInv'
  BY <1>6 DEF Evict
<1>7. ASSUME NEW r \in Runs, EvictOne(r) PROVE ForgetInv'
  BY <1>7 DEF EvictOne
<1>8. ASSUME NEW r \in Runs, Evicted(r) PROVE ForgetInv'
  BY <1>8 DEF Evicted, After
<1>9. ASSUME NEW r \in Runs, Annotate(r) PROVE ForgetInv'
  BY <1>9 DEF Annotate
<1>10. ASSUME NEW r \in Runs, Raise(r) PROVE ForgetInv'
  BY <1>10 DEF Raise
<1>11. ASSUME NEW p \in Operators, Command(p) PROVE ForgetInv'
  BY <1>11 DEF Command
<1>12. ASSUME NEW p \in Operators, ScanOrg(p) PROVE ForgetInv'
  BY <1>12 DEF ScanOrg
<1>13. ASSUME NEW p \in Operators, ScanEntry(p) PROVE ForgetInv'
  BY <1>13 DEF ScanEntry
<1>14. ASSUME NEW p \in Operators, ScanNext(p) PROVE ForgetInv'
  BY <1>14 DEF ScanNext
<1>15. ASSUME NEW p \in Operators, Scanned(p) PROVE ForgetInv'
  BY <1>15 DEF Scanned
<1>16. ASSUME NEW p \in Operators, Approve(p) PROVE ForgetInv'
  BY <1>16 DEF Approve
<1>17. ASSUME NEW p \in Operators, Publish(p) PROVE ForgetInv'
  BY <1>17 DEF Publish
<1>18. ASSUME NEW p \in Operators, MarkApproved(p) PROVE ForgetInv'
  <2>1. Gone([hand[p] EXCEPT !.status = "approved"])
    <3>1. hand[p] \in Entries /\ Gone(hand[p])
      BY <1>18 DEF MarkApproved, HandInv, Holding
    <3>2. QED
      BY <3>1 DEF Entries
  <2>2. Queue \in Collections /\ \A q \in Operators : pc'[q] = "idle"
    BY <1>18 DEF MarkApproved, Collections
  <2>3. OutInv'
    <3>1. ASSUME NEW e, Gone(e), coll' = [coll EXCEPT ![Queue] = Put(Queue, e)], UNCHANGED <<exists, forgotten>>
          PROVE  OutInv'
      BY <2>2, <3>1 DEF Put
    <3>2. /\ coll' = [coll EXCEPT ![Queue] = Put(Queue, [hand[p] EXCEPT !.status = "approved"])]
          /\ UNCHANGED <<exists, forgotten>>
      BY <1>18 DEF MarkApproved
    <3>3. QED
      BY ONLY <2>1, <3>1, <3>2
  <2>4. CarriedInv'
    BY <2>2
  <2>5. WithdrawInv'
    BY <2>2
  <2>6. QED
    BY <2>3, <2>4, <2>5
<1>19. ASSUME NEW p \in Operators, Reject(p) PROVE ForgetInv'
  BY <1>19 DEF Reject
<1>20. ASSUME NEW p \in Operators, MarkRejected(p) PROVE ForgetInv'
  <2>1. Gone([hand[p] EXCEPT !.status = "rejected"])
    <3>1. hand[p] \in Entries /\ Gone(hand[p])
      BY <1>20 DEF MarkRejected, HandInv, Holding
    <3>2. QED
      BY <3>1 DEF Entries
  <2>2. Queue \in Collections /\ \A q \in Operators : pc'[q] = "idle"
    BY <1>20 DEF MarkRejected, Collections
  <2>3. OutInv'
    <3>1. ASSUME NEW e, Gone(e), coll' = [coll EXCEPT ![Queue] = Put(Queue, e)], UNCHANGED <<exists, forgotten>>
          PROVE  OutInv'
      BY <2>2, <3>1 DEF Put
    <3>2. /\ coll' = [coll EXCEPT ![Queue] = Put(Queue, [hand[p] EXCEPT !.status = "rejected"])]
          /\ UNCHANGED <<exists, forgotten>>
      BY <1>20 DEF MarkRejected
    <3>3. QED
      BY ONLY <2>1, <3>1, <3>2
  <2>4. CarriedInv'
    BY <2>2
  <2>5. WithdrawInv'
    BY <2>2
  <2>6. QED
    BY <2>3, <2>4, <2>5
<1>21. ASSUME NEW p \in Operators, NoCandidate(p) PROVE ForgetInv'
  BY <1>21 DEF NoCandidate
<1>22. ASSUME NEW p \in Operators, Drop(p) PROVE ForgetInv'
  BY <1>22 DEF Drop
<1>23. ASSUME NEW p \in Operators, ListCandidates(p) PROVE ForgetInv'
  BY <1>23 DEF ListCandidates
<1>24. ASSUME NEW p \in Operators, Withdraw(p) PROVE ForgetInv'
  <2>1. PICK e \in batch[p] :
            /\ batch' = [batch EXCEPT ![p] = @ \ {e}]
            /\ pc[p] = "withdrawing" /\ pc' = [pc EXCEPT ![p] = "withdrawing"]
            /\ coll' \in {[coll EXCEPT ![Queue] = Without(Queue, e.text)],
                          [coll EXCEPT ![Queue] = Put(Queue, [e EXCEPT !.sources = @ \ {org[p]}])]}
    BY <1>24 DEF Withdraw
  <2>2. UNCHANGED <<exists, hand, org, todo, forgotten>> /\ Queue \in Collections
    BY <1>24 DEF Withdraw, Collections
  <2>3. /\ Gone([e EXCEPT !.sources = @ \ {org[p]}])
        /\ org[p] \notin [e EXCEPT !.sources = @ \ {org[p]}].sources
        /\ [e EXCEPT !.sources = @ \ {org[p]}].text = e.text
    <3>1. e \in Entries /\ Gone(e)
      BY <2>1
    <3>2. QED
      BY <3>1 DEF Entries
  <2>4. \A f \in coll'[Queue] : (f \in coll[Queue] /\ f # e) \/ (Gone(f) /\ org[p] \notin f.sources)
    <3>1. CASE coll' = [coll EXCEPT ![Queue] = Without(Queue, e.text)]
      BY <2>2, <3>1 DEF Without
    <3>2. ASSUME NEW rest, Gone(rest), org[p] \notin rest.sources, rest.text = e.text,
                 coll' = [coll EXCEPT ![Queue] = Put(Queue, rest)]
          PROVE  \A f \in coll'[Queue] : (f \in coll[Queue] /\ f # e) \/ (Gone(f) /\ org[p] \notin f.sources)
      BY <2>2, <3>2 DEF Put
    <3>3. CASE coll' = [coll EXCEPT ![Queue] = Put(Queue, [e EXCEPT !.sources = @ \ {org[p]}])]
      BY ONLY <2>3, <3>2, <3>3
    <3>4. QED
      BY ONLY <2>1, <3>1, <3>3
  <2>5. OutInv'
    BY <2>2, <2>4
  <2>6. CarriedInv'
    BY <2>1, <2>2
  <2>7. WithdrawInv'
    BY <2>1, <2>2, <2>4
  <2>8. QED
    BY <2>5, <2>6, <2>7
<1>25. ASSUME NEW p \in Operators, Forgot(p) PROVE ForgetInv'
  BY <1>25 DEF Forgot
<1>26. CASE UNCHANGED vars
  BY <1>26 DEF vars
<1>27. QED
  BY <1>1, <1>2, <1>3, <1>4, <1>5, <1>6, <1>7, <1>8, <1>9, <1>10, <1>11, <1>12, <1>13, <1>14, <1>15, <1>16, <1>17, <1>18, <1>19, <1>20, <1>21, <1>22, <1>23, <1>24, <1>25, <1>26 DEF Next, Ingest, Run, Operate

\* An organization that one operator has forgotten is no source of any candidate and
\* comes back with a run of its own only: for any number of runs and organizations,
\* and commands that die half way.
THEOREM ForgottenOut == OneOperator => (Spec => []ForgottenStaysOut)
<1> SUFFICES ASSUME OneOperator PROVE Spec => []ForgottenStaysOut
  OBVIOUS
<1>1. Init => ForgetInv
  BY LessonsAssumption DEF LessonsAssumption, Init, ForgetInv, OutInv, CarriedInv, WithdrawInv, Gone, Collections, Procs
<1>2. TypeOK /\ StepInv /\ HandInv /\ ForgetInv /\ [Next]_vars => ForgetInv'
  BY ForgetStep
<1>3. ForgetInv => ForgottenStaysOut
  BY DEF ForgetInv, OutInv, Gone, ForgottenStaysOut
<1>4. QED
  BY <1>1, <1>2, <1>3, TypeInit, TypeStep, StepStep, HandStep, PTL DEF Spec
=============================================================================
