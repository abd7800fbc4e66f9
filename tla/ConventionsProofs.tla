------------------------- MODULE ConventionsProofs -------------------------
(***************************************************************************)
(* For any number of passes, processes, records and entries: the quota is  *)
(* overrun by one convention for each process, and a key that is served    *)
(* stays served while its convention is replaced.                          *)
(***************************************************************************)
EXTENDS Conventions, FiniteSetTheorems, TLAPS

(* What a pass holds where it stands.  No candidate has been lengthened.    *)
StandingInv ==
    \A p \in Passes :
        /\ now[p] <= clock
        /\ pc[p] \in {"lock", "drop", "write", "delete", "annotate"} => hand[p] # None
        /\ pc[p] \in {"drop", "write", "delete"} => lock[process[p]] = p
        /\ pc[p] = "delete" => target[p] # None
        /\ pc[p] \in Merging => found[p] # None
        /\ pc[p] = "stamp" => into[p] # None
        /\ hand[p] # None => hand[p].text = None

LEMMA Judged ==
  ASSUME TypeOK, NEW r \in Records, ingests < MaxIngests
  PROVE  LET c == Candidate(r)
             h == IF Expired(c, clock) THEN [c EXCEPT !.active = FALSE] ELSE c
         IN  /\ h \in Entries /\ h # None /\ h.text = None
             /\ ~Dated => h.born = ingests
             /\ ~Dated /\ h.active => h.until = clock + TTL
<1> USE ConventionsAssumption, NoEntry DEF ConventionsAssumption, TypeOK
<1> DEFINE c == Candidate(r)
<1>1. c.active \in BOOLEAN /\ c.rec \in Records
  BY DEF Candidate, Admissible, Entries
<1>2. c.born \in 0 .. MaxIngests /\ (~Dated => c.born = ingests)
  BY DEF Candidate
<1>3. c.until \in Times \cup {None} /\ (~Dated /\ c.active => c.until = clock + TTL)
  BY DEF Candidate, Times
<1>4. c = [rec |-> c.rec, born |-> c.born, until |-> c.until, text |-> None, active |-> c.active]
      /\ c.text = None
  BY DEF Candidate
<1>5. c \in Entries
  BY <1>1, <1>2, <1>3, <1>4 DEF Entries
<1> HIDE DEF c
<1>6. [c EXCEPT !.active = FALSE] \in Entries
  BY <1>5 DEF Entries
<1>7. /\ [c EXCEPT !.active = FALSE].born = c.born
      /\ [c EXCEPT !.active = FALSE].active = FALSE
      /\ [c EXCEPT !.active = FALSE].text = c.text
  BY <1>5 DEF Entries
<1>8. QED
  BY <1>2, <1>3, <1>4, <1>5, <1>6, <1>7 DEF c

(* The target is one of the entries that match.                             *)
LEMMA TargetMatches ==
  ASSUME NEW p \in Passes, Target(p) # None
  PROVE  Target(p) \in Matches(p)
<1>1. Cardinality(Matches(p)) = 1 /\ Target(p) = CHOOSE e \in Matches(p) : TRUE
  BY DEF Target
<1>2. Matches(p) # {}
  BY <1>1, FS_EmptySet
<1>3. QED
  BY <1>1, <1>2

(* What an ingestion leaves in the hand of its pass.                        *)
LEMMA LeaveTypes ==
  ASSUME TypeOK, NEW p \in Passes, Leave(p)
  PROVE  /\ lock' = [lock EXCEPT ![process[p]] = Nobody] /\ target' = [target EXCEPT ![p] = None]
         /\ now' = [now EXCEPT ![p] = 0]
         /\ \/ hand' = hand /\ After(p) = "annotate"
            \/ hand' = [hand EXCEPT ![p] = None] /\ After(p) = "idle"
BY DEF Leave, Unlock, Becomes, After

(* What a lesson makes of an entry is an entry of the same record.          *)
LEMMA MergedTypes ==
  ASSUME NEW e \in Entries, NEW m \in Merged(e), m # None
  PROVE  m \in Entries /\ m.rec = e.rec /\ m.born = e.born /\ m.until = e.until
<1>1. ASSUME NEW w \in Worded(e) PROVE w \in Entries /\ w.rec = e.rec /\ w.born = e.born /\ w.until = e.until
  BY <1>1 DEF Worded, Entries
<1>2. CASE m \in Worded(e)
  BY <1>1, <1>2
<1>3. ASSUME NEW w \in Worded(e), m = [w EXCEPT !.active = TRUE]
      PROVE  m \in Entries /\ m.rec = e.rec /\ m.born = e.born /\ m.until = e.until
  BY <1>1, <1>3 DEF Entries
<1>4. QED
  BY <1>2, <1>3 DEF Merged

(* The state of a merge stays in its type.                                  *)
LEMMA ForgetTypes ==
  ASSUME TypeOK, NEW p \in Passes, Forget(p)
  PROVE  /\ found' \in [Passes -> Entries \cup {None}] /\ into' \in [Passes -> Entries \cup {None}]
         /\ found' = [found EXCEPT ![p] = None]
         /\ \/ into' = into /\ AfterMerge(p) = "stamp" /\ into[p] # None
            \/ into' = [into EXCEPT ![p] = None] /\ AfterMerge(p) = "idle"
<1>1. found' = [found EXCEPT ![p] = None]
  BY DEF Forget, Becomes
<1>2. \/ into' = into /\ AfterMerge(p) = "stamp" /\ into[p] # None
      \/ into' = [into EXCEPT ![p] = None] /\ AfterMerge(p) = "idle"
  BY DEF Forget, Becomes, AfterMerge
<1>3. QED
  BY <1>1, <1>2 DEF TypeOK

LEMMA TypeStep == TypeOK /\ StandingInv /\ [Next]_vars => TypeOK'
<1> SUFFICES ASSUME TypeOK, StandingInv, [Next]_vars PROVE TypeOK'
  OBVIOUS
<1> USE ConventionsAssumption, NoEntry DEF ConventionsAssumption, TypeOK, Becomes, Goto, merge
<1>0. 0 \in 0 .. MaxTime
  OBVIOUS
<1>1. ASSUME NEW p \in Passes, NEW r \in Records, Judge(p, r) PROVE TypeOK'
  <2>1. PICK h \in Entries : hand' = [hand EXCEPT ![p] = h]
    BY <1>1, Judged DEF Judge
  <2>2. pc' = [pc EXCEPT ![p] = "lock"] /\ now' = [now EXCEPT ![p] = clock] /\ ingests' \in 0 .. MaxIngests
    BY <1>1 DEF Judge
  <2>3. UNCHANGED <<process, store, touched, clock, lock, listed, todo, target, back, merge>>
    BY <1>1 DEF Judge
  <2>4. QED
    BY <2>1, <2>2, <2>3 DEF Steps
<1>2. ASSUME NEW p \in Passes, Enter(p) PROVE TypeOK'
  <2>1. PICK gone \in SUBSET store : todo' = [todo EXCEPT ![p] = gone] /\ listed' = [listed EXCEPT ![p] = store \ gone]
    BY <1>2 DEF Enter
  <2>2. pc' = [pc EXCEPT ![p] = "drop"] /\ lock' = [lock EXCEPT ![process[p]] = p]
        /\ UNCHANGED <<process, store, touched, clock, hand, now, target, ingests, back, merge>>
    BY <1>2 DEF Enter
  <2>3. gone \in SUBSET Entries /\ store \ gone \in SUBSET Entries
    BY <2>1
  <2>4. todo' \in [Passes -> SUBSET Entries] /\ listed' \in [Passes -> SUBSET Entries]
    BY <2>1, <2>3
  <2>5. QED
    BY <2>2, <2>4 DEF Steps
<1>3. ASSUME NEW p \in Passes, DropOne(p) PROVE TypeOK'
  <2>1. PICK e \in todo[p] :
          /\ store' = Without(e) /\ todo' = [todo EXCEPT ![p] = todo[p] \ {e}]
          /\ touched' = touched \cup
                {f.rec.key : f \in {g \in ActiveAt(store, clock) : pc[p] = "evict" /\ Id(g) = Id(e)}}
    BY <1>3 DEF DropOne
  <2>2. UNCHANGED <<process, clock, lock, pc, hand, now, listed, target, ingests, back, merge>>
    BY <1>3 DEF DropOne
  <2>3. \A f \in store : f.rec.key \in Keys
    BY DEF Entries
  <2>4. touched' \subseteq Keys
    BY <2>1, <2>3 DEF ActiveAt
  <2>5. todo[p] \ {e} \in SUBSET Entries
    OBVIOUS
  <2>6. todo' \in [Passes -> SUBSET Entries]
    BY <2>1, <2>5
  <2>7. store' \subseteq Entries
    BY <2>1 DEF Without
  <2>8. QED
    BY <2>2, <2>4, <2>6, <2>7
<1>4. ASSUME NEW p \in Passes, Admit(p) PROVE TypeOK'
  <2>1. hand[p] \in Entries
    BY <1>4 DEF Admit, StandingInv
  <2>2. PICK ok \in BOOLEAN : hand' = [hand EXCEPT ![p] = [hand[p] EXCEPT !.active = ok]]
    BY <1>4 DEF Admit
  <2>3. [hand[p] EXCEPT !.active = ok] \in Entries
    BY <2>1 DEF Entries
  <2>4. Target(p) \in Entries \cup {None}
    BY TargetMatches DEF Matches, ActiveAt
  <2>5. target' \in [Passes -> Entries \cup {None}]
    BY <1>4, <2>4 DEF Admit
  <2>6. pc' = [pc EXCEPT ![p] = "write"] /\ listed' = [listed EXCEPT ![p] = {}]
        /\ UNCHANGED <<process, store, touched, clock, lock, now, todo, ingests, back, merge>>
    BY <1>4 DEF Admit
  <2>7. hand' \in [Passes -> Entries \cup {None}]
    BY <2>2, <2>3
  <2>8. listed' \in [Passes -> SUBSET Entries]
    BY <2>6
  <2>9. QED
    BY <2>5, <2>6, <2>7, <2>8 DEF Steps
<1>5. ASSUME NEW p \in Passes, Leave(p)
      PROVE  /\ lock' \in [Processes -> Passes \cup {Nobody}] /\ target' \in [Passes -> Entries \cup {None}]
             /\ now' \in [Passes -> 0 .. MaxTime] /\ hand' \in [Passes -> Entries \cup {None}]
  BY <1>0, <1>5, LeaveTypes
<1>6. ASSUME NEW p \in Passes, Write(p) PROVE TypeOK'
  <2>1. hand[p] \in Entries
    BY <1>6 DEF Write, StandingInv
  <2>2. store' \subseteq Entries
    BY <1>6, <2>1 DEF Write, Put
  <2>3. Leave(p) \/ UNCHANGED <<lock, target, now, hand>>
    BY <1>6 DEF Write
  <2>4. pc' \in [Passes -> Steps]
    BY <1>6 DEF Write, After, Steps
  <2>5. UNCHANGED <<process, clock, listed, todo, merge, ingests, touched, back>>
    BY <1>6 DEF Write
  <2>6. QED
    BY <1>5, <2>2, <2>3, <2>4, <2>5
<1>7. ASSUME NEW p \in Passes, DeleteTarget(p) PROVE TypeOK'
  <2>1. store' \subseteq Entries /\ Leave(p)
    BY <1>7 DEF DeleteTarget, Without
  <2>2. pc' \in [Passes -> Steps]
    BY <1>7 DEF DeleteTarget, After, Steps
  <2>3. UNCHANGED <<process, clock, listed, todo, merge, ingests, touched, back>>
    BY <1>7 DEF DeleteTarget
  <2>4. QED
    BY <1>5, <2>1, <2>2, <2>3
<1>8. ASSUME NEW p \in Passes, Annotate(p) PROVE TypeOK'
  <2>1. hand[p] \in Entries
    BY <1>8 DEF Annotate, StandingInv
  <2>2. store' \subseteq Entries
    BY <1>8, <2>1 DEF Annotate, Put
  <2>3. pc' = [pc EXCEPT ![p] = "idle"] /\ hand' = [hand EXCEPT ![p] = None] /\ back' \in BOOLEAN
        /\ UNCHANGED <<process, clock, lock, now, listed, todo, target, merge, ingests, touched>>
    BY <1>8 DEF Annotate
  <2>4. QED
    BY <2>2, <2>3 DEF Steps
<1>9. ASSUME NEW p \in Passes, Lesson(p) PROVE TypeOK'
  <2>1. PICK victims \in SUBSET store : todo' = [todo EXCEPT ![p] = victims]
    BY <1>9 DEF Lesson
  <2>2. todo' \in [Passes -> SUBSET Entries]
    BY <2>1
  <2>3. pc' = [pc EXCEPT ![p] = "evict"] /\ ingests' \in 0 .. MaxIngests
        /\ UNCHANGED <<process, store, touched, clock, lock, hand, now, listed, target, back, merge>>
    BY <1>9 DEF Lesson
  <2>4. QED
    BY <2>2, <2>3 DEF Steps
<1>10. ASSUME NEW p \in Passes, Evicted(p) PROVE TypeOK'
  BY <1>10 DEF Evicted, Steps
<1>f. ASSUME NEW p \in Passes, FindSimilar(p) PROVE TypeOK'
  <2>1. PICK e \in store : found' = [found EXCEPT ![p] = e] /\ \E m \in Merged(e) : into' = [into EXCEPT ![p] = m]
    BY <1>f DEF FindSimilar
  <2>2. e \in Entries /\ \A m \in Merged(e) : m \in Entries \cup {None}
    BY <2>1, MergedTypes
  <2>3. pc' = [pc EXCEPT ![p] = "merge"] /\ ingests' \in 0 .. MaxIngests
        /\ UNCHANGED <<process, store, clock, lock, hand, now, listed, todo, target, touched, back>>
    BY <1>f DEF FindSimilar
  <2>4. QED
    BY <2>1, <2>2, <2>3 DEF Steps, Merging
<1>w. ASSUME NEW p \in Passes, WriteMerged(p) PROVE TypeOK'
  <2>1. found[p] \in Entries
    BY <1>w DEF WriteMerged, StandingInv, Merging
  <2>2. store' \subseteq Entries /\ back' \in BOOLEAN
    BY <1>w DEF WriteMerged, Put
  <2>3. touched' \subseteq Keys
    BY <1>w, <2>1 DEF WriteMerged, Entries
  <2>4. found' \in [Passes -> Entries \cup {None}] /\ into' \in [Passes -> Entries \cup {None}]
    BY <1>w, ForgetTypes DEF WriteMerged
  <2>5. pc' \in [Passes -> Steps] /\ UNCHANGED <<process, clock, lock, hand, now, listed, todo, target, ingests>>
    BY <1>w DEF WriteMerged, AfterMerge, Steps, Merging
  <2>6. QED
    BY <2>2, <2>3, <2>4, <2>5
<1>d. ASSUME NEW p \in Passes, DeleteMoved(p) PROVE TypeOK'
  <2>1. store' \subseteq Entries /\ Forget(p)
    BY <1>d DEF DeleteMoved, Without
  <2>2. pc' \in [Passes -> Steps]
        /\ UNCHANGED <<process, clock, lock, hand, now, listed, todo, target, ingests, touched, back>>
    BY <1>d DEF DeleteMoved, AfterMerge, Steps, Merging
  <2>3. QED
    BY <2>1, <2>2, ForgetTypes
<1>s. ASSUME NEW p \in Passes, Stamp(p) PROVE TypeOK'
  <2>1. into[p] \in Entries
    BY <1>s DEF Stamp, StandingInv
  <2>2. store' \subseteq Entries /\ back' \in BOOLEAN
    BY <1>s, <2>1 DEF Stamp, Put
  <2>3. pc' = [pc EXCEPT ![p] = "idle"] /\ into' = [into EXCEPT ![p] = None]
        /\ UNCHANGED <<process, clock, lock, hand, now, listed, todo, target, found, ingests, touched>>
    BY <1>s DEF Stamp
  <2>4. QED
    BY <2>2, <2>3 DEF Steps
<1>11. ASSUME NEW p \in Passes, StoreRaises(p) PROVE TypeOK'
  BY <1>0, <1>11 DEF StoreRaises, Steps, Unlock
<1>12. ASSUME NEW o \in Processes, Die(o) PROVE TypeOK'
  BY <1>0, <1>12 DEF Die, Steps
<1>13. CASE Tick
  BY <1>13 DEF Tick
<1>14. CASE UNCHANGED vars
  BY <1>14 DEF vars
<1>15. QED
  BY <1>1, <1>2, <1>3, <1>4, <1>6, <1>7, <1>8, <1>9, <1>10, <1>f, <1>w, <1>d, <1>s, <1>11, <1>12, <1>13, <1>14
  DEF Next, Ingest, Pass

LEMMA StandingStep == TypeOK /\ StandingInv /\ [Next]_vars => StandingInv'
<1> SUFFICES ASSUME TypeOK, StandingInv, [Next]_vars PROVE StandingInv'
  OBVIOUS
<1> USE ConventionsAssumption, NoEntry DEF ConventionsAssumption, TypeOK, StandingInv, Becomes, Goto, Merging
<1>0. None \notin Entries
  OBVIOUS
<1>1. ASSUME NEW p \in Passes, NEW r \in Records, Judge(p, r) PROVE StandingInv'
  <2>1. PICK h \in Entries : hand' = [hand EXCEPT ![p] = h] /\ h.text = None
    BY <1>1, Judged DEF Judge
  <2>2. pc' = [pc EXCEPT ![p] = "lock"] /\ now' = [now EXCEPT ![p] = clock]
        /\ UNCHANGED <<process, clock, lock, target, found, into>>
    BY <1>1 DEF Judge, merge
  <2>3. QED
    BY <1>0, <2>1, <2>2
<1>2. ASSUME NEW p \in Passes, Enter(p) PROVE StandingInv'
  <2>1. pc[p] = "lock" /\ lock[process[p]] = Nobody
    BY <1>2 DEF Enter
  <2>2. pc' = [pc EXCEPT ![p] = "drop"] /\ lock' = [lock EXCEPT ![process[p]] = p]
        /\ UNCHANGED <<process, clock, hand, now, target, found, into>>
    BY <1>2 DEF Enter, merge
  <2>3. QED
    BY <2>1, <2>2
<1>3. ASSUME NEW p \in Passes, DropOne(p) PROVE StandingInv'
  BY <1>3 DEF DropOne, merge
<1>4. ASSUME NEW p \in Passes, Admit(p) PROVE StandingInv'
  <2>1. hand[p] \in Entries /\ pc[p] = "drop"
    BY <1>4 DEF Admit
  <2>2. PICK ok \in BOOLEAN : hand' = [hand EXCEPT ![p] = [hand[p] EXCEPT !.active = ok]]
    BY <1>4 DEF Admit
  <2>3. [hand[p] EXCEPT !.active = ok] \in Entries /\ [hand[p] EXCEPT !.active = ok].text = None
    BY <2>1 DEF Entries
  <2>4. pc' = [pc EXCEPT ![p] = "write"] /\ UNCHANGED <<process, clock, lock, now, found, into>>
        /\ \A q \in Passes : q # p => target'[q] = target[q]
    BY <1>4 DEF Admit, merge
  <2>5. QED
    BY <1>0, <2>1, <2>2, <2>3, <2>4
<1>5. ASSUME NEW p \in Passes, Leave(p), pc[p] \in {"write", "delete"},
             pc' = [pc EXCEPT ![p] = After(p)], UNCHANGED <<process, clock, found, into>>
      PROVE  StandingInv'
  <2>1. lock[process[p]] = p /\ hand[p] # None
    BY <1>5
  <2>2. /\ lock' = [lock EXCEPT ![process[p]] = Nobody] /\ target' = [target EXCEPT ![p] = None]
        /\ now' = [now EXCEPT ![p] = 0]
    BY <1>5, LeaveTypes
  <2>3. CASE hand' = hand /\ After(p) = "annotate"
    BY <1>5, <2>1, <2>2, <2>3
  <2>4. CASE hand' = [hand EXCEPT ![p] = None] /\ After(p) = "idle"
    BY <1>5, <2>1, <2>2, <2>4
  <2>5. QED
    BY <1>5, <2>3, <2>4, LeaveTypes
<1>6. ASSUME NEW p \in Passes, Write(p) PROVE StandingInv'
  <2>1. CASE target[p] # None
    BY <1>6, <2>1 DEF Write, merge
  <2>2. CASE target[p] = None
    BY <1>5, <1>6, <2>2 DEF Write, merge
  <2>3. QED
    BY <2>1, <2>2
<1>7. ASSUME NEW p \in Passes, DeleteTarget(p) PROVE StandingInv'
  BY <1>5, <1>7 DEF DeleteTarget, merge
<1>8. ASSUME NEW p \in Passes, Annotate(p) PROVE StandingInv'
  BY <1>8 DEF Annotate, merge
<1>9. ASSUME NEW p \in Passes, Lesson(p) PROVE StandingInv'
  BY <1>9 DEF Lesson, merge
<1>10. ASSUME NEW p \in Passes, Evicted(p) PROVE StandingInv'
  BY <1>10 DEF Evicted, merge
<1>f. ASSUME NEW p \in Passes, FindSimilar(p) PROVE StandingInv'
  <2>1. pc' = [pc EXCEPT ![p] = "merge"] /\ UNCHANGED <<process, clock, lock, hand, now, target>>
    BY <1>f DEF FindSimilar
  <2>2. found'[p] # None /\ \A q \in Passes \ {p} : found'[q] = found[q] /\ into'[q] = into[q]
    BY <1>0, <1>f DEF FindSimilar
  <2>3. QED
    BY <2>1, <2>2
<1>w. ASSUME NEW p \in Passes, WriteMerged(p) PROVE StandingInv'
  <2>1. UNCHANGED <<process, clock, lock, hand, now, target>>
        /\ pc' = [pc EXCEPT ![p] = IF Moves(p) THEN "unmerge" ELSE AfterMerge(p)] /\ found[p] # None
    BY <1>w DEF WriteMerged
  <2>2. CASE Moves(p)
    BY <1>w, <2>1, <2>2 DEF WriteMerged, merge
  <2>3. CASE ~Moves(p)
    BY <1>w, <2>1, <2>3, ForgetTypes DEF WriteMerged, AfterMerge
  <2>4. QED
    BY <2>2, <2>3
<1>d. ASSUME NEW p \in Passes, DeleteMoved(p) PROVE StandingInv'
  BY <1>d, ForgetTypes DEF DeleteMoved, AfterMerge
<1>s. ASSUME NEW p \in Passes, Stamp(p) PROVE StandingInv'
  BY <1>s DEF Stamp
<1>11. ASSUME NEW p \in Passes, StoreRaises(p) PROVE StandingInv'
  <2>1. /\ pc' = [pc EXCEPT ![p] = "idle"] /\ now' = [now EXCEPT ![p] = 0]
        /\ hand' = [hand EXCEPT ![p] = None] /\ target' = [target EXCEPT ![p] = None]
        /\ found' = [found EXCEPT ![p] = None] /\ into' = [into EXCEPT ![p] = None]
        /\ UNCHANGED <<process, clock>>
    BY <1>11 DEF StoreRaises
  <2>2. \A q \in Passes : q # p /\ lock[process[q]] = q => lock'[process[q]] = q
    BY <1>11 DEF StoreRaises, Unlock
  <2>3. QED
    BY <2>1, <2>2
<1>12. ASSUME NEW o \in Processes, Die(o) PROVE StandingInv'
  BY <1>12 DEF Die
<1>13. CASE Tick
  BY <1>13 DEF Tick, merge
<1>14. CASE UNCHANGED vars
  BY <1>14 DEF vars, merge
<1>15. QED
  BY <1>1, <1>2, <1>3, <1>4, <1>6, <1>7, <1>8, <1>9, <1>10, <1>f, <1>w, <1>d, <1>s, <1>11, <1>12, <1>13, <1>14
  DEF Next, Ingest, Pass

-----------------------------------------------------------------------------
(* The quota.  Besides what is retrieved there is what is coming: the       *)
(* active candidates of the passes that hold a lock and have found room.    *)

Hosts == {process[p] : p \in Passes}

Adds(p) ==
    /\ hand[p] # None /\ hand[p].active /\ ~Expired(hand[p], clock)
    /\ lock[process[p]] = p
    /\ pc[p] = "write" \/ (pc[p] = "drop" /\ ~Conflict(p) /\ ~Full(p))

Coming == {hand[p] : p \in {q \in Passes : Adds(q)}}

QuotaInv == ~back => Cardinality(Retrievable \cup Coming) <= MaxEntries + Cardinality(Hosts)

(* One candidate is coming for each process, as its lock is held once.      *)
ComingIsSmall ==
    /\ IsFiniteSet(Hosts) /\ Cardinality(Hosts) \in Nat
    /\ IsFiniteSet(Coming) /\ Cardinality(Coming) \in Nat /\ Cardinality(Coming) <= Cardinality(Hosts)

LEMMA ComingSmall == ComingIsSmall
<1> DEFINE D == {o \in Hosts : lock[o] \in Passes /\ Adds(lock[o])}
           g == [p \in Passes |-> process[p]]
           f == [o \in D |-> hand[lock[o]]]
<1>1. IsFiniteSet(Hosts) /\ Cardinality(Hosts) \in Nat
  <2>1. g \in Surjection(Passes, Hosts)
    BY DEF Hosts, Surjection
  <2>2. QED
    BY <2>1, FS_Surjection, FS_CardinalityType, ConventionsAssumption DEF ConventionsAssumption
<1>2. IsFiniteSet(D) /\ Cardinality(D) \in Nat /\ Cardinality(D) <= Cardinality(Hosts)
  <2>1. D \in SUBSET Hosts
    OBVIOUS
  <2>2. QED
    BY <1>1, <2>1, FS_Subset, FS_CardinalityType
<1>3. f \in Surjection(D, Coming)
  <2>1. \A o \in D : f[o] \in Coming
    BY DEF Coming
  <2>2. ASSUME NEW e \in Coming PROVE \E o \in D : f[o] = e
    <3>1. PICK p \in Passes : Adds(p) /\ e = hand[p]
      BY DEF Coming
    <3>2. process[p] \in D /\ lock[process[p]] = p
      BY <3>1 DEF Adds, Hosts
    <3>3. QED
      BY <3>1, <3>2
  <2>3. QED
    BY <2>1, <2>2 DEF Surjection
<1>4. IsFiniteSet(Coming) /\ Cardinality(Coming) <= Cardinality(D)
  BY <1>2, <1>3, FS_Surjection
<1>5. Cardinality(Coming) \in Nat
  BY <1>4, FS_CardinalityType
<1>6. QED
  BY <1>1, <1>2, <1>4, <1>5 DEF ComingIsSmall

LEMMA ComingStaysSmall == ComingIsSmall'
BY ComingSmall, PTL

LEMMA OneMore ==
  ASSUME NEW S, NEW x, NEW n \in Nat, IsFiniteSet(S), Cardinality(S) < n
  PROVE  IsFiniteSet(S \cup {x}) /\ Cardinality(S \cup {x}) \in Nat /\ Cardinality(S \cup {x}) <= n
<1>1. Cardinality(S) \in Nat
  BY FS_CardinalityType
<1>2. IsFiniteSet(S \cup {x}) /\ Cardinality(S \cup {x}) \in {Cardinality(S), Cardinality(S) + 1}
  BY FS_AddElement
<1>3. QED
  BY <1>1, <1>2

LEMMA ServedFinite ==
  ASSUME TypeOK, IsFiniteSet(store)
  PROVE  /\ IsFiniteSet(Retrievable) /\ Cardinality(Retrievable) \in Nat
         /\ IsFiniteSet(Retrievable \cup Coming) /\ Cardinality(Retrievable \cup Coming) \in Nat
         /\ Cardinality(Retrievable \cup Coming) <= Cardinality(Retrievable) + Cardinality(Coming)
         /\ Cardinality(Retrievable) <= Cardinality(Retrievable \cup Coming)
<1>1. IsFiniteSet(Retrievable) /\ Cardinality(Retrievable) \in Nat
  <2>1. Retrievable \in SUBSET store
    BY DEF Retrievable, ActiveAt
  <2>2. QED
    BY <2>1, FS_Subset, FS_CardinalityType
<1>2. IsFiniteSet(Coming) /\ Cardinality(Coming) \in Nat
  BY ComingSmall DEF ComingIsSmall
<1>3. /\ IsFiniteSet(Retrievable \cup Coming)
      /\ Cardinality(Retrievable \cup Coming)
           = Cardinality(Retrievable) + Cardinality(Coming) - Cardinality(Retrievable \cap Coming)
  BY <1>1, <1>2, FS_Union
<1>4. Cardinality(Retrievable \cap Coming) \in Nat /\ Cardinality(Retrievable \cup Coming) \in Nat
  <2>1. Retrievable \cap Coming \in SUBSET Coming
    OBVIOUS
  <2>2. QED
    BY <1>2, <1>3, <2>1, FS_Subset, FS_CardinalityType
<1>5. Cardinality(Retrievable) <= Cardinality(Retrievable \cup Coming)
  <2>1. Retrievable \in SUBSET (Retrievable \cup Coming)
    OBVIOUS
  <2>2. QED
    BY <1>3, <2>1, FS_Subset
<1>6. QED
  BY <1>1, <1>2, <1>3, <1>4, <1>5

LEMMA QuotaKept ==
  ASSUME TypeOK, IsFiniteSet(store), QuotaInv, process' = process, back => back',
         ~back' => Retrievable' \cup Coming' \subseteq Retrievable \cup Coming
  PROVE  QuotaInv'
<1> SUFFICES ASSUME ~back' PROVE Cardinality(Retrievable' \cup Coming') <= MaxEntries + Cardinality(Hosts')
  BY DEF QuotaInv
<1>1. Hosts' = Hosts
  BY DEF Hosts
<1>2. Retrievable' \cup Coming' \in SUBSET (Retrievable \cup Coming)
  OBVIOUS
<1>3. IsFiniteSet(Retrievable' \cup Coming')
      /\ Cardinality(Retrievable' \cup Coming') <= Cardinality(Retrievable \cup Coming)
  BY <1>2, ServedFinite, FS_Subset
<1>4. Cardinality(Retrievable' \cup Coming') \in Nat /\ Cardinality(Retrievable \cup Coming) \in Nat /\ Cardinality(Hosts) \in Nat
  BY <1>3, ServedFinite, ComingSmall, FS_CardinalityType DEF ComingIsSmall
<1>5. Cardinality(Retrievable \cup Coming) <= MaxEntries + Cardinality(Hosts)
  BY DEF QuotaInv
<1>6. QED
  BY <1>1, <1>3, <1>4, <1>5, ConventionsAssumption DEF ConventionsAssumption

(* A candidate that comes in the next state was coming before, unless its   *)
(* own pass has moved.                                                      *)
LEMMA StillComes ==
  ASSUME TypeOK, TypeOK', NEW q \in Passes, Adds(q)', process' = process, clock' >= clock,
         hand'[q] = hand[q], pc'[q] = pc[q], now'[q] = now[q], listed'[q] = listed[q],
         lock'[process[q]] = q => lock[process[q]] = q
  PROVE  Adds(q) /\ hand[q] \in Coming /\ hand'[q] \in Coming
<1>1. clock \in Nat /\ clock' \in Nat
  BY ConventionsAssumption DEF ConventionsAssumption, TypeOK
<1>2. hand[q] # None /\ hand[q] \in Entries /\ hand[q].active /\ lock[process[q]] = q
  BY DEF Adds, TypeOK
<1>3. hand[q].until # None => hand[q].until \in Nat
  BY <1>2, ConventionsAssumption DEF ConventionsAssumption, Entries, Times
<1>4. ~Expired(hand[q], clock)
  BY <1>1, <1>3 DEF Adds, Expired
<1>5. Conflict(q)' = Conflict(q) /\ Full(q)' = Full(q)
  BY DEF Conflict, Full, Others, MayReplace, Target, Matches, ActiveAt, Expired, Id
<1>6. Adds(q)
  BY <1>2, <1>4, <1>5 DEF Adds
<1>7. QED
  BY <1>6 DEF Coming

LEMMA ComesFrom ==
  ASSUME NEW S, \A q \in Passes : Adds(q)' => hand'[q] \in S
  PROVE  Coming' \subseteq S
BY DEF Coming

(* What stays in the store stays retrievable or expires.                    *)
LEMMA ServedFrom ==
  ASSUME TypeOK, TypeOK', clock' >= clock, NEW e \in Retrievable', e \in store
  PROVE  e \in Retrievable
<1>1. clock \in Nat /\ clock' \in Nat
  BY ConventionsAssumption DEF ConventionsAssumption, TypeOK
<1>2. e.until # None => e.until \in Nat
  BY ConventionsAssumption DEF ConventionsAssumption, TypeOK, Entries, Times
<1>3. QED
  BY <1>1, <1>2 DEF Retrievable, ActiveAt, Expired

LEMMA ActiveEntry ==
  ASSUME NEW e \in Entries, NEW f \in Entries, Id(e) = Id(f), e.active, f.active,
         e.text = None, f.text = None
  PROVE  e = f
<1>1. e.rec = f.rec /\ e.born = f.born /\ e.until = f.until
  BY DEF Id
<1>2. e = [rec |-> e.rec, born |-> e.born, until |-> e.until, text |-> e.text, active |-> e.active]
      /\ f = [rec |-> f.rec, born |-> f.born, until |-> f.until, text |-> f.text, active |-> f.active]
  BY DEF Entries
<1>3. e.active = TRUE /\ f.active = TRUE
  BY DEF Entries
<1>4. QED
  BY <1>1, <1>2, <1>3

(* Nothing but a lesson lengthens an entry, and it writes what was not there. *)
PlainInv == ~back => \A e \in store : e.text = None

(* Whoever has just listed the store and found room has found less than a   *)
(* full store: it has place for its candidate and for one of every other    *)
(* process.                                                                 *)
LEMMA EnterKeepsQuota ==
  ASSUME TypeOK, TypeOK', StandingInv, PlainInv, IsFiniteSet(store), QuotaInv, NEW p \in Passes, Enter(p)
  PROVE  QuotaInv'
<1> USE ConventionsAssumption DEF ConventionsAssumption
<1>1. /\ pc' = [pc EXCEPT ![p] = "drop"] /\ lock' = [lock EXCEPT ![process[p]] = p]
      /\ lock[process[p]] = Nobody /\ pc[p] = "lock"
      /\ UNCHANGED <<process, store, touched, clock, hand, now, target, ingests, back>>
      /\ \A q \in Passes : q # p => listed'[q] = listed[q]
  BY DEF Enter, Goto, Becomes, TypeOK
<1>2. \A q \in Passes : q # p /\ Adds(q)' => Adds(q) /\ hand'[q] \in Coming
  <2> SUFFICES ASSUME NEW q \in Passes, q # p, Adds(q)' PROVE Adds(q) /\ hand'[q] \in Coming
    OBVIOUS
  <2>1. pc'[q] = pc[q] /\ (lock'[process[q]] = q => lock[process[q]] = q)
    BY <1>1 DEF TypeOK
  <2>2. clock' >= clock
    BY <1>1 DEF TypeOK
  <2>3. QED
    BY <1>1, <2>1, <2>2, StillComes
<1>3. Retrievable' = Retrievable
  BY <1>1 DEF Retrievable, ActiveAt, Expired
<1>b. CASE back
  BY <1>1, <1>b DEF QuotaInv
<1>4. CASE ~Adds(p)'
  <2>1. Coming' \subseteq Coming
    BY <1>2, <1>4, ComesFrom
  <2>2. QED
    BY <1>1, <1>3, <2>1, QuotaKept
<1>5. CASE Adds(p)' /\ ~back
  <2>1. /\ hand[p] # None /\ hand[p] \in Entries /\ hand[p].active /\ ~Full(p)'
        /\ hand[p].text = None
    BY <1>1, <1>5 DEF Adds, TypeOK, StandingInv
  <2>2. listed'[p] = store \ {e \in store : Expired(e, now[p])}
    BY <2>1 DEF Enter, Becomes, TypeOK
  <2>3. Retrievable \subseteq ActiveAt(listed'[p], now[p])
    <3> SUFFICES ASSUME NEW e \in Retrievable PROVE e \in ActiveAt(listed'[p], now[p])
      OBVIOUS
    <3>1. e \in store /\ e \in Entries /\ e.active /\ ~Expired(e, clock)
      BY DEF Retrievable, ActiveAt, TypeOK
    <3>2. now[p] <= clock /\ now[p] \in Nat /\ clock \in Nat
      BY DEF StandingInv, TypeOK
    <3>3. e.until # None => e.until \in Nat
      BY <3>1 DEF Entries, Times
    <3>4. ~Expired(e, now[p])
      BY <3>1, <3>2, <3>3 DEF Expired
    <3>5. QED
      BY <2>2, <3>1, <3>4 DEF ActiveAt
  <2> DEFINE others == ActiveAt(listed'[p], now[p]) \ {Target(p)'}
  <2>4. Others(p)' = others
    BY <1>1 DEF Others, ActiveAt, Expired
  <2>5. \/ \E e \in others : Id(e) = Id(hand[p])
        \/ ~(Cardinality(others) >= MaxEntries)
    BY <1>1, <2>1, <2>4 DEF Full, Id
  <2>6. CASE \E e \in others : Id(e) = Id(hand[p])
    <3>1. PICK e \in others : Id(e) = Id(hand[p])
      BY <2>6
    <3>2. e \in store /\ e \in Entries /\ e.active /\ e.text = None
      BY <1>5, <2>2 DEF ActiveAt, TypeOK, PlainInv
    <3>3. e = hand[p]
      BY <2>1, <3>1, <3>2, ActiveEntry
    <3>4. ~Expired(hand[p], clock)
      BY <1>1, <1>5 DEF Adds, Expired
    <3>5. hand[p] \in Retrievable
      BY <3>2, <3>3, <3>4 DEF Retrievable, ActiveAt
    <3>6. Coming' \subseteq Retrievable \cup Coming
      <4>1. \A q \in Passes : Adds(q)' => hand'[q] \in Retrievable \cup Coming
        BY <1>1, <1>2, <3>5
      <4>2. QED
        BY <4>1, ComesFrom
    <3>7. QED
      BY <1>1, <1>3, <3>6, QuotaKept
  <2>7. CASE ~(Cardinality(others) >= MaxEntries)
    <3>1. IsFiniteSet(others) /\ Cardinality(others) \in Nat
      <4>1. others \in SUBSET store
        BY <2>2 DEF ActiveAt
      <4>2. QED
        BY <4>1, FS_Subset, FS_CardinalityType
    <3>2. IsFiniteSet(others \cup {Target(p)'}) /\ Cardinality(others \cup {Target(p)'}) <= MaxEntries
      <4>1. Cardinality(others) < MaxEntries
        BY <2>7, <3>1
      <4> HIDE DEF others
      <4>2. QED
        BY <3>1, <4>1, OneMore
    <3>3. Retrievable \in SUBSET (others \cup {Target(p)'})
      BY <2>3
    <3>4. Cardinality(Retrievable) <= Cardinality(others \cup {Target(p)'})
      BY <3>2, <3>3, FS_Subset
    <3>5. Cardinality(others \cup {Target(p)'}) \in Nat
      BY <3>2, FS_CardinalityType
    <3>6. IsFiniteSet(Retrievable) /\ Cardinality(Retrievable) \in Nat
      BY ServedFinite
    <3>7. IsFiniteSet(Coming') /\ Cardinality(Coming') <= Cardinality(Hosts') /\ Cardinality(Coming') \in Nat
      BY ComingStaysSmall DEF ComingIsSmall
    <3>8. Hosts' = Hosts /\ Cardinality(Hosts) \in Nat
      BY <1>1, ComingSmall DEF ComingIsSmall, Hosts
    <3>9. Cardinality(Retrievable \cup Coming') <= Cardinality(Retrievable) + Cardinality(Coming')
          /\ Cardinality(Retrievable \cup Coming') \in Nat
      <4>1. /\ IsFiniteSet(Retrievable \cup Coming')
            /\ Cardinality(Retrievable \cup Coming')
                 = Cardinality(Retrievable) + Cardinality(Coming') - Cardinality(Retrievable \cap Coming')
        BY <3>6, <3>7, FS_Union
      <4>2. Retrievable \cap Coming' \in SUBSET Retrievable
        OBVIOUS
      <4>3. Cardinality(Retrievable \cap Coming') \in Nat
        BY <3>6, <4>2, FS_Subset, FS_CardinalityType
      <4>4. QED
        BY <3>6, <3>7, <4>1, <4>3, FS_CardinalityType
    <3>10. Cardinality(Retrievable' \cup Coming') <= MaxEntries + Cardinality(Hosts')
      BY <1>3, <3>2, <3>4, <3>5, <3>6, <3>7, <3>8, <3>9
    <3>11. QED
      BY <3>10 DEF QuotaInv
  <2>8. QED
    BY <2>5, <2>6, <2>7
<1>6. QED
  BY <1>b, <1>4, <1>5

LEMMA PlainStep == TypeOK /\ StandingInv /\ PlainInv /\ [Next]_vars => PlainInv'
<1> SUFFICES ASSUME TypeOK, StandingInv, PlainInv, [Next]_vars, ~back', NEW e \in store' PROVE e.text = None
  BY DEF PlainInv
<1>1. ASSUME NEW p \in Passes, Write(p) PROVE e.text = None
  <2>1. hand[p] # None /\ back' = back /\ store' \subseteq store \cup {hand[p]}
    BY <1>1 DEF Write, Put, Goto, StandingInv
  <2>2. QED
    BY <2>1 DEF PlainInv, StandingInv
<1>2. ASSUME NEW p \in Passes, Annotate(p) PROVE e.text = None
  BY <1>2 DEF Annotate, Put, PlainInv
<1>3. ASSUME NEW p \in Passes, WriteMerged(p) PROVE e.text = None
  BY <1>3 DEF WriteMerged, Put, PlainInv
<1>4. ASSUME NEW p \in Passes, Stamp(p) PROVE e.text = None
  BY <1>4 DEF Stamp, Put, PlainInv
<1>5. ASSUME NEW p \in Passes, DropOne(p) \/ DeleteTarget(p) \/ DeleteMoved(p) PROVE e.text = None
  BY <1>5 DEF DropOne, DeleteTarget, DeleteMoved, Without, PlainInv
<1>6. ASSUME NEW p \in Passes,
             (\E r \in Records : Judge(p, r)) \/ Enter(p) \/ Admit(p) \/ Lesson(p) \/ Evicted(p)
             \/ FindSimilar(p) \/ StoreRaises(p)
      PROVE  e.text = None
  BY <1>6 DEF Judge, Enter, Admit, Lesson, Evicted, FindSimilar, StoreRaises, PlainInv
<1>7. ASSUME Tick \/ (\E o \in Processes : Die(o)) \/ UNCHANGED vars PROVE e.text = None
  BY <1>7 DEF Tick, Die, vars, PlainInv
<1>8. QED
  BY <1>1, <1>2, <1>3, <1>4, <1>5, <1>6, <1>7 DEF Next, Ingest, Pass

LEMMA QuotaStep ==
  TypeOK /\ TypeOK' /\ StandingInv /\ PlainInv /\ IsFiniteSet(store) /\ QuotaInv /\ [Next]_vars => QuotaInv'
<1> SUFFICES ASSUME TypeOK, TypeOK', StandingInv, PlainInv, IsFiniteSet(store), QuotaInv, [Next]_vars PROVE QuotaInv'
  OBVIOUS
<1> USE ConventionsAssumption DEF ConventionsAssumption, TypeOK, Becomes, Goto
<1>0. clock \in Nat /\ clock >= clock
  OBVIOUS
(* A step of one pass that takes no lock: what the others bring is as it was. *)
<1>a. ASSUME NEW p \in Passes, UNCHANGED <<process, clock>>,
             \A q \in Passes \ {p} : hand'[q] = hand[q] /\ pc'[q] = pc[q] /\ now'[q] = now[q] /\ listed'[q] = listed[q],
             \A q \in Passes : lock'[process[q]] = q => lock[process[q]] = q,
             Adds(p)' => hand'[p] \in Retrievable \cup Coming,
             back => back',
             ~back' => \A e \in store' : e \in store \/ e \in Coming \/ e \notin Retrievable'
      PROVE  QuotaInv'
  <2>1. \A q \in Passes : Adds(q)' => hand'[q] \in Retrievable \cup Coming
    BY <1>0, <1>a, StillComes
  <2>2. Coming' \subseteq Retrievable \cup Coming
    BY <2>1, ComesFrom
  <2>3. ~back' => Retrievable' \subseteq Retrievable \cup Coming
    <3> SUFFICES ASSUME ~back', NEW e \in Retrievable' PROVE e \in Retrievable \cup Coming
      OBVIOUS
    <3>1. e \in store'
      BY DEF Retrievable, ActiveAt
    <3>2. QED
      BY <1>0, <1>a, <3>1, ServedFrom
  <2>4. QED
    BY <1>a, <2>2, <2>3, QuotaKept
<1>1. ASSUME NEW p \in Passes, NEW r \in Records, Judge(p, r) PROVE QuotaInv'
  <2>1. pc' = [pc EXCEPT ![p] = "lock"] /\ UNCHANGED <<process, store, clock, lock, listed, back>>
    BY <1>1 DEF Judge
  <2>2. ~Adds(p)'
    BY <2>1 DEF Adds
  <2>3. \A q \in Passes \ {p} : hand'[q] = hand[q] /\ now'[q] = now[q]
    BY <1>1 DEF Judge
  <2>4. QED
    BY <1>a, <2>1, <2>2, <2>3
<1>2. ASSUME NEW p \in Passes, Enter(p) PROVE QuotaInv'
  BY <1>2, EnterKeepsQuota
<1>3. ASSUME NEW p \in Passes, DropOne(p) PROVE QuotaInv'
  <2>1. UNCHANGED <<process, clock, lock, pc, hand, now, listed, target, ingests, back>> /\ store' \subseteq store
    BY <1>3 DEF DropOne, Without
  <2>2. Adds(p)' => hand'[p] \in Coming
    BY <1>0, <2>1, StillComes
  <2>3. QED
    BY <1>a, <2>1, <2>2
<1>4. ASSUME NEW p \in Passes, Admit(p) PROVE QuotaInv'
  <2>1. pc[p] = "drop" /\ pc' = [pc EXCEPT ![p] = "write"]
        /\ UNCHANGED <<process, store, touched, clock, lock, now, todo, ingests, back>>
    BY <1>4 DEF Admit
  <2> DEFINE ok == hand[p].active /\ ~Conflict(p) /\ ~Full(p)
  <2>2. hand' = [hand EXCEPT ![p] = [hand[p] EXCEPT !.active = ok]]
        /\ \A q \in Passes \ {p} : listed'[q] = listed[q]
    BY <1>4 DEF Admit
  <2>3. hand[p] \in Entries /\ hand[p] # None
    BY <2>1 DEF StandingInv
  <2>4. hand'[p] = [hand[p] EXCEPT !.active = ok]
    BY <2>2
  <2>5. Adds(p)' => hand'[p] \in Coming
    <3> SUFFICES ASSUME Adds(p)' PROVE hand'[p] \in Coming
      OBVIOUS
    <3>1. hand'[p].active
      BY DEF Adds
    <3>2. hand'[p].active = ok
      BY <2>3, <2>4 DEF Entries
    <3>3. hand[p].active = TRUE /\ ok = TRUE
      BY <2>3, <3>1, <3>2 DEF Entries
    <3> HIDE DEF ok
    <3>4. hand'[p] = hand[p]
      BY <2>3, <2>4, <3>3 DEF Entries
    <3>5. ~Expired(hand[p], clock) /\ lock[process[p]] = p
      BY <2>1, <3>4 DEF Adds, Expired
    <3>6. Adds(p)
      BY <2>1, <2>3, <3>3, <3>5 DEF Adds, ok
    <3>7. QED
      BY <3>4, <3>6 DEF Coming
  <2>6. \A q \in Passes \ {p} : hand'[q] = hand[q] /\ pc'[q] = pc[q] /\ now'[q] = now[q] /\ listed'[q] = listed[q]
    BY <2>1, <2>2
  <2>7. QED
    BY <1>a, <2>1, <2>5, <2>6
<1>5. ASSUME NEW p \in Passes, Write(p) PROVE QuotaInv'
  <2>1. pc[p] = "write" /\ lock[process[p]] = p /\ hand[p] # None
    BY <1>5 DEF Write, StandingInv
  <2>2. UNCHANGED <<process, clock, listed, todo, ingests, touched, back>>
        /\ store' = {f \in store : Id(f) # Id(hand[p])} \cup {hand[p]}
        /\ pc' = [pc EXCEPT ![p] = IF target[p] # None THEN "delete" ELSE After(p)]
    BY <1>5 DEF Write, Put
  <2>3. pc'[p] \notin {"write", "drop"}
    BY <2>2 DEF After
  <2>4. ~Adds(p)'
    BY <2>3 DEF Adds
  <2>5. Leave(p) \/ UNCHANGED <<lock, target, now, hand>>
    BY <1>5 DEF Write
  <2>6. \A q \in Passes \ {p} : hand'[q] = hand[q] /\ pc'[q] = pc[q] /\ now'[q] = now[q] /\ listed'[q] = listed[q]
    BY <2>2, <2>5, LeaveTypes
  <2>7. \A q \in Passes : lock'[process[q]] = q => lock[process[q]] = q
    BY <2>5, LeaveTypes
  <2>8. hand[p] \in Coming \/ hand[p] \notin Retrievable'
    BY <2>1, <2>2 DEF Coming, Adds, Retrievable, ActiveAt
  <2>9. QED
    BY <1>a, <2>2, <2>4, <2>6, <2>7, <2>8
<1>6. ASSUME NEW p \in Passes, DeleteTarget(p) PROVE QuotaInv'
  <2>1. Leave(p) /\ UNCHANGED <<process, clock, listed, todo, ingests, touched, back>> /\ store' \subseteq store
        /\ pc' = [pc EXCEPT ![p] = After(p)]
    BY <1>6 DEF DeleteTarget, Without
  <2>2. ~Adds(p)'
    BY <2>1 DEF Adds, After
  <2>3. \A q \in Passes \ {p} : hand'[q] = hand[q] /\ pc'[q] = pc[q] /\ now'[q] = now[q]
    BY <2>1, LeaveTypes
  <2>4. \A q \in Passes : lock'[process[q]] = q => lock[process[q]] = q
    BY <2>1, LeaveTypes
  <2>5. QED
    BY <1>a, <2>1, <2>2, <2>3, <2>4
<1>7. ASSUME NEW p \in Passes, Annotate(p) PROVE QuotaInv'
  <2>1. /\ pc' = [pc EXCEPT ![p] = "idle"] /\ hand' = [hand EXCEPT ![p] = None]
        /\ store' = {f \in store : Id(f) # Id(hand[p])} \cup {hand[p]}
        /\ UNCHANGED <<process, clock, lock, now, listed, todo, target, ingests, touched>>
    BY <1>7 DEF Annotate, Put
  <2>2. back' = (back \/ hand[p] \notin store)
    BY <1>7 DEF Annotate
  <2>3. ~Adds(p)'
    BY <2>1 DEF Adds
  <2>4. (back => back') /\ (~back' => \A e \in store' : e \in store)
    BY <2>1, <2>2
  <2>5. \A q \in Passes \ {p} : hand'[q] = hand[q] /\ pc'[q] = pc[q] /\ now'[q] = now[q] /\ listed'[q] = listed[q]
    BY <2>1
  <2>6. QED
    BY <1>a, <2>1, <2>3, <2>4, <2>5
<1>8. ASSUME NEW p \in Passes, Lesson(p) \/ Evicted(p) PROVE QuotaInv'
  <2>1. pc' \in {[pc EXCEPT ![p] = "idle"], [pc EXCEPT ![p] = "evict"]}
        /\ UNCHANGED <<process, store, touched, clock, lock, hand, now, listed, target, back>>
    BY <1>8 DEF Lesson, Evicted
  <2>2. ~Adds(p)'
    BY <2>1 DEF Adds
  <2>3. \A q \in Passes \ {p} : pc'[q] = pc[q]
    BY <2>1
  <2>4. QED
    BY <1>a, <2>1, <2>2, <2>3
<1>m. ASSUME NEW p \in Passes, FindSimilar(p) \/ WriteMerged(p) \/ DeleteMoved(p) \/ Stamp(p) PROVE QuotaInv'
  <2>1. /\ pc' = [pc EXCEPT ![p] = "merge"] \/ pc' = [pc EXCEPT ![p] = "unmerge"]
           \/ pc' = [pc EXCEPT ![p] = "stamp"] \/ pc' = [pc EXCEPT ![p] = "idle"]
        /\ UNCHANGED <<process, clock, lock, hand, now, listed, target>> /\ (back => back')
        /\ ~back' => store' \subseteq store
    BY <1>m DEF FindSimilar, WriteMerged, DeleteMoved, Stamp, AfterMerge, Put, Without
  <2>2. ~Adds(p)'
    BY <2>1 DEF Adds
  <2>3. \A q \in Passes \ {p} : pc'[q] = pc[q]
    BY <2>1
  <2>4. QED
    BY <1>a, <2>1, <2>2, <2>3
<1>9. ASSUME NEW p \in Passes, StoreRaises(p) PROVE QuotaInv'
  <2>1. /\ pc' = [pc EXCEPT ![p] = "idle"] /\ now' = [now EXCEPT ![p] = 0]
        /\ hand' = [hand EXCEPT ![p] = None] /\ listed' = [listed EXCEPT ![p] = {}]
        /\ UNCHANGED <<process, store, touched, clock, ingests, back>>
    BY <1>9 DEF StoreRaises
  <2>2. ~Adds(p)'
    BY <2>1 DEF Adds
  <2>3. \A q \in Passes : lock'[process[q]] = q => lock[process[q]] = q
    BY <1>9 DEF StoreRaises, Unlock
  <2>4. \A q \in Passes \ {p} : hand'[q] = hand[q] /\ pc'[q] = pc[q] /\ now'[q] = now[q] /\ listed'[q] = listed[q]
    BY <2>1
  <2>5. QED
    BY <1>a, <2>1, <2>2, <2>3, <2>4
(* Everything else can only make what comes and what is served less.        *)
<1>b. ASSUME UNCHANGED <<process, store, back>>, clock' >= clock,
             \A q \in Passes : Adds(q)' => hand'[q] \in Coming
      PROVE  QuotaInv'
  <2>1. Coming' \subseteq Coming
    BY <1>b, ComesFrom
  <2>2. Retrievable' \subseteq Retrievable
    <3> SUFFICES ASSUME NEW e \in Retrievable' PROVE e \in Retrievable
      OBVIOUS
    <3>1. e \in store
      BY <1>b DEF Retrievable, ActiveAt
    <3>2. QED
      BY <1>b, <3>1, ServedFrom
  <2>3. QED
    BY <1>b, <2>1, <2>2, QuotaKept
<1>10. ASSUME NEW o \in Processes, Die(o) PROVE QuotaInv'
  <2>1. UNCHANGED <<process, store, clock, back>> /\ lock' = [lock EXCEPT ![o] = Nobody]
    BY <1>10 DEF Die
  <2>2. ASSUME NEW q \in Passes, Adds(q)' PROVE hand'[q] \in Coming
    <3>1. process[q] # o
      BY <1>10, <2>1, <2>2 DEF Adds
    <3>2. hand'[q] = hand[q] /\ pc'[q] = pc[q] /\ now'[q] = now[q] /\ listed'[q] = listed[q]
      BY <1>10, <3>1 DEF Die
    <3>3. lock'[process[q]] = lock[process[q]] /\ clock' >= clock
      BY <1>0, <2>1, <3>1
    <3>4. QED
      BY <2>1, <2>2, <3>2, <3>3, StillComes
  <2>3. QED
    BY <1>0, <1>b, <2>1, <2>2
<1>11. CASE Tick
  <2>1. clock' >= clock /\ UNCHANGED <<process, store, touched, lock, pc, hand, now, listed, todo, target, ingests, back>>
    BY <1>0, <1>11 DEF Tick
  <2>2. \A q \in Passes : Adds(q)' => hand'[q] \in Coming
    BY <2>1, StillComes
  <2>3. QED
    BY <1>b, <2>1, <2>2
<1>12. CASE UNCHANGED vars
  <2>1. clock' >= clock /\ UNCHANGED <<process, store, touched, lock, pc, hand, now, listed, todo, target, ingests, back>>
    BY <1>0, <1>12 DEF vars
  <2>2. \A q \in Passes : Adds(q)' => hand'[q] \in Coming
    BY <2>1, StillComes
  <2>3. QED
    BY <1>b, <2>1, <2>2
<1>13. QED
  BY <1>1, <1>2, <1>3, <1>4, <1>5, <1>6, <1>7, <1>8, <1>m, <1>9, <1>10, <1>11, <1>12
  DEF Next, Ingest, Pass

(* A step writes one entry at most.                                         *)
LEMMA StoreFinite == IsFiniteSet(store) /\ [Next]_vars => IsFiniteSet(store)'
<1> SUFFICES ASSUME IsFiniteSet(store), [Next]_vars PROVE IsFiniteSet(store')
  OBVIOUS
<1>1. \/ store' \subseteq store
      \/ \E e : store' \subseteq store \cup {e}
  <2>1. ASSUME NEW p \in Passes, Write(p) \/ Annotate(p) PROVE store' \subseteq store \cup {hand[p]}
    BY <2>1 DEF Write, Annotate, Put
  <2>2. ASSUME NEW p \in Passes, DropOne(p) \/ DeleteTarget(p) \/ DeleteMoved(p) PROVE store' \subseteq store
    BY <2>2 DEF DropOne, DeleteTarget, DeleteMoved, Without
  <2>m. ASSUME NEW p \in Passes, WriteMerged(p) \/ Stamp(p) PROVE store' \subseteq store \cup {into[p]}
    BY <2>m DEF WriteMerged, Stamp, Put
  <2>3. ASSUME NEW p \in Passes,
               (\E r \in Records : Judge(p, r)) \/ Enter(p) \/ Admit(p) \/ Lesson(p) \/ Evicted(p)
               \/ FindSimilar(p) \/ StoreRaises(p)
        PROVE  store' = store
    BY <2>3 DEF Judge, Enter, Admit, Lesson, Evicted, FindSimilar, StoreRaises
  <2>4. ASSUME Tick \/ (\E o \in Processes : Die(o)) \/ UNCHANGED vars PROVE store' = store
    BY <2>4 DEF Tick, Die, vars
  <2>5. QED
    BY <2>1, <2>2, <2>m, <2>3, <2>4 DEF Next, Ingest, Pass
<1>2. CASE store' \subseteq store
  BY <1>2, FS_Subset
<1>3. ASSUME NEW e, store' \subseteq store \cup {e} PROVE IsFiniteSet(store')
  <2>1. IsFiniteSet(store \cup {e})
    BY FS_AddElement
  <2>2. QED
    BY <1>3, <2>1, FS_Subset
<1>4. QED
  BY <1>1, <1>2, <1>3

ConventionsInv == TypeOK /\ StandingInv /\ PlainInv /\ IsFiniteSet(store) /\ QuotaInv

LEMMA ConventionsInductive == Spec => []ConventionsInv
<1>1. Init => ConventionsInv
  <2> SUFFICES ASSUME Init PROVE ConventionsInv
    OBVIOUS
  <2> USE ConventionsAssumption DEF ConventionsAssumption, Init
  <2>1. TypeOK
    <3>1. process \in [Passes -> Processes] /\ store \subseteq Entries /\ touched \subseteq Keys /\ back \in BOOLEAN
      OBVIOUS
    <3>2. clock \in 0 .. MaxTime /\ ingests \in 0 .. MaxIngests /\ now \in [Passes -> 0 .. MaxTime]
      OBVIOUS
    <3>3. lock \in [Processes -> Passes \cup {Nobody}] /\ pc \in [Passes -> Steps]
      BY DEF Steps
    <3>4. hand \in [Passes -> Entries \cup {None}] /\ target \in [Passes -> Entries \cup {None}]
          /\ found \in [Passes -> Entries \cup {None}] /\ into \in [Passes -> Entries \cup {None}]
      OBVIOUS
    <3>5. listed \in [Passes -> SUBSET Entries] /\ todo \in [Passes -> SUBSET Entries]
      OBVIOUS
    <3>6. QED
      BY <3>1, <3>2, <3>3, <3>4, <3>5 DEF TypeOK
  <2>2. StandingInv /\ PlainInv
    BY DEF StandingInv, PlainInv, Merging
  <2>3. IsFiniteSet(store)
    BY FS_EmptySet
  <2>4. QuotaInv
    <3>1. Retrievable = {} /\ Coming = {}
      BY DEF Retrievable, ActiveAt, Coming, Adds
    <3>2. Cardinality(Retrievable \cup Coming) = 0
      BY <3>1, FS_EmptySet
    <3>3. QED
      BY <3>2, ComingSmall DEF QuotaInv, ComingIsSmall
  <2>5. QED
    BY <2>1, <2>2, <2>3, <2>4 DEF ConventionsInv
<1>2. ConventionsInv /\ [Next]_vars => ConventionsInv'
  BY TypeStep, StandingStep, PlainStep, StoreFinite, QuotaStep DEF ConventionsInv
<1>3. QED
  BY <1>1, <1>2, PTL DEF Spec

(* What a pass lists, drops, writes and replaces are entries, and its clock *)
(* and counters stay in their ranges (TypeOK).                              *)
THEOREM ConventionsTypes == Spec => []TypeOK
<1>1. ConventionsInv => TypeOK
  BY DEF ConventionsInv
<1>2. QED
  BY <1>1, ConventionsInductive, PTL

(* The lock of a process does not keep the others out: the quota is overrun *)
(* by one convention for each of them, and by no more (QuotaOverrun).       *)
THEOREM QuotaHolds == Spec => []QuotaOverrun
<1>1. ConventionsInv => QuotaOverrun
  <2> SUFFICES ASSUME ConventionsInv, ~back
               PROVE  Cardinality(Retrievable) <= MaxEntries + Cardinality({process[p] : p \in Passes})
    BY DEF QuotaOverrun
  <2>1. TypeOK /\ IsFiniteSet(store) /\ Cardinality(Retrievable \cup Coming) <= MaxEntries + Cardinality(Hosts)
    BY DEF ConventionsInv, QuotaInv
  <2>2. Cardinality(Hosts) \in Nat /\ Hosts = {process[p] : p \in Passes}
    BY ComingSmall DEF ComingIsSmall, Hosts
  <2> HIDE DEF Hosts
  <2>3. Cardinality(Retrievable) <= MaxEntries + Cardinality(Hosts)
    BY <2>1, <2>2, ServedFinite, ConventionsAssumption DEF ConventionsAssumption
  <2>4. QED
    BY <2>2, <2>3
<1>2. QED
  BY <1>1, ConventionsInductive, PTL

-----------------------------------------------------------------------------
(* Replacement.  Where records do not bring their own dates, an ingestion   *)
(* has an id of its own; where a convention lives for three ticks or more,  *)
(* it outlives the ingestion that has put it there.                         *)

Waiting  == {p \in Passes : pc[p] \in {"lock", "drop", "write"}}
Deleting == {p \in Passes : pc[p] = "delete"}
Written  == {p \in Passes : pc[p] \in {"delete", "annotate"}}

(* The entries of the store that a pass has seen, and what a lesson makes   *)
(* of one of them.                                                          *)
Held(p) == listed[p] \cup ({target[p], found[p]} \ {None})
Seen(p) == Held(p) \cup ({into[p]} \ {None})

BornInv ==
    /\ \A e \in store : e.born < ingests
    /\ \A p \in Passes : \A e \in Seen(p) : e.born < ingests
    /\ \A p \in Passes : hand[p] # None => hand[p].born < ingests

(* No entry is of the ingestion that a candidate waits for; when it is      *)
(* written, it is the only one, but for what lessons have made of it.       *)
FreshInv ==
    /\ \A p, q \in Passes : p # q /\ hand[p] # None /\ hand[q] # None => hand[p].born # hand[q].born
    /\ \A p \in Waiting : \A e \in store : e.born # hand[p].born
    /\ \A p \in Waiting : \A q \in Passes : \A e \in Seen(q) : e.born # hand[p].born
    /\ \A p \in Written : \A e \in store : e.born = hand[p].born => e = hand[p] \/ e.rec.key \in touched

(* An entry that a lesson has lengthened, or is about to move, is of a key  *)
(* that one has touched.                                                    *)
Traced(p) ==
    /\ pc[p] \in Merging /\ into[p] # None => into[p].rec.key = found[p].rec.key
    /\ pc[p] = "unmerge" => found[p].rec.key \in touched
    /\ pc[p] = "stamp" => into[p].rec.key \in touched

TouchedInv ==
    /\ \A e \in store : e.text # None => e.rec.key \in touched
    /\ \A p \in Passes : \A e \in Held(p) : e.text # None => e.rec.key \in touched
    /\ \A p \in Passes : Traced(p)

(* An ingestion sees one tick at most, drops what has expired, and replaces *)
(* an entry of its key by an active one.                                    *)
Span(p) ==
    /\ p \in Waiting \cup Deleting => clock <= now[p] + 1
    /\ pc[p] = "drop" => \A e \in todo[p] : Expired(e, now[p])
    /\ p \in Waiting /\ hand[p].active => hand[p].until = now[p] + TTL
    /\ pc[p] \notin {"write", "delete"} => target[p] = None
    /\ target[p] # None => hand[p].active /\ target[p].rec.key = hand[p].rec.key

SpanInv == \A p \in Passes : Span(p)

Doomed == {Id(target[p]) : p \in Deleting}

(* What serves the key when the target of a pass is gone.                   *)
Heir(p, e) ==
    /\ e.active /\ e.rec.key = hand[p].rec.key /\ Id(e) \notin Doomed
    /\ e.until # None /\ e.until >= now[p] - 1 + TTL

HeirInv == \A p \in Deleting : hand[p].rec.key \notin touched => \E e \in store : Heir(p, e)

KeysInv == BornInv /\ FreshInv /\ TouchedInv /\ SpanInv /\ HeirInv

LEMMA FreshKept ==
  ASSUME TypeOK, TypeOK', StandingInv, StandingInv', BornInv, FreshInv, ingests' >= ingests,
         \A q \in Passes : hand'[q] # None => hand[q] # None /\ hand'[q].born = hand[q].born,
         touched \subseteq touched',
         \A q \in Passes : \A e \in Seen(q)' : \E f \in Seen(q) \cup store : f.born = e.born,
         Waiting' \subseteq Waiting,
         NEW W \in SUBSET (Passes \ Waiting'),
         \A w \in W : hand[w] # None,
         NEW M, \A m \in M : m.rec.key \in touched' /\ \E q \in Passes : m \in Seen(q),
         store' \subseteq store \cup {hand[w] : w \in W} \cup M,
         \A q \in Written' : hand'[q] = hand[q] /\ (q \in Written \/ q \in Waiting)
  PROVE  BornInv' /\ FreshInv'
<1>1. ingests \in Int /\ ingests' \in Int /\ \A e \in Entries : e.born \in Int
  BY ConventionsAssumption DEF ConventionsAssumption, TypeOK, Entries
<1>2. \A q \in Passes : hand[q] # None => hand[q] \in Entries
  BY DEF TypeOK
<1>3. store \subseteq Entries /\ store' \subseteq Entries
  BY DEF TypeOK
<1>4. \A q \in Passes : Seen(q) \subseteq Entries /\ Seen(q)' \subseteq Entries
  BY DEF TypeOK, Seen, Held
<1>5. \A q \in Waiting \cup Waiting' \cup Written' : q \in Passes
  BY DEF Waiting, Written
<1>6. \A q \in Waiting' : hand'[q] # None /\ hand[q] # None /\ hand'[q].born = hand[q].born
  BY <1>5 DEF StandingInv, Waiting
<1>7. \A q \in Written' : hand'[q] # None /\ hand[q] # None
  BY <1>5 DEF StandingInv, Written
<1>8. BornInv'
  <2>1. ASSUME NEW e \in store' PROVE e.born < ingests'
    <3>1. e.born < ingests
      BY DEF BornInv
    <3>2. QED
      BY <1>1, <1>3, <3>1
  <2>2. ASSUME NEW p \in Passes, NEW e \in Seen(p)' PROVE e.born < ingests'
    <3>1. PICK f \in Seen(p) \cup store : f.born = e.born
      OBVIOUS
    <3>2. f.born < ingests /\ f.born \in Int
      BY <1>1, <1>3, <1>4 DEF BornInv
    <3>3. QED
      BY <1>1, <3>1, <3>2
  <2>3. ASSUME NEW p \in Passes, hand'[p] # None PROVE hand'[p].born < ingests'
    <3>1. hand'[p].born = hand[p].born /\ hand[p].born < ingests /\ hand[p].born \in Int
      BY <1>1, <1>2, <2>3 DEF BornInv
    <3>2. QED
      BY <1>1, <3>1
  <2>4. QED
    BY <2>1, <2>2, <2>3 DEF BornInv
<1>9. ASSUME NEW p \in Passes, NEW q \in Passes, p # q, hand'[p] # None, hand'[q] # None
      PROVE  hand'[p].born # hand'[q].born
  BY <1>9 DEF FreshInv
<1>10. ASSUME NEW p \in Waiting', NEW e \in store' PROVE e.born # hand'[p].born
  <2>1. CASE e \in store
    BY <1>6, <2>1 DEF FreshInv
  <2>2. ASSUME NEW w \in W, e = hand[w] PROVE e.born # hand'[p].born
    <3>1. w # p /\ w \in Passes /\ p \in Passes
      BY <1>5
    <3>2. QED
      BY <1>6, <2>2, <3>1 DEF FreshInv
  <2>m. CASE e \in M
    BY <1>5, <1>6, <2>m DEF FreshInv
  <2>3. QED
    BY <2>1, <2>2, <2>m
<1>11. ASSUME NEW p \in Waiting', NEW q \in Passes, NEW e \in Seen(q)' PROVE e.born # hand'[p].born
  <2>1. p \in Waiting /\ hand'[p].born = hand[p].born
    BY <1>6
  <2>2. PICK f \in Seen(q) \cup store : f.born = e.born
    OBVIOUS
  <2>3. QED
    BY <2>1, <2>2 DEF FreshInv
<1>12. ASSUME NEW p \in Written', NEW e \in store', e.born = hand'[p].born
      PROVE  e = hand'[p] \/ e.rec.key \in touched'
  <2>1. hand'[p] = hand[p] /\ p \in Passes /\ hand[p] # None /\ (p \in Written \/ p \in Waiting)
    BY <1>5, <1>7
  <2>2. CASE e \in store
    BY <1>12, <2>1, <2>2 DEF FreshInv
  <2>3. ASSUME NEW w \in W, e = hand[w] PROVE e = hand'[p]
    BY <1>12, <2>1, <2>3 DEF FreshInv
  <2>4. QED
    BY <2>2, <2>3
<1>13. QED
  BY <1>8, <1>9, <1>10, <1>11, <1>12 DEF FreshInv

LEMMA TouchedGrows == [Next]_vars => touched \subseteq touched'
BY DEF Next, Ingest, Pass, Tick, Judge, Enter, DropOne, Admit, Write, DeleteTarget, Annotate, Lesson, Evicted,
       FindSimilar, WriteMerged, DeleteMoved, Stamp, StoreRaises, Die, vars

LEMMA FreshStep ==
  ASSUME ~Dated, TypeOK, TypeOK', StandingInv, StandingInv', BornInv, FreshInv, TouchedInv, [Next]_vars
  PROVE  BornInv' /\ FreshInv'
<1> USE DEF Goto, Becomes, merge, Held
<1>0. /\ ingests \in Int /\ \A e \in Entries : e.born \in Int
      /\ None \notin Entries /\ touched \subseteq touched'
  BY ConventionsAssumption, NoEntry, TouchedGrows DEF ConventionsAssumption, TypeOK, Entries
<1>1. ASSUME NEW p \in Passes, NEW r \in Records, Judge(p, r) PROVE BornInv' /\ FreshInv'
  <2>1. PICK h \in Entries : hand' = [hand EXCEPT ![p] = h] /\ h # None /\ h.born = ingests
    BY <1>1, Judged DEF Judge
  <2>2. ingests' = ingests + 1 /\ pc' = [pc EXCEPT ![p] = "lock"] /\ pc[p] = "idle"
        /\ UNCHANGED <<store, listed, target, found, into, touched>>
    BY <1>1 DEF Judge
  <2>3. \A q \in Passes : Seen(q)' = Seen(q)
    BY <2>2 DEF Seen
  <2>4. /\ \A e \in store : e.born \in Int /\ e.born < ingests
        /\ \A q \in Passes : \A e \in Seen(q) : e.born \in Int /\ e.born < ingests
        /\ \A q \in Passes : hand[q] # None => hand[q].born \in Int /\ hand[q].born < ingests
    BY <1>0 DEF BornInv, TypeOK, Seen
  <2>5. hand'[p] = h /\ \A q \in Passes : q # p => hand'[q] = hand[q]
    BY <2>1 DEF TypeOK
  <2>6. BornInv'
    <3>1. ASSUME NEW e \in store' PROVE e.born < ingests'
      BY <1>0, <2>2, <2>4
    <3>2. ASSUME NEW q \in Passes, NEW e \in Seen(q)' PROVE e.born < ingests'
      BY <1>0, <2>2, <2>3, <2>4
    <3>3. ASSUME NEW q \in Passes, hand'[q] # None PROVE hand'[q].born < ingests'
      BY <1>0, <2>1, <2>2, <2>4, <2>5, <3>3
    <3>4. QED
      BY <3>1, <3>2, <3>3 DEF BornInv
  <2>7. Waiting' = Waiting \cup {p} /\ Written' = Written /\ p \notin Written /\ \A q \in Waiting \cup Written : q \in Passes
    BY <2>2 DEF Waiting, Written, TypeOK
  <2>8. ASSUME NEW q \in Passes, NEW s \in Passes, q # s, hand'[q] # None, hand'[s] # None
        PROVE  hand'[q].born # hand'[s].born
    BY <1>0, <2>1, <2>4, <2>5, <2>8 DEF FreshInv
  <2>9. ASSUME NEW q \in Waiting', NEW e \in store' PROVE e.born # hand'[q].born
    BY <1>0, <2>1, <2>2, <2>4, <2>5, <2>7 DEF FreshInv
  <2>10. ASSUME NEW q \in Waiting', NEW s \in Passes, NEW e \in Seen(s)' PROVE e.born # hand'[q].born
    BY <1>0, <2>1, <2>3, <2>4, <2>5, <2>7 DEF FreshInv
  <2>11. ASSUME NEW q \in Written', NEW e \in store', e.born = hand'[q].born
        PROVE  e = hand'[q] \/ e.rec.key \in touched'
    BY <2>2, <2>5, <2>7, <2>11 DEF FreshInv
  <2>12. QED
    BY <2>6, <2>8, <2>9, <2>10, <2>11 DEF FreshInv
(* No candidate is new: what remains is FreshKept.                          *)
<1>a. ASSUME NEW p \in Passes, ingests' >= ingests,
             store' \subseteq store \/ (p \notin Waiting' /\ hand[p] # None /\ store' \subseteq store \cup {hand[p]}),
             \A q \in Passes : hand'[q] # None => hand[q] # None /\ hand'[q].born = hand[q].born,
             \A q \in Passes : Seen(q)' \subseteq Seen(q) \cup store,
             Waiting' \subseteq Waiting,
             \A q \in Written' : hand'[q] = hand[q] /\ (q \in Written \/ q \in Waiting)
      PROVE  BornInv' /\ FreshInv'
  <2> DEFINE W == IF store' \subseteq store THEN {} ELSE {p}
             M == {}
  <2>1. W \in SUBSET (Passes \ Waiting') /\ \A w \in W : hand[w] # None
    BY <1>a
  <2>2. store' \subseteq store \cup {hand[w] : w \in W} \cup M
    BY <1>a
  <2>3. \A q \in Passes : \A e \in Seen(q)' : \E f \in Seen(q) \cup store : f.born = e.born
    BY <1>a
  <2>4. \A m \in M : m.rec.key \in touched' /\ \E q \in Passes : m \in Seen(q)
    OBVIOUS
  <2> HIDE DEF W, M
  <2>5. QED
    BY <1>0, <1>a, <2>1, <2>2, <2>3, <2>4, FreshKept
(* A lesson puts nothing but what it has made of an entry it has found.     *)
<1>m. ASSUME NEW p \in Passes, NEW M \in SUBSET ({into[p]} \ {None}), ingests' >= ingests,
             \A m \in M : m.rec.key \in touched',
             store' \subseteq store \cup M, UNCHANGED <<hand, listed, target>>,
             Waiting' = Waiting, Written' = Written,
             \A q \in Passes : \A e \in Seen(q)' : \E f \in Seen(q) \cup store : f.born = e.born
      PROVE  BornInv' /\ FreshInv'
  <2>1. {} \in SUBSET (Passes \ Waiting') /\ \A w \in {} : hand[w] # None
    OBVIOUS
  <2>2. store' \subseteq store \cup {hand[w] : w \in {}} \cup M
    BY <1>m
  <2>3. \A m \in M : m.rec.key \in touched' /\ \E q \in Passes : m \in Seen(q)
    BY <1>m DEF Seen
  <2>4. QED
    BY <1>0, <1>m, <2>1, <2>2, <2>3, FreshKept
<1>2. ASSUME NEW p \in Passes, Enter(p) PROVE BornInv' /\ FreshInv'
  <2>1. pc' = [pc EXCEPT ![p] = "drop"] /\ pc[p] = "lock" /\ UNCHANGED <<store, hand, target, found, into, ingests>>
    BY <1>2 DEF Enter
  <2>2. \A q \in Passes : Seen(q)' \subseteq Seen(q) \cup store
    BY <1>2, <2>1 DEF Enter, Seen, TypeOK
  <2>3. Waiting' = Waiting /\ Written' = Written
    BY <2>1 DEF Waiting, Written, TypeOK
  <2>4. QED
    BY <1>0, <1>a, <2>1, <2>2, <2>3
<1>3. ASSUME NEW p \in Passes, DropOne(p) PROVE BornInv' /\ FreshInv'
  <2>1. store' \subseteq store /\ UNCHANGED <<pc, hand, listed, target, found, into, ingests>>
    BY <1>3 DEF DropOne, Without
  <2>2. Waiting' = Waiting /\ Written' = Written /\ \A q \in Passes : Seen(q)' = Seen(q)
    BY <2>1 DEF Waiting, Written, Seen
  <2>3. QED
    BY <1>0, <1>a, <2>1, <2>2
<1>4. ASSUME NEW p \in Passes, Admit(p) PROVE BornInv' /\ FreshInv'
  <2>1. pc' = [pc EXCEPT ![p] = "write"] /\ pc[p] = "drop" /\ UNCHANGED <<store, found, into, ingests>>
        /\ listed' = [listed EXCEPT ![p] = {}]
    BY <1>4 DEF Admit
  <2>2. \A q \in Passes : q # p => hand'[q] = hand[q] /\ target'[q] = target[q]
    BY <1>4 DEF Admit, TypeOK
  <2>3. hand[p] \in Entries
    BY <2>1 DEF StandingInv, TypeOK
  <2>4. hand'[p].born = hand[p].born
    <3>1. PICK ok \in BOOLEAN : hand'[p] = [hand[p] EXCEPT !.active = ok]
      BY <1>4 DEF Admit, TypeOK
    <3>2. QED
      BY <2>3, <3>1 DEF Entries
  <2>5. target'[p] \in listed[p] \cup {None}
    BY <1>4, TargetMatches DEF Admit, TypeOK, Matches, ActiveAt
  <2>6. \A q \in Passes : Seen(q)' \subseteq Seen(q) \cup store
    BY <2>1, <2>2, <2>5 DEF Seen, TypeOK
  <2>7. Waiting' = Waiting /\ Written' = Written /\ p \notin Written /\ \A q \in Written : q \in Passes
    BY <2>1 DEF Waiting, Written, TypeOK
  <2>8. QED
    BY <1>0, <1>a, <2>1, <2>2, <2>3, <2>4, <2>6, <2>7
<1>5. ASSUME NEW p \in Passes, Leave(p), pc' = [pc EXCEPT ![p] = After(p)], UNCHANGED <<listed, found, into, ingests>>,
             pc[p] \in {"write", "delete"}
      PROVE  /\ \A q \in Passes : hand'[q] # None => hand[q] # None /\ hand'[q].born = hand[q].born
             /\ \A q \in Passes : Seen(q)' \subseteq Seen(q) \cup store
             /\ Waiting' \subseteq Waiting /\ p \notin Waiting'
             /\ \A q \in Written' : hand'[q] = hand[q] /\ (q \in Written \/ q \in Waiting)
  <2>1. target' = [target EXCEPT ![p] = None] /\ After(p) \in {"annotate", "idle"}
    BY <1>5, LeaveTypes DEF After
  <2>2. (After(p) = "annotate" /\ hand' = hand) \/ (After(p) = "idle" /\ hand' = [hand EXCEPT ![p] = None])
    BY <1>5, LeaveTypes
  <2>3. \A q \in Passes : Seen(q)' \subseteq Seen(q) \cup store
    BY <1>5, <2>1 DEF Seen, TypeOK
  <2>4. Waiting' \subseteq Waiting /\ p \notin Waiting'
    BY <1>5, <2>1 DEF Waiting, TypeOK
  <2>5. \A q \in Passes : hand'[q] # None => hand[q] # None /\ hand'[q].born = hand[q].born
    BY <2>2 DEF TypeOK
  <2>6. ASSUME NEW q \in Written' PROVE hand'[q] = hand[q] /\ (q \in Written \/ q \in Waiting)
    BY <1>5, <2>2 DEF TypeOK, Written, Waiting
  <2>7. QED
    BY <2>3, <2>4, <2>5, <2>6
<1>6. ASSUME NEW p \in Passes, Write(p) PROVE BornInv' /\ FreshInv'
  <2>1. store' \subseteq store \cup {hand[p]} /\ pc[p] = "write" /\ hand[p] # None /\ UNCHANGED <<listed, found, into, ingests>>
    BY <1>6 DEF Write, Put, StandingInv
  <2>2. CASE target[p] = None
    <3>1. Leave(p) /\ pc' = [pc EXCEPT ![p] = After(p)]
      BY <1>6, <2>2 DEF Write
    <3>2. /\ \A q \in Passes : hand'[q] # None => hand[q] # None /\ hand'[q].born = hand[q].born
          /\ \A q \in Passes : Seen(q)' \subseteq Seen(q) \cup store
          /\ Waiting' \subseteq Waiting /\ p \notin Waiting'
          /\ \A q \in Written' : hand'[q] = hand[q] /\ (q \in Written \/ q \in Waiting)
      BY <1>5, <2>1, <3>1
    <3>3. ingests' >= ingests
      BY <1>0, <2>1
    <3>4. QED
      BY <1>a, <2>1, <3>2, <3>3
  <2>3. CASE target[p] # None
    <3>1. UNCHANGED <<target, hand>> /\ pc' = [pc EXCEPT ![p] = "delete"]
      BY <1>6, <2>3 DEF Write
    <3>2. \A q \in Passes : Seen(q)' = Seen(q)
      BY <2>1, <3>1 DEF Seen
    <3>3. Waiting' \subseteq Waiting /\ p \notin Waiting' /\ Written' \subseteq Written \cup Waiting
      BY <2>1, <3>1 DEF Waiting, Written, TypeOK
    <3>4. QED
      BY <1>0, <1>a, <2>1, <3>1, <3>2, <3>3
  <2>4. QED
    BY <2>2, <2>3
<1>7. ASSUME NEW p \in Passes, DeleteTarget(p) PROVE BornInv' /\ FreshInv'
  <2>1. store' \subseteq store /\ pc[p] = "delete" /\ Leave(p) /\ pc' = [pc EXCEPT ![p] = After(p)]
        /\ UNCHANGED <<listed, found, into, ingests>>
    BY <1>7 DEF DeleteTarget, Without
  <2>2. /\ \A q \in Passes : hand'[q] # None => hand[q] # None /\ hand'[q].born = hand[q].born
        /\ \A q \in Passes : Seen(q)' \subseteq Seen(q) \cup store
        /\ Waiting' \subseteq Waiting /\ p \notin Waiting'
        /\ \A q \in Written' : hand'[q] = hand[q] /\ (q \in Written \/ q \in Waiting)
    BY <1>5, <2>1
  <2>3. ingests' >= ingests
    BY <1>0, <2>1
  <2>4. QED
    BY <1>a, <2>1, <2>2, <2>3
<1>8. ASSUME NEW p \in Passes, Annotate(p) PROVE BornInv' /\ FreshInv'
  <2>1. store' \subseteq store \cup {hand[p]} /\ pc[p] = "annotate" /\ hand[p] # None
        /\ pc' = [pc EXCEPT ![p] = "idle"] /\ hand' = [hand EXCEPT ![p] = None] /\ UNCHANGED <<listed, target, found, into, ingests>>
    BY <1>8 DEF Annotate, Put, StandingInv
  <2>2. \A q \in Passes : Seen(q)' = Seen(q)
    BY <2>1 DEF Seen
  <2>3. \A q \in Passes : hand'[q] # None => hand'[q] = hand[q]
    BY <2>1 DEF TypeOK
  <2>4. Waiting' = Waiting /\ p \notin Waiting' /\ Written' = Written \ {p} /\ \A q \in Written : q \in Passes
    BY <2>1 DEF Waiting, Written, TypeOK
  <2>5. \A q \in Written' : hand'[q] = hand[q]
    BY <2>1, <2>4 DEF TypeOK
  <2>6. QED
    BY <1>0, <1>a, <2>1, <2>2, <2>3, <2>4, <2>5
<1>9. ASSUME NEW p \in Passes, Lesson(p) \/ Evicted(p) PROVE BornInv' /\ FreshInv'
  <2>1. pc' \in {[pc EXCEPT ![p] = "idle"], [pc EXCEPT ![p] = "evict"]} /\ pc[p] \in {"idle", "evict"}
        /\ UNCHANGED <<store, hand, listed, target, found, into>> /\ ingests' >= ingests
    BY <1>0, <1>9 DEF Lesson, Evicted
  <2>2. \A q \in Passes : Seen(q)' = Seen(q)
    BY <2>1 DEF Seen
  <2>3. Waiting' = Waiting /\ Written' = Written
    BY <2>1 DEF Waiting, Written, TypeOK
  <2>4. QED
    BY <1>0, <1>a, <2>1, <2>2, <2>3
<1>f. ASSUME NEW p \in Passes, FindSimilar(p) PROVE BornInv' /\ FreshInv'
  <2>1. PICK e \in store : found' = [found EXCEPT ![p] = e] /\ \E m \in Merged(e) : into' = [into EXCEPT ![p] = m]
    BY <1>f DEF FindSimilar
  <2>2. PICK m \in Merged(e) : into' = [into EXCEPT ![p] = m]
    BY <2>1
  <2>3. pc' = [pc EXCEPT ![p] = "merge"] /\ pc[p] = "idle" /\ ingests' >= ingests
        /\ UNCHANGED <<store, hand, listed, target>>
    BY <1>0, <1>f DEF FindSimilar
  <2>4. Waiting' = Waiting /\ Written' = Written
    BY <2>3 DEF Waiting, Written, TypeOK
  <2>5. m # None => m.born = e.born
    BY <2>2, MergedTypes DEF TypeOK
  <2>6. \A q \in Passes : \A x \in Seen(q)' : \E f \in Seen(q) \cup store : f.born = x.born
    <3> SUFFICES ASSUME NEW q \in Passes, NEW x \in Seen(q)' PROVE \E f \in Seen(q) \cup store : f.born = x.born
      OBVIOUS
    <3>1. CASE q = p
      <4>1. found'[p] = e /\ into'[p] = m
        BY <2>1, <2>2 DEF TypeOK
      <4>2. x \in Seen(q) \/ x = e \/ (x = m /\ m # None)
        BY <2>3, <3>1, <4>1 DEF Seen
      <4>3. QED
        BY <2>1, <2>5, <4>2
    <3>2. CASE q # p
      <4>1. found'[q] = found[q] /\ into'[q] = into[q]
        BY <2>1, <2>2, <3>2 DEF TypeOK
      <4>2. x \in Seen(q)
        BY <2>3, <4>1 DEF Seen
      <4>3. QED
        BY <4>2
    <3>3. QED
      BY <3>1, <3>2
  <2>7. {} \in SUBSET ({into[p]} \ {None}) /\ store' \subseteq store \cup {}
        /\ \A x \in {} : x.rec.key \in touched'
    BY <2>3
  <2>8. QED
    BY <1>m, <2>3, <2>4, <2>6, <2>7
<1>w. ASSUME NEW p \in Passes, WriteMerged(p) \/ DeleteMoved(p) \/ Stamp(p) PROVE BornInv' /\ FreshInv'
  <2> DEFINE M == IF into[p] = None \/ DeleteMoved(p) THEN {} ELSE {into[p]}
  <2>1. pc[p] \in {"merge", "unmerge", "stamp"} /\ ingests' >= ingests /\ UNCHANGED <<hand, listed, target>>
        /\ (pc' = [pc EXCEPT ![p] = "unmerge"] \/ pc' = [pc EXCEPT ![p] = "stamp"] \/ pc' = [pc EXCEPT ![p] = "idle"])
    BY <1>0, <1>w DEF WriteMerged, DeleteMoved, Stamp, AfterMerge
  <2>2. Waiting' = Waiting /\ Written' = Written
    BY <2>1 DEF Waiting, Written, TypeOK
  <2>3. \A q \in Passes : found'[q] \in {found[q], None} /\ into'[q] \in {into[q], None}
    BY <1>w, ForgetTypes DEF WriteMerged, DeleteMoved, Stamp, TypeOK
  <2>4. \A q \in Passes : Seen(q)' \subseteq Seen(q)
    BY <2>1, <2>3 DEF Seen
  <2>5. store' \subseteq store \cup M
    BY <1>w DEF WriteMerged, DeleteMoved, Stamp, Put, Without, StandingInv
  <2>6. \A m \in M : m.rec.key \in touched'
    <3>1. CASE WriteMerged(p)
      BY <3>1 DEF WriteMerged, TouchedInv, Traced, Merging
    <3>2. CASE Stamp(p)
      BY <1>0, <3>2 DEF Stamp, TouchedInv, Traced
    <3>3. QED
      BY <1>w, <3>1, <3>2
  <2>7. M \in SUBSET ({into[p]} \ {None})
    OBVIOUS
  <2>8. \A q \in Passes : \A x \in Seen(q)' : \E f \in Seen(q) \cup store : f.born = x.born
    BY <2>4
  <2> HIDE DEF M
  <2>9. QED
    BY <1>m, <2>1, <2>2, <2>5, <2>6, <2>7, <2>8
(* A pass that ends, by an exception or with its process.                   *)
<1>b. ASSUME NEW G \in SUBSET Passes, UNCHANGED <<store, ingests>>,
             \A q \in G : pc'[q] = "idle" /\ hand'[q] = None /\ target'[q] = None /\ listed'[q] = {}
                        /\ found'[q] = None /\ into'[q] = None,
             \A q \in Passes \ G : pc'[q] = pc[q] /\ hand'[q] = hand[q] /\ target'[q] = target[q] /\ listed'[q] = listed[q]
                        /\ found'[q] = found[q] /\ into'[q] = into[q]
      PROVE  BornInv' /\ FreshInv'
  <2>1. \A q \in Passes : Seen(q)' \subseteq Seen(q) \cup store
    BY <1>b DEF Seen
  <2>2. Waiting' \subseteq Waiting /\ Written' \subseteq Written \ G /\ \A q \in Written : q \in Passes
    BY <1>b DEF Waiting, Written
  <2>3. \A q \in Passes : hand'[q] # None => hand'[q] = hand[q]
    BY <1>b
  <2>4. \A q \in Written' : hand'[q] = hand[q]
    BY <1>b, <2>2
  <2>5. CASE Passes = {}
    BY <1>b, <2>5 DEF BornInv, FreshInv, Waiting, Written
  <2>6. ASSUME NEW p \in Passes PROVE BornInv' /\ FreshInv'
    BY <1>0, <1>a, <1>b, <2>1, <2>2, <2>3, <2>4
  <2>7. QED
    BY <2>5, <2>6
<1>10. ASSUME NEW p \in Passes, StoreRaises(p) PROVE BornInv' /\ FreshInv'
  <2>1. /\ pc' = [pc EXCEPT ![p] = "idle"] /\ hand' = [hand EXCEPT ![p] = None]
        /\ target' = [target EXCEPT ![p] = None] /\ listed' = [listed EXCEPT ![p] = {}]
        /\ found' = [found EXCEPT ![p] = None] /\ into' = [into EXCEPT ![p] = None]
        /\ UNCHANGED <<store, ingests>>
    BY <1>10 DEF StoreRaises
  <2>2. {p} \in SUBSET Passes
    OBVIOUS
  <2>3. /\ \A q \in {p} : pc'[q] = "idle" /\ hand'[q] = None /\ target'[q] = None /\ listed'[q] = {}
                   /\ found'[q] = None /\ into'[q] = None
        /\ \A q \in Passes \ {p} : pc'[q] = pc[q] /\ hand'[q] = hand[q] /\ target'[q] = target[q] /\ listed'[q] = listed[q]
                   /\ found'[q] = found[q] /\ into'[q] = into[q]
    BY <2>1 DEF TypeOK
  <2>4. QED
    BY <1>b, <2>1, <2>2, <2>3
<1>11. ASSUME NEW o \in Processes, Die(o) PROVE BornInv' /\ FreshInv'
  <2> DEFINE G == {q \in Passes : process[q] = o}
  <2>1. /\ G \in SUBSET Passes /\ UNCHANGED <<store, ingests>>
        /\ \A q \in G : pc'[q] = "idle" /\ hand'[q] = None /\ target'[q] = None /\ listed'[q] = {}
                   /\ found'[q] = None /\ into'[q] = None
        /\ \A q \in Passes \ G : pc'[q] = pc[q] /\ hand'[q] = hand[q] /\ target'[q] = target[q] /\ listed'[q] = listed[q]
                   /\ found'[q] = found[q] /\ into'[q] = into[q]
    BY <1>11 DEF Die
  <2> HIDE DEF G
  <2>2. QED
    BY <1>b, <2>1
<1>12. CASE Tick \/ UNCHANGED vars
  <2>1. UNCHANGED <<store, ingests, pc, hand, target, listed, found, into>>
    BY <1>12 DEF Tick, vars
  <2>2. {} \in SUBSET Passes
    OBVIOUS
  <2>3. QED
    BY <1>b, <2>1, <2>2
<1>13. QED
  BY <1>1, <1>2, <1>3, <1>4, <1>6, <1>7, <1>8, <1>9, <1>f, <1>w, <1>10, <1>11, <1>12 DEF Next, Ingest, Pass

LEMMA TouchedStep ==
  ASSUME TypeOK, StandingInv, TouchedInv, [Next]_vars
  PROVE  TouchedInv'
<1> USE DEF Goto, Becomes, merge
<1>0. touched \subseteq touched' /\ None \notin Entries
  BY TouchedGrows, NoEntry
<1>a. ASSUME \A e \in store' : e \in store \/ e.text = None \/ e.rec.key \in touched',
             \A q \in Passes : Held(q)' \subseteq Held(q) \cup store,
             \A q \in Passes : Traced(q)'
      PROVE  TouchedInv'
  BY <1>0, <1>a DEF TouchedInv
<1>b. ASSUME NEW q \in Passes, UNCHANGED <<found[q], into[q]>>,
             pc'[q] = pc[q] \/ pc'[q] \notin {"merge", "unmerge", "stamp"}
      PROVE  Traced(q)'
  BY <1>0, <1>b DEF TouchedInv, Traced, Merging
<1>c. ASSUME NEW q \in Passes, pc'[q] = "idle" PROVE Traced(q)'
  BY <1>c DEF Traced, Merging
<1>1. ASSUME NEW p \in Passes,
             (\E r \in Records : Judge(p, r)) \/ DropOne(p) \/ Annotate(p) \/ Lesson(p) \/ Evicted(p)
      PROVE  TouchedInv'
  <2>1. /\ UNCHANGED <<listed, target, found, into>> /\ (\A q \in Passes \ {p} : pc'[q] = pc[q])
        /\ \/ pc'[p] = pc[p]
           \/ pc'[p] \in {"lock", "idle", "evict"}
    BY <1>1 DEF Judge, DropOne, Annotate, Lesson, Evicted, TypeOK
  <2>2. \A q \in Passes : Traced(q)'
    BY <1>b, <2>1
  <2>3. \A q \in Passes : Held(q)' = Held(q)
    BY <2>1 DEF Held
  <2>4. \A e \in store' : e \in store \/ e.text = None
    BY <1>1 DEF Judge, DropOne, Annotate, Lesson, Evicted, Put, Without, StandingInv
  <2>5. QED
    BY <1>a, <2>2, <2>3, <2>4
<1>2. ASSUME NEW p \in Passes, Enter(p) PROVE TouchedInv'
  <2>1. /\ pc' = [pc EXCEPT ![p] = "drop"] /\ UNCHANGED <<store, target, found, into>>
        /\ listed'[p] \subseteq store /\ \A q \in Passes : q # p => listed'[q] = listed[q]
    BY <1>2 DEF Enter, TypeOK
  <2>2. \A q \in Passes : Traced(q)'
    BY <1>b, <2>1 DEF TypeOK
  <2>3. \A q \in Passes : Held(q)' \subseteq Held(q) \cup store
    BY <2>1 DEF Held
  <2>4. QED
    BY <1>a, <2>1, <2>2, <2>3
<1>3. ASSUME NEW p \in Passes, Admit(p) PROVE TouchedInv'
  <2>1. /\ pc' = [pc EXCEPT ![p] = "write"] /\ UNCHANGED <<store, found, into>>
        /\ listed' = [listed EXCEPT ![p] = {}] /\ \A q \in Passes : q # p => target'[q] = target[q]
    BY <1>3 DEF Admit, TypeOK
  <2>2. target'[p] \in listed[p] \cup {None}
    BY <1>3, TargetMatches DEF Admit, TypeOK, Matches, ActiveAt
  <2>3. \A q \in Passes : Traced(q)'
    BY <1>b, <2>1 DEF TypeOK
  <2>4. \A q \in Passes : Held(q)' \subseteq Held(q)
    BY <2>1, <2>2 DEF Held, TypeOK
  <2>5. QED
    BY <1>a, <2>1, <2>3, <2>4
<1>4. ASSUME NEW p \in Passes, Write(p) \/ DeleteTarget(p) PROVE TouchedInv'
  <2>1. /\ UNCHANGED <<listed, found, into>> /\ (\A q \in Passes \ {p} : pc'[q] = pc[q])
        /\ pc'[p] \in {"delete", "annotate", "idle"}
    BY <1>4 DEF Write, DeleteTarget, After, TypeOK
  <2>2. \A q \in Passes : target'[q] \in {target[q], None}
    BY <1>4, LeaveTypes DEF Write, DeleteTarget, TypeOK
  <2>3. \A q \in Passes : Traced(q)'
    BY <1>b, <2>1
  <2>4. \A q \in Passes : Held(q)' \subseteq Held(q)
    BY <2>1, <2>2 DEF Held
  <2>5. \A e \in store' : e \in store \/ e.text = None
    BY <1>4 DEF Write, DeleteTarget, Put, Without, StandingInv
  <2>6. QED
    BY <1>a, <2>3, <2>4, <2>5
<1>5. ASSUME NEW p \in Passes, FindSimilar(p) PROVE TouchedInv'
  <2>1. PICK e \in store : found' = [found EXCEPT ![p] = e] /\ \E m \in Merged(e) : into' = [into EXCEPT ![p] = m]
    BY <1>5 DEF FindSimilar
  <2>2. PICK m \in Merged(e) : into' = [into EXCEPT ![p] = m]
    BY <2>1
  <2>3. pc' = [pc EXCEPT ![p] = "merge"] /\ UNCHANGED <<store, listed, target>>
    BY <1>5 DEF FindSimilar
  <2>4. m # None => m.rec = e.rec
    BY <2>2, MergedTypes DEF TypeOK
  <2>5. Traced(p)'
    BY <2>1, <2>2, <2>3, <2>4 DEF Traced, Merging, TypeOK
  <2>6. \A q \in Passes : q # p => Traced(q)'
    BY <1>b, <2>1, <2>2, <2>3 DEF TypeOK
  <2>7. \A q \in Passes : Held(q)' \subseteq Held(q) \cup store
    BY <2>1, <2>3 DEF Held, TypeOK
  <2>8. QED
    BY <1>a, <2>3, <2>5, <2>6, <2>7
<1>6. ASSUME NEW p \in Passes, WriteMerged(p) PROVE TouchedInv'
  <2>1. /\ pc[p] = "merge" /\ pc' = [pc EXCEPT ![p] = IF Moves(p) THEN "unmerge" ELSE AfterMerge(p)]
        /\ found[p].rec.key \in touched' /\ UNCHANGED <<listed, target>>
    BY <1>6 DEF WriteMerged
  <2>2. into[p] # None => into[p].rec.key \in touched'
    BY <2>1 DEF TouchedInv, Traced, Merging
  <2>3. \A e \in store' : e \in store \/ (into[p] # None /\ e = into[p])
    BY <1>6 DEF WriteMerged, Put
  <2>4. CASE Moves(p)
    <3>1. UNCHANGED <<found, into>> /\ pc'[p] = "unmerge" /\ (\A q \in Passes \ {p} : pc'[q] = pc[q])
      BY <1>6, <2>1, <2>4 DEF WriteMerged, TypeOK
    <3>2. Traced(p)'
      BY <2>1, <2>2, <3>1 DEF Traced, TouchedInv, Merging
    <3>3. \A q \in Passes : Traced(q)'
      BY <1>b, <3>1, <3>2
    <3>4. \A q \in Passes : Held(q)' = Held(q)
      BY <2>1, <3>1 DEF Held
    <3>5. QED
      BY <1>a, <2>2, <2>3, <3>3, <3>4
  <2>5. CASE ~Moves(p)
    <3>1. Forget(p) /\ pc'[p] = AfterMerge(p) /\ (\A q \in Passes \ {p} : pc'[q] = pc[q])
      BY <1>6, <2>1, <2>5 DEF WriteMerged, TypeOK
    <3>2. /\ \A q \in Passes \ {p} : found'[q] = found[q] /\ into'[q] = into[q]
          /\ \A q \in Passes : found'[q] \in {found[q], None}
          /\ AfterMerge(p) = "idle" \/ (AfterMerge(p) = "stamp" /\ into'[p] = into[p] /\ into[p] # None)
      BY <3>1, ForgetTypes DEF TypeOK
    <3>3. Traced(p)'
      BY <2>2, <3>1, <3>2 DEF Traced, Merging
    <3>4. \A q \in Passes : Traced(q)'
      BY <1>b, <3>1, <3>2, <3>3
    <3>5. \A q \in Passes : Held(q)' \subseteq Held(q)
      BY <2>1, <3>2 DEF Held
    <3>6. QED
      BY <1>a, <2>2, <2>3, <3>4, <3>5
  <2>6. QED
    BY <2>4, <2>5
<1>7. ASSUME NEW p \in Passes, DeleteMoved(p) PROVE TouchedInv'
  <2>1. /\ pc[p] = "unmerge" /\ Forget(p) /\ pc'[p] = AfterMerge(p) /\ (\A q \in Passes \ {p} : pc'[q] = pc[q])
        /\ UNCHANGED <<listed, target>> /\ store' \subseteq store
    BY <1>7 DEF DeleteMoved, Without, TypeOK
  <2>2. /\ \A q \in Passes \ {p} : found'[q] = found[q] /\ into'[q] = into[q]
        /\ \A q \in Passes : found'[q] \in {found[q], None}
        /\ AfterMerge(p) = "idle" \/ (AfterMerge(p) = "stamp" /\ into'[p] = into[p] /\ into[p] # None)
    BY <2>1, ForgetTypes DEF TypeOK
  <2>3. into[p] # None => into[p].rec.key \in touched'
    BY <1>0, <2>1 DEF TouchedInv, Traced, Merging
  <2>4. Traced(p)'
    BY <2>1, <2>2, <2>3 DEF Traced, Merging
  <2>5. \A q \in Passes : Traced(q)'
    BY <1>b, <2>1, <2>2, <2>4
  <2>6. \A q \in Passes : Held(q)' \subseteq Held(q)
    BY <2>1, <2>2 DEF Held
  <2>7. QED
    BY <1>a, <2>1, <2>5, <2>6
<1>8. ASSUME NEW p \in Passes, Stamp(p) PROVE TouchedInv'
  <2>1. /\ pc[p] = "stamp" /\ pc'[p] = "idle" /\ (\A q \in Passes \ {p} : pc'[q] = pc[q] /\ into'[q] = into[q])
        /\ UNCHANGED <<listed, target, found>>
    BY <1>8 DEF Stamp, TypeOK
  <2>2. into[p].rec.key \in touched'
    BY <1>0, <2>1 DEF TouchedInv, Traced
  <2>3. \A e \in store' : e \in store \/ e.rec.key \in touched'
    BY <1>8, <2>2 DEF Stamp, Put
  <2>4. \A q \in Passes : Traced(q)'
    BY <1>b, <1>c, <2>1
  <2>5. \A q \in Passes : Held(q)' = Held(q)
    BY <2>1 DEF Held
  <2>6. QED
    BY <1>a, <2>3, <2>4, <2>5
<1>9. ASSUME NEW p \in Passes, StoreRaises(p) PROVE TouchedInv'
  <2>1. /\ store' = store /\ pc'[p] = "idle"
        /\ \A q \in Passes \ {p} : pc'[q] = pc[q] /\ found'[q] = found[q] /\ into'[q] = into[q]
    BY <1>9 DEF StoreRaises, TypeOK
  <2>2. \A q \in Passes : listed'[q] \subseteq listed[q] /\ target'[q] \in {target[q], None} /\ found'[q] \in {found[q], None}
    BY <1>9 DEF StoreRaises, TypeOK
  <2>3. \A q \in Passes : Traced(q)'
    BY <1>b, <1>c, <2>1
  <2>4. \A q \in Passes : Held(q)' \subseteq Held(q)
    BY <2>2 DEF Held
  <2>5. QED
    BY <1>a, <2>1, <2>3, <2>4
<1>10. ASSUME NEW o \in Processes, Die(o) PROVE TouchedInv'
  <2>1. store' = store /\ \A q \in Passes :
           \/ pc'[q] = "idle"
           \/ pc'[q] = pc[q] /\ found'[q] = found[q] /\ into'[q] = into[q]
    BY <1>10 DEF Die
  <2>2. \A q \in Passes : listed'[q] \subseteq listed[q] /\ target'[q] \in {target[q], None} /\ found'[q] \in {found[q], None}
    BY <1>10 DEF Die
  <2>3. \A q \in Passes : Traced(q)'
    BY <1>b, <1>c, <2>1
  <2>4. \A q \in Passes : Held(q)' \subseteq Held(q)
    BY <2>2 DEF Held
  <2>5. QED
    BY <1>a, <2>1, <2>3, <2>4
<1>11. CASE Tick \/ UNCHANGED vars
  <2>1. UNCHANGED <<store, pc, listed, target, found, into>>
    BY <1>11 DEF Tick, vars
  <2>2. \A q \in Passes : Traced(q)'
    BY <1>b, <2>1
  <2>3. \A q \in Passes : Held(q)' = Held(q)
    BY <2>1 DEF Held
  <2>4. QED
    BY <1>a, <2>1, <2>2, <2>3
<1>12. QED
  BY <1>1, <1>2, <1>3, <1>4, <1>5, <1>6, <1>7, <1>8, <1>9, <1>10, <1>11 DEF Next, Ingest, Pass

LEMMA SpanStep ==
  ASSUME ~Dated, TypeOK, TypeOK', StandingInv, SpanInv, [Next]_vars
  PROVE  SpanInv'
<1> USE DEF Goto, Becomes
(* A pass that ends or comes to nothing has no span.                        *)
<1>a. ASSUME NEW q \in Passes, pc'[q] \in {"idle", "annotate", "evict", "merge", "unmerge", "stamp"}, target'[q] = None
      PROVE  Span(q)'
  BY <1>a DEF Span, Waiting, Deleting
<1>b. ASSUME NEW q \in Passes, clock' = clock, pc'[q] = pc[q], now'[q] = now[q], hand'[q] = hand[q],
             todo'[q] = todo[q], target'[q] = target[q]
      PROVE  Span(q)'
  BY <1>b DEF SpanInv, Span, Waiting, Deleting, Expired
<1>1. ASSUME NEW p \in Passes, NEW r \in Records, Judge(p, r) PROVE SpanInv'
  <2>1. PICK h \in Entries : hand' = [hand EXCEPT ![p] = h] /\ (h.active => h.until = clock + TTL)
    BY <1>1, Judged DEF Judge
  <2>2. pc[p] = "idle" /\ pc' = [pc EXCEPT ![p] = "lock"] /\ now' = [now EXCEPT ![p] = clock]
        /\ UNCHANGED <<clock, todo, target>>
    BY <1>1 DEF Judge
  <2>3. Span(p)'
    <3>1. target[p] = None
      BY <2>2 DEF SpanInv, Span
    <3>2. pc'[p] = "lock" /\ hand'[p] = h /\ now'[p] = clock /\ target'[p] = None /\ clock' = clock /\ clock \in Int
      BY <2>1, <2>2, <3>1, ConventionsAssumption DEF TypeOK, ConventionsAssumption
    <3>3. QED
      BY <2>1, <3>2 DEF Span, Waiting
  <2>4. ASSUME NEW q \in Passes, q # p PROVE Span(q)'
    BY <1>b, <2>1, <2>2, <2>4 DEF TypeOK
  <2>5. QED
    BY <2>3, <2>4 DEF SpanInv
<1>2. ASSUME NEW p \in Passes, Enter(p) PROVE SpanInv'
  <2>1. /\ pc[p] = "lock" /\ pc' = [pc EXCEPT ![p] = "drop"] /\ UNCHANGED <<clock, hand, now, target>>
        /\ \A q \in Passes : q # p => todo'[q] = todo[q]
    BY <1>2 DEF Enter, TypeOK
  <2>2. \A e \in todo'[p] : Expired(e, now[p])
    BY <1>2 DEF Enter, TypeOK
  <2>3. Span(p)'
    <3>1. pc'[p] = "drop" /\ p \in Waiting
      BY <2>1 DEF TypeOK, Waiting
    <3>2. QED
      BY <2>1, <2>2, <3>1 DEF SpanInv, Span, Expired, Waiting
  <2>4. ASSUME NEW q \in Passes, q # p PROVE Span(q)'
    BY <1>b, <2>1, <2>4 DEF TypeOK
  <2>5. QED
    BY <2>3, <2>4 DEF SpanInv
<1>3. ASSUME NEW p \in Passes, DropOne(p) PROVE SpanInv'
  <2>1. /\ UNCHANGED <<clock, hand, now, target, pc>>
        /\ todo'[p] \subseteq todo[p] /\ \A q \in Passes : q # p => todo'[q] = todo[q]
    BY <1>3 DEF DropOne, TypeOK
  <2>2. Span(p)'
    BY <2>1 DEF SpanInv, Span, Waiting, Deleting, Expired
  <2>3. ASSUME NEW q \in Passes, q # p PROVE Span(q)'
    BY <1>b, <2>1, <2>3
  <2>4. QED
    BY <2>2, <2>3 DEF SpanInv
<1>4. ASSUME NEW p \in Passes, Admit(p) PROVE SpanInv'
  <2> DEFINE ok == hand[p].active /\ ~Conflict(p) /\ ~Full(p)
  <2>1. /\ pc[p] = "drop" /\ pc' = [pc EXCEPT ![p] = "write"] /\ UNCHANGED <<clock, now, todo>>
        /\ hand' = [hand EXCEPT ![p] = [hand[p] EXCEPT !.active = ok]]
        /\ target' = [target EXCEPT ![p] = IF ok THEN Target(p) ELSE None]
    BY <1>4 DEF Admit
  <2>2. hand[p] \in Entries
    BY <2>1 DEF StandingInv, TypeOK
  <2>3. hand'[p] = [hand[p] EXCEPT !.active = ok] /\ target'[p] = IF ok THEN Target(p) ELSE None
    BY <2>1 DEF TypeOK
  <2>4. hand'[p].rec = hand[p].rec /\ hand'[p].until = hand[p].until /\ hand'[p].active = ok
    BY <2>2, <2>3 DEF Entries
  <2>5. target'[p] # None => ok /\ target'[p].rec.key = hand[p].rec.key
    BY <2>3, TargetMatches DEF Matches
  <2>6. hand'[p].active => hand[p].active
    BY <2>4
  <2> HIDE DEF ok
  <2>7. target'[p] # None => hand'[p].active
    BY <2>4, <2>5
  <2>8. pc'[p] = "write" /\ p \in Waiting /\ now'[p] = now[p]
    BY <2>1 DEF TypeOK, Waiting
  <2>9. clock' <= now'[p] + 1 /\ (hand'[p].active => hand'[p].until = now'[p] + TTL)
    BY <2>1, <2>4, <2>6, <2>8 DEF SpanInv, Span
  <2>10. Span(p)'
    BY <2>4, <2>5, <2>7, <2>8, <2>9 DEF Span
  <2>11. ASSUME NEW q \in Passes, q # p PROVE Span(q)'
    BY <1>b, <2>1, <2>11 DEF TypeOK
  <2>12. QED
    BY <2>10, <2>11 DEF SpanInv
<1>5. ASSUME NEW p \in Passes, Leave(p), pc' = [pc EXCEPT ![p] = After(p)], UNCHANGED <<clock, todo>>
      PROVE  SpanInv'
  <2>1. /\ target' = [target EXCEPT ![p] = None] /\ now' = [now EXCEPT ![p] = 0]
        /\ hand' = hand \/ hand' = [hand EXCEPT ![p] = None]
    BY <1>5, LeaveTypes
  <2>2. Span(p)'
    BY <1>5, <1>a, <2>1 DEF TypeOK, After
  <2>3. ASSUME NEW q \in Passes, q # p PROVE Span(q)'
    BY <1>5, <1>b, <2>1, <2>3 DEF TypeOK
  <2>4. QED
    BY <2>2, <2>3 DEF SpanInv
<1>6. ASSUME NEW p \in Passes, Write(p) PROVE SpanInv'
  <2>1. CASE target[p] = None
    BY <1>5, <1>6, <2>1 DEF Write
  <2>2. CASE target[p] # None
    <3>1. pc[p] = "write" /\ pc' = [pc EXCEPT ![p] = "delete"] /\ UNCHANGED <<clock, hand, now, target, todo>>
      BY <1>6, <2>2 DEF Write
    <3>2. Span(p)'
      <4>1. p \in Waiting /\ pc'[p] = "delete"
        BY <3>1 DEF Waiting, TypeOK
      <4>2. Span(p)
        BY DEF SpanInv
      <4>3. QED
        BY <2>2, <3>1, <4>1, <4>2 DEF Span, Waiting
    <3>3. ASSUME NEW q \in Passes, q # p PROVE Span(q)'
      BY <1>b, <3>1, <3>3 DEF TypeOK
    <3>4. QED
      BY <3>2, <3>3 DEF SpanInv
  <2>3. QED
    BY <2>1, <2>2
<1>7. ASSUME NEW p \in Passes, DeleteTarget(p) PROVE SpanInv'
  BY <1>5, <1>7 DEF DeleteTarget
<1>8. ASSUME NEW p \in Passes, Annotate(p) \/ Lesson(p) \/ Evicted(p) PROVE SpanInv'
  <2>1. /\ pc[p] \in {"annotate", "idle", "evict"}
        /\ pc' \in {[pc EXCEPT ![p] = "idle"], [pc EXCEPT ![p] = "evict"]}
        /\ UNCHANGED <<clock, now, target>>
        /\ \A q \in Passes : q # p => hand'[q] = hand[q] /\ todo'[q] = todo[q]
    BY <1>8 DEF Annotate, Lesson, Evicted, TypeOK
  <2>2. Span(p)'
    <3>1. target[p] = None
      BY <2>1 DEF SpanInv, Span
    <3>2. pc'[p] \in {"idle", "annotate", "evict"}
      BY <2>1 DEF TypeOK
    <3>3. QED
      BY <1>a, <2>1, <3>1, <3>2
  <2>3. ASSUME NEW q \in Passes, q # p PROVE Span(q)'
    BY <1>b, <2>1, <2>3 DEF TypeOK
  <2>4. QED
    BY <2>2, <2>3 DEF SpanInv
<1>m. ASSUME NEW p \in Passes, FindSimilar(p) \/ WriteMerged(p) \/ DeleteMoved(p) \/ Stamp(p) PROVE SpanInv'
  <2>1. /\ pc[p] \in {"idle", "merge", "unmerge", "stamp"}
        /\ pc'[p] \in {"idle", "merge", "unmerge", "stamp"} /\ \A q \in Passes \ {p} : pc'[q] = pc[q]
        /\ UNCHANGED <<clock, now, hand, todo, target>>
    BY <1>m DEF FindSimilar, WriteMerged, DeleteMoved, Stamp, AfterMerge, TypeOK
  <2>2. Span(p)'
    <3>1. target[p] = None
      BY <2>1 DEF SpanInv, Span
    <3>2. QED
      BY <1>a, <2>1, <3>1
  <2>3. ASSUME NEW q \in Passes, q # p PROVE Span(q)'
    BY <1>b, <2>1, <2>3
  <2>4. QED
    BY <2>2, <2>3 DEF SpanInv
<1>9. ASSUME NEW p \in Passes, StoreRaises(p) PROVE SpanInv'
  <2>1. /\ pc' = [pc EXCEPT ![p] = "idle"] /\ now' = [now EXCEPT ![p] = 0]
        /\ hand' = [hand EXCEPT ![p] = None] /\ target' = [target EXCEPT ![p] = None]
        /\ todo' = [todo EXCEPT ![p] = {}] /\ UNCHANGED clock
    BY <1>9 DEF StoreRaises
  <2>2. Span(p)'
    BY <1>a, <2>1 DEF TypeOK
  <2>3. ASSUME NEW q \in Passes, q # p PROVE Span(q)'
    BY <1>b, <2>1, <2>3 DEF TypeOK
  <2>4. QED
    BY <2>2, <2>3 DEF SpanInv
<1>10. ASSUME NEW o \in Processes, Die(o) PROVE SpanInv'
  <2>1. ASSUME NEW q \in Passes, process[q] = o PROVE Span(q)'
    BY <1>10, <1>a, <2>1 DEF Die
  <2>2. ASSUME NEW q \in Passes, process[q] # o PROVE Span(q)'
    <3>1. /\ pc'[q] = pc[q] /\ now'[q] = now[q] /\ hand'[q] = hand[q] /\ todo'[q] = todo[q]
          /\ target'[q] = target[q] /\ clock' = clock
      BY <1>10, <2>2 DEF Die
    <3>2. QED
      BY <1>b, <3>1
  <2>3. QED
    BY <2>1, <2>2 DEF SpanInv
<1>11. CASE Tick
  <2>1. /\ clock' = clock + 1 /\ UNCHANGED <<pc, hand, now, todo, target>>
        /\ \A p \in Passes : pc[p] \in {"lock", "drop", "write", "delete"} => now[p] = clock
    BY <1>11 DEF Tick
  <2>2. ASSUME NEW q \in Passes PROVE Span(q)'
    <3>1. q \in Waiting \cup Deleting => now[q] = clock
      BY <2>1 DEF Waiting, Deleting
    <3>2. Waiting' = Waiting /\ Deleting' = Deleting
      BY <2>1 DEF Waiting, Deleting
    <3>3. q \in Waiting \cup Deleting => clock' <= now'[q] + 1
      BY <2>1, <3>1, ConventionsAssumption DEF TypeOK, ConventionsAssumption
    <3>4. QED
      BY <2>1, <3>2, <3>3 DEF SpanInv, Span, Expired
  <2>3. QED
    BY <2>2 DEF SpanInv
<1>12. CASE UNCHANGED vars
  <2>1. UNCHANGED <<clock, pc, hand, now, todo, target>>
    BY <1>12 DEF vars
  <2>2. QED
    BY <1>b, <2>1 DEF SpanInv
<1>13. QED
  BY <1>1, <1>2, <1>3, <1>4, <1>6, <1>7, <1>8, <1>m, <1>9, <1>10, <1>11, <1>12 DEF Next, Ingest, Pass

(* Only a lesson and the end of a replacement take away what is served.      *)
LEMMA ServedGoes ==
  ASSUME ~Dated, TypeOK, StandingInv, FreshInv, TouchedInv, SpanInv, [Next]_vars, NEW e \in Retrievable
  PROVE  \/ e \in store'
         \/ e.rec.key \in touched'
         \/ \E p \in Passes : DeleteTarget(p) /\ Id(e) = Id(target[p])
<1> USE DEF Goto
<1>1. e \in store /\ e \in Entries /\ e \in ActiveAt(store, clock) /\ ~Expired(e, clock)
  BY DEF Retrievable, ActiveAt, TypeOK
<1>0. touched \subseteq touched' /\ None \notin Records /\ (e.text # None => e.rec.key \in touched)
      /\ e.rec \in Records
  BY <1>1, TouchedGrows, ConventionsAssumption DEF ConventionsAssumption, TouchedInv, Entries
<1>2. ASSUME NEW p \in Passes, DropOne(p) PROVE e \in store' \/ e.rec.key \in touched'
  <2>1. PICK f \in todo[p] :
          /\ store' = Without(f)
          /\ touched' = touched \cup
                {g.rec.key : g \in {h \in ActiveAt(store, clock) : pc[p] = "evict" /\ Id(h) = Id(f)}}
    BY <1>2 DEF DropOne
  <2>2. CASE Id(e) # Id(f)
    BY <1>1, <2>1, <2>2 DEF Without
  <2>3. CASE Id(e) = Id(f) /\ pc[p] = "evict"
    BY <1>1, <2>1, <2>3
  <2>4. CASE Id(e) = Id(f) /\ pc[p] = "drop" /\ e.text = None
    <3>1. Expired(f, now[p]) /\ now[p] <= clock
      BY <2>4 DEF SpanInv, Span, StandingInv
    <3>2. e.until = f.until /\ f \in Entries
      BY <1>0, <2>4 DEF Id, TypeOK
    <3>3. Expired(e, clock)
      BY <3>1, <3>2, ConventionsAssumption DEF Expired, Entries, Times, TypeOK, ConventionsAssumption
    <3>4. QED
      BY <1>1, <3>3
  <2>5. QED
    BY <1>0, <1>2, <2>2, <2>3, <2>4 DEF DropOne
<1>3. ASSUME NEW p \in Passes, Write(p) PROVE e \in store' \/ e.rec.key \in touched'
  <2>1. p \in Waiting /\ store' = {f \in store : Id(f) # Id(hand[p])} \cup {hand[p]}
    BY <1>3 DEF Write, Put, Waiting
  <2>2. e.born # hand[p].born
    BY <1>1, <2>1 DEF FreshInv
  <2>3. QED
    BY <1>0, <1>1, <2>1, <2>2 DEF Id
<1>4. ASSUME NEW p \in Passes, Annotate(p) PROVE e \in store' \/ e.rec.key \in touched'
  <2>1. p \in Written /\ store' = {f \in store : Id(f) # Id(hand[p])} \cup {hand[p]}
    BY <1>4 DEF Annotate, Put, Written
  <2>2. e.born = hand[p].born => e = hand[p] \/ e.rec.key \in touched
    BY <1>1, <2>1 DEF FreshInv
  <2>3. QED
    BY <1>0, <1>1, <2>1, <2>2 DEF Id
(* What a lesson overwrites or moves is of a key that it touches.           *)
<1>m. ASSUME NEW p \in Passes, WriteMerged(p) \/ DeleteMoved(p) \/ Stamp(p)
      PROVE  e \in store' \/ e.rec.key \in touched'
  <2>1. ASSUME NEW f, f \in Entries, f.rec.key \in touched', Id(e) = Id(f) PROVE e.rec.key \in touched'
    BY <1>0, <2>1 DEF Id
  <2>2. CASE WriteMerged(p) /\ into[p] # None
    <3>1. store' = {f \in store : Id(f) # Id(into[p])} \cup {into[p]} /\ into[p] \in Entries
          /\ into[p].rec.key \in touched'
      BY <2>2 DEF WriteMerged, Put, TypeOK, TouchedInv, Traced, Merging
    <3>2. QED
      BY <1>1, <2>1, <3>1
  <2>3. CASE WriteMerged(p) /\ into[p] = None
    BY <1>1, <2>3 DEF WriteMerged
  <2>4. CASE DeleteMoved(p)
    <3>1. store' = {f \in store : Id(f) # Id(found[p])} /\ found[p] \in Entries /\ found[p].rec.key \in touched'
      BY <1>0, <2>4 DEF DeleteMoved, Without, TypeOK, TouchedInv, Traced, StandingInv, Merging
    <3>2. QED
      BY <1>1, <2>1, <3>1
  <2>5. CASE Stamp(p)
    <3>1. store' = {f \in store : Id(f) # Id(into[p])} \cup {into[p]} /\ into[p] \in Entries
          /\ into[p].rec.key \in touched'
      BY <1>0, <2>5 DEF Stamp, Put, TypeOK, TouchedInv, Traced, StandingInv
    <3>2. QED
      BY <1>1, <2>1, <3>1
  <2>6. QED
    BY <1>m, <2>2, <2>3, <2>4, <2>5
<1>5. ASSUME NEW p \in Passes, DeleteTarget(p) PROVE e \in store' \/ Id(e) = Id(target[p])
  BY <1>1, <1>5 DEF DeleteTarget, Without
<1>6. ASSUME NEW p \in Passes,
             (\E r \in Records : Judge(p, r)) \/ Enter(p) \/ Admit(p) \/ Lesson(p) \/ Evicted(p)
             \/ FindSimilar(p) \/ StoreRaises(p)
      PROVE  e \in store'
  BY <1>1, <1>6 DEF Judge, Enter, Admit, Lesson, Evicted, FindSimilar, StoreRaises
<1>7. ASSUME Tick \/ (\E o \in Processes : Die(o)) \/ UNCHANGED vars PROVE e \in store'
  BY <1>1, <1>7 DEF Tick, Die, vars
<1>8. QED
  BY <1>2, <1>3, <1>4, <1>m, <1>5, <1>6, <1>7 DEF Next, Ingest, Pass

(* Who deletes in the next state deletes already or has just written.       *)
LEMMA Deletes ==
  ASSUME TypeOK, [Next]_vars, NEW p \in Deleting'
  PROVE  /\ p \in Passes /\ hand'[p] = hand[p] /\ now'[p] = now[p] /\ target'[p] = target[p]
         /\ p \in Deleting \/ (Write(p) /\ target[p] # None)
<1> USE DEF Goto, Becomes
<1>1. p \in Passes /\ pc'[p] = "delete"
  BY DEF Deleting
<1>2. ASSUME NEW q \in Passes, Write(q) PROVE p = q => target[p] # None /\ UNCHANGED <<hand, now, target>>
  BY <1>1, <1>2 DEF Write, After, TypeOK
<1>3. ASSUME NEW q \in Passes, Write(q), p # q
      PROVE  p \in Deleting /\ hand'[p] = hand[p] /\ now'[p] = now[p] /\ target'[p] = target[p]
  <2>1. pc'[p] = pc[p] /\ (Leave(q) \/ UNCHANGED <<hand, now, target>>)
    BY <1>1, <1>3 DEF Write, TypeOK
  <2>2. hand'[p] = hand[p] /\ now'[p] = now[p] /\ target'[p] = target[p]
    BY <1>1, <1>3, <2>1, LeaveTypes DEF TypeOK
  <2>3. QED
    BY <1>1, <2>1, <2>2 DEF Deleting
<1>4. ASSUME NEW q \in Passes, DeleteTarget(q)
      PROVE  p \in Deleting /\ hand'[p] = hand[p] /\ now'[p] = now[p] /\ target'[p] = target[p]
  <2>1. p # q /\ pc'[p] = pc[p] /\ Leave(q)
    BY <1>1, <1>4 DEF DeleteTarget, After, TypeOK
  <2>2. hand'[p] = hand[p] /\ now'[p] = now[p] /\ target'[p] = target[p]
    BY <1>1, <2>1, LeaveTypes DEF TypeOK
  <2>3. QED
    BY <1>1, <2>1, <2>2 DEF Deleting
<1>5. ASSUME NEW q \in Passes,
             (\E r \in Records : Judge(q, r)) \/ Enter(q) \/ DropOne(q) \/ Admit(q)
             \/ Annotate(q) \/ Lesson(q) \/ Evicted(q)
             \/ FindSimilar(q) \/ WriteMerged(q) \/ DeleteMoved(q) \/ Stamp(q) \/ StoreRaises(q)
      PROVE  p \in Deleting /\ hand'[p] = hand[p] /\ now'[p] = now[p] /\ target'[p] = target[p]
  <2>1. CASE DropOne(q)
    BY <1>1, <2>1 DEF DropOne, Deleting
  <2>2. CASE ~DropOne(q)
    <3>1. p # q
      BY <1>1, <1>5, <2>2 DEF Judge, Enter, Admit, Annotate, Lesson, Evicted,
          FindSimilar, WriteMerged, DeleteMoved, Stamp, AfterMerge, StoreRaises, TypeOK
    <3>2. pc'[p] = pc[p] /\ hand'[p] = hand[p] /\ now'[p] = now[p] /\ target'[p] = target[p]
      BY <1>1, <1>5, <2>2, <3>1 DEF Judge, Enter, Admit, Annotate, Lesson, Evicted,
          FindSimilar, WriteMerged, DeleteMoved, Stamp, AfterMerge, StoreRaises, TypeOK
    <3>3. QED
      BY <1>1, <3>2 DEF Deleting
  <2>3. QED
    BY <2>1, <2>2
<1>6. ASSUME NEW o \in Processes, Die(o)
      PROVE  p \in Deleting /\ hand'[p] = hand[p] /\ now'[p] = now[p] /\ target'[p] = target[p]
  BY <1>1, <1>6 DEF Die, Deleting
<1>7. ASSUME Tick \/ UNCHANGED vars
      PROVE  p \in Deleting /\ hand'[p] = hand[p] /\ now'[p] = now[p] /\ target'[p] = target[p]
  BY <1>1, <1>7 DEF Tick, vars, Deleting
<1>8. QED
  BY <1>1, <1>2, <1>3, <1>4, <1>5, <1>6, <1>7 DEF Next, Ingest, Pass

(* What has just been written serves the key of what it replaces.           *)
LEMMA WrittenServes ==
  ASSUME ~Dated, TypeOK, StandingInv, FreshInv, SpanInv, [Next]_vars,
         NEW q \in Passes, Write(q), target[q] # None
  PROVE  /\ hand[q] \in store' /\ hand[q].active /\ hand[q].until = now[q] + TTL
         /\ target[q].rec.key = hand[q].rec.key /\ Id(hand[q]) \notin Doomed'
<1>1. q \in Waiting /\ hand[q] \in store'
  BY DEF Write, Goto, Put, Waiting
<1>2. hand[q].active /\ hand[q].until = now[q] + TTL /\ target[q].rec.key = hand[q].rec.key
  BY <1>1 DEF SpanInv, Span
<1>3. ASSUME NEW s \in Deleting' PROVE Id(target'[s]) # Id(hand[q])
  <2>1. s \in Passes /\ target'[s] = target[s] /\ (s \in Deleting \/ target[s] # None)
    BY <1>3, Deletes
  <2>2. target[s] # None
    BY <2>1 DEF StandingInv, Deleting
  <2>3. target[s] \in Seen(s)
    BY <2>2 DEF Seen, Held
  <2>4. target[s].born # hand[q].born
    BY <1>1, <2>1, <2>3 DEF FreshInv
  <2>5. hand[q].text = None /\ hand[q] \in Entries /\ hand[q].rec # None
    BY ConventionsAssumption DEF ConventionsAssumption, StandingInv, Write, Goto, TypeOK, Entries
  <2>6. QED
    BY <2>1, <2>4, <2>5 DEF Id
<1>4. Id(hand[q]) \notin Doomed'
  BY <1>3 DEF Doomed, Id
<1>5. QED
  BY <1>1, <1>2, <1>4

LEMMA HeirStep ==
  ASSUME ~Dated, TTL >= 3, TypeOK, StandingInv, FreshInv, TouchedInv, SpanInv, HeirInv, [Next]_vars
  PROVE  HeirInv'
<1> USE ConventionsAssumption DEF ConventionsAssumption
<1> SUFFICES ASSUME NEW p \in Deleting', hand'[p].rec.key \notin touched'
             PROVE  \E e \in store' : Heir(p, e)'
  BY DEF HeirInv
<1>0. /\ clock \in Nat /\ TTL \in Nat /\ \A s \in Passes : now[s] \in Nat /\ now[s] <= clock
      /\ touched \subseteq touched'
  <2>1. touched \subseteq touched'
    BY TouchedGrows
  <2>2. QED
    BY <2>1 DEF TypeOK, StandingInv
<1>1. /\ p \in Passes /\ hand'[p] = hand[p] /\ now'[p] = now[p] /\ target'[p] = target[p]
      /\ p \in Deleting \/ (Write(p) /\ target[p] # None)
  BY Deletes
(* A pass that writes now is, on the clock, with every pass that deletes.   *)
<1>2. ASSUME NEW q \in Passes, Write(q), target[q] # None, target[q].rec.key = hand[p].rec.key
      PROVE  \E e \in store' : Heir(p, e)'
  <2>1. /\ hand[q] \in store' /\ hand[q].active /\ hand[q].until = now[q] + TTL
        /\ target[q].rec.key = hand[q].rec.key /\ Id(hand[q]) \notin Doomed'
    BY <1>2, WrittenServes
  <2>2. q \in Waiting
    BY <1>2 DEF Write, Goto, Waiting
  <2>3. clock <= now[q] + 1
    BY <2>2 DEF SpanInv, Span
  <2>4. now[q] + TTL # None
    BY <1>0, <2>1, <2>2, <2>3, NoEntry DEF StandingInv, TypeOK, Waiting, Entries, Times
  <2>5. hand[q].until >= now[p] - 1 + TTL /\ hand[q].until # None
    BY <1>0, <1>1, <2>1, <2>3, <2>4
  <2>6. ASSUME NEW e, e = hand[q] PROVE Heir(p, e)'
    BY <1>1, <1>2, <2>1, <2>5, <2>6 DEF Heir, Id
  <2>7. QED
    BY <2>1, <2>6
<1>3. CASE p \notin Deleting
  <2>1. Write(p) /\ target[p] # None
    BY <1>1, <1>3
  <2>2. target[p].rec.key = hand[p].rec.key
    BY <1>1, <2>1 DEF SpanInv, Span
  <2>3. QED
    BY <1>1, <1>2, <2>1, <2>2
<1>4. CASE p \in Deleting
  <2>1. PICK e \in store : Heir(p, e)
    BY <1>0, <1>1, <1>4 DEF HeirInv
  <2>a. e.text = None /\ e.rec \in Records /\ None \notin Records
    BY <1>0, <1>1, <2>1, ConventionsAssumption DEF Heir, TouchedInv, TypeOK, Entries
  <2>2. e \in Entries /\ e.active /\ e.rec.key = hand[p].rec.key /\ Id(e) \notin Doomed
        /\ e.until # None /\ e.until >= now[p] - 1 + TTL
    BY <2>1 DEF Heir, TypeOK
  <2>3. e \in Retrievable
    <3>1. clock <= now[p] + 1
      BY <1>1, <1>4 DEF SpanInv, Span
    <3>2. e.until \in Nat
      BY <2>2 DEF Entries, Times
    <3>3. e.until > clock
      BY <1>0, <1>1, <2>2, <3>1, <3>2
    <3>4. ~Expired(e, clock)
      BY <1>0, <3>2, <3>3 DEF Expired
    <3>5. QED
      BY <2>1, <2>2, <3>4 DEF Retrievable, ActiveAt
  <2>4. e \in store'
    <3>1. ASSUME NEW q \in Passes, DeleteTarget(q), Id(e) = Id(target[q]) PROVE FALSE
      <4>1. q \in Deleting
        BY <3>1 DEF DeleteTarget, Goto, Deleting
      <4>2. QED
        BY <2>2, <3>1, <4>1 DEF Doomed
    <3>2. e.rec.key \notin touched'
      BY <1>1, <2>2
    <3>3. QED
      BY <2>3, <3>1, <3>2, ServedGoes
  <2>5. CASE Id(e) \notin Doomed'
    <3>1. Heir(p, e)'
      BY <1>1, <2>2, <2>5 DEF Heir, Id
    <3>2. QED
      BY <2>4, <3>1
  <2>6. CASE Id(e) \in Doomed'
    <3>1. PICK q \in Deleting' : Id(e) = Id(target'[q])
      BY <2>6 DEF Doomed, Id
    <3>2. /\ q \in Passes /\ target'[q] = target[q]
          /\ q \in Deleting \/ (Write(q) /\ target[q] # None)
      BY <3>1, Deletes
    <3>3. q \notin Deleting
      BY <2>2, <3>1, <3>2 DEF Doomed
    <3>4. target[q].rec.key = hand[p].rec.key
      BY <2>2, <2>a, <3>1, <3>2 DEF Id
    <3>5. QED
      BY <1>2, <3>2, <3>3, <3>4
  <2>7. QED
    BY <2>5, <2>6
<1>5. QED
  BY <1>3, <1>4

LEMMA KeysInductive ==
  ASSUME ~Dated, TTL >= 3
  PROVE  Spec => []KeysInv
<1>1. Init => KeysInv
  <2> SUFFICES ASSUME Init PROVE KeysInv
    OBVIOUS
  <2>1. \A p \in Passes : pc[p] = "idle" /\ hand[p] = None /\ target[p] = None /\ listed[p] = {}
                            /\ Held(p) = {} /\ Seen(p) = {}
    BY DEF Init, Seen, Held
  <2>2. Waiting = {} /\ Deleting = {} /\ Written = {} /\ store = {}
    BY <2>1 DEF Waiting, Deleting, Written, Init
  <2>3. QED
    BY <2>1, <2>2 DEF KeysInv, BornInv, FreshInv, TouchedInv, Traced, Merging, SpanInv, Span, HeirInv
<1>2. ConventionsInv /\ ConventionsInv' /\ KeysInv /\ [Next]_vars => KeysInv'
  BY FreshStep, TouchedStep, SpanStep, HeirStep DEF ConventionsInv, KeysInv
<1>3. QED
  BY <1>1, <1>2, ConventionsInductive, PTL DEF Spec

(* Whatever passes, crashes and failures of the store come together, a key  *)
(* keeps a convention while one replaces another (KeyStaysServed), where    *)
(* records do not bring dates of their own and a convention lives for       *)
(* three ticks, an ingestion for one.                                       *)
THEOREM Replacements ==
  ASSUME ~Dated, TTL >= 3
  PROVE  Spec => KeyStaysServed
<1>1. ConventionsInv /\ KeysInv /\ [Next]_vars => (clock' = clock => Served \ touched' \subseteq Served')
  <2> SUFFICES ASSUME ConventionsInv, KeysInv, [Next]_vars, clock' = clock, NEW k \in Served, k \notin touched'
               PROVE  k \in Served'
    OBVIOUS
  <2>0. TypeOK /\ StandingInv /\ FreshInv /\ TouchedInv /\ SpanInv /\ HeirInv
    BY DEF ConventionsInv, KeysInv
  <2>1. PICK e \in Retrievable : e.rec.key = k
    BY DEF Served
  <2>a. touched \subseteq touched' /\ e.text = None /\ e.rec \in Records /\ None \notin Records
    BY <2>0, <2>1, TouchedGrows, ConventionsAssumption
    DEF ConventionsAssumption, TouchedInv, Retrievable, ActiveAt, TypeOK, Entries
  <2>2. ASSUME NEW f \in store', f.active, ~Expired(f, clock), f.rec.key = k PROVE k \in Served'
    BY <2>2 DEF Served, Retrievable, ActiveAt, Expired
  <2>3. CASE e \in store'
    BY <2>1, <2>2, <2>3 DEF Retrievable, ActiveAt
  <2>4. ASSUME NEW p \in Passes, DeleteTarget(p), Id(e) = Id(target[p]) PROVE k \in Served'
    <3>1. p \in Deleting /\ store' = Without(target[p]) /\ touched' = touched
      BY <2>4 DEF DeleteTarget, Goto, Deleting
    <3>2. target[p] # None /\ target[p].rec.key = hand[p].rec.key
      BY <2>0, <3>1 DEF StandingInv, Deleting, SpanInv, Span
    <3>3. hand[p].rec.key = k
      BY <2>1, <2>a, <2>4, <3>2 DEF Id
    <3>4. PICK f \in store : Heir(p, f)
      BY <2>0, <3>1, <3>3 DEF HeirInv
    <3>5. f \in store' /\ f.active /\ f.rec.key = k
      BY <3>1, <3>3, <3>4 DEF Heir, Doomed, Without
    <3>6. ~Expired(f, clock)
      <4>1. f.until >= now[p] - 1 + TTL /\ f.until # None /\ f \in Entries
        BY <2>0, <3>4 DEF Heir, TypeOK
      <4>2. clock <= now[p] + 1 /\ now[p] \in Nat /\ clock \in Nat /\ TTL \in Nat /\ f.until \in Nat
        BY <2>0, <3>1, <4>1, ConventionsAssumption
        DEF SpanInv, Span, TypeOK, ConventionsAssumption, Entries, Times, Deleting
      <4>3. QED
        BY <4>1, <4>2 DEF Expired
    <3>7. QED
      BY <2>2, <3>5, <3>6
  <2>5. QED
    BY <2>0, <2>1, <2>3, <2>4, ServedGoes
<1>2. QED
  BY <1>1, ConventionsInductive, KeysInductive, PTL DEF Spec, KeyStaysServed
=============================================================================
