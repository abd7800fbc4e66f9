---------------------------- MODULE Conventions ----------------------------
(***************************************************************************)
(* The conventions of one scope in one memory collection                   *)
(* (memory/conventions.py, orchestrator/pipeline.py): passes that mine the *)
(* trace of a run for conventions and ingest each, issuers that ingest     *)
(* one from their configuration, and the lessons that a pass ingests after *)
(* them, which may evict, or merge into one.  The lock of an ingestion of  *)
(* conventions belongs to one OS process; the collection is shared by all  *)
(* of them, and each call to it is one step.                               *)
(*                                                                         *)
(* A record is the key, the version, the version it supersedes and the     *)
(* issuer of a configuration that is trusted, or that of no configuration; *)
(* whether a human has approved its version; and whether its mapping       *)
(* passes the gates.  Nobody marks a stored record superseded: what is     *)
(* replaced is deleted.                                                    *)
(***************************************************************************)
EXTENDS Integers, FiniteSets

CONSTANTS
    Passes,      \* threads that mine or ingest
    Processes,   \* OS processes
    Keys, Versions, Issuers,
    Records,     \* the records there are
    Wordings,    \* texts of lessons, longer than the convention each is similar to
    Nobody, None,
    MaxEntries,  \* memory.convention_max_entries
    TTL,         \* memory.convention_default_ttl_days
    MayEvict,    \* memory.max_entries is set
    Scoped,      \* memory.scoped is enabled
    Dated,       \* records bring their own created_at and expires_at
    MaxTime, MaxIngests  \* bounds: of the clock; conventions and lessons ingested in a behavior

ASSUME ConventionsAssumption ==
    /\ Nobody \notin Passes /\ IsFiniteSet(Passes)
    /\ Records \subseteq [key : Keys, version : Versions, supersedes : Versions \cup {None},
                          issuer : Issuers \cup {None}, approved : BOOLEAN, sound : BOOLEAN]
    /\ None \notin Versions \cup Issuers /\ None \notin Records /\ None \notin Wordings
    /\ MaxEntries \in Nat /\ TTL \in Nat \ {0} /\ MaxTime \in Nat /\ MaxIngests \in Nat
    /\ MayEvict \in BOOLEAN /\ Scoped \in BOOLEAN /\ Dated \in BOOLEAN

VARIABLES
    process,   \* the one a pass runs in
    store,     \* the entries of the collection
    clock,
    lock,      \* _INGEST_LOCK of a process
    pc,
    hand,      \* the entry a pass is about to write, or wrote last
    now,       \* the time it has read
    listed,    \* the entries it has listed, less those it has dropped
    todo,      \* those it is to delete
    target,    \* the entry that hand replaces
    found, into, \* the entry that a lesson is similar to, and what the two become
    ingests,   \* ingestions so far: created_at of the next record
    touched,   \* history: keys of which a lesson has evicted a convention, or merged into one
    back       \* history: a lesson or an annotation wrote what the store did not hold

merge == <<found, into>>
vars  == <<process, store, clock, lock, pc, hand, now, listed, todo, target, merge, ingests, touched, back>>

(* until: expires_at, None if there is none.  text: the lesson's, if one   *)
(* has lengthened it.  tier "retrieve" is active.                          *)
Times   == 0 .. MaxTime + TTL
Entries == [rec : Records, born : 0 .. MaxIngests, until : Times \cup {None},
            text : Wordings \cup {None}, active : BOOLEAN]
Merging == {"merge", "unmerge"}
Steps   == {"idle", "lock", "drop", "write", "delete", "annotate", "evict", "stamp"} \cup Merging

ASSUME NoEntry == None \notin Entries \cup Times

TypeOK ==
    /\ process \in [Passes -> Processes]
    /\ store \subseteq Entries /\ clock \in 0 .. MaxTime
    /\ lock \in [Processes -> Passes \cup {Nobody}]
    /\ pc \in [Passes -> Steps]
    /\ hand \in [Passes -> Entries \cup {None}]
    /\ now \in [Passes -> 0 .. MaxTime]
    /\ listed \in [Passes -> SUBSET Entries] /\ todo \in [Passes -> SUBSET Entries]
    /\ target \in [Passes -> Entries \cup {None}]
    /\ found \in [Passes -> Entries \cup {None}] /\ into \in [Passes -> Entries \cup {None}]
    /\ ingests \in 0 .. MaxIngests /\ touched \subseteq Keys /\ back \in BOOLEAN

Init ==
    /\ process \in [Passes -> Processes]
    /\ store = {} /\ clock = 0 /\ ingests = 0 /\ touched = {} /\ back = FALSE
    /\ lock = [o \in Processes |-> Nobody]
    /\ pc = [p \in Passes |-> "idle"]
    /\ hand = [p \in Passes |-> None]
    /\ now = [p \in Passes |-> 0]
    /\ listed = [p \in Passes |-> {}]
    /\ todo = [p \in Passes |-> {}]
    /\ target = [p \in Passes |-> None]
    /\ found = [p \in Passes |-> None] /\ into = [p \in Passes |-> None]

Goto(p, from, to) == pc[p] = from /\ pc' = [pc EXCEPT ![p] = to]

Becomes(f, p, x) == [f EXCEPT ![p] = x]

Unlock(p) == lock' = Becomes(lock, process[p], Nobody)

(* The id of an entry is a hash of its text, which is its record rendered, *)
(* unless a lesson has lengthened it.                                      *)
Id(e) == IF e.text = None THEN <<e.rec, e.born, e.until, None>> ELSE <<None, None, None, e.text>>

Put(e) == store' = {f \in store : Id(f) # Id(e)} \cup {e}
Without(e) == {f \in store : Id(f) # Id(e)}

(* _record_expired, _active_conventions.                                   *)
Expired(e, t) == e.until # None /\ e.until <= t

ActiveAt(entries, t) == {e \in entries : e.active /\ ~Expired(e, t)}

-----------------------------------------------------------------------------
(* ingest_convention                                                       *)

Mined(r) == r.issuer = None /\ r.supersedes = None

(* The gates, then whose authority it has: a human's, or that of its       *)
(* trusted configuration.  The time is read before the lock is asked for.  *)
Admissible(r) == r.sound /\ (r.approved \/ r.issuer # None)

Candidate_TwiceTTL(r) ==   \* defect: the lifetime is added to the end it has set
    [rec |-> r, text |-> None, active |-> Admissible(r),
     born  |-> IF Dated THEN 0 ELSE ingests,
     until |-> IF Dated THEN TTL ELSE IF Admissible(r) THEN clock + 2 * TTL ELSE None]

Candidate(r) ==
    [rec |-> r, text |-> None, active |-> Admissible(r),
     born  |-> IF Dated THEN 0 ELSE ingests,
     until |-> IF Dated THEN TTL ELSE IF Admissible(r) THEN clock + TTL ELSE None]

Judge(p, r) ==
    /\ Goto(p, "idle", "lock")
    /\ ingests < MaxIngests /\ ingests' = ingests + 1
    /\ now' = Becomes(now, p, clock)
    /\ hand' = Becomes(hand, p, IF Expired(Candidate(r), clock)
                                THEN [Candidate(r) EXCEPT !.active = FALSE] ELSE Candidate(r))
    /\ UNCHANGED <<process, store, touched, clock, lock, listed, todo, target, back, merge>>

(* The entries are listed; an active candidate first has the expired ones  *)
(* dropped.                                                                *)
Enter_NoLock(p) ==   \* defect: ingestions of a process do not exclude each other
    /\ Goto(p, "lock", "drop")
    /\ lock' = Becomes(lock, process[p], p)
    /\ LET gone == IF hand[p].active THEN {e \in store : Expired(e, now[p])} ELSE {}
       IN  todo' = Becomes(todo, p, gone) /\ listed' = Becomes(listed, p, store \ gone)
    /\ UNCHANGED <<process, store, touched, clock, hand, now, target, ingests, back, merge>>

Enter(p) ==
    /\ lock[process[p]] = Nobody
    /\ Goto(p, "lock", "drop")
    /\ lock' = Becomes(lock, process[p], p)
    /\ LET gone == IF hand[p].active THEN {e \in store : Expired(e, now[p])} ELSE {}
       IN  todo' = Becomes(todo, p, gone) /\ listed' = Becomes(listed, p, store \ gone)
    /\ UNCHANGED <<process, store, touched, clock, hand, now, target, ingests, back, merge>>

DropOne(p) ==
    /\ pc[p] \in {"drop", "evict"}
    /\ \E e \in todo[p] :
          /\ store' = Without(e) /\ todo' = Becomes(todo, p, todo[p] \ {e})
          /\ touched' = touched \cup
                {f.rec.key : f \in {g \in ActiveAt(store, clock) : pc[p] = "evict" /\ Id(g) = Id(e)}}
    /\ UNCHANGED <<process, clock, lock, pc, hand, now, listed, target, ingests, back, merge>>

(* _supersession_target: the only active entry of that version.            *)
Matches(p) == {e \in ActiveAt(listed[p], now[p]) :
                    e.rec.key = hand[p].rec.key /\ e.rec.version = hand[p].rec.supersedes}

Target(p) == IF Cardinality(Matches(p)) = 1 THEN CHOOSE e \in Matches(p) : TRUE ELSE None

(* A configuration replaces what it has issued itself, a human anything.   *)
MayReplace(p, e) ==
    /\ e # None /\ e.rec.version # hand[p].rec.version
    /\ hand[p].rec.approved \/ e.rec.issuer = hand[p].rec.issuer

Conflict(p) == hand[p].rec.supersedes # None /\ ~MayReplace(p, Target(p))

Others(p) == ActiveAt(listed[p], now[p]) \ {Target(p)}

Full(p) ==
    /\ \A e \in Others(p) : Id(e) # Id(hand[p])
    /\ Cardinality(Others(p)) >= MaxEntries

Admit(p) ==
    /\ todo[p] = {}
    /\ Goto(p, "drop", "write")
    /\ LET ok == hand[p].active /\ ~Conflict(p) /\ ~Full(p)
       IN  /\ hand' = Becomes(hand, p, [hand[p] EXCEPT !.active = ok])
           /\ target' = Becomes(target, p, IF ok THEN Target(p) ELSE None)
    /\ listed' = Becomes(listed, p, {})
    /\ UNCHANGED <<process, store, touched, clock, lock, now, todo, ingests, back, merge>>

(* Where an ingestion goes on: a scoped pass annotates what it has written. *)
After(p) == IF Mined(hand[p].rec) /\ Scoped THEN "annotate" ELSE "idle"

Leave(p) ==
    /\ Unlock(p)
    /\ target' = Becomes(target, p, None)
    /\ now' = Becomes(now, p, 0)
    /\ hand' = IF After(p) = "annotate" THEN hand ELSE Becomes(hand, p, None)

Write_DeletesFirst(p) ==   \* defect: the old version goes before the new one comes
    /\ Goto(p, "write", IF target[p] # None THEN "delete" ELSE After(p))
    /\ IF target[p] # None THEN store' = Without(target[p]) /\ UNCHANGED <<lock, target, now, hand>>
       ELSE Put(hand[p]) /\ Leave(p)
    /\ UNCHANGED <<process, clock, listed, todo, merge, ingests, touched, back>>

Write(p) ==
    /\ Goto(p, "write", IF target[p] # None THEN "delete" ELSE After(p))
    /\ Put(hand[p])
    /\ IF target[p] # None THEN UNCHANGED <<lock, target, now, hand>> ELSE Leave(p)
    /\ UNCHANGED <<process, clock, listed, todo, merge, ingests, touched, back>>

DeleteTarget(p) ==
    /\ Goto(p, "delete", After(p))
    /\ store' = Without(target[p])
    /\ Leave(p)
    /\ UNCHANGED <<process, clock, listed, todo, merge, ingests, touched, back>>

-----------------------------------------------------------------------------
(* process_trace: any number of candidates, then the lessons.              *)

(* ScopedMemory.annotate writes what the ingestion returned once more.     *)
Annotate(p) ==
    /\ Goto(p, "annotate", "idle")
    /\ Put(hand[p])
    /\ back' = (back \/ hand[p] \notin store)
    /\ hand' = Becomes(hand, p, None)
    /\ UNCHANGED <<process, clock, lock, now, listed, todo, target, merge, ingests, touched>>

(* ingest_guideline, _evict_if_needed: a lesson that is new may evict, and *)
(* a convention is as good a victim as any lesson that is not strategic.   *)
Lesson(p) ==
    /\ MayEvict
    /\ ingests < MaxIngests /\ ingests' = ingests + 1
    /\ Goto(p, "idle", "evict")
    /\ \E victims \in SUBSET store \ {{}} : todo' = Becomes(todo, p, victims)
    /\ UNCHANGED <<process, store, clock, lock, hand, now, listed, target, merge, touched, back>>

Evicted(p) ==
    /\ todo[p] = {}
    /\ Goto(p, "evict", "idle")
    /\ UNCHANGED <<process, store, clock, lock, hand, now, listed, todo, target, merge, ingests, touched, back>>

(* What a lesson makes of an entry it is similar to, of whatever kind: it  *)
(* may have the longer text, raise the tier, and recur often enough to be  *)
(* strategic, in which case the convention is one no longer.               *)
Worded(e) == {e} \cup {[e EXCEPT !.text = t] : t \in Wordings}

Merged(e) == Worded(e) \cup {[m EXCEPT !.active = TRUE] : m \in Worded(e)} \cup {None}

(* The search, under the lock of lessons, which passes of a process share. *)
FindSimilar(p) ==
    /\ \A q \in Passes : process[q] = process[p] => pc[q] \notin Merging
    /\ ingests < MaxIngests /\ ingests' = ingests + 1
    /\ Goto(p, "idle", "merge")
    /\ \E e \in store : found' = Becomes(found, p, e) /\ \E m \in Merged(e) : into' = Becomes(into, p, m)
    /\ UNCHANGED <<process, store, clock, lock, hand, now, listed, todo, target, touched, back>>

Moves(p) == into[p] = None \/ Id(into[p]) # Id(found[p])

(* The lesson is over, but a scoped pass annotates what was written.       *)
AfterMerge(p) == IF Scoped /\ into[p] # None THEN "stamp" ELSE "idle"

Forget(p) ==
    /\ found' = Becomes(found, p, None)
    /\ into' = IF AfterMerge(p) = "stamp" THEN into ELSE Becomes(into, p, None)

(* What another pass has made of the entry since the search is overwritten, *)
(* its deletion included.                                                  *)
WriteMerged(p) ==
    /\ Goto(p, "merge", IF Moves(p) THEN "unmerge" ELSE AfterMerge(p))
    /\ IF into[p] = None THEN UNCHANGED <<store, back>>
       ELSE Put(into[p]) /\ back' = (back \/ into[p] \notin store)
    /\ touched' = touched \cup {found[p].rec.key}
    /\ IF Moves(p) THEN UNCHANGED merge ELSE Forget(p)
    /\ UNCHANGED <<process, clock, lock, hand, now, listed, todo, target, ingests>>

DeleteMoved(p) ==
    /\ Goto(p, "unmerge", AfterMerge(p))
    /\ store' = Without(found[p])
    /\ Forget(p)
    /\ UNCHANGED <<process, clock, lock, hand, now, listed, todo, target, ingests, touched, back>>

Stamp(p) ==
    /\ Goto(p, "stamp", "idle")
    /\ Put(into[p])
    /\ back' = (back \/ into[p] \notin store)
    /\ into' = Becomes(into, p, None)
    /\ UNCHANGED <<process, clock, lock, hand, now, listed, todo, target, found, ingests, touched>>

(* A call to the store raises: the pass skips its other candidates, an     *)
(* issuer gets the exception.                                              *)
StoreRaises(p) ==
    /\ pc[p] \notin {"idle", "lock"} \/ (pc[p] = "lock" /\ lock[process[p]] = Nobody)
    /\ pc' = Becomes(pc, p, "idle")
    /\ now' = Becomes(now, p, 0)
    /\ IF lock[process[p]] = p THEN Unlock(p) ELSE UNCHANGED lock
    /\ hand' = Becomes(hand, p, None) /\ target' = Becomes(target, p, None)
    /\ listed' = Becomes(listed, p, {}) /\ todo' = Becomes(todo, p, {})
    /\ found' = Becomes(found, p, None) /\ into' = Becomes(into, p, None)
    /\ UNCHANGED <<process, store, touched, clock, ingests, back>>

(* A process dies with all its passes.                                     *)
Die(o) ==
    LET mine == {p \in Passes : process[p] = o} IN
    /\ \E p \in mine : pc[p] # "idle"
    /\ pc' = [p \in Passes |-> IF p \in mine THEN "idle" ELSE pc[p]]
    /\ hand' = [p \in Passes |-> IF p \in mine THEN None ELSE hand[p]]
    /\ target' = [p \in Passes |-> IF p \in mine THEN None ELSE target[p]]
    /\ listed' = [p \in Passes |-> IF p \in mine THEN {} ELSE listed[p]]
    /\ todo' = [p \in Passes |-> IF p \in mine THEN {} ELSE todo[p]]
    /\ now' = [p \in Passes |-> IF p \in mine THEN 0 ELSE now[p]]
    /\ found' = [p \in Passes |-> IF p \in mine THEN None ELSE found[p]]
    /\ into' = [p \in Passes |-> IF p \in mine THEN None ELSE into[p]]
    /\ lock' = Becomes(lock, o, Nobody)
    /\ UNCHANGED <<process, store, touched, clock, ingests, back>>

(* Weeks pass: at most one during an ingestion, and a convention lives for *)
(* more of them than ingestions overlap.                                   *)
Tick ==
    /\ clock < MaxTime
    /\ \A p \in Passes : pc[p] \in {"lock", "drop", "write", "delete"} => now[p] = clock
    /\ clock' = clock + 1
    /\ UNCHANGED <<process, store, touched, lock, pc, hand, now, listed, todo, target, ingests, back, merge>>

(* What a run retrieves, and whether a branch of a record that it selects  *)
(* is accepted: it has to be of exactly one convention.                    *)
Retrievable == ActiveAt(store, clock)

BranchAccepted(r) == Cardinality({e \in Retrievable : e.rec = r}) = 1

Ingest(p) ==
    \/ Enter(p) \/ DropOne(p) \/ Admit(p) \/ Write(p) \/ DeleteTarget(p) \/ StoreRaises(p)
    \/ \E r \in Records : Judge(p, r)

Pass(p) ==
    \/ Annotate(p) \/ Lesson(p) \/ Evicted(p)
    \/ FindSimilar(p) \/ WriteMerged(p) \/ DeleteMoved(p) \/ Stamp(p)

Next == Tick \/ (\E p \in Passes : Ingest(p) \/ Pass(p)) \/ \E o \in Processes : Die(o)

Spec == Init /\ [][Next]_vars

-----------------------------------------------------------------------------
(* Properties.                                                             *)

Served == {e.rec.key : e \in Retrievable}

(* However passes of one process or of several, their crashes and the      *)
(* store's failures interleave, replacing a convention never leaves its    *)
(* key without one: only time takes it away, or a lesson, which may evict  *)
(* it, or merge into it and promote or overwrite it.                       *)
KeyStaysServed == [][clock' = clock => Served \ touched' \subseteq Served']_vars

(* The quota is overrun by no more than one convention for each process    *)
(* that shares the collection, as long as no lesson and no annotation has  *)
(* written what was not there: past the quota, moved, or deleted before.   *)
QuotaOverrun ==
    ~back => Cardinality(Retrievable) <= MaxEntries + Cardinality({process[p] : p \in Passes})

(* convention-mining-decisions-proposed-2026-07-22.md:140, "activation is  *)
(* atomic": with no ingestion at work, one version of a key is active.     *)
OneVersionIsActive ==
    (\A o \in Processes : lock[o] = Nobody) =>
        \A e, f \in Retrievable : e.rec.key = f.rec.key => e.rec.version = f.rec.version

(* The same document, line 128: with the quota full, "refuse admission and *)
(* request review rather than evict or summarize an active record".        *)
ActiveIsNotEvicted ==
    [][\A p \in Passes : pc[p] = "evict" /\ DropOne(p) => Retrievable' = Retrievable]_vars

(* CONVENTION_APPLICATION_INSTRUCTION, "select exactly one branch": what   *)
(* is retrieved can be applied.                                            *)
WhatIsRetrievedApplies == \A e \in Retrievable : BranchAccepted(e.rec)
=============================================================================
