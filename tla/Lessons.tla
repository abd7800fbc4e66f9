------------------------------ MODULE Lessons ------------------------------
(***************************************************************************)
(* One lesson in the memory collections (memory/pruning.py, scopes.py,     *)
(* global_promotion.py): runs that mine it and ingest it, each in a        *)
(* process of its own, into the collection of their organization or, with  *)
(* scoping off, into one that all of them share; evictions; and operators  *)
(* who scan the organizations' collections into a queue of candidates,     *)
(* approve a candidate for everybody, reject one, or forget an             *)
(* organization.  The collections live in a server; each call to it is one *)
(* step.  Only ingestion takes a lock, and only against ingestions of      *)
(* processes with the same home: its file lies under $FABRI_HOME, which    *)
(* the service gives each run for itself.                                  *)
(*                                                                         *)
(* The lesson has many wordings, all similar to each other: an entry's     *)
(* wording is its id.  Entries of other lessons matter to this one through *)
(* evictions only.                                                         *)
(***************************************************************************)
EXTENDS Integers, FiniteSets

CONSTANTS
    Runs,        \* sessions whose traces are mined
    Orgs,        \* organizations
    Operators,   \* who give `fabri memory` commands
    Names,       \* display names of people, organizations and projects
    Main,        \* the collection of unscoped runs
    Queue,       \* the candidates' collection
    Nobody,      \* nobody holds a lock
    None,        \* no entry, no text
    Homes, HomeOf, \* $FABRI_HOME of a process
    OrgOf,       \* the organization a run is for
    NamesOf,     \* every name its scope lists
    TextsOf,     \* the wordings it may mine
    Lengths,     \* how long a wording is
    Promote,     \* promotion_threshold_sessions
    MinOrgs,     \* min_orgs
    MaxRequests  \* bound: ingestions and commands in a behavior

Texts == [len : Lengths, names : SUBSET Names]

ASSUME LessonsAssumption ==
    /\ Runs \cap Operators = {} /\ Runs \cap Orgs = {}
    /\ Nobody \notin Runs \cup Operators
    /\ Main # Queue /\ {Main, Queue} \cap Orgs = {}
    /\ IsFiniteSet(Orgs)
    /\ Lengths \subseteq Nat
    /\ HomeOf \in [Runs \cup Operators -> Homes]
    /\ OrgOf \in [Runs -> Orgs]
    /\ NamesOf \in [Runs -> SUBSET Names]
    /\ TextsOf \in [Runs -> SUBSET Texts]
    /\ Promote \in Nat /\ MinOrgs \in Nat /\ MaxRequests \in Nat

Procs       == Runs \cup Operators
Collections == Orgs \cup {Main, Queue}
LockFiles   == Homes \X Collections
Entries == [text : Texts, sources : SUBSET (Runs \cup Orgs), strategic : BOOLEAN,
            aliases : SUBSET Names, status : {"pending", "approved", "rejected"}]

ASSUME NoneAssumption == None \notin Entries \cup Texts \cup Orgs

VARIABLES
    scoped,     \* memory.scoped is enabled
    coll,       \* the entries of a collection
    exists,     \* the organizations' collections that there are
    global,     \* the wordings in GLOBAL
    lock,       \* flock of the lock file of a collection in a home
    pc,         \* where a process stands
    text,       \* the wording it ingests
    hand,       \* the entry it holds in memory
    old,        \* the wording it is about to delete
    org,        \* the organization its command is at
    todo,       \* organizations still to scan
    batch,      \* entries it has listed
    requests,   \* ingestions and commands so far
    kept,       \* history: runs ingested, and not evicted or dropped since
    known,      \* history: organizations one of whose runs has mined the lesson
    forgotten,  \* history: organizations forgotten, and not back since
    torn,       \* history: a crash has left two wordings in a collection
    rejected    \* history: wordings rejected

storeVars   == <<coll, exists, global>>
handVars    == <<text, hand, old, org, todo, batch>>
historyVars == <<kept, known, forgotten, torn, rejected>>
vars == <<scoped, storeVars, lock, pc, handVars, requests, historyVars>>

Steps == {"idle", "find", "upsert", "delete", "evict", "evicting", "annotate",
          "scan", "scanning", "approve", "publish", "approved", "reject", "rejecting",
          "drop", "withdraw", "withdrawing"}

TypeOK ==
    /\ scoped \in BOOLEAN
    /\ coll \in [Collections -> SUBSET Entries]
    /\ exists \subseteq Orgs
    /\ global \subseteq Texts
    /\ lock \in [LockFiles -> Procs \cup {Nobody}]
    /\ pc \in [Procs -> Steps]
    /\ text \in [Procs -> Texts \cup {None}]
    /\ hand \in [Procs -> Entries \cup {None}]
    /\ old \in [Procs -> Texts \cup {None}]
    /\ org \in [Procs -> Orgs \cup {None}]
    /\ todo \in [Procs -> SUBSET Orgs]
    /\ batch \in [Procs -> SUBSET Entries]
    /\ requests \in 0 .. MaxRequests
    /\ kept \subseteq Runs
    /\ known \subseteq Orgs
    /\ forgotten \subseteq Orgs
    /\ torn \in BOOLEAN
    /\ rejected \subseteq Texts

Init ==
    /\ scoped \in BOOLEAN
    /\ coll = [c \in Collections |-> {}]
    /\ exists = {} /\ global = {}
    /\ lock = [c \in LockFiles |-> Nobody]
    /\ pc = [p \in Procs |-> "idle"]
    /\ text = [p \in Procs |-> None]
    /\ hand = [p \in Procs |-> None]
    /\ old = [p \in Procs |-> None]
    /\ org = [p \in Procs |-> None]
    /\ todo = [p \in Procs |-> {}]
    /\ batch = [p \in Procs |-> {}]
    /\ requests = 0
    /\ kept = {} /\ known = {} /\ forgotten = {} /\ torn = FALSE /\ rejected = {}

Goto(p, from, to) ==
    /\ pc[p] = from
    /\ pc' = [pc EXCEPT ![p] = to]

\* ScopedMemory.store: the collection a process ingests into.
In(p) == IF p \in Operators THEN Queue ELSE IF scoped THEN OrgOf[p] ELSE Main

Source_Queue(p) == IF p \in Operators THEN Queue ELSE p   \* defect: the queue instead of the organization

\* What it is counted as there: a session, or in the queue an organization.
Source(p) == IF p \in Operators THEN org[p] ELSE p

LockFile(p) == <<HomeOf[p], In(p)>>

\* A call to a collection that has been dropped raises.
Reachable(p) == In(p) \in Orgs => In(p) \in exists

Done(p) ==
    /\ text' = [text EXCEPT ![p] = None]
    /\ hand' = [hand EXCEPT ![p] = None]
    /\ old' = [old EXCEPT ![p] = None]

\* upsert: the entry of that wording is replaced.
Put(c, e) == {f \in coll[c] : f.text # e.text} \cup {e}
Without(c, t) == {f \in coll[c] : f.text # t}

(***************************************************************************)
(* ingest_guideline                                                        *)
(***************************************************************************)

\* A run mines the lesson; its store is opened, and created if need be.
Mine(r) ==
    /\ requests < MaxRequests
    /\ Goto(r, "idle", "find")
    /\ \E t \in TextsOf[r] : text' = [text EXCEPT ![r] = t]
    /\ requests' = requests + 1
    /\ IF scoped THEN exists' = exists \cup {OrgOf[r]} /\ forgotten' = forgotten \ {OrgOf[r]}
                 ELSE UNCHANGED <<exists, forgotten>>
    /\ UNCHANGED <<scoped, coll, global, lock, hand, old, org, todo, batch, kept, known, torn, rejected>>

\* With the lock of the collection, an entry of the lesson is looked for: by the
\* wording, the nearest one, which is its own if it is there; a run's by what it was
\* mined from first, which may be any.
Found(p) ==
    LET same == {e \in coll[In(p)] : e.text = text[p]}
    IN  IF p \in Operators /\ same # {} THEN same ELSE coll[In(p)]

Find_NoLock(p) ==   \* defect: ingestions do not exclude each other
    /\ Reachable(p)
    /\ Goto(p, "find", "upsert")
    /\ lock' = [lock EXCEPT ![LockFile(p)] = p]
    /\ IF coll[In(p)] = {} THEN hand' = [hand EXCEPT ![p] = None]
       ELSE \E e \in Found(p) : hand' = [hand EXCEPT ![p] = e]
    /\ UNCHANGED <<scoped, storeVars, text, old, org, todo, batch, requests, historyVars>>

Find(p) ==
    /\ Reachable(p)
    /\ lock[LockFile(p)] = Nobody
    /\ Goto(p, "find", "upsert")
    /\ lock' = [lock EXCEPT ![LockFile(p)] = p]
    /\ IF coll[In(p)] = {} THEN hand' = [hand EXCEPT ![p] = None]
       ELSE \E e \in Found(p) : hand' = [hand EXCEPT ![p] = e]
    /\ UNCHANGED <<scoped, storeVars, text, old, org, todo, batch, requests, historyVars>>

\* A merge adds the source, takes the longer wording and, once it has recurred
\* enough, makes the entry strategic; it never makes it tactical again.
Merged(e, t, s, threshold) ==
    [e EXCEPT !.text = IF t.len > e.text.len THEN t ELSE e.text,
              !.sources = e.sources \cup {s},
              !.strategic = e.strategic \/ Cardinality(e.sources \cup {s}) >= threshold]

Ingested(p) ==
    IF hand[p] = None
    THEN [text |-> text[p], sources |-> {Source(p)}, strategic |-> FALSE, aliases |-> {}, status |-> "pending"]
    ELSE Merged(hand[p], text[p], Source(p), IF p \in Operators THEN MinOrgs ELSE Promote)

\* Where an ingestion ends: a scan goes on to its next entry, a scoped run
\* annotates what it has ingested.
After(p) == IF p \in Operators THEN "scanning" ELSE IF scoped THEN "annotate" ELSE "idle"

Upsert(p) ==
    LET e == Ingested(p)
        upgraded == hand[p] # None /\ e.text # hand[p].text
    IN
    /\ Reachable(p)
    /\ Goto(p, "upsert", IF upgraded THEN "delete"
                         ELSE IF hand[p] = None /\ p \in Runs THEN "evict" ELSE After(p))
    /\ coll' = [coll EXCEPT ![In(p)] = Put(In(p), e)]
    /\ hand' = [hand EXCEPT ![p] = e]
    /\ IF upgraded THEN old' = [old EXCEPT ![p] = hand[p].text] /\ UNCHANGED lock
                   ELSE lock' = [lock EXCEPT ![LockFile(p)] = Nobody] /\ UNCHANGED old
    /\ kept' = kept \cup ({p} \cap Runs)
    /\ known' = known \cup ({In(p)} \cap Orgs)
    /\ UNCHANGED <<scoped, exists, global, text, org, todo, batch, requests, forgotten, torn, rejected>>

\* An entry whose wording has been replaced has a new id; the old one is deleted.
DeleteOld(p) ==
    /\ Reachable(p)
    /\ Goto(p, "delete", After(p))
    /\ coll' = [coll EXCEPT ![In(p)] = Without(In(p), old[p])]
    /\ lock' = [lock EXCEPT ![LockFile(p)] = Nobody]
    /\ UNCHANGED <<scoped, exists, global, handVars, requests, historyVars>>

\* _evict_if_needed, after the lock: all entries are listed and the lowest are
\* marked, strategic ones after all others.
Evict(r) ==
    /\ Reachable(r)
    /\ Goto(r, "evict", "evicting")
    /\ \E victims \in SUBSET coll[In(r)] :
            /\ (\E e \in victims : e.strategic) => \A f \in coll[In(r)] : f.strategic \/ f \in victims
            /\ batch' = [batch EXCEPT ![r] = victims]
    /\ UNCHANGED <<scoped, storeVars, lock, text, hand, old, org, todo, requests, historyVars>>

\* Each is deleted by its id, whatever has been merged into it since.
EvictOne(r) ==
    /\ Reachable(r)
    /\ \E e \in batch[r] :
            /\ Goto(r, "evicting", "evicting")
            /\ batch' = [batch EXCEPT ![r] = @ \ {e}]
            /\ coll' = [coll EXCEPT ![In(r)] = Without(In(r), e.text)]
            /\ kept' = kept \ UNION {f.sources : f \in {g \in coll[In(r)] : g.text = e.text}}
    /\ UNCHANGED <<scoped, exists, global, lock, text, hand, old, org, todo, requests, known, forgotten, torn, rejected>>

Evicted(r) ==
    /\ batch[r] = {}
    /\ Goto(r, "evicting", After(r))
    /\ UNCHANGED <<scoped, storeVars, lock, handVars, requests, historyVars>>

\* ScopedMemory.annotate writes the entry that the ingestion returned once more,
\* with the names that its scope lists.
Annotate(r) ==
    /\ Reachable(r)
    /\ Goto(r, "annotate", "idle")
    /\ coll' = [coll EXCEPT ![In(r)] = Put(In(r), [hand[r] EXCEPT !.aliases = NamesOf[r]])]
    /\ Done(r)
    /\ UNCHANGED <<scoped, exists, global, lock, org, todo, batch, requests, historyVars>>

\* The collection is gone: the run's mining ends with an exception.
Raise(r) ==
    /\ pc[r] # "idle"
    /\ ~Reachable(r)
    /\ pc' = [pc EXCEPT ![r] = "idle"]
    /\ lock' = [c \in LockFiles |-> IF lock[c] = r THEN Nobody ELSE lock[c]]
    /\ batch' = [batch EXCEPT ![r] = {}]
    /\ Done(r)
    /\ UNCHANGED <<scoped, storeVars, org, todo, requests, historyVars>>

(***************************************************************************)
(* The operators' commands, each a process without a lock.                 *)
(***************************************************************************)

\* scan_orgs lists the collections; forget_org is told which organization.
Command(p) ==
    /\ scoped
    /\ requests < MaxRequests
    /\ requests' = requests + 1
    /\ \/ /\ Goto(p, "idle", "scan")
          /\ todo' = [todo EXCEPT ![p] = exists]
          /\ UNCHANGED org
       \/ /\ \E to \in {"approve", "reject"} : Goto(p, "idle", to)
          /\ UNCHANGED <<todo, org>>
       \/ /\ Goto(p, "idle", "drop")
          /\ \E o \in Orgs : org' = [org EXCEPT ![p] = o]
          /\ UNCHANGED todo
    /\ UNCHANGED <<scoped, storeVars, lock, text, hand, old, batch, historyVars>>

\* The entries of one organization are listed; opening its collection creates it
\* when it has gone meanwhile.
ScanOrg(p) ==
    /\ \E o \in todo[p] :
            /\ Goto(p, "scan", "scanning")
            /\ todo' = [todo EXCEPT ![p] = @ \ {o}]
            /\ org' = [org EXCEPT ![p] = o]
            /\ batch' = [batch EXCEPT ![p] = coll[o]]
            /\ exists' = exists \cup {o}
    /\ UNCHANGED <<scoped, coll, global, lock, text, hand, old, requests, historyVars>>

\* The names that the entry came with are removed from its wording, and it is
\* ingested, for the organization, unless it is not clean or not generic.
Scrubbed(e) == [e.text EXCEPT !.names = @ \ e.aliases]

ScanEntry(p) ==
    /\ \E e \in batch[p] :
            /\ batch' = [batch EXCEPT ![p] = @ \ {e}]
            /\ \/ Goto(p, "scanning", "find") /\ text' = [text EXCEPT ![p] = Scrubbed(e)]
               \/ Goto(p, "scanning", "scanning") /\ UNCHANGED text
    /\ UNCHANGED <<scoped, storeVars, lock, hand, old, org, todo, requests, historyVars>>

ScanNext(p) ==
    /\ batch[p] = {}
    /\ Goto(p, "scanning", "scan")
    /\ UNCHANGED <<scoped, storeVars, lock, handVars, requests, historyVars>>

Scanned(p) ==
    /\ todo[p] = {}
    /\ Goto(p, "scan", "idle")
    /\ Done(p)
    /\ UNCHANGED <<scoped, storeVars, lock, org, todo, batch, requests, historyVars>>

Corroborated_Unchecked(e) == TRUE   \* defect: the sources are not counted again at approval

\* approve counts the sources again.
Corroborated(e) == Cardinality(e.sources) >= MinOrgs

Approve(p) ==
    /\ \E e \in coll[Queue] :
            /\ Corroborated(e)
            /\ e.status # "rejected"
            /\ hand' = [hand EXCEPT ![p] = e]
    /\ Goto(p, "approve", "publish")
    /\ UNCHANGED <<scoped, storeVars, lock, text, old, org, todo, batch, requests, historyVars>>

\* GLOBAL first ...
Publish(p) ==
    /\ Goto(p, "publish", "approved")
    /\ global' = global \cup {hand[p].text}
    /\ UNCHANGED <<scoped, coll, exists, lock, handVars, requests, historyVars>>

\* ... then the candidate, as it was read.
MarkApproved(p) ==
    /\ Goto(p, "approved", "idle")
    /\ coll' = [coll EXCEPT ![Queue] = Put(Queue, [hand[p] EXCEPT !.status = "approved"])]
    /\ Done(p)
    /\ UNCHANGED <<scoped, exists, global, lock, org, todo, batch, requests, historyVars>>

Reject(p) ==
    /\ \E e \in coll[Queue] : hand' = [hand EXCEPT ![p] = e]
    /\ Goto(p, "reject", "rejecting")
    /\ UNCHANGED <<scoped, storeVars, lock, text, old, org, todo, batch, requests, historyVars>>

MarkRejected(p) ==
    /\ Goto(p, "rejecting", "idle")
    /\ coll' = [coll EXCEPT ![Queue] = Put(Queue, [hand[p] EXCEPT !.status = "rejected"])]
    /\ rejected' = rejected \cup {hand[p].text}
    /\ Done(p)
    /\ UNCHANGED <<scoped, exists, global, lock, org, todo, batch, requests, kept, known, forgotten, torn>>

\* No candidate of that id, too few sources, or a rejected one: an error.
NoCandidate(p) ==
    /\ \/ Goto(p, "approve", "idle")
       \/ Goto(p, "reject", "idle")
    /\ UNCHANGED <<scoped, storeVars, lock, handVars, requests, historyVars>>

\* forget_org drops the organization's collection ...
Drop(p) ==
    /\ Goto(p, "drop", "withdraw")
    /\ exists' = exists \ {org[p]}
    /\ coll' = [coll EXCEPT ![org[p]] = {}]
    /\ kept' = {r \in kept : In(r) # org[p]}
    /\ UNCHANGED <<scoped, global, lock, handVars, requests, known, forgotten, torn, rejected>>

\* ... and lists the candidates ...
ListCandidates(p) ==
    /\ Goto(p, "withdraw", "withdrawing")
    /\ batch' = [batch EXCEPT ![p] = {e \in coll[Queue] : org[p] \in e.sources}]
    /\ UNCHANGED <<scoped, storeVars, lock, text, hand, old, org, todo, requests, historyVars>>

\* ... to withdraw it from each, which is deleted when too few sources are left,
\* unless it is approved and has any.
Withdraw_KeepsRejected(p) ==   \* defect: a rejected candidate keeps its sources
    /\ \E e \in batch[p] :
            LET rest == [e EXCEPT !.sources = @ \ {org[p]}]
            IN  /\ Goto(p, "withdrawing", "withdrawing")
                /\ batch' = [batch EXCEPT ![p] = @ \ {e}]
                /\ coll' = [coll EXCEPT ![Queue] =
                        IF e.status = "rejected" THEN @
                        ELSE IF rest.sources = {} \/ (e.status # "approved" /\ ~Corroborated(rest))
                        THEN Without(Queue, e.text) ELSE Put(Queue, rest)]
    /\ UNCHANGED <<scoped, exists, global, lock, text, hand, old, org, todo, requests, historyVars>>

Withdraw(p) ==
    /\ \E e \in batch[p] :
            LET rest == [e EXCEPT !.sources = @ \ {org[p]}]
            IN  /\ Goto(p, "withdrawing", "withdrawing")
                /\ batch' = [batch EXCEPT ![p] = @ \ {e}]
                /\ coll' = [coll EXCEPT ![Queue] =
                        IF rest.sources = {} \/ (e.status # "approved" /\ ~Corroborated(rest))
                        THEN Without(Queue, e.text) ELSE Put(Queue, rest)]
    /\ UNCHANGED <<scoped, exists, global, lock, text, hand, old, org, todo, requests, historyVars>>

\* The organization is forgotten, unless a run of it has come back meanwhile.
Forgot(p) ==
    /\ batch[p] = {}
    /\ Goto(p, "withdrawing", "idle")
    /\ forgotten' = forgotten \cup ({org[p]} \ exists)
    /\ UNCHANGED <<scoped, storeVars, lock, handVars, requests, kept, known, torn, rejected>>

\* A process dies; its locks are released.
Die(p) ==
    /\ pc[p] # "idle"
    /\ pc' = [pc EXCEPT ![p] = "idle"]
    /\ lock' = [c \in LockFiles |-> IF lock[c] = p THEN Nobody ELSE lock[c]]
    /\ torn' = (torn \/ pc[p] = "delete")
    /\ Done(p)
    /\ todo' = [todo EXCEPT ![p] = {}]
    /\ batch' = [batch EXCEPT ![p] = {}]
    /\ UNCHANGED <<scoped, storeVars, org, requests, kept, known, forgotten, rejected>>

Ingest(p) == Find(p) \/ Upsert(p) \/ DeleteOld(p)

Run(r) == Mine(r) \/ Evict(r) \/ EvictOne(r) \/ Evicted(r) \/ Annotate(r) \/ Raise(r)

Operate(p) ==
    \/ Command(p) \/ ScanOrg(p) \/ ScanEntry(p) \/ ScanNext(p) \/ Scanned(p)
    \/ Approve(p) \/ Publish(p) \/ MarkApproved(p) \/ Reject(p) \/ MarkRejected(p) \/ NoCandidate(p)
    \/ Drop(p) \/ ListCandidates(p) \/ Withdraw(p) \/ Forgot(p)

Next ==
    \/ \E p \in Procs : Ingest(p) \/ Die(p)
    \/ \E r \in Runs : Run(r)
    \/ \E p \in Operators : Operate(p)

Spec == Init /\ [][Next]_vars

(***************************************************************************)
(* Properties.                                                             *)
(***************************************************************************)

Kept(r) == \E e \in coll[In(r)] : r \in e.sources

\* Ingestions that merge into one entry at the same time do not overwrite each
\* other, and no write brings back what was read before an eviction: with
\* scoping off, every session that was ingested is among the sources of an entry
\* until that entry is evicted, as long as no crash has left two wordings.  That is
\* for runs with one home, as a parent and its sub-agents, or runs of one directory.
MergesAreKept == ~scoped /\ ~torn => \A r \in kept : Kept(r)

OneHome == \A r, s \in Runs : HomeOf[r] = HomeOf[s]

\* The same with scoping on.
ScopedMergesAreKept == ~torn => \A r \in kept : Kept(r)

\* An eviction deletes what it has listed, not what was merged into it since.
EvictionsSpareMerges ==
    [][\A r \in Runs : EvictOne(r) =>
            \A e \in coll[In(r)] \ coll'[In(r)] : e \in batch[r]]_vars

\* What everybody can read was mined in MinOrgs organizations at least, however
\* often each of them was scanned, forgotten and scanned again.
GlobalIsCorroborated == global # {} => Cardinality(known) >= MinOrgs

\* An organization that has been forgotten is not a source of any candidate, as
\* long as none of its runs has mined the lesson again.
ForgottenStaysOut == \A o \in forgotten : \A e \in coll[Queue] : o \notin e.sources

\* A wording that has been rejected is not approved after that.
RejectedStaysOut == [][\A t \in global' \ global : t \notin rejected]_vars

\* No candidate's wording names anybody.
CandidatesAreDeidentified == \A e \in coll[Queue] : e.text.names = {}
=============================================================================
