------------------------------- MODULE Setups -------------------------------
(***************************************************************************)
(* One layer of a setup and those who change and read it: the Setups API's *)
(* request threads (service/setups_routes.py), which write under one       *)
(* re-entrant lock, a command line that changes tools without it           *)
(* (setups/cli.py), and resolvers that take no lock and keep what they     *)
(* read under a hash of the layer's files (setups/resolver.py).            *)
(*                                                                         *)
(* The layer holds one skill (a directory of two files and a disabled      *)
(* marker, with a revision history), one tool source (an entry and the     *)
(* spec it was made from) and one registered tool.  Items of a kind share  *)
(* nothing but the lock.                                                   *)
(***************************************************************************)
EXTENDS Integers, FiniteSets

CONSTANTS
    Threads,      \* request threads of the service
    Cli,          \* command-line processes
    Readers,      \* threads that resolve the setup
    Texts,        \* what a file of a skill, a spec or a declaration holds
    Versions,     \* versions of the registered tool
    Layers,       \* what of the skill the service may find when it starts
    Absent,       \* no such file
    Gone,         \* listed, and not there any more when it was read
    Nobody,       \* the lock is free
    Nothing,      \* no write pending
    MaxRequests,  \* bound: requests in a behavior
    MaxResolves   \* bound: resolutions in a behavior

Clients == Threads \cup Cli
Skills  == [meta : Texts, prompt : Texts]
Entries == [from : Texts, on : BOOLEAN]
Tools   == [version : Versions, decl : Texts, on : BOOLEAN]
Histories == [revision : Nat, sha : Skills \cup {Absent}]
Resolved == [meta : Texts, prompt : Texts \cup {Absent}, revision : Nat]

ASSUME SetupsAssumption ==
    /\ Nobody \notin Threads \cup Cli
    /\ Threads \cap Cli = {}
    /\ Versions \subseteq Nat
    /\ {Absent, Gone, Nothing} \cap (Texts \cup Skills) = {}
    /\ Absent # Gone /\ Absent # Nothing /\ Absent \notin Resolved
    /\ Layers \subseteq [skill : Skills \cup {Absent}, history : Histories]
    /\ MaxRequests \in Nat /\ MaxResolves \in Nat

VARIABLES
    skill,      \* skills/<name>: its two files
    marker,     \* skills/<name>.disabled exists
    history,    \* the skill's last entry in .fabri-revisions.json
    spec,       \* tools/specs/<name>
    entry,      \* tools/sources/<name>.yaml
    tool,       \* tools/registered/<name>.json
    lock,       \* SetupsApi._write_lock
    pc,         \* where a client stands
    job,        \* what it was asked to do
    seen,       \* what it has read for it
    asked,      \* requests so far
    behind,     \* history: items one of whose two files is behind the other
    rpc,        \* where a reader stands
    digest,     \* what it read to hash the layer
    value,      \* what it has resolved
    clean,      \* no file of the skill changed since it listed them
    cache,      \* the resolver's cache
    resolves    \* resolutions so far

skillVars  == <<skill, marker, history>>
toolVars   == <<spec, entry, tool>>
clientVars == <<lock, pc, job, seen, asked, behind>>
readerVars == <<rpc, digest, value, clean, cache, resolves>>
vars == <<skillVars, toolVars, clientVars, readerVars>>

(***************************************************************************)
(* Requests and types.                                                     *)
(***************************************************************************)

Request(ops, args) == [op : ops, arg : args]
NoJob == [op |-> "none", arg |-> Absent]
Declarations == [version : Versions, decl : Texts, on : BOOLEAN]
SkillJobs == Request({"put"}, Skills) \cup Request({"delete", "type"}, {Absent})
                \cup Request({"disable"}, BOOLEAN)
TypeWrites == Request({"type"}, Skills)
ToolJobs  == Request({"add"}, [from : Texts, replace : BOOLEAN])
                \cup Request({"register"}, Declarations)
                \cup Request({"switch", "enable"}, BOOLEAN)
                \cup Request({"remove", "unregister"}, {Absent})

Steps == {"idle", "type_meta", "type_prompt", "lock", "aside", "place", "unmark", "record",
          "delete", "mark", "preview", "spec", "entry", "unspec", "unentry", "load", "store", "audit", "lint"}
ReaderSteps == {"idle", "hash_prompt", "hash_meta", "lookup", "read_meta", "read_marker",
                "read_prompt", "read_revision", "keep"}

Listed   == Texts \cup {Absent, Gone}
Digests  == [prompt : Listed, meta : Listed, marker : BOOLEAN]
Views    == Resolved \cup {Absent}
NoDigest == [prompt |-> Absent, meta |-> Absent, marker |-> FALSE]

TypeOK ==
    /\ skill \in Skills \cup {Absent}
    /\ marker \in BOOLEAN
    /\ history \in Histories
    /\ spec \in Texts \cup {Absent}
    /\ entry \in Entries \cup {Absent}
    /\ tool \in Tools \cup {Absent}
    /\ lock \in Threads \cup {Nobody}
    /\ pc \in [Clients -> Steps]
    /\ job \in [Clients -> SkillJobs \cup TypeWrites \cup ToolJobs \cup {NoJob}]
    /\ seen \in [Clients -> Texts \cup Entries \cup Tools \cup {Absent}]
    /\ asked \in 0 .. MaxRequests
    /\ behind \subseteq {"skill", "source"}
    /\ rpc \in [Readers -> ReaderSteps]
    /\ digest \in [Readers -> Digests]
    /\ value \in [Readers -> Views]
    /\ clean \in [Readers -> BOOLEAN]
    /\ cache \in [digest : Digests, value : Views, clean : BOOLEAN] \cup {Absent}
    /\ resolves \in 0 .. MaxResolves

\* The service finds a layer with or without the skill, which it may have written
\* itself, in this text or another, or not at all, and no tools yet.
Init ==
    /\ \E l \in Layers : skill = l.skill /\ history = l.history
    /\ marker = FALSE
    /\ behind = IF history.sha = skill THEN {} ELSE {"skill"}
    /\ spec = Absent /\ entry = Absent /\ tool = Absent
    /\ lock = Nobody
    /\ pc = [c \in Clients |-> "idle"]
    /\ job = [c \in Clients |-> NoJob]
    /\ seen = [c \in Clients |-> Absent]
    /\ asked = 0
    /\ rpc = [r \in Readers |-> "idle"]
    /\ digest = [r \in Readers |-> NoDigest]
    /\ value = [r \in Readers |-> Absent]
    /\ clean = [r \in Readers |-> TRUE]
    /\ cache = Absent
    /\ resolves = 0

Goto(c, from, to) ==
    /\ pc[c] = from
    /\ pc' = [pc EXCEPT ![c] = to]

\* Leaving the `with self._write_lock` block, by a return or an exception.
Leave(c) ==
    /\ lock' = IF lock = c THEN Nobody ELSE lock
    /\ job' = [job EXCEPT ![c] = NoJob]
    /\ seen' = [seen EXCEPT ![c] = Absent]

Answer(c, from) == Goto(c, from, "idle") /\ Leave(c)
Stay(c, from, to) == Goto(c, from, to) /\ UNCHANGED <<lock, job, seen>>

\* The layer's files changed under every reader that is at work on them.
Disturb == clean' = [r \in Readers |-> rpc[r] = "idle"]

readersAlone == <<rpc, digest, value, cache, resolves>>

(***************************************************************************)
(* Taking a request.                                                       *)
(***************************************************************************)

Ask(c) ==
    /\ asked < MaxRequests
    /\ \E j \in IF c \in Cli THEN ToolJobs ELSE SkillJobs \cup ToolJobs :
            /\ Goto(c, "idle", IF j.op = "type" THEN "type_meta" ELSE "lock")
            /\ job' = [job EXCEPT ![c] = j]
    /\ asked' = asked + 1
    /\ UNCHANGED <<skillVars, toolVars, lock, seen, behind, readerVars>>

\* put_agent_type reads the skill's files before it takes the lock: the skill's
\* meta, from which it makes one with another list of types ...
TypeMeta(c) ==
    /\ \/ /\ skill # Absent
          /\ Goto(c, "type_meta", "type_prompt")
          /\ \E m \in Texts \ {skill.meta} : seen' = [seen EXCEPT ![c] = m]
          /\ UNCHANGED <<lock, job>>
       \/ Answer(c, "type_meta")
    /\ UNCHANGED <<skillVars, toolVars, asked, behind, readerVars>>

\* ... and its other files, which it will write back as they are.
TypePrompt(c) ==
    /\ \/ /\ skill # Absent
          /\ Goto(c, "type_prompt", "lock")
          /\ job' = [job EXCEPT ![c] = [op |-> "type", arg |-> [meta |-> seen[c], prompt |-> skill.prompt]]]
          /\ seen' = [seen EXCEPT ![c] = Absent]
          /\ UNCHANGED lock
       \/ Answer(c, "type_prompt")
    /\ UNCHANGED <<skillVars, toolVars, asked, behind, readerVars>>

Enter_WithoutLock(c, op, to) ==   \* defect: requests do not exclude each other
    /\ job[c].op = op
    /\ Goto(c, "lock", to)
    /\ UNCHANGED <<skillVars, toolVars, lock, job, seen, asked, behind, readerVars>>

\* A handler takes the lock; the command line writes without it.
Enter(c, op, to) ==
    /\ job[c].op = op
    /\ Goto(c, "lock", to)
    /\ IF c \in Cli THEN UNCHANGED lock ELSE lock = Nobody /\ lock' = c
    /\ UNCHANGED <<skillVars, toolVars, job, seen, asked, behind, readerVars>>

PutItem(c)      == Enter(c, "put", "aside")
PutAgentType(c) == Enter(c, "type", "aside")
DeleteItem(c)   == Enter(c, "delete", "delete")
PostDisable(c)  == Enter(c, "disable", "mark")
PostToolSource(c)       == Enter(c, "add", "preview")
DeleteToolSource(c)     == Enter(c, "remove", "unspec")
PostToolSourceEnable(c) == Enter(c, "switch", "load")
PostRegister(c)   == Enter(c, "register", "load")
PostUnregister(c) == Enter(c, "unregister", "load")
PostEnable(c)     == Enter(c, "enable", "load")

\* What a request is refused for once it has the lock, before it has written: a
\* validation that fails, nothing of that name, a source that already exists.
Refuse(c) ==
    /\ pc[c] \in {"aside", "delete", "mark", "preview", "spec", "unspec", "load"}
    /\ Answer(c, pc[c])
    /\ UNCHANGED <<skillVars, toolVars, asked, behind, readerVars>>

(***************************************************************************)
(* put_item, delete_item and set_disabled of a skill.                      *)
(***************************************************************************)

\* _atomic_dir, the new directory written under a hidden name: the old one is
\* renamed away, which leaves none ...
Aside(c) ==
    /\ Stay(c, "aside", "place")
    /\ skill' = Absent
    /\ IF skill = Absent THEN UNCHANGED clean ELSE Disturb
    /\ UNCHANGED <<marker, history, toolVars, asked, behind, readersAlone>>

\* ... and the new one into its place.
Place(c) ==
    /\ Stay(c, "place", "unmark")
    /\ skill' = job[c].arg
    /\ Disturb
    /\ UNCHANGED <<marker, history, toolVars, asked, behind, readersAlone>>

\* A write clears the item's disabled marker.
Unmark(c) ==
    /\ Stay(c, "unmark", "record")
    /\ marker' = FALSE
    /\ IF marker THEN Disturb ELSE UNCHANGED clean
    /\ UNCHANGED <<skill, history, toolVars, asked, behind, readersAlone>>

Record_WithoutDelete(c) ==   \* defect: the revision of a deletion is not recorded
    /\ Stay(c, "record", "audit")
    /\ history' = IF skill = Absent \/ history.sha = skill THEN history
                  ELSE [revision |-> history.revision + 1, sha |-> skill]
    /\ behind' = behind \ {"skill"}
    /\ UNCHANGED <<skill, marker, toolVars, asked, readerVars>>

\* _record_revision: a new revision when the skill is not what the last one was.
Record(c) ==
    /\ Stay(c, "record", "audit")
    /\ history' = IF history.sha = skill THEN history
                  ELSE [revision |-> history.revision + 1, sha |-> skill]
    /\ behind' = behind \ {"skill"}
    /\ UNCHANGED <<skill, marker, toolVars, asked, readerVars>>

\* The directory is renamed away and removed.
Delete(c) ==
    /\ skill # Absent
    /\ Stay(c, "delete", "record")
    /\ skill' = Absent
    /\ Disturb
    /\ UNCHANGED <<marker, history, toolVars, asked, behind, readersAlone>>

Mark(c) ==
    /\ Stay(c, "mark", "audit")
    /\ marker' = job[c].arg
    /\ IF marker' = marker THEN UNCHANGED clean ELSE Disturb
    /\ UNCHANGED <<skill, history, toolVars, asked, behind, readersAlone>>

(***************************************************************************)
(* add_entry, remove_entry and set_entry_enabled of a tool source.         *)
(***************************************************************************)

\* A source is previewed: its server is connected to and asked for its tools, which
\* has no time limit (tools/mcp_client.py).
Previewed(c) ==
    /\ Stay(c, "preview", "spec")
    /\ UNCHANGED <<skillVars, toolVars, asked, behind, readerVars>>

\* Without `replace` it must be new.  Its spec is copied.
WriteSpec(c) ==
    /\ Stay(c, "spec", "entry")
    /\ entry # Absent => job[c].arg.replace
    /\ spec' = job[c].arg.from
    /\ UNCHANGED <<skillVars, entry, tool, asked, behind, readerVars>>

\* Then its entry is written.
WriteEntry(c) ==
    /\ Stay(c, "entry", "audit")
    /\ entry' = [from |-> job[c].arg.from, on |-> TRUE]
    /\ behind' = behind \ {"source"}
    /\ UNCHANGED <<skillVars, spec, tool, asked, readerVars>>

\* Removal starts with the spec that the entry owns.
RemoveSpec(c) ==
    /\ entry # Absent
    /\ Stay(c, "unspec", "unentry")
    /\ spec' = Absent
    /\ UNCHANGED <<skillVars, entry, tool, asked, behind, readerVars>>

RemoveEntry(c) ==
    /\ Stay(c, "unentry", "audit")
    /\ entry' = Absent
    /\ behind' = behind \ {"source"}
    /\ UNCHANGED <<skillVars, spec, tool, asked, readerVars>>

(***************************************************************************)
(* set_entry_enabled, register_tool, unregister_tool and set_enabled: a    *)
(* file is read, then written.                                             *)
(***************************************************************************)

\* A registration names a higher version than the one on disk, or the same one
\* with the same content, which changes nothing: the content does not include the
\* flag, so a registration that differs in the flag only is accepted and ignored.
Newer(j, old) == old # Absent => j.version > old.version
Same(j, old)  == old # Absent /\ j.version = old.version /\ j.decl = old.decl

Load(c, op, old, change, same) ==
    /\ job[c].op = op
    /\ pc[c] = "load"
    /\ \/ /\ change
          /\ Goto(c, "load", "store")
          /\ seen' = [seen EXCEPT ![c] = old]
          /\ UNCHANGED <<lock, job>>
       \/ same /\ Stay(c, "load", "audit")
    /\ UNCHANGED <<skillVars, toolVars, asked, behind, readerVars>>

Switched(j, old)  == old # Absent /\ old.on # j
AsItWas(j, old)   == old # Absent /\ old.on = j

LoadRegistered(c) == Load(c, "register", tool, Newer(job[c].arg, tool), Same(job[c].arg, tool))
LoadEnabled(c)    == Load(c, "enable", tool, Switched(job[c].arg, tool), AsItWas(job[c].arg, tool))
LoadRemoved(c)    == Load(c, "unregister", tool, tool # Absent, FALSE)
LoadSource(c)     == Load(c, "switch", entry, Switched(job[c].arg, entry), AsItWas(job[c].arg, entry))

Store(c, op) ==
    /\ job[c].op = op
    /\ Stay(c, "store", "audit")
    /\ UNCHANGED <<skillVars, spec, asked, behind, readerVars>>

StoreRegistered(c) ==
    LET j == job[c].arg
    IN  /\ Store(c, "register")
        /\ tool' = [version |-> j.version, decl |-> j.decl, on |-> j.on]
        /\ UNCHANGED entry

StoreEnabled(c) ==
    /\ Store(c, "enable")
    /\ tool' = [seen[c] EXCEPT !.on = job[c].arg]
    /\ UNCHANGED entry

StoreRemoved(c) ==
    /\ Store(c, "unregister")
    /\ tool' = Absent
    /\ UNCHANGED entry

StoreSource(c) ==
    /\ Store(c, "switch")
    /\ entry' = [seen[c] EXCEPT !.on = job[c].arg]
    /\ UNCHANGED tool

(***************************************************************************)
(* The end of a request, and of everything.                                *)
(***************************************************************************)

Audited(c) == IF job[c].op = "add" THEN Stay(c, "audit", "lint") ELSE Answer(c, "audit")

Audit_Plain(c) ==   \* defect: the lock is not re-entrant
    /\ c \in Cli \/ lock = Nobody
    /\ Audited(c)
    /\ UNCHANGED <<skillVars, toolVars, asked, behind, readerVars>>

\* audit() takes the lock that the request holds, appends a line and the request
\* is answered.
Audit(c) ==
    /\ c \in Cli \/ lock \in {c, Nobody}
    /\ Audited(c)
    /\ UNCHANGED <<skillVars, toolVars, asked, behind, readerVars>>

\* add_entry builds every tool of the stack once more before it returns, over the
\* network like the preview.
Linted(c) ==
    /\ Answer(c, "lint")
    /\ UNCHANGED <<skillVars, toolVars, asked, behind, readerVars>>

\* What is left when a client stops between two of its files.
LeftBehind(c) ==
    {i \in {"skill"}  : pc[c] \in {"place", "unmark", "record"} /\ history.sha # skill}
    \cup {i \in {"source"} : pc[c] = "unentry" \/ (pc[c] = "entry" /\ entry # Absent)}

\* A file operation raises, as on a full disk: nothing is rolled back, what was
\* renamed away stays under its hidden name, and the request gets an error.
Fail(c) ==
    /\ pc[c] \in {"place", "unmark", "record", "entry", "unentry", "store", "audit"}
    /\ Answer(c, pc[c])
    /\ behind' = behind \cup LeftBehind(c)
    /\ UNCHANGED <<skillVars, toolVars, asked, readerVars>>

\* The service dies with its threads, readers and cache, or a command line does.
Crash ==
    \E dead \in {Threads} \cup {{c} : c \in Cli} :
        /\ pc' = [c \in Clients |-> IF c \in dead THEN "idle" ELSE pc[c]]
        /\ job' = [c \in Clients |-> IF c \in dead THEN NoJob ELSE job[c]]
        /\ seen' = [c \in Clients |-> IF c \in dead THEN Absent ELSE seen[c]]
        /\ lock' = IF lock \in dead THEN Nobody ELSE lock
        /\ behind' = behind \cup UNION {LeftBehind(c) : c \in dead}
        /\ \/ dead = Threads /\ rpc' = [r \in Readers |-> "idle"] /\ cache' = Absent
              /\ digest' = [r \in Readers |-> NoDigest] /\ value' = [r \in Readers |-> Absent]
              /\ clean' = [r \in Readers |-> TRUE]
           \/ dead # Threads /\ UNCHANGED <<rpc, cache, digest, value, clean>>
    /\ UNCHANGED <<skill, marker, history, toolVars, asked, resolves>>

(***************************************************************************)
(* resolve_setup, without a lock: the hash of the layer, the cache, then   *)
(* the files again.                                                        *)
(***************************************************************************)

List_HiddenMarker(r) ==   \* defect: markers are left out of the hash, as hidden files are
    /\ rpc[r] = "idle" /\ resolves < MaxResolves
    /\ rpc' = [rpc EXCEPT ![r] = "hash_prompt"]
    /\ digest' = [digest EXCEPT ![r] =
            [prompt |-> IF skill = Absent THEN Absent ELSE Gone,
             meta   |-> IF skill = Absent THEN Absent ELSE Gone, marker |-> FALSE]]
    /\ clean' = [clean EXCEPT ![r] = TRUE]
    /\ resolves' = resolves + 1
    /\ UNCHANGED <<skillVars, toolVars, clientVars, value, cache>>

\* The files of the layer are listed.
List(r) ==
    /\ rpc[r] = "idle" /\ resolves < MaxResolves
    /\ rpc' = [rpc EXCEPT ![r] = "hash_prompt"]
    /\ digest' = [digest EXCEPT ![r] =
            [prompt |-> IF skill = Absent THEN Absent ELSE Gone,
             meta   |-> IF skill = Absent THEN Absent ELSE Gone, marker |-> marker]]
    /\ clean' = [clean EXCEPT ![r] = TRUE]
    /\ resolves' = resolves + 1
    /\ UNCHANGED <<skillVars, toolVars, clientVars, value, cache>>

\* Each listed file is read; one that is gone is passed over.
HashFile(r, file, from, to) ==
    /\ rpc[r] = from
    /\ rpc' = [rpc EXCEPT ![r] = to]
    /\ digest' = IF digest[r][file] = Absent \/ skill = Absent THEN digest
                 ELSE [digest EXCEPT ![r][file] = skill[file]]
    /\ UNCHANGED <<skillVars, toolVars, clientVars, value, clean, cache, resolves>>

HashPrompt(r) == HashFile(r, "prompt", "hash_prompt", "hash_meta")
HashMeta(r) == HashFile(r, "meta", "hash_meta", "lookup")

Done(r) ==
    /\ rpc' = [rpc EXCEPT ![r] = "idle"]
    /\ digest' = [digest EXCEPT ![r] = NoDigest]
    /\ value' = [value EXCEPT ![r] = Absent]

\* The cached resolution of that hash is returned as it is.
Lookup(r) ==
    /\ rpc[r] = "lookup"
    /\ IF cache # Absent /\ cache.digest = digest[r]
       THEN Done(r)
       ELSE rpc' = [rpc EXCEPT ![r] = "read_meta"] /\ UNCHANGED <<digest, value>>
    /\ UNCHANGED <<skillVars, toolVars, clientVars, clean, cache, resolves>>

\* _resolve_uncached: the skill's meta.  No skill, no resolved skill.
ReadMeta(r) ==
    /\ rpc[r] = "read_meta"
    /\ \/ /\ skill = Absent
          /\ rpc' = [rpc EXCEPT ![r] = "keep"]
          /\ value' = [value EXCEPT ![r] = Absent]
       \/ /\ skill # Absent
          /\ rpc' = [rpc EXCEPT ![r] = "read_marker"]
          /\ value' = [value EXCEPT ![r] = [meta |-> skill.meta, prompt |-> Absent, revision |-> 0]]
    /\ UNCHANGED <<skillVars, toolVars, clientVars, digest, clean, cache, resolves>>

\* A disabled skill is left out.
ReadMarker(r) ==
    /\ rpc[r] = "read_marker"
    /\ rpc' = [rpc EXCEPT ![r] = IF marker THEN "keep" ELSE "read_prompt"]
    /\ value' = IF marker THEN [value EXCEPT ![r] = Absent] ELSE value
    /\ UNCHANGED <<skillVars, toolVars, clientVars, digest, clean, cache, resolves>>

\* A prompt that is not there is an empty one.
ReadPrompt(r) ==
    /\ rpc[r] = "read_prompt"
    /\ rpc' = [rpc EXCEPT ![r] = "read_revision"]
    /\ value' = IF skill = Absent THEN value ELSE [value EXCEPT ![r].prompt = skill.prompt]
    /\ UNCHANGED <<skillVars, toolVars, clientVars, digest, clean, cache, resolves>>

\* The revision is the history's, a hidden file that the hash leaves out.
ReadRevision(r) ==
    /\ rpc[r] = "read_revision"
    /\ rpc' = [rpc EXCEPT ![r] = "keep"]
    /\ value' = [value EXCEPT ![r].revision = history.revision]
    /\ UNCHANGED <<skillVars, toolVars, clientVars, digest, clean, cache, resolves>>

Keep(r) ==
    /\ rpc[r] = "keep"
    /\ Done(r)
    /\ cache' = [digest |-> digest[r], value |-> value[r], clean |-> clean[r]]
    /\ UNCHANGED <<skillVars, toolVars, clientVars, clean, resolves>>

Handle(c) ==
    \/ PutItem(c) \/ PutAgentType(c) \/ DeleteItem(c) \/ PostDisable(c)
    \/ PostToolSource(c) \/ DeleteToolSource(c) \/ PostToolSourceEnable(c)
    \/ PostRegister(c) \/ PostUnregister(c) \/ PostEnable(c)

Serve(c) ==
    \/ TypeMeta(c) \/ TypePrompt(c) \/ Handle(c) \/ Refuse(c) \/ Audit(c)
    \/ Aside(c) \/ Place(c) \/ Unmark(c) \/ Record(c) \/ Delete(c) \/ Mark(c)
    \/ Previewed(c) \/ WriteSpec(c) \/ WriteEntry(c) \/ Linted(c) \/ RemoveSpec(c) \/ RemoveEntry(c)
    \/ LoadRegistered(c) \/ LoadEnabled(c) \/ LoadRemoved(c) \/ LoadSource(c)
    \/ StoreRegistered(c) \/ StoreEnabled(c) \/ StoreRemoved(c) \/ StoreSource(c)

Resolve(r) ==
    \/ List(r) \/ HashPrompt(r) \/ HashMeta(r) \/ Lookup(r)
    \/ ReadMeta(r) \/ ReadMarker(r) \/ ReadPrompt(r) \/ ReadRevision(r) \/ Keep(r)

Next ==
    \/ \E c \in Clients : Ask(c) \/ Serve(c) \/ Fail(c)
    \/ \E r \in Readers : Resolve(r)
    \/ Crash

\* What has no time limit: the service waits for a source's server, lock in hand.
WaitsForServer(c) == pc[c] \in {"preview", "lint"}

\* A thread that can take a step of its request takes it, unless it waits for a
\* server; the scheduler of the process owes it no more, and no operation must fail.
Fairness == \A c \in Clients : WF_vars(Serve(c) /\ ~WaitsForServer(c))

Spec == Init /\ [][Next]_vars /\ Fairness

(***************************************************************************)
(* Properties.                                                             *)
(***************************************************************************)

\* The request's write is still to come.
Ahead(c) ==
    \/ pc[c] \in {"aside", "place", "delete"}
    \/ pc[c] = "lock" /\ job[c].op \in {"put", "type", "delete"}

Register == INSTANCE SkillRegister WITH
    item <- skill,
    pending <- [c \in Clients |-> IF Ahead(c) THEN job[c].arg ELSE Nothing],
    swapping <- {c \in Clients : pc[c] = "place"}

\* Whoever looks at the skill, with the lock or without, at any instant, sees the
\* last one that was written, or none: while one request puts another in its place,
\* or for good if it fails in between.  No interleaving of requests loses a write,
\* repeats one, or brings an older skill back.
StoreIsARegister == Register!Spec

\* A reader sees the old item or the new one (setups/store.py:17-20): nothing but a
\* deletion takes a skill away.
ReadersSeeOldOrNew ==
    [][skill # Absent /\ skill' = Absent => \E c \in Clients : Delete(c)]_vars

\* When no request is at work, the last revision in the history is the skill on
\* disk; what was authored as files, or a write that broke off left behind,
\* the next write puts right.
HistoryFollowsDisk ==
    lock = Nobody /\ "skill" \notin behind => history.sha = skill

\* When no request is at work, a source's entry stands on the spec it was made
\* from, unless its replacement or its removal broke off, until the next one: a new
\* source that breaks off leaves no entry without a spec.
EntryHasItsSpec ==
    lock = Nobody /\ "source" \notin behind /\ entry # Absent => spec = entry.from

LayerIsCoherent == HistoryFollowsDisk /\ EntryHasItsSpec

\* put_agent_type writes back the prompt that is there, not one that another request
\* has replaced since it was read.
TypeKeepsPrompt ==
    \A c \in Clients : pc[c] = "aside" /\ job[c].op = "type" /\ skill # Absent =>
        job[c].arg.prompt = skill.prompt

\* A registered tool's declaration changes with its version only, and the version
\* only grows, as long as it is not unregistered: however registrations, switches and
\* removals that read the file and write it interleave in the service.
VersionsGrow ==
    [][tool # Absent /\ tool' # Absent =>
            tool'.version > tool.version \/ (tool'.version = tool.version /\ tool'.decl = tool.decl)]_vars

\* "Validate and store one tool" (tools/registration.py:381): a registration that is
\* accepted leaves the tool that it named, on or off.
RegistrationIsStored ==
    [][\A c \in Clients :
            pc[c] = "load" /\ pc'[c] = "audit" /\ job[c].op = "register" => tool.on = job[c].arg.on]_vars

\* What resolving the layer as it is on disk gives, and what hashing it gives.
OnDisk == IF skill = Absent \/ marker THEN Absent
          ELSE [meta |-> skill.meta, prompt |-> skill.prompt, revision |-> history.revision]
DigestOnDisk == [prompt |-> IF skill = Absent THEN Absent ELSE skill.prompt,
                 meta   |-> IF skill = Absent THEN Absent ELSE skill.meta, marker |-> marker]

Files(v) == IF v = Absent THEN Absent ELSE [meta |-> v.meta, prompt |-> v.prompt]

\* Whoever resolves the layer as it stands is served the files that are on disk, at any
\* later time and whatever was written in between, unless a write of the skill overlapped
\* the resolution that filled the cache.
UndisturbedCacheIsTrue ==
    cache # Absent /\ cache.clean /\ cache.digest = DigestOnDisk => Files(cache.value) = Files(OnDisk)

\* The same of the revision, when no request is at work: a skill that comes back has
\* another one.
CachedRevisionIsTrue ==
    cache # Absent /\ cache.clean /\ cache.digest = DigestOnDisk /\ lock = Nobody => cache.value = OnDisk

\* The same of the files, disturbed or not.
CacheIsTrue ==
    cache # Absent /\ cache.digest = DigestOnDisk => Files(cache.value) = Files(OnDisk)

\* Every request is answered, unless its own server, or that of the request which holds
\* the lock, never answers: nobody else keeps the lock, not even the request that holds
\* it, when it writes its audit line.
EveryRequestIsAnswered ==
    \A c \in Clients :
        \/ <>[](lock # Nobody /\ WaitsForServer(lock))
        \/ <>[]WaitsForServer(c)
        \/ pc[c] # "idle" ~> pc[c] = "idle"

\* The same without the exception.
EveryWriteReturns == \A c \in Clients : pc[c] # "idle" ~> pc[c] = "idle"
=============================================================================
