---------------------------- MODULE SetupsProofs ----------------------------
(***************************************************************************)
(* For any threads, readers, texts and versions: the files and the clients *)
(* of Setups keep their types; the requests' writes of a skill implement   *)
(* SkillRegister; the history follows the disk; an undisturbed resolution  *)
(* caches the truth of the files; and, without command lines, the sources  *)
(* stand on their specs and a tool's version only grows.                   *)
(***************************************************************************)
EXTENDS Setups, TLAPS

USE DEF skillVars, toolVars, clientVars, readerVars, readersAlone, Goto, Stay, Disturb

(***************************************************************************)
(* What a client has to do, by where it stands, and the lock.              *)
(***************************************************************************)

Inside == Steps \ {"idle", "type_meta", "type_prompt", "lock"}
SkillOps == {"put", "type", "delete", "disable"}

Jobs == SkillJobs \cup TypeWrites \cup ToolJobs \cup {NoJob}

(* The steps of an operation.                                               *)
StepsOf == [put |-> {"lock", "aside", "place", "unmark", "record", "audit"},
            type |-> {"type_meta", "type_prompt", "lock", "aside", "place", "unmark", "record", "audit"},
            delete |-> {"lock", "delete", "record", "audit"},
            disable |-> {"lock", "mark", "audit"},
            add |-> {"lock", "preview", "spec", "entry", "audit", "lint"},
            remove |-> {"lock", "unspec", "unentry", "audit"},
            switch |-> {"lock", "load", "store", "audit"},
            enable |-> {"lock", "load", "store", "audit"},
            register |-> {"lock", "load", "store", "audit"},
            unregister |-> {"lock", "load", "store", "audit"},
            none |-> {"idle"}]

Ops == {"put", "type", "delete", "disable", "add", "remove", "switch", "enable", "register", "unregister", "none"}

StepInv ==
    \A c \in Clients :
        /\ job[c].op \in Ops
        /\ pc[c] \in StepsOf[job[c].op]
        /\ c \in Cli => job[c].op \notin SkillOps
        /\ pc[c] = "type_prompt" => seen[c] \in Texts
        /\ job[c].op = "type" /\ pc[c] \notin {"type_meta", "type_prompt"} => job[c].arg \in Skills
        /\ job[c].op = "enable" /\ pc[c] = "store" => seen[c] \in Tools
        /\ job[c].op = "switch" /\ pc[c] = "store" => seen[c] \in Entries

LockInv == \A c \in Threads : pc[c] \in Inside <=> lock = c

(* What an operation was asked with.                                        *)
LEMMA JobTypes ==
    ASSUME NEW j \in Jobs
    PROVE  /\ j.op \in Ops
           /\ j.op = "put" => j.arg \in Skills
           /\ j.op = "delete" => j.arg = Absent
           /\ j.op = "disable" => j.arg \in BOOLEAN
           /\ j.op = "add" => j.arg.from \in Texts /\ j.arg.replace \in BOOLEAN
           /\ j.op = "register" => j.arg.version \in Versions /\ j.arg.decl \in Texts /\ j.arg.on \in BOOLEAN
           /\ j.op \in {"switch", "enable"} => j.arg \in BOOLEAN
<1>1. CASE j \in SkillJobs
  BY <1>1 DEF SkillJobs, Request, Ops
<1>2. CASE j \in TypeWrites
  BY <1>2 DEF TypeWrites, Request, Ops
<1>3. CASE j \in ToolJobs
  BY <1>3 DEF ToolJobs, Request, Ops, Declarations
<1>4. CASE j = NoJob
  BY <1>4 DEF NoJob, Ops
<1>5. QED
  BY <1>1, <1>2, <1>3, <1>4 DEF Jobs

LEMMA AskedOps ==
    /\ \A j \in ToolJobs : j.op \notin SkillOps /\ j.op \in Ops \ {"none"}
    /\ \A j \in SkillJobs : j.op \in SkillOps
  BY DEF ToolJobs, SkillJobs, SkillOps, Ops, Request

LEMMA StepStep == TypeOK /\ StepInv /\ [Next]_vars => StepInv'
<1> SUFFICES ASSUME TypeOK, StepInv, [Next]_vars PROVE StepInv'
  OBVIOUS
<1> USE DEF StepInv, Ops, StepsOf, Clients, SkillOps
<1>0. job \in [Clients -> Jobs] /\ pc \in [Clients -> Steps] /\ seen \in [Clients -> Texts \cup Entries \cup Tools \cup {Absent}]
      /\ tool \in Tools \cup {Absent} /\ entry \in Entries \cup {Absent}
  BY DEF TypeOK, Jobs
<1>1. ASSUME NEW c \in Clients, Ask(c) PROVE StepInv'
  <2>1. PICK j \in (IF c \in Cli THEN ToolJobs ELSE SkillJobs \cup ToolJobs) :
            /\ Goto(c, "idle", IF j.op = "type" THEN "type_meta" ELSE "lock")
            /\ job' = [job EXCEPT ![c] = j]
    BY <1>1 DEF Ask
  <2>2. j.op \in Ops \ {"none"} /\ (c \in Cli => j.op \notin SkillOps)
    BY <2>1, AskedOps
  <2>3. UNCHANGED seen
    BY <1>1 DEF Ask
  <2>4. QED
    BY <1>0, <2>1, <2>2, <2>3
<1>2. ASSUME NEW c \in Clients, TypeMeta(c) PROVE StepInv'
  BY <1>0, <1>2 DEF TypeMeta, Answer, Leave, NoJob
<1>3. ASSUME NEW c \in Clients, TypePrompt(c) PROVE StepInv'
  <2>1. CASE Answer(c, "type_prompt")
    BY <1>0, <2>1, <1>3 DEF TypePrompt, Answer, Leave, NoJob
  <2>2. CASE ~Answer(c, "type_prompt")
    <3>1. [meta |-> seen[c], prompt |-> skill.prompt] \in Skills
      BY <1>3, <2>2 DEF TypePrompt, TypeOK, Skills
    <3>2. QED
      BY <1>0, <1>3, <2>2, <3>1 DEF TypePrompt
  <2>3. QED
    BY <2>1, <2>2
<1>4. ASSUME NEW c \in Clients, PutItem(c) PROVE StepInv'
  BY <1>0, <1>4 DEF PutItem, Enter
<1>5. ASSUME NEW c \in Clients, PutAgentType(c) PROVE StepInv'
  BY <1>0, <1>5 DEF PutAgentType, Enter
<1>6. ASSUME NEW c \in Clients, DeleteItem(c) PROVE StepInv'
  BY <1>0, <1>6 DEF DeleteItem, Enter
<1>7. ASSUME NEW c \in Clients, PostDisable(c) PROVE StepInv'
  BY <1>0, <1>7 DEF PostDisable, Enter
<1>8. ASSUME NEW c \in Clients, PostToolSource(c) PROVE StepInv'
  BY <1>0, <1>8 DEF PostToolSource, Enter
<1>9. ASSUME NEW c \in Clients, DeleteToolSource(c) PROVE StepInv'
  BY <1>0, <1>9 DEF DeleteToolSource, Enter
<1>10. ASSUME NEW c \in Clients, PostToolSourceEnable(c) PROVE StepInv'
  BY <1>0, <1>10 DEF PostToolSourceEnable, Enter
<1>11. ASSUME NEW c \in Clients, PostRegister(c) PROVE StepInv'
  BY <1>0, <1>11 DEF PostRegister, Enter
<1>12. ASSUME NEW c \in Clients, PostUnregister(c) PROVE StepInv'
  BY <1>0, <1>12 DEF PostUnregister, Enter
<1>13. ASSUME NEW c \in Clients, PostEnable(c) PROVE StepInv'
  BY <1>0, <1>13 DEF PostEnable, Enter
<1>14. ASSUME NEW c \in Clients, Refuse(c) PROVE StepInv'
  BY <1>0, <1>14 DEF Refuse, Answer, Leave, NoJob
<1>15. ASSUME NEW c \in Clients, Audit(c) PROVE StepInv'
  BY <1>0, <1>15 DEF Audit, Audited, Answer, Leave, NoJob
<1>16. ASSUME NEW c \in Clients, Aside(c) PROVE StepInv'
  BY <1>0, <1>16 DEF Aside
<1>17. ASSUME NEW c \in Clients, Place(c) PROVE StepInv'
  BY <1>0, <1>17 DEF Place
<1>18. ASSUME NEW c \in Clients, Unmark(c) PROVE StepInv'
  BY <1>0, <1>18 DEF Unmark
<1>19. ASSUME NEW c \in Clients, Record(c) PROVE StepInv'
  BY <1>0, <1>19 DEF Record
<1>20. ASSUME NEW c \in Clients, Delete(c) PROVE StepInv'
  BY <1>0, <1>20 DEF Delete
<1>21. ASSUME NEW c \in Clients, Mark(c) PROVE StepInv'
  BY <1>0, <1>21 DEF Mark
<1>22. ASSUME NEW c \in Clients, Previewed(c) PROVE StepInv'
  BY <1>0, <1>22 DEF Previewed
<1>23. ASSUME NEW c \in Clients, WriteSpec(c) PROVE StepInv'
  BY <1>0, <1>23 DEF WriteSpec
<1>24. ASSUME NEW c \in Clients, WriteEntry(c) PROVE StepInv'
  BY <1>0, <1>24 DEF WriteEntry
<1>25. ASSUME NEW c \in Clients, RemoveSpec(c) PROVE StepInv'
  BY <1>0, <1>25 DEF RemoveSpec
<1>26. ASSUME NEW c \in Clients, RemoveEntry(c) PROVE StepInv'
  BY <1>0, <1>26 DEF RemoveEntry
<1>27. ASSUME NEW c \in Clients, Linted(c) PROVE StepInv'
  BY <1>0, <1>27 DEF Linted, Answer, Leave, NoJob
<1>28. ASSUME NEW c \in Clients, LoadRegistered(c) PROVE StepInv'
  BY <1>0, <1>28 DEF LoadRegistered, Load, Newer, Same, Switched, AsItWas
<1>29. ASSUME NEW c \in Clients, LoadEnabled(c) PROVE StepInv'
  BY <1>0, <1>29 DEF LoadEnabled, Load, Newer, Same, Switched, AsItWas
<1>30. ASSUME NEW c \in Clients, LoadRemoved(c) PROVE StepInv'
  BY <1>0, <1>30 DEF LoadRemoved, Load, Newer, Same, Switched, AsItWas
<1>31. ASSUME NEW c \in Clients, LoadSource(c) PROVE StepInv'
  BY <1>0, <1>31 DEF LoadSource, Load, Newer, Same, Switched, AsItWas
<1>32. ASSUME NEW c \in Clients, StoreRegistered(c) PROVE StepInv'
  BY <1>0, <1>32 DEF StoreRegistered, Store
<1>33. ASSUME NEW c \in Clients, StoreEnabled(c) PROVE StepInv'
  BY <1>0, <1>33 DEF StoreEnabled, Store
<1>34. ASSUME NEW c \in Clients, StoreRemoved(c) PROVE StepInv'
  BY <1>0, <1>34 DEF StoreRemoved, Store
<1>35. ASSUME NEW c \in Clients, StoreSource(c) PROVE StepInv'
  BY <1>0, <1>35 DEF StoreSource, Store
<1>36. ASSUME NEW c \in Clients, Fail(c) PROVE StepInv'
  BY <1>0, <1>36 DEF Fail, Answer, Leave, NoJob
<1>37. ASSUME NEW r \in Readers, List(r) PROVE StepInv'
  BY <1>37 DEF List
<1>38. ASSUME NEW r \in Readers, HashPrompt(r) PROVE StepInv'
  BY <1>38 DEF HashPrompt, HashFile
<1>39. ASSUME NEW r \in Readers, HashMeta(r) PROVE StepInv'
  BY <1>39 DEF HashMeta, HashFile
<1>40. ASSUME NEW r \in Readers, Lookup(r) PROVE StepInv'
  BY <1>40 DEF Lookup, Done
<1>41. ASSUME NEW r \in Readers, ReadMeta(r) PROVE StepInv'
  BY <1>41 DEF ReadMeta
<1>42. ASSUME NEW r \in Readers, ReadMarker(r) PROVE StepInv'
  BY <1>42 DEF ReadMarker
<1>43. ASSUME NEW r \in Readers, ReadPrompt(r) PROVE StepInv'
  BY <1>43 DEF ReadPrompt
<1>44. ASSUME NEW r \in Readers, ReadRevision(r) PROVE StepInv'
  BY <1>44 DEF ReadRevision
<1>45. ASSUME NEW r \in Readers, Keep(r) PROVE StepInv'
  BY <1>45 DEF Keep, Done
<1>46. CASE Crash
  <2>1. PICK dead \in {Threads} \cup {{c} : c \in Cli} :
            /\ pc' = [c \in Clients |-> IF c \in dead THEN "idle" ELSE pc[c]]
            /\ job' = [c \in Clients |-> IF c \in dead THEN NoJob ELSE job[c]]
            /\ seen' = [c \in Clients |-> IF c \in dead THEN Absent ELSE seen[c]]
    BY <1>46 DEF Crash
  <2>2. QED
    BY <1>0, <2>1 DEF NoJob
<1>47. CASE UNCHANGED vars
  BY <1>47 DEF vars
<1> HIDE DEF StepInv, Ops, StepsOf, Clients, SkillOps
<1>48. QED
  BY <1>1, <1>2, <1>3, <1>4, <1>5, <1>6, <1>7, <1>8, <1>9, <1>10, <1>11, <1>12, <1>13, <1>14, <1>15, <1>16, <1>17, <1>18, <1>19, <1>20, <1>21, <1>22, <1>23, <1>24, <1>25, <1>26, <1>27, <1>28, <1>29, <1>30, <1>31, <1>32, <1>33, <1>34, <1>35, <1>36, <1>37, <1>38, <1>39, <1>40, <1>41, <1>42, <1>43, <1>44, <1>45, <1>46, <1>47 DEF Next, Serve, Handle, Resolve

LEMMA LockStep == TypeOK /\ StepInv /\ LockInv /\ [Next]_vars => LockInv'
<1> SUFFICES ASSUME TypeOK, StepInv, LockInv, [Next]_vars PROVE LockInv'
  OBVIOUS
<1> USE SetupsAssumption DEF SetupsAssumption, LockInv, Inside, Steps, Clients
<1>0. pc \in [Clients -> Steps] /\ lock \in Threads \cup {Nobody}
  BY DEF TypeOK
<1>c. \A c \in Cli : pc[c] \notin {"aside", "place", "unmark", "record", "delete", "mark"}
  BY DEF StepInv, StepsOf, SkillOps, Ops
<1>1. ASSUME NEW c \in Clients, Ask(c) PROVE LockInv'
  BY <1>0, <1>c, <1>1 DEF Ask
<1>2. ASSUME NEW c \in Clients, TypeMeta(c) PROVE LockInv'
  BY <1>0, <1>c, <1>2 DEF TypeMeta, Answer, Leave
<1>3. ASSUME NEW c \in Clients, TypePrompt(c) PROVE LockInv'
  BY <1>0, <1>c, <1>3 DEF TypePrompt, Answer, Leave
<1>4. ASSUME NEW c \in Clients, PutItem(c) PROVE LockInv'
  BY <1>0, <1>c, <1>4 DEF PutItem, Enter
<1>5. ASSUME NEW c \in Clients, PutAgentType(c) PROVE LockInv'
  BY <1>0, <1>c, <1>5 DEF PutAgentType, Enter
<1>6. ASSUME NEW c \in Clients, DeleteItem(c) PROVE LockInv'
  BY <1>0, <1>c, <1>6 DEF DeleteItem, Enter
<1>7. ASSUME NEW c \in Clients, PostDisable(c) PROVE LockInv'
  BY <1>0, <1>c, <1>7 DEF PostDisable, Enter
<1>8. ASSUME NEW c \in Clients, PostToolSource(c) PROVE LockInv'
  BY <1>0, <1>c, <1>8 DEF PostToolSource, Enter
<1>9. ASSUME NEW c \in Clients, DeleteToolSource(c) PROVE LockInv'
  BY <1>0, <1>c, <1>9 DEF DeleteToolSource, Enter
<1>10. ASSUME NEW c \in Clients, PostToolSourceEnable(c) PROVE LockInv'
  BY <1>0, <1>c, <1>10 DEF PostToolSourceEnable, Enter
<1>11. ASSUME NEW c \in Clients, PostRegister(c) PROVE LockInv'
  BY <1>0, <1>c, <1>11 DEF PostRegister, Enter
<1>12. ASSUME NEW c \in Clients, PostUnregister(c) PROVE LockInv'
  BY <1>0, <1>c, <1>12 DEF PostUnregister, Enter
<1>13. ASSUME NEW c \in Clients, PostEnable(c) PROVE LockInv'
  BY <1>0, <1>c, <1>13 DEF PostEnable, Enter
<1>14. ASSUME NEW c \in Clients, Refuse(c) PROVE LockInv'
  BY <1>0, <1>c, <1>14 DEF Refuse, Answer, Leave
<1>15. ASSUME NEW c \in Clients, Audit(c) PROVE LockInv'
  BY <1>0, <1>c, <1>15 DEF Audit, Audited, Answer, Leave
<1>16. ASSUME NEW c \in Clients, Aside(c) PROVE LockInv'
  BY <1>0, <1>c, <1>16 DEF Aside
<1>17. ASSUME NEW c \in Clients, Place(c) PROVE LockInv'
  BY <1>0, <1>c, <1>17 DEF Place
<1>18. ASSUME NEW c \in Clients, Unmark(c) PROVE LockInv'
  BY <1>0, <1>c, <1>18 DEF Unmark
<1>19. ASSUME NEW c \in Clients, Record(c) PROVE LockInv'
  BY <1>0, <1>c, <1>19 DEF Record
<1>20. ASSUME NEW c \in Clients, Delete(c) PROVE LockInv'
  BY <1>0, <1>c, <1>20 DEF Delete
<1>21. ASSUME NEW c \in Clients, Mark(c) PROVE LockInv'
  BY <1>0, <1>c, <1>21 DEF Mark
<1>22. ASSUME NEW c \in Clients, Previewed(c) PROVE LockInv'
  BY <1>0, <1>c, <1>22 DEF Previewed
<1>23. ASSUME NEW c \in Clients, WriteSpec(c) PROVE LockInv'
  BY <1>0, <1>c, <1>23 DEF WriteSpec
<1>24. ASSUME NEW c \in Clients, WriteEntry(c) PROVE LockInv'
  BY <1>0, <1>c, <1>24 DEF WriteEntry
<1>25. ASSUME NEW c \in Clients, RemoveSpec(c) PROVE LockInv'
  BY <1>0, <1>c, <1>25 DEF RemoveSpec
<1>26. ASSUME NEW c \in Clients, RemoveEntry(c) PROVE LockInv'
  BY <1>0, <1>c, <1>26 DEF RemoveEntry
<1>27. ASSUME NEW c \in Clients, Linted(c) PROVE LockInv'
  BY <1>0, <1>c, <1>27 DEF Linted, Answer, Leave
<1>28. ASSUME NEW c \in Clients, LoadRegistered(c) PROVE LockInv'
  BY <1>0, <1>c, <1>28 DEF LoadRegistered, Load
<1>29. ASSUME NEW c \in Clients, LoadEnabled(c) PROVE LockInv'
  BY <1>0, <1>c, <1>29 DEF LoadEnabled, Load
<1>30. ASSUME NEW c \in Clients, LoadRemoved(c) PROVE LockInv'
  BY <1>0, <1>c, <1>30 DEF LoadRemoved, Load
<1>31. ASSUME NEW c \in Clients, LoadSource(c) PROVE LockInv'
  BY <1>0, <1>c, <1>31 DEF LoadSource, Load
<1>32. ASSUME NEW c \in Clients, StoreRegistered(c) PROVE LockInv'
  BY <1>0, <1>c, <1>32 DEF StoreRegistered, Store
<1>33. ASSUME NEW c \in Clients, StoreEnabled(c) PROVE LockInv'
  BY <1>0, <1>c, <1>33 DEF StoreEnabled, Store
<1>34. ASSUME NEW c \in Clients, StoreRemoved(c) PROVE LockInv'
  BY <1>0, <1>c, <1>34 DEF StoreRemoved, Store
<1>35. ASSUME NEW c \in Clients, StoreSource(c) PROVE LockInv'
  BY <1>0, <1>c, <1>35 DEF StoreSource, Store
<1>36. ASSUME NEW c \in Clients, Fail(c) PROVE LockInv'
  BY <1>0, <1>c, <1>36 DEF Fail, Answer, Leave
<1>37. ASSUME NEW r \in Readers, List(r) PROVE LockInv'
  BY <1>37 DEF List
<1>38. ASSUME NEW r \in Readers, HashPrompt(r) PROVE LockInv'
  BY <1>38 DEF HashPrompt, HashFile
<1>39. ASSUME NEW r \in Readers, HashMeta(r) PROVE LockInv'
  BY <1>39 DEF HashMeta, HashFile
<1>40. ASSUME NEW r \in Readers, Lookup(r) PROVE LockInv'
  BY <1>40 DEF Lookup, Done
<1>41. ASSUME NEW r \in Readers, ReadMeta(r) PROVE LockInv'
  BY <1>41 DEF ReadMeta
<1>42. ASSUME NEW r \in Readers, ReadMarker(r) PROVE LockInv'
  BY <1>42 DEF ReadMarker
<1>43. ASSUME NEW r \in Readers, ReadPrompt(r) PROVE LockInv'
  BY <1>43 DEF ReadPrompt
<1>44. ASSUME NEW r \in Readers, ReadRevision(r) PROVE LockInv'
  BY <1>44 DEF ReadRevision
<1>45. ASSUME NEW r \in Readers, Keep(r) PROVE LockInv'
  BY <1>45 DEF Keep, Done
<1>46. CASE Crash
  <2>1. PICK dead \in {Threads} \cup {{c} : c \in Cli} :
            /\ pc' = [c \in Clients |-> IF c \in dead THEN "idle" ELSE pc[c]]
            /\ lock' = IF lock \in dead THEN Nobody ELSE lock
    BY <1>46 DEF Crash
  <2>2. QED
    BY <1>0, <2>1
<1>47. CASE UNCHANGED vars
  BY <1>47 DEF vars
<1> HIDE DEF SetupsAssumption, LockInv, Inside, Steps, Clients
<1>48. QED
  BY <1>1, <1>2, <1>3, <1>4, <1>5, <1>6, <1>7, <1>8, <1>9, <1>10, <1>11, <1>12, <1>13, <1>14, <1>15, <1>16, <1>17, <1>18, <1>19, <1>20, <1>21, <1>22, <1>23, <1>24, <1>25, <1>26, <1>27, <1>28, <1>29, <1>30, <1>31, <1>32, <1>33, <1>34, <1>35, <1>36, <1>37, <1>38, <1>39, <1>40, <1>41, <1>42, <1>43, <1>44, <1>45, <1>46, <1>47 DEF Next, Serve, Handle, Resolve

(***************************************************************************)
(* Types.                                                                  *)
(***************************************************************************)

(* The files; the clients; the readers.                                     *)
FilesOK ==
    /\ skill \in Skills \cup {Absent} /\ marker \in BOOLEAN /\ history \in Histories
    /\ spec \in Texts \cup {Absent} /\ entry \in Entries \cup {Absent} /\ tool \in Tools \cup {Absent}
ClientsOK ==
    /\ lock \in Threads \cup {Nobody}
    /\ pc \in [Clients -> Steps] /\ job \in [Clients -> Jobs]
    /\ seen \in [Clients -> Texts \cup Entries \cup Tools \cup {Absent}]
    /\ asked \in 0 .. MaxRequests /\ behind \subseteq {"skill", "source"}
ReadersOK ==
    /\ rpc \in [Readers -> ReaderSteps] /\ digest \in [Readers -> Digests] /\ value \in [Readers -> Views]
    /\ clean \in [Readers -> BOOLEAN]
    /\ cache \in [digest : Digests, value : Views, clean : BOOLEAN] \cup {Absent}
    /\ resolves \in 0 .. MaxResolves

LEMMA Parts == TypeOK <=> FilesOK /\ ClientsOK /\ ReadersOK
  BY DEF TypeOK, FilesOK, ClientsOK, ReadersOK, Jobs

LEMMA FilesStep == TypeOK /\ StepInv /\ [Next]_vars => FilesOK'
<1> SUFFICES ASSUME TypeOK, StepInv, [Next]_vars PROVE FilesOK'
  OBVIOUS
<1> USE DEF FilesOK
<1>0. FilesOK /\ job \in [Clients -> Jobs]
  BY Parts DEF ClientsOK
<1>1. ASSUME NEW c \in Clients, Ask(c) PROVE FilesOK'
  BY <1>0, <1>1 DEF Ask
<1>2. ASSUME NEW c \in Clients, TypeMeta(c) PROVE FilesOK'
  BY <1>0, <1>2 DEF TypeMeta, Answer, Leave
<1>3. ASSUME NEW c \in Clients, TypePrompt(c) PROVE FilesOK'
  BY <1>0, <1>3 DEF TypePrompt, Answer, Leave
<1>4. ASSUME NEW c \in Clients, PutItem(c) PROVE FilesOK'
  BY <1>0, <1>4 DEF PutItem, Enter
<1>5. ASSUME NEW c \in Clients, PutAgentType(c) PROVE FilesOK'
  BY <1>0, <1>5 DEF PutAgentType, Enter
<1>6. ASSUME NEW c \in Clients, DeleteItem(c) PROVE FilesOK'
  BY <1>0, <1>6 DEF DeleteItem, Enter
<1>7. ASSUME NEW c \in Clients, PostDisable(c) PROVE FilesOK'
  BY <1>0, <1>7 DEF PostDisable, Enter
<1>8. ASSUME NEW c \in Clients, PostToolSource(c) PROVE FilesOK'
  BY <1>0, <1>8 DEF PostToolSource, Enter
<1>9. ASSUME NEW c \in Clients, DeleteToolSource(c) PROVE FilesOK'
  BY <1>0, <1>9 DEF DeleteToolSource, Enter
<1>10. ASSUME NEW c \in Clients, PostToolSourceEnable(c) PROVE FilesOK'
  BY <1>0, <1>10 DEF PostToolSourceEnable, Enter
<1>11. ASSUME NEW c \in Clients, PostRegister(c) PROVE FilesOK'
  BY <1>0, <1>11 DEF PostRegister, Enter
<1>12. ASSUME NEW c \in Clients, PostUnregister(c) PROVE FilesOK'
  BY <1>0, <1>12 DEF PostUnregister, Enter
<1>13. ASSUME NEW c \in Clients, PostEnable(c) PROVE FilesOK'
  BY <1>0, <1>13 DEF PostEnable, Enter
<1>14. ASSUME NEW c \in Clients, Refuse(c) PROVE FilesOK'
  BY <1>0, <1>14 DEF Refuse, Answer, Leave
<1>15. ASSUME NEW c \in Clients, Audit(c) PROVE FilesOK'
  BY <1>0, <1>15 DEF Audit, Audited, Answer, Leave
<1>16. ASSUME NEW c \in Clients, Aside(c) PROVE FilesOK'
  BY <1>0, <1>16 DEF Aside
<1>17. ASSUME NEW c \in Clients, Place(c) PROVE FilesOK'
  <2>1. job[c].arg \in Skills
    BY <1>0, <1>17, JobTypes DEF Place, StepInv, StepsOf, Ops
  <2>2. QED
    BY <1>0, <1>17, <2>1 DEF Place, Entries
<1>18. ASSUME NEW c \in Clients, Unmark(c) PROVE FilesOK'
  BY <1>0, <1>18 DEF Unmark
<1>19. ASSUME NEW c \in Clients, Record(c) PROVE FilesOK'
  <2>1. history' \in Histories
    BY <1>0, <1>19 DEF Record, Histories
  <2>2. QED
    BY <1>0, <1>19, <2>1 DEF Record
<1>20. ASSUME NEW c \in Clients, Delete(c) PROVE FilesOK'
  BY <1>0, <1>20 DEF Delete
<1>21. ASSUME NEW c \in Clients, Mark(c) PROVE FilesOK'
  <2>1. job[c].arg \in BOOLEAN
    BY <1>0, <1>21, JobTypes DEF Mark, StepInv, StepsOf, Ops
  <2>2. QED
    BY <1>0, <1>21, <2>1 DEF Mark, Entries
<1>22. ASSUME NEW c \in Clients, Previewed(c) PROVE FilesOK'
  BY <1>0, <1>22 DEF Previewed
<1>23. ASSUME NEW c \in Clients, WriteSpec(c) PROVE FilesOK'
  <2>1. job[c].arg.from \in Texts
    BY <1>0, <1>23, JobTypes DEF WriteSpec, StepInv, StepsOf, Ops
  <2>2. QED
    BY <1>0, <1>23, <2>1 DEF WriteSpec, Entries
<1>24. ASSUME NEW c \in Clients, WriteEntry(c) PROVE FilesOK'
  <2>1. job[c].arg.from \in Texts
    BY <1>0, <1>24, JobTypes DEF WriteEntry, StepInv, StepsOf, Ops
  <2>2. QED
    BY <1>0, <1>24, <2>1 DEF WriteEntry, Entries
<1>25. ASSUME NEW c \in Clients, RemoveSpec(c) PROVE FilesOK'
  BY <1>0, <1>25 DEF RemoveSpec
<1>26. ASSUME NEW c \in Clients, RemoveEntry(c) PROVE FilesOK'
  BY <1>0, <1>26 DEF RemoveEntry
<1>27. ASSUME NEW c \in Clients, Linted(c) PROVE FilesOK'
  BY <1>0, <1>27 DEF Linted, Answer, Leave
<1>28. ASSUME NEW c \in Clients, LoadRegistered(c) PROVE FilesOK'
  BY <1>0, <1>28 DEF LoadRegistered, Load
<1>29. ASSUME NEW c \in Clients, LoadEnabled(c) PROVE FilesOK'
  BY <1>0, <1>29 DEF LoadEnabled, Load
<1>30. ASSUME NEW c \in Clients, LoadRemoved(c) PROVE FilesOK'
  BY <1>0, <1>30 DEF LoadRemoved, Load
<1>31. ASSUME NEW c \in Clients, LoadSource(c) PROVE FilesOK'
  BY <1>0, <1>31 DEF LoadSource, Load
<1>32. ASSUME NEW c \in Clients, StoreRegistered(c) PROVE FilesOK'
  <2>1. /\ job[c].arg.version \in Versions /\ job[c].arg.decl \in Texts /\ job[c].arg.on \in BOOLEAN
    BY <1>0, <1>32, JobTypes DEF StoreRegistered, Store
  <2>2. QED
    BY <1>0, <1>32, <2>1 DEF StoreRegistered, Store, Tools
<1>33. ASSUME NEW c \in Clients, StoreEnabled(c) PROVE FilesOK'
  <2>1. seen[c] \in Tools /\ job[c].arg \in BOOLEAN
    BY <1>0, <1>33, JobTypes DEF StoreEnabled, Store, StepInv
  <2>2. [seen[c] EXCEPT !.on = job[c].arg] \in Tools
    BY <2>1 DEF Tools
  <2>3. QED
    BY <1>0, <1>33, <2>2 DEF StoreEnabled, Store
<1>34. ASSUME NEW c \in Clients, StoreRemoved(c) PROVE FilesOK'
  BY <1>0, <1>34 DEF StoreRemoved, Store
<1>35. ASSUME NEW c \in Clients, StoreSource(c) PROVE FilesOK'
  <2>1. seen[c] \in Entries /\ job[c].arg \in BOOLEAN
    BY <1>0, <1>35, JobTypes DEF StoreSource, Store, StepInv
  <2>2. [seen[c] EXCEPT !.on = job[c].arg] \in Entries
    BY <2>1 DEF Entries
  <2>3. QED
    BY <1>0, <1>35, <2>2 DEF StoreSource, Store
<1>36. ASSUME NEW c \in Clients, Fail(c) PROVE FilesOK'
  BY <1>0, <1>36 DEF Fail, Answer, Leave
<1>37. ASSUME NEW r \in Readers, List(r) PROVE FilesOK'
  BY <1>0, <1>37 DEF List
<1>38. ASSUME NEW r \in Readers, HashPrompt(r) PROVE FilesOK'
  BY <1>0, <1>38 DEF HashPrompt, HashFile
<1>39. ASSUME NEW r \in Readers, HashMeta(r) PROVE FilesOK'
  BY <1>0, <1>39 DEF HashMeta, HashFile
<1>40. ASSUME NEW r \in Readers, Lookup(r) PROVE FilesOK'
  BY <1>0, <1>40 DEF Lookup, Done
<1>41. ASSUME NEW r \in Readers, ReadMeta(r) PROVE FilesOK'
  BY <1>0, <1>41 DEF ReadMeta
<1>42. ASSUME NEW r \in Readers, ReadMarker(r) PROVE FilesOK'
  BY <1>0, <1>42 DEF ReadMarker
<1>43. ASSUME NEW r \in Readers, ReadPrompt(r) PROVE FilesOK'
  BY <1>0, <1>43 DEF ReadPrompt
<1>44. ASSUME NEW r \in Readers, ReadRevision(r) PROVE FilesOK'
  BY <1>0, <1>44 DEF ReadRevision
<1>45. ASSUME NEW r \in Readers, Keep(r) PROVE FilesOK'
  BY <1>0, <1>45 DEF Keep, Done
<1>46. CASE Crash
  BY <1>0, <1>46 DEF Crash
<1>47. CASE UNCHANGED vars
  BY <1>0, <1>47 DEF vars
<1> HIDE DEF FilesOK
<1>48. QED
  BY <1>1, <1>2, <1>3, <1>4, <1>5, <1>6, <1>7, <1>8, <1>9, <1>10, <1>11, <1>12, <1>13, <1>14, <1>15, <1>16, <1>17, <1>18, <1>19, <1>20, <1>21, <1>22, <1>23, <1>24, <1>25, <1>26, <1>27, <1>28, <1>29, <1>30, <1>31, <1>32, <1>33, <1>34, <1>35, <1>36, <1>37, <1>38, <1>39, <1>40, <1>41, <1>42, <1>43, <1>44, <1>45, <1>46, <1>47 DEF Next, Serve, Handle, Resolve

LEMMA ClientsStep == TypeOK /\ StepInv /\ [Next]_vars => ClientsOK'
<1> SUFFICES ASSUME TypeOK, StepInv, [Next]_vars PROVE ClientsOK'
  OBVIOUS
<1> USE SetupsAssumption DEF SetupsAssumption, ClientsOK, Steps
<1>0. ClientsOK /\ skill \in Skills \cup {Absent} /\ entry \in Entries \cup {Absent} /\ tool \in Tools \cup {Absent}
  BY Parts DEF FilesOK
<1>1. ASSUME NEW c \in Clients, Ask(c) PROVE ClientsOK'
  <2>1. job' \in [Clients -> Jobs]
    BY <1>0, <1>1 DEF Ask, Jobs
  <2>2. QED
    BY <1>0, <1>1, <2>1 DEF Ask
<1>2. ASSUME NEW c \in Clients, TypeMeta(c) PROVE ClientsOK'
  <2>1. NoJob \in Jobs
    BY DEF Jobs
  <2>2. QED
    BY <1>0, <1>2, <2>1 DEF TypeMeta, Answer, Leave
<1>3. ASSUME NEW c \in Clients, TypePrompt(c) PROVE ClientsOK'
  <2>1. job' \in [Clients -> Jobs]
    <3>1. NoJob \in Jobs
      BY DEF Jobs
    <3>2. pc[c] = "type_prompt" /\ skill # Absent => [op |-> "type", arg |-> [meta |-> seen[c], prompt |-> skill.prompt]] \in Jobs
      BY <1>0 DEF StepInv, Jobs, TypeWrites, Request, Skills
    <3>3. QED
      BY <1>0, <1>3, <3>1, <3>2 DEF TypePrompt, Answer, Leave
  <2>2. QED
    BY <1>0, <1>3, <2>1 DEF TypePrompt, Answer, Leave
<1>4. ASSUME NEW c \in Clients, PutItem(c) PROVE ClientsOK'
  BY <1>0, <1>4 DEF PutItem, Enter, Clients
<1>5. ASSUME NEW c \in Clients, PutAgentType(c) PROVE ClientsOK'
  BY <1>0, <1>5 DEF PutAgentType, Enter, Clients
<1>6. ASSUME NEW c \in Clients, DeleteItem(c) PROVE ClientsOK'
  BY <1>0, <1>6 DEF DeleteItem, Enter, Clients
<1>7. ASSUME NEW c \in Clients, PostDisable(c) PROVE ClientsOK'
  BY <1>0, <1>7 DEF PostDisable, Enter, Clients
<1>8. ASSUME NEW c \in Clients, PostToolSource(c) PROVE ClientsOK'
  BY <1>0, <1>8 DEF PostToolSource, Enter, Clients
<1>9. ASSUME NEW c \in Clients, DeleteToolSource(c) PROVE ClientsOK'
  BY <1>0, <1>9 DEF DeleteToolSource, Enter, Clients
<1>10. ASSUME NEW c \in Clients, PostToolSourceEnable(c) PROVE ClientsOK'
  BY <1>0, <1>10 DEF PostToolSourceEnable, Enter, Clients
<1>11. ASSUME NEW c \in Clients, PostRegister(c) PROVE ClientsOK'
  BY <1>0, <1>11 DEF PostRegister, Enter, Clients
<1>12. ASSUME NEW c \in Clients, PostUnregister(c) PROVE ClientsOK'
  BY <1>0, <1>12 DEF PostUnregister, Enter, Clients
<1>13. ASSUME NEW c \in Clients, PostEnable(c) PROVE ClientsOK'
  BY <1>0, <1>13 DEF PostEnable, Enter, Clients
<1>14. ASSUME NEW c \in Clients, Refuse(c) PROVE ClientsOK'
  <2>1. NoJob \in Jobs
    BY DEF Jobs
  <2>2. QED
    BY <1>0, <1>14, <2>1 DEF Refuse, Answer, Leave
<1>15. ASSUME NEW c \in Clients, Audit(c) PROVE ClientsOK'
  <2>1. NoJob \in Jobs
    BY DEF Jobs
  <2>2. QED
    BY <1>0, <1>15, <2>1 DEF Audit, Audited, Answer, Leave
<1>16. ASSUME NEW c \in Clients, Aside(c) PROVE ClientsOK'
  BY <1>0, <1>16 DEF Aside
<1>17. ASSUME NEW c \in Clients, Place(c) PROVE ClientsOK'
  BY <1>0, <1>17 DEF Place
<1>18. ASSUME NEW c \in Clients, Unmark(c) PROVE ClientsOK'
  BY <1>0, <1>18 DEF Unmark
<1>19. ASSUME NEW c \in Clients, Record(c) PROVE ClientsOK'
  BY <1>0, <1>19 DEF Record
<1>20. ASSUME NEW c \in Clients, Delete(c) PROVE ClientsOK'
  BY <1>0, <1>20 DEF Delete
<1>21. ASSUME NEW c \in Clients, Mark(c) PROVE ClientsOK'
  BY <1>0, <1>21 DEF Mark
<1>22. ASSUME NEW c \in Clients, Previewed(c) PROVE ClientsOK'
  BY <1>0, <1>22 DEF Previewed
<1>23. ASSUME NEW c \in Clients, WriteSpec(c) PROVE ClientsOK'
  BY <1>0, <1>23 DEF WriteSpec
<1>24. ASSUME NEW c \in Clients, WriteEntry(c) PROVE ClientsOK'
  BY <1>0, <1>24 DEF WriteEntry
<1>25. ASSUME NEW c \in Clients, RemoveSpec(c) PROVE ClientsOK'
  BY <1>0, <1>25 DEF RemoveSpec
<1>26. ASSUME NEW c \in Clients, RemoveEntry(c) PROVE ClientsOK'
  BY <1>0, <1>26 DEF RemoveEntry
<1>27. ASSUME NEW c \in Clients, Linted(c) PROVE ClientsOK'
  <2>1. NoJob \in Jobs
    BY DEF Jobs
  <2>2. QED
    BY <1>0, <1>27, <2>1 DEF Linted, Answer, Leave
<1>28. ASSUME NEW c \in Clients, LoadRegistered(c) PROVE ClientsOK'
  BY <1>0, <1>28 DEF LoadRegistered, Load
<1>29. ASSUME NEW c \in Clients, LoadEnabled(c) PROVE ClientsOK'
  BY <1>0, <1>29 DEF LoadEnabled, Load
<1>30. ASSUME NEW c \in Clients, LoadRemoved(c) PROVE ClientsOK'
  BY <1>0, <1>30 DEF LoadRemoved, Load
<1>31. ASSUME NEW c \in Clients, LoadSource(c) PROVE ClientsOK'
  BY <1>0, <1>31 DEF LoadSource, Load
<1>32. ASSUME NEW c \in Clients, StoreRegistered(c) PROVE ClientsOK'
  BY <1>0, <1>32 DEF StoreRegistered, Store
<1>33. ASSUME NEW c \in Clients, StoreEnabled(c) PROVE ClientsOK'
  BY <1>0, <1>33 DEF StoreEnabled, Store
<1>34. ASSUME NEW c \in Clients, StoreRemoved(c) PROVE ClientsOK'
  BY <1>0, <1>34 DEF StoreRemoved, Store
<1>35. ASSUME NEW c \in Clients, StoreSource(c) PROVE ClientsOK'
  BY <1>0, <1>35 DEF StoreSource, Store
<1>36. ASSUME NEW c \in Clients, Fail(c) PROVE ClientsOK'
  <2>1. NoJob \in Jobs
    BY DEF Jobs
  <2>2. behind' \subseteq {"skill", "source"}
    BY <1>0, <1>36 DEF Fail, LeftBehind
  <2>3. QED
    BY <1>0, <1>36, <2>1, <2>2 DEF Fail, Answer, Leave
<1>37. ASSUME NEW r \in Readers, List(r) PROVE ClientsOK'
  BY <1>0, <1>37 DEF List
<1>38. ASSUME NEW r \in Readers, HashPrompt(r) PROVE ClientsOK'
  BY <1>0, <1>38 DEF HashPrompt, HashFile
<1>39. ASSUME NEW r \in Readers, HashMeta(r) PROVE ClientsOK'
  BY <1>0, <1>39 DEF HashMeta, HashFile
<1>40. ASSUME NEW r \in Readers, Lookup(r) PROVE ClientsOK'
  BY <1>0, <1>40 DEF Lookup, Done
<1>41. ASSUME NEW r \in Readers, ReadMeta(r) PROVE ClientsOK'
  BY <1>0, <1>41 DEF ReadMeta
<1>42. ASSUME NEW r \in Readers, ReadMarker(r) PROVE ClientsOK'
  BY <1>0, <1>42 DEF ReadMarker
<1>43. ASSUME NEW r \in Readers, ReadPrompt(r) PROVE ClientsOK'
  BY <1>0, <1>43 DEF ReadPrompt
<1>44. ASSUME NEW r \in Readers, ReadRevision(r) PROVE ClientsOK'
  BY <1>0, <1>44 DEF ReadRevision
<1>45. ASSUME NEW r \in Readers, Keep(r) PROVE ClientsOK'
  BY <1>0, <1>45 DEF Keep, Done
<1>46. CASE Crash
  <2>1. NoJob \in Jobs
    BY DEF Jobs
  <2>2. PICK dead \in {Threads} \cup {{c} : c \in Cli} :
            /\ pc' = [c \in Clients |-> IF c \in dead THEN "idle" ELSE pc[c]]
            /\ job' = [c \in Clients |-> IF c \in dead THEN NoJob ELSE job[c]]
            /\ seen' = [c \in Clients |-> IF c \in dead THEN Absent ELSE seen[c]]
            /\ lock' = IF lock \in dead THEN Nobody ELSE lock
    BY <1>46 DEF Crash
  <2>3. behind' \subseteq {"skill", "source"} /\ asked' = asked
    <3>1. \A c : LeftBehind(c) \subseteq {"skill", "source"}
      BY DEF LeftBehind
    <3>2. PICK gone : behind' = behind \cup UNION {LeftBehind(c) : c \in gone}
      BY <1>46 DEF Crash
    <3>3. UNION {LeftBehind(c) : c \in gone} \subseteq {"skill", "source"}
      BY <3>1
    <3>4. behind \subseteq {"skill", "source"} /\ asked' = asked
      BY <1>0, <1>46 DEF Crash
    <3>5. QED
      BY <3>2, <3>3, <3>4
  <2>4. QED
    BY <1>0, <2>1, <2>2, <2>3
<1>47. CASE UNCHANGED vars
  BY <1>0, <1>47 DEF vars
<1> HIDE DEF SetupsAssumption, ClientsOK, Steps
<1>48. QED
  BY <1>1, <1>2, <1>3, <1>4, <1>5, <1>6, <1>7, <1>8, <1>9, <1>10, <1>11, <1>12, <1>13, <1>14, <1>15, <1>16, <1>17, <1>18, <1>19, <1>20, <1>21, <1>22, <1>23, <1>24, <1>25, <1>26, <1>27, <1>28, <1>29, <1>30, <1>31, <1>32, <1>33, <1>34, <1>35, <1>36, <1>37, <1>38, <1>39, <1>40, <1>41, <1>42, <1>43, <1>44, <1>45, <1>46, <1>47 DEF Next, Serve, Handle, Resolve

(* What a reader has read so far, when it is not through.                   *)
ViewInv == \A r \in Readers : rpc[r] \in {"read_marker", "read_prompt", "read_revision"} => value[r] \in Resolved

LEMMA ReadersStep == TypeOK /\ ViewInv /\ [Next]_vars => ReadersOK' /\ ViewInv'
<1> SUFFICES ASSUME TypeOK, ViewInv, [Next]_vars PROVE ReadersOK' /\ ViewInv'
  OBVIOUS
<1> USE SetupsAssumption DEF SetupsAssumption, ReadersOK, ViewInv, ReaderSteps
<1>0. ReadersOK /\ skill \in Skills \cup {Absent} /\ marker \in BOOLEAN /\ history.revision \in Nat
  BY Parts DEF FilesOK, Histories
<1>1a. /\ NoDigest \in Digests /\ Absent \in Views
       /\ \A x \in Digests, t \in Texts : [x EXCEPT !["prompt"] = t] \in Digests /\ [x EXCEPT !["meta"] = t] \in Digests
  BY DEF NoDigest, Digests, Listed, Views
<1>2a. /\ Resolved \subseteq Views
       /\ \A x \in Resolved, t \in Texts : [x EXCEPT !.prompt = t] \in Resolved
       /\ \A x \in Resolved, n \in Nat : [x EXCEPT !.revision = n] \in Resolved
       /\ skill # Absent =>
            [meta |-> skill.meta, prompt |-> Absent, revision |-> 0] \in Resolved /\ skill.prompt \in Texts
  BY <1>0 DEF Resolved, Views, Skills
<1>1. ASSUME NEW c \in Clients, Ask(c) PROVE ReadersOK' /\ ViewInv'
  BY <1>0, <1>1 DEF Ask
<1>2. ASSUME NEW c \in Clients, TypeMeta(c) PROVE ReadersOK' /\ ViewInv'
  BY <1>0, <1>2 DEF TypeMeta, Answer, Leave
<1>3. ASSUME NEW c \in Clients, TypePrompt(c) PROVE ReadersOK' /\ ViewInv'
  BY <1>0, <1>3 DEF TypePrompt, Answer, Leave
<1>4. ASSUME NEW c \in Clients, PutItem(c) PROVE ReadersOK' /\ ViewInv'
  BY <1>0, <1>4 DEF PutItem, Enter
<1>5. ASSUME NEW c \in Clients, PutAgentType(c) PROVE ReadersOK' /\ ViewInv'
  BY <1>0, <1>5 DEF PutAgentType, Enter
<1>6. ASSUME NEW c \in Clients, DeleteItem(c) PROVE ReadersOK' /\ ViewInv'
  BY <1>0, <1>6 DEF DeleteItem, Enter
<1>7. ASSUME NEW c \in Clients, PostDisable(c) PROVE ReadersOK' /\ ViewInv'
  BY <1>0, <1>7 DEF PostDisable, Enter
<1>8. ASSUME NEW c \in Clients, PostToolSource(c) PROVE ReadersOK' /\ ViewInv'
  BY <1>0, <1>8 DEF PostToolSource, Enter
<1>9. ASSUME NEW c \in Clients, DeleteToolSource(c) PROVE ReadersOK' /\ ViewInv'
  BY <1>0, <1>9 DEF DeleteToolSource, Enter
<1>10. ASSUME NEW c \in Clients, PostToolSourceEnable(c) PROVE ReadersOK' /\ ViewInv'
  BY <1>0, <1>10 DEF PostToolSourceEnable, Enter
<1>11. ASSUME NEW c \in Clients, PostRegister(c) PROVE ReadersOK' /\ ViewInv'
  BY <1>0, <1>11 DEF PostRegister, Enter
<1>12. ASSUME NEW c \in Clients, PostUnregister(c) PROVE ReadersOK' /\ ViewInv'
  BY <1>0, <1>12 DEF PostUnregister, Enter
<1>13. ASSUME NEW c \in Clients, PostEnable(c) PROVE ReadersOK' /\ ViewInv'
  BY <1>0, <1>13 DEF PostEnable, Enter
<1>14. ASSUME NEW c \in Clients, Refuse(c) PROVE ReadersOK' /\ ViewInv'
  BY <1>0, <1>14 DEF Refuse, Answer, Leave
<1>15. ASSUME NEW c \in Clients, Audit(c) PROVE ReadersOK' /\ ViewInv'
  BY <1>0, <1>15 DEF Audit, Audited, Answer, Leave
<1>16. ASSUME NEW c \in Clients, Aside(c) PROVE ReadersOK' /\ ViewInv'
  BY <1>0, <1>16 DEF Aside
<1>17. ASSUME NEW c \in Clients, Place(c) PROVE ReadersOK' /\ ViewInv'
  BY <1>0, <1>17 DEF Place
<1>18. ASSUME NEW c \in Clients, Unmark(c) PROVE ReadersOK' /\ ViewInv'
  BY <1>0, <1>18 DEF Unmark
<1>19. ASSUME NEW c \in Clients, Record(c) PROVE ReadersOK' /\ ViewInv'
  BY <1>0, <1>19 DEF Record
<1>20. ASSUME NEW c \in Clients, Delete(c) PROVE ReadersOK' /\ ViewInv'
  BY <1>0, <1>20 DEF Delete
<1>21. ASSUME NEW c \in Clients, Mark(c) PROVE ReadersOK' /\ ViewInv'
  BY <1>0, <1>21 DEF Mark
<1>22. ASSUME NEW c \in Clients, Previewed(c) PROVE ReadersOK' /\ ViewInv'
  BY <1>0, <1>22 DEF Previewed
<1>23. ASSUME NEW c \in Clients, WriteSpec(c) PROVE ReadersOK' /\ ViewInv'
  BY <1>0, <1>23 DEF WriteSpec
<1>24. ASSUME NEW c \in Clients, WriteEntry(c) PROVE ReadersOK' /\ ViewInv'
  BY <1>0, <1>24 DEF WriteEntry
<1>25. ASSUME NEW c \in Clients, RemoveSpec(c) PROVE ReadersOK' /\ ViewInv'
  BY <1>0, <1>25 DEF RemoveSpec
<1>26. ASSUME NEW c \in Clients, RemoveEntry(c) PROVE ReadersOK' /\ ViewInv'
  BY <1>0, <1>26 DEF RemoveEntry
<1>27. ASSUME NEW c \in Clients, Linted(c) PROVE ReadersOK' /\ ViewInv'
  BY <1>0, <1>27 DEF Linted, Answer, Leave
<1>28. ASSUME NEW c \in Clients, LoadRegistered(c) PROVE ReadersOK' /\ ViewInv'
  BY <1>0, <1>28 DEF LoadRegistered, Load
<1>29. ASSUME NEW c \in Clients, LoadEnabled(c) PROVE ReadersOK' /\ ViewInv'
  BY <1>0, <1>29 DEF LoadEnabled, Load
<1>30. ASSUME NEW c \in Clients, LoadRemoved(c) PROVE ReadersOK' /\ ViewInv'
  BY <1>0, <1>30 DEF LoadRemoved, Load
<1>31. ASSUME NEW c \in Clients, LoadSource(c) PROVE ReadersOK' /\ ViewInv'
  BY <1>0, <1>31 DEF LoadSource, Load
<1>32. ASSUME NEW c \in Clients, StoreRegistered(c) PROVE ReadersOK' /\ ViewInv'
  BY <1>0, <1>32 DEF StoreRegistered, Store
<1>33. ASSUME NEW c \in Clients, StoreEnabled(c) PROVE ReadersOK' /\ ViewInv'
  BY <1>0, <1>33 DEF StoreEnabled, Store
<1>34. ASSUME NEW c \in Clients, StoreRemoved(c) PROVE ReadersOK' /\ ViewInv'
  BY <1>0, <1>34 DEF StoreRemoved, Store
<1>35. ASSUME NEW c \in Clients, StoreSource(c) PROVE ReadersOK' /\ ViewInv'
  BY <1>0, <1>35 DEF StoreSource, Store
<1>36. ASSUME NEW c \in Clients, Fail(c) PROVE ReadersOK' /\ ViewInv'
  BY <1>0, <1>36 DEF Fail, Answer, Leave
<1>37. ASSUME NEW r \in Readers, List(r) PROVE ReadersOK' /\ ViewInv'
  <2>1. [prompt |-> IF skill = Absent THEN Absent ELSE Gone,
         meta   |-> IF skill = Absent THEN Absent ELSE Gone, marker |-> marker] \in Digests
    BY <1>0 DEF Digests, Listed
  <2>2. QED
    BY <1>0, <1>37, <2>1 DEF List
<1>38. ASSUME NEW r \in Readers, HashPrompt(r) PROVE ReadersOK' /\ ViewInv'
  <2>1. skill # Absent => skill.prompt \in Texts /\ skill.meta \in Texts
    BY <1>0 DEF Skills
  <2>2. digest' \in [Readers -> Digests]
    BY <1>0, <1>1a, <1>38, <2>1 DEF HashPrompt, HashFile
  <2>3. QED
    BY <1>0, <1>38, <2>2 DEF HashPrompt, HashFile
<1>39. ASSUME NEW r \in Readers, HashMeta(r) PROVE ReadersOK' /\ ViewInv'
  <2>1. skill # Absent => skill.prompt \in Texts /\ skill.meta \in Texts
    BY <1>0 DEF Skills
  <2>2. digest' \in [Readers -> Digests]
    BY <1>0, <1>1a, <1>39, <2>1 DEF HashMeta, HashFile
  <2>3. QED
    BY <1>0, <1>39, <2>2 DEF HashMeta, HashFile
<1>40. ASSUME NEW r \in Readers, Lookup(r) PROVE ReadersOK' /\ ViewInv'
  BY <1>0, <1>1a, <1>40 DEF Lookup, Done
<1>41. ASSUME NEW r \in Readers, ReadMeta(r) PROVE ReadersOK' /\ ViewInv'
  BY <1>0, <1>1a, <1>2a, <1>41 DEF ReadMeta
<1>42. ASSUME NEW r \in Readers, ReadMarker(r) PROVE ReadersOK' /\ ViewInv'
  BY <1>0, <1>1a, <1>42 DEF ReadMarker
<1>43. ASSUME NEW r \in Readers, ReadPrompt(r) PROVE ReadersOK' /\ ViewInv'
  <2>1. value' = IF skill = Absent THEN value
                  ELSE [value EXCEPT ![r] = [value[r] EXCEPT !.prompt = skill.prompt]]
    BY <1>0, <1>43 DEF ReadPrompt
  <2>2. skill = Absent \/ (value[r] \in Resolved /\ [value[r] EXCEPT !.prompt = skill.prompt] \in Resolved)
    BY <1>0, <1>2a, <1>43 DEF ReadPrompt
  <2>3. QED
    BY <1>0, <1>2a, <1>43, <2>1, <2>2 DEF ReadPrompt
<1>44. ASSUME NEW r \in Readers, ReadRevision(r) PROVE ReadersOK' /\ ViewInv'
  <2>1. value' = [value EXCEPT ![r] = [value[r] EXCEPT !.revision = history.revision]]
    BY <1>0, <1>44 DEF ReadRevision
  <2>2. value[r] \in Resolved /\ [value[r] EXCEPT !.revision = history.revision] \in Resolved
    BY <1>0, <1>2a, <1>44 DEF ReadRevision
  <2>3. QED
    BY <1>0, <1>2a, <1>44, <2>1, <2>2 DEF ReadRevision
<1>45. ASSUME NEW r \in Readers, Keep(r) PROVE ReadersOK' /\ ViewInv'
  BY <1>0, <1>1a, <1>45 DEF Keep, Done
<1>46. CASE Crash
  <2>1. /\ \/ rpc' = [r \in Readers |-> "idle"] /\ value' = [r \in Readers |-> Absent]
           \/ UNCHANGED <<rpc, value>>
        /\ digest' = [r \in Readers |-> NoDigest] \/ UNCHANGED digest
        /\ clean' = [r \in Readers |-> TRUE] \/ UNCHANGED clean
        /\ cache' = Absent \/ UNCHANGED cache
        /\ UNCHANGED resolves
    BY <1>46 DEF Crash
  <2>2. QED
    BY <1>0, <1>1a, <2>1
<1>47. CASE UNCHANGED vars
  BY <1>0, <1>47 DEF vars
<1> HIDE DEF SetupsAssumption, ReadersOK, ViewInv, ReaderSteps
<1>48. QED
  BY <1>1, <1>2, <1>3, <1>4, <1>5, <1>6, <1>7, <1>8, <1>9, <1>10, <1>11, <1>12, <1>13, <1>14, <1>15, <1>16, <1>17, <1>18, <1>19, <1>20, <1>21, <1>22, <1>23, <1>24, <1>25, <1>26, <1>27, <1>28, <1>29, <1>30, <1>31, <1>32, <1>33, <1>34, <1>35, <1>36, <1>37, <1>38, <1>39, <1>40, <1>41, <1>42, <1>43, <1>44, <1>45, <1>46, <1>47 DEF Next, Serve, Handle, Resolve

LEMMA InitInv == Init => TypeOK /\ ViewInv /\ StepInv /\ LockInv
<1> SUFFICES ASSUME Init PROVE TypeOK /\ ViewInv /\ StepInv /\ LockInv
  OBVIOUS
<1> USE SetupsAssumption DEF SetupsAssumption, Init
<1>1. FilesOK
  BY DEF FilesOK, Histories
<1>2. ClientsOK
  BY DEF ClientsOK, Steps, Jobs
<1>3. ReadersOK
  BY DEF ReadersOK, ReaderSteps, NoDigest, Digests, Listed, Views
<1>4. StepInv
  BY DEF StepInv, NoJob, Ops, StepsOf, SkillOps
<1>5. LockInv
  BY DEF LockInv, Inside, Clients
<1>6. ViewInv
  BY DEF ViewInv
<1>7. QED
  BY <1>1, <1>2, <1>3, <1>4, <1>5, <1>6, Parts

LEMMA TypeStep == TypeOK /\ ViewInv /\ StepInv /\ [Next]_vars => TypeOK' /\ ViewInv'
<1>1. (FilesOK /\ ClientsOK /\ ReadersOK)' => TypeOK'
  BY Parts, PTL
<1>2. QED
  BY <1>1, FilesStep, ClientsStep, ReadersStep

\* Files, clients and readers stay what they are: a handler is never at a step that its
\* request has not got, and a write finds what it was given and has read.
THEOREM TypeCorrect == Spec => []TypeOK
<1>1. QED
  BY InitInv, TypeStep, StepStep, PTL DEF Spec


(***************************************************************************)
(* A write of the skill is one step of the register.                       *)
(***************************************************************************)

SkillSteps == {"aside", "place", "unmark", "record", "delete", "mark"}

(* Who is at work on the skill is a thread that holds the lock.             *)
LEMMA OneAtWork == StepInv /\ LockInv => \A c \in Clients : pc[c] \in SkillSteps => c \in Threads /\ lock = c
  BY DEF StepInv, StepsOf, SkillOps, Ops, LockInv, Inside, SkillSteps, Clients, Steps

(* What a write replaces the skill by.                                      *)
LEMMA Given ==
    ASSUME TypeOK, StepInv, NEW c \in Clients, Ahead(c)
    PROVE  /\ pc[c] \in {"aside", "place"} => job[c].arg \in Skills
           /\ pc[c] = "delete" => job[c].arg = Absent
           /\ job[c].arg \in Skills \cup {Absent}
           /\ c \notin Cli
<1>1. job[c] \in Jobs
  BY DEF TypeOK, Jobs
<1>2. QED
  BY <1>1, JobTypes DEF Ahead, StepInv, StepsOf, SkillOps, Ops

(* The register's variables.                                                *)
Pend == [c \in Clients |-> IF Ahead(c) THEN job[c].arg ELSE Nothing]
Swap == {c \in Clients : pc[c] = "place"}

LEMMA Mapped == Register!vars = <<skill, Pend, Swap>>
  BY DEF Register!vars, Pend, Swap

(* Nobody but c moves.                                                      *)
Alone(c) == \A d \in Clients \ {c} : pc'[d] = pc[d] /\ job'[d] = job[d]

LEMMA PendStep ==
    ASSUME NEW c \in Clients, Alone(c)
    PROVE  Pend' = [Pend EXCEPT ![c] = IF Ahead(c)' THEN job'[c].arg ELSE Nothing]
  BY DEF Pend, Ahead, Alone

LEMMA SwapStep ==
    ASSUME NEW c \in Clients, Alone(c)
    PROVE  /\ pc'[c] # "place" => Swap' = Swap \ {c}
           /\ pc'[c] = "place" => Swap' = Swap \cup {c}
  BY DEF Swap, Alone

LEMMA Stutters ==
    ASSUME NEW c \in Clients, Alone(c), pc[c] # "place", pc'[c] # "place", UNCHANGED skill,
           Ahead(c)' <=> Ahead(c), Ahead(c) => job'[c] = job[c]
    PROVE  UNCHANGED Register!vars
<1>1. UNCHANGED Swap
  BY SwapStep DEF Swap
<1>2. UNCHANGED Pend
  BY PendStep DEF Pend
<1>3. QED
  BY <1>1, <1>2, Mapped DEF Register!vars, Pend, Swap

LEMMA RegisterInit == Init => Register!Init
  BY SetupsAssumption DEF SetupsAssumption, Init, Register!Init, Ahead

LEMMA RegisterStep ==
    TypeOK /\ StepInv /\ LockInv /\ [Next]_vars => [Register!Next]_(Register!vars)
<1> SUFFICES ASSUME TypeOK, StepInv, LockInv, [Next]_vars PROVE [Register!Next]_(Register!vars)
  OBVIOUS
<1> USE SetupsAssumption DEF SetupsAssumption
<1>0. pc \in [Clients -> Steps] /\ job \in [Clients -> Jobs] /\ lock \in Threads \cup {Nobody}
  BY DEF TypeOK, Jobs
<1>u. \A c \in Clients : pc[c] \in SkillSteps => c \in Threads /\ lock = c
  BY OneAtWork
<1>n. Nothing \notin Skills \cup {Absent}
  BY DEF Skills
<1>w. \A c \in Clients : pc[c] \in SkillSteps => Swap = IF pc[c] = "place" THEN {c} ELSE {}
  BY <1>u DEF Swap, SkillSteps
<1>a. ASSUME NEW c \in Clients, UNCHANGED <<skill, Swap>>, NEW x \in Skills \cup {Absent},
             Pend[c] = Nothing, Pend' = [Pend EXCEPT ![c] = x]
      PROVE  Register!Next
  BY <1>a DEF Register!Next, Register!Ask, Pend, Swap
<1>e. ASSUME NEW c \in Clients, skill' = Absent, Pend[c] \in Skills, Swap = {}, Swap' = {c}, Pend' = Pend
      PROVE  Register!Next
  BY <1>e DEF Register!Next, Register!TakeAway, Pend, Swap
<1>b. ASSUME NEW c \in Clients, skill' = Pend[c], Pend[c] # Nothing, Pend' = [Pend EXCEPT ![c] = Nothing],
             Swap = IF Pend[c] = Absent THEN {} ELSE {c}, Swap' = {}
      PROVE  Register!Next
  BY <1>b DEF Register!Next, Register!Apply, Pend, Swap
<1>c. ASSUME NEW c \in Clients, skill' = skill, Pend' = [Pend EXCEPT ![c] = Nothing], Swap' = Swap \ {c}
      PROVE  Register!Next
  BY <1>c DEF Register!Next, Register!GiveUp, Pend, Swap
<1>d. ASSUME skill' = skill, Pend' = [c \in Clients |-> Nothing], Swap' = {}
      PROVE  Register!Next
  BY <1>d DEF Register!Next, Register!Crash, Pend, Swap
<1>1. ASSUME NEW c \in Clients, Ask(c) PROVE [Register!Next]_(Register!vars)
  <2>1. PICK j \in (IF c \in Cli THEN ToolJobs ELSE SkillJobs \cup ToolJobs) :
            /\ Goto(c, "idle", IF j.op = "type" THEN "type_meta" ELSE "lock")
            /\ job' = [job EXCEPT ![c] = j]
    BY <1>1 DEF Ask
  <2>2. Alone(c) /\ pc[c] = "idle" /\ pc'[c] \in {"type_meta", "lock"} /\ job'[c] = j
    BY <1>0, <2>1 DEF Alone
  <2>3. Pend[c] = Nothing
    BY <2>2 DEF Pend, Ahead
  <2>4. UNCHANGED <<skill, Swap>> /\ Swap' = Swap \ {c}
    BY <2>2, SwapStep, <1>1 DEF Ask, Swap
  <2>5. CASE Ahead(c)'
    <3>1. j \in Jobs /\ j.op \in {"put", "type", "delete"} /\ j.op # "type"
      BY <1>0, <2>1, <2>2, <2>5 DEF Ahead, Jobs
    <3>2. j.arg \in Skills \cup {Absent}
      BY <3>1, JobTypes
    <3>3. Pend' = [Pend EXCEPT ![c] = j.arg]
      BY <2>2, <2>5, PendStep
    <3>4. QED
      BY <1>a, <2>3, <2>4, <3>2, <3>3
  <2>6. CASE ~Ahead(c)'
    BY <1>c, <2>2, <2>4, <2>6, PendStep
  <2>7. QED
    BY <2>5, <2>6
<1>2. ASSUME NEW c \in Clients, TypeMeta(c) PROVE [Register!Next]_(Register!vars)
  <2>1. Alone(c)
    BY <1>0, <1>2 DEF TypeMeta, Answer, Leave, Alone
  <2>2. pc[c] # "place" /\ pc'[c] # "place" /\ UNCHANGED skill
    BY <1>0, <1>2 DEF TypeMeta, Answer, Leave
  <2>3. (Ahead(c)' <=> Ahead(c)) /\ (Ahead(c) => job'[c] = job[c])
    BY <1>0, <1>2 DEF TypeMeta, Answer, Leave, Ahead
  <2>4. QED
    BY <2>1, <2>2, <2>3, Stutters
<1>3. ASSUME NEW c \in Clients, TypePrompt(c) PROVE [Register!Next]_(Register!vars)
  <2>1. Alone(c)
    BY <1>0, <1>3 DEF TypePrompt, Answer, Leave, Alone
  <2>2. pc[c] = "type_prompt" /\ pc'[c] \in {"idle", "lock"} /\ UNCHANGED skill
    BY <1>0, <1>3 DEF TypePrompt, Answer
  <2>3. Pend[c] = Nothing
    BY <2>2 DEF Pend, Ahead
  <2>4. UNCHANGED <<skill, Swap>> /\ Swap' = Swap \ {c}
    BY <2>1, <2>2, SwapStep DEF Swap
  <2>5. CASE Ahead(c)'
    <3>1. job'[c].arg \in Skills
      BY <1>0, <1>3, <2>2, <2>5 DEF TypePrompt, Answer, Leave, NoJob, Ahead, TypeOK, StepInv, Skills
    <3>2. Pend' = [Pend EXCEPT ![c] = job'[c].arg]
      BY <2>1, <2>5, PendStep
    <3>3. QED
      BY <1>a, <2>3, <2>4, <3>1, <3>2
  <2>6. CASE ~Ahead(c)'
    BY <1>c, <2>1, <2>4, <2>6, PendStep
  <2>7. QED
    BY <2>5, <2>6
<1>4. ASSUME NEW c \in Clients, PutItem(c) PROVE [Register!Next]_(Register!vars)
  <2>1. Alone(c)
    BY <1>0, <1>4 DEF PutItem, Enter, Alone
  <2>2. pc[c] # "place" /\ pc'[c] # "place" /\ UNCHANGED skill
    BY <1>0, <1>4 DEF PutItem, Enter
  <2>3. (Ahead(c)' <=> Ahead(c)) /\ (Ahead(c) => job'[c] = job[c])
    BY <1>0, <1>4 DEF PutItem, Enter, Ahead
  <2>4. QED
    BY <2>1, <2>2, <2>3, Stutters
<1>5. ASSUME NEW c \in Clients, PutAgentType(c) PROVE [Register!Next]_(Register!vars)
  <2>1. Alone(c)
    BY <1>0, <1>5 DEF PutAgentType, Enter, Alone
  <2>2. pc[c] # "place" /\ pc'[c] # "place" /\ UNCHANGED skill
    BY <1>0, <1>5 DEF PutAgentType, Enter
  <2>3. (Ahead(c)' <=> Ahead(c)) /\ (Ahead(c) => job'[c] = job[c])
    BY <1>0, <1>5 DEF PutAgentType, Enter, Ahead
  <2>4. QED
    BY <2>1, <2>2, <2>3, Stutters
<1>6. ASSUME NEW c \in Clients, DeleteItem(c) PROVE [Register!Next]_(Register!vars)
  <2>1. Alone(c)
    BY <1>0, <1>6 DEF DeleteItem, Enter, Alone
  <2>2. pc[c] # "place" /\ pc'[c] # "place" /\ UNCHANGED skill
    BY <1>0, <1>6 DEF DeleteItem, Enter
  <2>3. (Ahead(c)' <=> Ahead(c)) /\ (Ahead(c) => job'[c] = job[c])
    BY <1>0, <1>6 DEF DeleteItem, Enter, Ahead
  <2>4. QED
    BY <2>1, <2>2, <2>3, Stutters
<1>7. ASSUME NEW c \in Clients, PostDisable(c) PROVE [Register!Next]_(Register!vars)
  <2>1. Alone(c)
    BY <1>0, <1>7 DEF PostDisable, Enter, Alone
  <2>2. pc[c] # "place" /\ pc'[c] # "place" /\ UNCHANGED skill
    BY <1>0, <1>7 DEF PostDisable, Enter
  <2>3. (Ahead(c)' <=> Ahead(c)) /\ (Ahead(c) => job'[c] = job[c])
    BY <1>0, <1>7 DEF PostDisable, Enter, Ahead
  <2>4. QED
    BY <2>1, <2>2, <2>3, Stutters
<1>8. ASSUME NEW c \in Clients, PostToolSource(c) PROVE [Register!Next]_(Register!vars)
  <2>1. Alone(c)
    BY <1>0, <1>8 DEF PostToolSource, Enter, Alone
  <2>2. pc[c] # "place" /\ pc'[c] # "place" /\ UNCHANGED skill
    BY <1>0, <1>8 DEF PostToolSource, Enter
  <2>3. (Ahead(c)' <=> Ahead(c)) /\ (Ahead(c) => job'[c] = job[c])
    BY <1>0, <1>8 DEF PostToolSource, Enter, Ahead
  <2>4. QED
    BY <2>1, <2>2, <2>3, Stutters
<1>9. ASSUME NEW c \in Clients, DeleteToolSource(c) PROVE [Register!Next]_(Register!vars)
  <2>1. Alone(c)
    BY <1>0, <1>9 DEF DeleteToolSource, Enter, Alone
  <2>2. pc[c] # "place" /\ pc'[c] # "place" /\ UNCHANGED skill
    BY <1>0, <1>9 DEF DeleteToolSource, Enter
  <2>3. (Ahead(c)' <=> Ahead(c)) /\ (Ahead(c) => job'[c] = job[c])
    BY <1>0, <1>9 DEF DeleteToolSource, Enter, Ahead
  <2>4. QED
    BY <2>1, <2>2, <2>3, Stutters
<1>10. ASSUME NEW c \in Clients, PostToolSourceEnable(c) PROVE [Register!Next]_(Register!vars)
  <2>1. Alone(c)
    BY <1>0, <1>10 DEF PostToolSourceEnable, Enter, Alone
  <2>2. pc[c] # "place" /\ pc'[c] # "place" /\ UNCHANGED skill
    BY <1>0, <1>10 DEF PostToolSourceEnable, Enter
  <2>3. (Ahead(c)' <=> Ahead(c)) /\ (Ahead(c) => job'[c] = job[c])
    BY <1>0, <1>10 DEF PostToolSourceEnable, Enter, Ahead
  <2>4. QED
    BY <2>1, <2>2, <2>3, Stutters
<1>11. ASSUME NEW c \in Clients, PostRegister(c) PROVE [Register!Next]_(Register!vars)
  <2>1. Alone(c)
    BY <1>0, <1>11 DEF PostRegister, Enter, Alone
  <2>2. pc[c] # "place" /\ pc'[c] # "place" /\ UNCHANGED skill
    BY <1>0, <1>11 DEF PostRegister, Enter
  <2>3. (Ahead(c)' <=> Ahead(c)) /\ (Ahead(c) => job'[c] = job[c])
    BY <1>0, <1>11 DEF PostRegister, Enter, Ahead
  <2>4. QED
    BY <2>1, <2>2, <2>3, Stutters
<1>12. ASSUME NEW c \in Clients, PostUnregister(c) PROVE [Register!Next]_(Register!vars)
  <2>1. Alone(c)
    BY <1>0, <1>12 DEF PostUnregister, Enter, Alone
  <2>2. pc[c] # "place" /\ pc'[c] # "place" /\ UNCHANGED skill
    BY <1>0, <1>12 DEF PostUnregister, Enter
  <2>3. (Ahead(c)' <=> Ahead(c)) /\ (Ahead(c) => job'[c] = job[c])
    BY <1>0, <1>12 DEF PostUnregister, Enter, Ahead
  <2>4. QED
    BY <2>1, <2>2, <2>3, Stutters
<1>13. ASSUME NEW c \in Clients, PostEnable(c) PROVE [Register!Next]_(Register!vars)
  <2>1. Alone(c)
    BY <1>0, <1>13 DEF PostEnable, Enter, Alone
  <2>2. pc[c] # "place" /\ pc'[c] # "place" /\ UNCHANGED skill
    BY <1>0, <1>13 DEF PostEnable, Enter
  <2>3. (Ahead(c)' <=> Ahead(c)) /\ (Ahead(c) => job'[c] = job[c])
    BY <1>0, <1>13 DEF PostEnable, Enter, Ahead
  <2>4. QED
    BY <2>1, <2>2, <2>3, Stutters
<1>14. ASSUME NEW c \in Clients, Refuse(c) PROVE [Register!Next]_(Register!vars)
  <2>1. Alone(c)
    BY <1>0, <1>14 DEF Refuse, Answer, Leave, Alone
  <2>2. pc'[c] = "idle" /\ UNCHANGED skill
    BY <1>0, <1>14 DEF Refuse, Answer
  <2>3. Swap' = Swap \ {c}
    BY <2>1, <2>2, SwapStep
  <2>4. ~Ahead(c)'
    BY <2>2 DEF Ahead
  <2>5. QED
    BY <1>c, <2>1, <2>2, <2>3, <2>4, PendStep
<1>15. ASSUME NEW c \in Clients, Audit(c) PROVE [Register!Next]_(Register!vars)
  <2>1. Alone(c)
    BY <1>0, <1>15 DEF Audit, Audited, Answer, Leave, Alone
  <2>2. pc[c] # "place" /\ pc'[c] # "place" /\ UNCHANGED skill
    BY <1>0, <1>15 DEF Audit, Audited, Answer, Leave
  <2>3. (Ahead(c)' <=> Ahead(c)) /\ (Ahead(c) => job'[c] = job[c])
    BY <1>0, <1>15 DEF Audit, Audited, Answer, Leave, Ahead
  <2>4. QED
    BY <2>1, <2>2, <2>3, Stutters
<1>16. ASSUME NEW c \in Clients, Aside(c) PROVE [Register!Next]_(Register!vars)
  <2>1. Alone(c)
    BY <1>0, <1>16 DEF Aside, Alone
  <2>2. pc[c] = "aside" /\ pc'[c] = "place" /\ job' = job /\ skill' = Absent
    BY <1>0, <1>16 DEF Aside
  <2>3. Swap = {} /\ Swap' = {c}
    BY <1>w, <2>1, <2>2, SwapStep DEF SkillSteps
  <2>4. Ahead(c) /\ Ahead(c)'
    BY <2>2 DEF Ahead
  <2>5. Pend' = Pend /\ Pend[c] \in Skills
    BY <2>1, <2>2, <2>4, PendStep, Given DEF Pend
  <2>6. QED
    BY <1>e, <2>2, <2>3, <2>5
<1>17. ASSUME NEW c \in Clients, Place(c) PROVE [Register!Next]_(Register!vars)
  <2>1. Alone(c)
    BY <1>0, <1>17 DEF Place, Alone
  <2>2. pc[c] = "place" /\ pc'[c] \notin {"place", "aside", "delete", "lock"} /\ job' = job /\ skill' = job[c].arg
    BY <1>0, <1>17 DEF Place
  <2>3. Swap = {c} /\ Swap' = {}
    BY <1>w, <2>1, <2>2, SwapStep DEF SkillSteps
  <2>4. Ahead(c) /\ ~Ahead(c)'
    BY <2>2 DEF Ahead
  <2>5. Pend[c] = job[c].arg /\ job[c].arg \in Skills \cup {Absent} /\ skill' = job[c].arg
    BY <2>2, <2>4, Given DEF Pend
  <2>6. Pend' = [Pend EXCEPT ![c] = Nothing]
    BY <2>1, <2>4, PendStep
  <2>7. Pend[c] = Absent <=> pc[c] = "delete"
    BY <2>2, <2>4, <2>5, Given
  <2>8. QED
    BY <1>b, <1>n, <2>2, <2>3, <2>5, <2>6, <2>7
<1>18. ASSUME NEW c \in Clients, Unmark(c) PROVE [Register!Next]_(Register!vars)
  <2>1. Alone(c)
    BY <1>0, <1>18 DEF Unmark, Alone
  <2>2. pc[c] # "place" /\ pc'[c] # "place" /\ UNCHANGED skill
    BY <1>0, <1>18 DEF Unmark
  <2>3. (Ahead(c)' <=> Ahead(c)) /\ (Ahead(c) => job'[c] = job[c])
    BY <1>0, <1>18 DEF Unmark, Ahead
  <2>4. QED
    BY <2>1, <2>2, <2>3, Stutters
<1>19. ASSUME NEW c \in Clients, Record(c) PROVE [Register!Next]_(Register!vars)
  <2>1. Alone(c)
    BY <1>0, <1>19 DEF Record, Alone
  <2>2. pc[c] # "place" /\ pc'[c] # "place" /\ UNCHANGED skill
    BY <1>0, <1>19 DEF Record
  <2>3. (Ahead(c)' <=> Ahead(c)) /\ (Ahead(c) => job'[c] = job[c])
    BY <1>0, <1>19 DEF Record, Ahead
  <2>4. QED
    BY <2>1, <2>2, <2>3, Stutters
<1>20. ASSUME NEW c \in Clients, Delete(c) PROVE [Register!Next]_(Register!vars)
  <2>1. Alone(c)
    BY <1>0, <1>20 DEF Delete, Alone
  <2>2. pc[c] = "delete" /\ pc'[c] \notin {"place", "aside", "delete", "lock"} /\ job' = job /\ skill' = Absent
    BY <1>0, <1>20 DEF Delete
  <2>3. Swap = {} /\ Swap' = {}
    BY <1>w, <2>1, <2>2, SwapStep DEF SkillSteps
  <2>4. Ahead(c) /\ ~Ahead(c)'
    BY <2>2 DEF Ahead
  <2>5. Pend[c] = job[c].arg /\ job[c].arg \in Skills \cup {Absent} /\ skill' = job[c].arg
    BY <2>2, <2>4, Given DEF Pend
  <2>6. Pend' = [Pend EXCEPT ![c] = Nothing]
    BY <2>1, <2>4, PendStep
  <2>7. Pend[c] = Absent <=> pc[c] = "delete"
    BY <2>2, <2>4, <2>5, Given
  <2>8. QED
    BY <1>b, <1>n, <2>2, <2>3, <2>5, <2>6, <2>7
<1>21. ASSUME NEW c \in Clients, Mark(c) PROVE [Register!Next]_(Register!vars)
  <2>1. Alone(c)
    BY <1>0, <1>21 DEF Mark, Alone
  <2>2. pc[c] # "place" /\ pc'[c] # "place" /\ UNCHANGED skill
    BY <1>0, <1>21 DEF Mark
  <2>3. (Ahead(c)' <=> Ahead(c)) /\ (Ahead(c) => job'[c] = job[c])
    BY <1>0, <1>21 DEF Mark, Ahead
  <2>4. QED
    BY <2>1, <2>2, <2>3, Stutters
<1>22. ASSUME NEW c \in Clients, Previewed(c) PROVE [Register!Next]_(Register!vars)
  <2>1. Alone(c)
    BY <1>0, <1>22 DEF Previewed, Alone
  <2>2. pc[c] # "place" /\ pc'[c] # "place" /\ UNCHANGED skill
    BY <1>0, <1>22 DEF Previewed
  <2>3. (Ahead(c)' <=> Ahead(c)) /\ (Ahead(c) => job'[c] = job[c])
    BY <1>0, <1>22 DEF Previewed, Ahead
  <2>4. QED
    BY <2>1, <2>2, <2>3, Stutters
<1>23. ASSUME NEW c \in Clients, WriteSpec(c) PROVE [Register!Next]_(Register!vars)
  <2>1. Alone(c)
    BY <1>0, <1>23 DEF WriteSpec, Alone
  <2>2. pc[c] # "place" /\ pc'[c] # "place" /\ UNCHANGED skill
    BY <1>0, <1>23 DEF WriteSpec
  <2>3. (Ahead(c)' <=> Ahead(c)) /\ (Ahead(c) => job'[c] = job[c])
    BY <1>0, <1>23 DEF WriteSpec, Ahead
  <2>4. QED
    BY <2>1, <2>2, <2>3, Stutters
<1>24. ASSUME NEW c \in Clients, WriteEntry(c) PROVE [Register!Next]_(Register!vars)
  <2>1. Alone(c)
    BY <1>0, <1>24 DEF WriteEntry, Alone
  <2>2. pc[c] # "place" /\ pc'[c] # "place" /\ UNCHANGED skill
    BY <1>0, <1>24 DEF WriteEntry
  <2>3. (Ahead(c)' <=> Ahead(c)) /\ (Ahead(c) => job'[c] = job[c])
    BY <1>0, <1>24 DEF WriteEntry, Ahead
  <2>4. QED
    BY <2>1, <2>2, <2>3, Stutters
<1>25. ASSUME NEW c \in Clients, RemoveSpec(c) PROVE [Register!Next]_(Register!vars)
  <2>1. Alone(c)
    BY <1>0, <1>25 DEF RemoveSpec, Alone
  <2>2. pc[c] # "place" /\ pc'[c] # "place" /\ UNCHANGED skill
    BY <1>0, <1>25 DEF RemoveSpec
  <2>3. (Ahead(c)' <=> Ahead(c)) /\ (Ahead(c) => job'[c] = job[c])
    BY <1>0, <1>25 DEF RemoveSpec, Ahead
  <2>4. QED
    BY <2>1, <2>2, <2>3, Stutters
<1>26. ASSUME NEW c \in Clients, RemoveEntry(c) PROVE [Register!Next]_(Register!vars)
  <2>1. Alone(c)
    BY <1>0, <1>26 DEF RemoveEntry, Alone
  <2>2. pc[c] # "place" /\ pc'[c] # "place" /\ UNCHANGED skill
    BY <1>0, <1>26 DEF RemoveEntry
  <2>3. (Ahead(c)' <=> Ahead(c)) /\ (Ahead(c) => job'[c] = job[c])
    BY <1>0, <1>26 DEF RemoveEntry, Ahead
  <2>4. QED
    BY <2>1, <2>2, <2>3, Stutters
<1>27. ASSUME NEW c \in Clients, Linted(c) PROVE [Register!Next]_(Register!vars)
  <2>1. Alone(c)
    BY <1>0, <1>27 DEF Linted, Answer, Leave, Alone
  <2>2. pc[c] # "place" /\ pc'[c] # "place" /\ UNCHANGED skill
    BY <1>0, <1>27 DEF Linted, Answer, Leave
  <2>3. (Ahead(c)' <=> Ahead(c)) /\ (Ahead(c) => job'[c] = job[c])
    BY <1>0, <1>27 DEF Linted, Answer, Leave, Ahead
  <2>4. QED
    BY <2>1, <2>2, <2>3, Stutters
<1>28. ASSUME NEW c \in Clients, LoadRegistered(c) PROVE [Register!Next]_(Register!vars)
  <2>1. Alone(c)
    BY <1>0, <1>28 DEF LoadRegistered, Load, Alone
  <2>2. pc[c] # "place" /\ pc'[c] # "place" /\ UNCHANGED skill
    BY <1>0, <1>28 DEF LoadRegistered, Load
  <2>3. (Ahead(c)' <=> Ahead(c)) /\ (Ahead(c) => job'[c] = job[c])
    BY <1>0, <1>28 DEF LoadRegistered, Load, Ahead
  <2>4. QED
    BY <2>1, <2>2, <2>3, Stutters
<1>29. ASSUME NEW c \in Clients, LoadEnabled(c) PROVE [Register!Next]_(Register!vars)
  <2>1. Alone(c)
    BY <1>0, <1>29 DEF LoadEnabled, Load, Alone
  <2>2. pc[c] # "place" /\ pc'[c] # "place" /\ UNCHANGED skill
    BY <1>0, <1>29 DEF LoadEnabled, Load
  <2>3. (Ahead(c)' <=> Ahead(c)) /\ (Ahead(c) => job'[c] = job[c])
    BY <1>0, <1>29 DEF LoadEnabled, Load, Ahead
  <2>4. QED
    BY <2>1, <2>2, <2>3, Stutters
<1>30. ASSUME NEW c \in Clients, LoadRemoved(c) PROVE [Register!Next]_(Register!vars)
  <2>1. Alone(c)
    BY <1>0, <1>30 DEF LoadRemoved, Load, Alone
  <2>2. pc[c] # "place" /\ pc'[c] # "place" /\ UNCHANGED skill
    BY <1>0, <1>30 DEF LoadRemoved, Load
  <2>3. (Ahead(c)' <=> Ahead(c)) /\ (Ahead(c) => job'[c] = job[c])
    BY <1>0, <1>30 DEF LoadRemoved, Load, Ahead
  <2>4. QED
    BY <2>1, <2>2, <2>3, Stutters
<1>31. ASSUME NEW c \in Clients, LoadSource(c) PROVE [Register!Next]_(Register!vars)
  <2>1. Alone(c)
    BY <1>0, <1>31 DEF LoadSource, Load, Alone
  <2>2. pc[c] # "place" /\ pc'[c] # "place" /\ UNCHANGED skill
    BY <1>0, <1>31 DEF LoadSource, Load
  <2>3. (Ahead(c)' <=> Ahead(c)) /\ (Ahead(c) => job'[c] = job[c])
    BY <1>0, <1>31 DEF LoadSource, Load, Ahead
  <2>4. QED
    BY <2>1, <2>2, <2>3, Stutters
<1>32. ASSUME NEW c \in Clients, StoreRegistered(c) PROVE [Register!Next]_(Register!vars)
  <2>1. Alone(c)
    BY <1>0, <1>32 DEF StoreRegistered, Store, Alone
  <2>2. pc[c] # "place" /\ pc'[c] # "place" /\ UNCHANGED skill
    BY <1>0, <1>32 DEF StoreRegistered, Store
  <2>3. (Ahead(c)' <=> Ahead(c)) /\ (Ahead(c) => job'[c] = job[c])
    BY <1>0, <1>32 DEF StoreRegistered, Store, Ahead
  <2>4. QED
    BY <2>1, <2>2, <2>3, Stutters
<1>33. ASSUME NEW c \in Clients, StoreEnabled(c) PROVE [Register!Next]_(Register!vars)
  <2>1. Alone(c)
    BY <1>0, <1>33 DEF StoreEnabled, Store, Alone
  <2>2. pc[c] # "place" /\ pc'[c] # "place" /\ UNCHANGED skill
    BY <1>0, <1>33 DEF StoreEnabled, Store
  <2>3. (Ahead(c)' <=> Ahead(c)) /\ (Ahead(c) => job'[c] = job[c])
    BY <1>0, <1>33 DEF StoreEnabled, Store, Ahead
  <2>4. QED
    BY <2>1, <2>2, <2>3, Stutters
<1>34. ASSUME NEW c \in Clients, StoreRemoved(c) PROVE [Register!Next]_(Register!vars)
  <2>1. Alone(c)
    BY <1>0, <1>34 DEF StoreRemoved, Store, Alone
  <2>2. pc[c] # "place" /\ pc'[c] # "place" /\ UNCHANGED skill
    BY <1>0, <1>34 DEF StoreRemoved, Store
  <2>3. (Ahead(c)' <=> Ahead(c)) /\ (Ahead(c) => job'[c] = job[c])
    BY <1>0, <1>34 DEF StoreRemoved, Store, Ahead
  <2>4. QED
    BY <2>1, <2>2, <2>3, Stutters
<1>35. ASSUME NEW c \in Clients, StoreSource(c) PROVE [Register!Next]_(Register!vars)
  <2>1. Alone(c)
    BY <1>0, <1>35 DEF StoreSource, Store, Alone
  <2>2. pc[c] # "place" /\ pc'[c] # "place" /\ UNCHANGED skill
    BY <1>0, <1>35 DEF StoreSource, Store
  <2>3. (Ahead(c)' <=> Ahead(c)) /\ (Ahead(c) => job'[c] = job[c])
    BY <1>0, <1>35 DEF StoreSource, Store, Ahead
  <2>4. QED
    BY <2>1, <2>2, <2>3, Stutters
<1>36. ASSUME NEW c \in Clients, Fail(c) PROVE [Register!Next]_(Register!vars)
  <2>1. Alone(c)
    BY <1>0, <1>36 DEF Fail, Answer, Leave, Alone
  <2>2. pc'[c] = "idle" /\ UNCHANGED skill
    BY <1>0, <1>36 DEF Fail, Answer
  <2>3. Swap' = Swap \ {c}
    BY <2>1, <2>2, SwapStep
  <2>4. ~Ahead(c)'
    BY <2>2 DEF Ahead
  <2>5. QED
    BY <1>c, <2>1, <2>2, <2>3, <2>4, PendStep
<1>37. ASSUME NEW r \in Readers, List(r) PROVE [Register!Next]_(Register!vars)
  <2>1. UNCHANGED <<skill, pc, job>>
    BY <1>37 DEF List
  <2>2. QED
    BY <2>1 DEF Register!vars, Ahead
<1>38. ASSUME NEW r \in Readers, HashPrompt(r) PROVE [Register!Next]_(Register!vars)
  <2>1. UNCHANGED <<skill, pc, job>>
    BY <1>38 DEF HashPrompt, HashFile
  <2>2. QED
    BY <2>1 DEF Register!vars, Ahead
<1>39. ASSUME NEW r \in Readers, HashMeta(r) PROVE [Register!Next]_(Register!vars)
  <2>1. UNCHANGED <<skill, pc, job>>
    BY <1>39 DEF HashMeta, HashFile
  <2>2. QED
    BY <2>1 DEF Register!vars, Ahead
<1>40. ASSUME NEW r \in Readers, Lookup(r) PROVE [Register!Next]_(Register!vars)
  <2>1. UNCHANGED <<skill, pc, job>>
    BY <1>40 DEF Lookup, Done
  <2>2. QED
    BY <2>1 DEF Register!vars, Ahead
<1>41. ASSUME NEW r \in Readers, ReadMeta(r) PROVE [Register!Next]_(Register!vars)
  <2>1. UNCHANGED <<skill, pc, job>>
    BY <1>41 DEF ReadMeta
  <2>2. QED
    BY <2>1 DEF Register!vars, Ahead
<1>42. ASSUME NEW r \in Readers, ReadMarker(r) PROVE [Register!Next]_(Register!vars)
  <2>1. UNCHANGED <<skill, pc, job>>
    BY <1>42 DEF ReadMarker
  <2>2. QED
    BY <2>1 DEF Register!vars, Ahead
<1>43. ASSUME NEW r \in Readers, ReadPrompt(r) PROVE [Register!Next]_(Register!vars)
  <2>1. UNCHANGED <<skill, pc, job>>
    BY <1>43 DEF ReadPrompt
  <2>2. QED
    BY <2>1 DEF Register!vars, Ahead
<1>44. ASSUME NEW r \in Readers, ReadRevision(r) PROVE [Register!Next]_(Register!vars)
  <2>1. UNCHANGED <<skill, pc, job>>
    BY <1>44 DEF ReadRevision
  <2>2. QED
    BY <2>1 DEF Register!vars, Ahead
<1>45. ASSUME NEW r \in Readers, Keep(r) PROVE [Register!Next]_(Register!vars)
  <2>1. UNCHANGED <<skill, pc, job>>
    BY <1>45 DEF Keep, Done
  <2>2. QED
    BY <2>1 DEF Register!vars, Ahead
<1>46. CASE Crash
  <2>1. PICK dead \in {Threads} \cup {{k} : k \in Cli} :
            /\ pc' = [c \in Clients |-> IF c \in dead THEN "idle" ELSE pc[c]]
            /\ job' = [c \in Clients |-> IF c \in dead THEN NoJob ELSE job[c]]
    BY <1>46 DEF Crash
  <2>2. skill' = skill
    BY <1>46 DEF Crash
  <2>3. CASE dead = Threads
    <3>1. \A c \in Clients : pc'[c] # "place" /\ ~(pc'[c] \in {"aside", "place", "delete"})
                            /\ ~(pc'[c] = "lock" /\ job'[c].op \in {"put", "type", "delete"})
      BY <1>0, <2>1, <2>3 DEF StepInv, StepsOf, SkillOps, Ops, Clients
    <3>2. Pend' = [c \in Clients |-> Nothing] /\ Swap' = {}
      BY <3>1 DEF Pend, Ahead, Swap
    <3>3. QED
      BY <1>d, <2>2, <3>2
  <2>4. CASE dead # Threads
    <3>1. PICK k \in Cli : dead = {k}
      BY <2>1, <2>4
    <3>2. k \in Clients
      BY <3>1 DEF Clients
    <3>3. Alone(k) /\ pc'[k] = "idle"
      BY <2>1, <3>1, <3>2 DEF Alone
    <3>4. pc[k] # "place" /\ ~Ahead(k)
      BY <3>2 DEF StepInv, StepsOf, SkillOps, Ops, Ahead
    <3>5. ~Ahead(k)'
      BY <3>3 DEF Ahead
    <3>6. QED
      BY <2>2, <3>2, <3>3, <3>4, <3>5, Stutters
  <2>5. QED
    BY <2>3, <2>4
<1>47. CASE UNCHANGED vars
  BY <1>47 DEF vars, Register!vars, Ahead
<1> HIDE DEF SetupsAssumption
<1>48. QED
  BY <1>1, <1>2, <1>3, <1>4, <1>5, <1>6, <1>7, <1>8, <1>9, <1>10, <1>11, <1>12, <1>13, <1>14, <1>15, <1>16, <1>17, <1>18, <1>19, <1>20, <1>21, <1>22, <1>23, <1>24, <1>25, <1>26, <1>27, <1>28, <1>29, <1>30, <1>31, <1>32, <1>33, <1>34, <1>35, <1>36, <1>37, <1>38, <1>39, <1>40, <1>41, <1>42, <1>43, <1>44, <1>45, <1>46, <1>47 DEF Next, Serve, Handle, Resolve

\* For any number of threads, readers and command lines, the two renames, the marker, the
\* history and the audit of a write are one replacement of the whole skill between a
\* request and its answer, with a moment of no skill; a failure or a crash costs what is not
\* written yet, and the skill that was renamed away, but nothing else.
THEOREM Refines == Spec => StoreIsARegister
<1>1. QED
  BY InitInv, TypeStep, StepStep, LockStep, RegisterInit, RegisterStep, PTL
     DEF Spec, StoreIsARegister, Register!Spec


(***************************************************************************)
(* The history, the sources and the registered tool.                       *)
(***************************************************************************)

(* A write that is under way has something to record yet.                   *)
HistInv ==
    "skill" \notin behind /\ (\A c \in Clients : pc[c] \notin {"place", "unmark", "record"}) => history.sha = skill

LEMMA HistStep == TypeOK /\ StepInv /\ HistInv /\ [Next]_vars => HistInv'
<1> SUFFICES ASSUME TypeOK, StepInv, HistInv, [Next]_vars PROVE HistInv'
  OBVIOUS
<1> USE DEF HistInv
<1>0. pc \in [Clients -> Steps] /\ history \in Histories
  BY DEF TypeOK
<1>1. ASSUME NEW c \in Clients, Ask(c) PROVE HistInv'
  BY <1>0, <1>1 DEF Ask
<1>2. ASSUME NEW c \in Clients, TypeMeta(c) PROVE HistInv'
  BY <1>0, <1>2 DEF TypeMeta, Answer, Leave
<1>3. ASSUME NEW c \in Clients, TypePrompt(c) PROVE HistInv'
  BY <1>0, <1>3 DEF TypePrompt, Answer, Leave
<1>4. ASSUME NEW c \in Clients, PutItem(c) PROVE HistInv'
  BY <1>0, <1>4 DEF PutItem, Enter
<1>5. ASSUME NEW c \in Clients, PutAgentType(c) PROVE HistInv'
  BY <1>0, <1>5 DEF PutAgentType, Enter
<1>6. ASSUME NEW c \in Clients, DeleteItem(c) PROVE HistInv'
  BY <1>0, <1>6 DEF DeleteItem, Enter
<1>7. ASSUME NEW c \in Clients, PostDisable(c) PROVE HistInv'
  BY <1>0, <1>7 DEF PostDisable, Enter
<1>8. ASSUME NEW c \in Clients, PostToolSource(c) PROVE HistInv'
  BY <1>0, <1>8 DEF PostToolSource, Enter
<1>9. ASSUME NEW c \in Clients, DeleteToolSource(c) PROVE HistInv'
  BY <1>0, <1>9 DEF DeleteToolSource, Enter
<1>10. ASSUME NEW c \in Clients, PostToolSourceEnable(c) PROVE HistInv'
  BY <1>0, <1>10 DEF PostToolSourceEnable, Enter
<1>11. ASSUME NEW c \in Clients, PostRegister(c) PROVE HistInv'
  BY <1>0, <1>11 DEF PostRegister, Enter
<1>12. ASSUME NEW c \in Clients, PostUnregister(c) PROVE HistInv'
  BY <1>0, <1>12 DEF PostUnregister, Enter
<1>13. ASSUME NEW c \in Clients, PostEnable(c) PROVE HistInv'
  BY <1>0, <1>13 DEF PostEnable, Enter
<1>14. ASSUME NEW c \in Clients, Refuse(c) PROVE HistInv'
  BY <1>0, <1>14 DEF Refuse, Answer, Leave
<1>15. ASSUME NEW c \in Clients, Audit(c) PROVE HistInv'
  BY <1>0, <1>15 DEF Audit, Audited, Answer, Leave
<1>16. ASSUME NEW c \in Clients, Aside(c) PROVE HistInv'
  BY <1>0, <1>16 DEF Aside
<1>17. ASSUME NEW c \in Clients, Place(c) PROVE HistInv'
  BY <1>0, <1>17 DEF Place
<1>18. ASSUME NEW c \in Clients, Unmark(c) PROVE HistInv'
  BY <1>0, <1>18 DEF Unmark
<1>19. ASSUME NEW c \in Clients, Record(c) PROVE HistInv'
  BY <1>0, <1>19 DEF Record
<1>20. ASSUME NEW c \in Clients, Delete(c) PROVE HistInv'
  BY <1>0, <1>20 DEF Delete
<1>21. ASSUME NEW c \in Clients, Mark(c) PROVE HistInv'
  BY <1>0, <1>21 DEF Mark
<1>22. ASSUME NEW c \in Clients, Previewed(c) PROVE HistInv'
  BY <1>0, <1>22 DEF Previewed
<1>23. ASSUME NEW c \in Clients, WriteSpec(c) PROVE HistInv'
  BY <1>0, <1>23 DEF WriteSpec
<1>24. ASSUME NEW c \in Clients, WriteEntry(c) PROVE HistInv'
  BY <1>0, <1>24 DEF WriteEntry
<1>25. ASSUME NEW c \in Clients, RemoveSpec(c) PROVE HistInv'
  BY <1>0, <1>25 DEF RemoveSpec
<1>26. ASSUME NEW c \in Clients, RemoveEntry(c) PROVE HistInv'
  BY <1>0, <1>26 DEF RemoveEntry
<1>27. ASSUME NEW c \in Clients, Linted(c) PROVE HistInv'
  BY <1>0, <1>27 DEF Linted, Answer, Leave
<1>28. ASSUME NEW c \in Clients, LoadRegistered(c) PROVE HistInv'
  BY <1>0, <1>28 DEF LoadRegistered, Load
<1>29. ASSUME NEW c \in Clients, LoadEnabled(c) PROVE HistInv'
  BY <1>0, <1>29 DEF LoadEnabled, Load
<1>30. ASSUME NEW c \in Clients, LoadRemoved(c) PROVE HistInv'
  BY <1>0, <1>30 DEF LoadRemoved, Load
<1>31. ASSUME NEW c \in Clients, LoadSource(c) PROVE HistInv'
  BY <1>0, <1>31 DEF LoadSource, Load
<1>32. ASSUME NEW c \in Clients, StoreRegistered(c) PROVE HistInv'
  BY <1>0, <1>32 DEF StoreRegistered, Store
<1>33. ASSUME NEW c \in Clients, StoreEnabled(c) PROVE HistInv'
  BY <1>0, <1>33 DEF StoreEnabled, Store
<1>34. ASSUME NEW c \in Clients, StoreRemoved(c) PROVE HistInv'
  BY <1>0, <1>34 DEF StoreRemoved, Store
<1>35. ASSUME NEW c \in Clients, StoreSource(c) PROVE HistInv'
  BY <1>0, <1>35 DEF StoreSource, Store
<1>36. ASSUME NEW c \in Clients, Fail(c) PROVE HistInv'
  <2>1. SUFFICES ASSUME "skill" \notin behind', \A d \in Clients : pc'[d] \notin {"place", "unmark", "record"}
                 PROVE  history.sha = skill
    BY <1>36 DEF Fail
  <2>2. behind' = behind \cup LeftBehind(c) /\ \A d \in Clients \ {c} : pc'[d] = pc[d]
    BY <1>0, <1>36 DEF Fail, Answer
  <2>3. CASE pc[c] \in {"place", "unmark", "record"}
    BY <2>1, <2>2, <2>3 DEF LeftBehind
  <2>4. CASE pc[c] \notin {"place", "unmark", "record"}
    BY <2>1, <2>2, <2>4
  <2>5. QED
    BY <2>3, <2>4
<1>37. ASSUME NEW r \in Readers, List(r) PROVE HistInv'
  BY <1>37 DEF List
<1>38. ASSUME NEW r \in Readers, HashPrompt(r) PROVE HistInv'
  BY <1>38 DEF HashPrompt, HashFile
<1>39. ASSUME NEW r \in Readers, HashMeta(r) PROVE HistInv'
  BY <1>39 DEF HashMeta, HashFile
<1>40. ASSUME NEW r \in Readers, Lookup(r) PROVE HistInv'
  BY <1>40 DEF Lookup, Done
<1>41. ASSUME NEW r \in Readers, ReadMeta(r) PROVE HistInv'
  BY <1>41 DEF ReadMeta
<1>42. ASSUME NEW r \in Readers, ReadMarker(r) PROVE HistInv'
  BY <1>42 DEF ReadMarker
<1>43. ASSUME NEW r \in Readers, ReadPrompt(r) PROVE HistInv'
  BY <1>43 DEF ReadPrompt
<1>44. ASSUME NEW r \in Readers, ReadRevision(r) PROVE HistInv'
  BY <1>44 DEF ReadRevision
<1>45. ASSUME NEW r \in Readers, Keep(r) PROVE HistInv'
  BY <1>45 DEF Keep, Done
<1>46. CASE Crash
  <2>1. PICK dead \in {Threads} \cup {{k} : k \in Cli} :
            /\ pc' = [c \in Clients |-> IF c \in dead THEN "idle" ELSE pc[c]]
            /\ behind' = behind \cup UNION {LeftBehind(c) : c \in dead}
    BY <1>46 DEF Crash
  <2>2. UNCHANGED <<skill, history>>
    BY <1>46 DEF Crash
  <2>3. SUFFICES ASSUME "skill" \notin behind', \A c \in Clients : pc'[c] \notin {"place", "unmark", "record"}
                 PROVE  history.sha = skill
    BY <2>2
  <2>4. CASE \E c \in dead : pc[c] \in {"place", "unmark", "record"}
    <3>1. PICK c \in dead : pc[c] \in {"place", "unmark", "record"}
      BY <2>4
    <3>2. "skill" \notin LeftBehind(c)
      BY <2>1, <2>3, <3>1
    <3>3. QED
      BY <2>3, <3>1, <3>2 DEF LeftBehind
  <2>5. CASE \A c \in dead : pc[c] \notin {"place", "unmark", "record"}
    <3>1. \A c \in Clients : pc[c] \notin {"place", "unmark", "record"}
      BY <1>0, <2>1, <2>3, <2>5
    <3>2. QED
      BY <2>1, <2>3, <3>1
  <2>6. QED
    BY <2>4, <2>5
<1>47. CASE UNCHANGED vars
  BY <1>0, <1>47 DEF vars
<1> HIDE DEF HistInv
<1>48. QED
  BY <1>1, <1>2, <1>3, <1>4, <1>5, <1>6, <1>7, <1>8, <1>9, <1>10, <1>11, <1>12, <1>13, <1>14, <1>15, <1>16, <1>17, <1>18, <1>19, <1>20, <1>21, <1>22, <1>23, <1>24, <1>25, <1>26, <1>27, <1>28, <1>29, <1>30, <1>31, <1>32, <1>33, <1>34, <1>35, <1>36, <1>37, <1>38, <1>39, <1>40, <1>41, <1>42, <1>43, <1>44, <1>45, <1>46, <1>47 DEF Next, Serve, Handle, Resolve

(* What a request that holds the lock has read is what is there.            *)
SourceInv ==
    \A c \in Clients :
        /\ pc[c] = "entry" => spec = job[c].arg.from
        /\ pc[c] = "store" => seen[c] = IF job[c].op = "switch" THEN entry ELSE tool
        /\ pc[c] = "store" /\ job[c].op = "switch" => entry # Absent
        /\ pc[c] = "store" /\ job[c].op = "register" => Newer(job[c].arg, tool)
EntryInv ==
    /\ "source" \notin behind
    /\ \A c \in Clients : pc[c] \notin {"entry", "unentry"}
    /\ entry # Absent
    => spec = entry.from

NoCli == Cli = {}

LEMMA OneInside == NoCli /\ LockInv => \A c \in Clients : pc[c] \in Inside => lock = c
  BY DEF NoCli, LockInv, Clients

LEMMA SourceStep == NoCli /\ TypeOK /\ StepInv /\ LockInv /\ SourceInv /\ [Next]_vars => SourceInv'
<1> SUFFICES ASSUME NoCli, TypeOK, StepInv, LockInv, SourceInv, [Next]_vars PROVE SourceInv'
  OBVIOUS
<1> USE DEF SourceInv, StepsOf, Ops
<1>0. pc \in [Clients -> Steps] /\ job \in [Clients -> Jobs] /\ seen \in [Clients -> Texts \cup Entries \cup Tools \cup {Absent}]
  BY DEF TypeOK, Jobs
<1>u. \A c \in Clients : pc[c] \in {"spec", "entry", "unspec", "unentry", "load", "store"} => lock = c
  BY OneInside DEF Inside, Steps
<1>s. \A c \in Clients : job[c].op \in Ops /\ pc[c] \in StepsOf[job[c].op]
  BY DEF StepInv
<1>1. ASSUME NEW c \in Clients, Ask(c) PROVE SourceInv'
  <2>1. PICK j \in (IF c \in Cli THEN ToolJobs ELSE SkillJobs \cup ToolJobs) :
            /\ Goto(c, "idle", IF j.op = "type" THEN "type_meta" ELSE "lock")
            /\ job' = [job EXCEPT ![c] = j]
    BY <1>1 DEF Ask
  <2>2. UNCHANGED <<spec, entry, tool, seen>>
    BY <1>1 DEF Ask
  <2>3. QED
    BY <1>0, <2>1, <2>2
<1>2. ASSUME NEW c \in Clients, TypeMeta(c) PROVE SourceInv'
  BY <1>0, <1>u, <1>s, <1>2 DEF TypeMeta, Answer, Leave
<1>3. ASSUME NEW c \in Clients, TypePrompt(c) PROVE SourceInv'
  <2>1. pc'[c] \in {"idle", "lock"} /\ UNCHANGED <<spec, entry, tool>>
        /\ \A d \in Clients \ {c} : pc'[d] = pc[d] /\ job'[d] = job[d] /\ seen'[d] = seen[d]
    BY <1>0, <1>3 DEF TypePrompt, Answer, Leave
  <2>2. QED
    BY <2>1
<1>4. ASSUME NEW c \in Clients, PutItem(c) PROVE SourceInv'
  BY <1>0, <1>u, <1>s, <1>4 DEF PutItem, Enter
<1>5. ASSUME NEW c \in Clients, PutAgentType(c) PROVE SourceInv'
  BY <1>0, <1>u, <1>s, <1>5 DEF PutAgentType, Enter
<1>6. ASSUME NEW c \in Clients, DeleteItem(c) PROVE SourceInv'
  BY <1>0, <1>u, <1>s, <1>6 DEF DeleteItem, Enter
<1>7. ASSUME NEW c \in Clients, PostDisable(c) PROVE SourceInv'
  BY <1>0, <1>u, <1>s, <1>7 DEF PostDisable, Enter
<1>8. ASSUME NEW c \in Clients, PostToolSource(c) PROVE SourceInv'
  BY <1>0, <1>u, <1>s, <1>8 DEF PostToolSource, Enter
<1>9. ASSUME NEW c \in Clients, DeleteToolSource(c) PROVE SourceInv'
  BY <1>0, <1>u, <1>s, <1>9 DEF DeleteToolSource, Enter
<1>10. ASSUME NEW c \in Clients, PostToolSourceEnable(c) PROVE SourceInv'
  BY <1>0, <1>u, <1>s, <1>10 DEF PostToolSourceEnable, Enter
<1>11. ASSUME NEW c \in Clients, PostRegister(c) PROVE SourceInv'
  BY <1>0, <1>u, <1>s, <1>11 DEF PostRegister, Enter
<1>12. ASSUME NEW c \in Clients, PostUnregister(c) PROVE SourceInv'
  BY <1>0, <1>u, <1>s, <1>12 DEF PostUnregister, Enter
<1>13. ASSUME NEW c \in Clients, PostEnable(c) PROVE SourceInv'
  BY <1>0, <1>u, <1>s, <1>13 DEF PostEnable, Enter
<1>14. ASSUME NEW c \in Clients, Refuse(c) PROVE SourceInv'
  BY <1>0, <1>u, <1>s, <1>14 DEF Refuse, Answer, Leave
<1>15. ASSUME NEW c \in Clients, Audit(c) PROVE SourceInv'
  BY <1>0, <1>u, <1>s, <1>15 DEF Audit, Audited, Answer, Leave
<1>16. ASSUME NEW c \in Clients, Aside(c) PROVE SourceInv'
  BY <1>0, <1>u, <1>s, <1>16 DEF Aside
<1>17. ASSUME NEW c \in Clients, Place(c) PROVE SourceInv'
  BY <1>0, <1>u, <1>s, <1>17 DEF Place
<1>18. ASSUME NEW c \in Clients, Unmark(c) PROVE SourceInv'
  BY <1>0, <1>u, <1>s, <1>18 DEF Unmark
<1>19. ASSUME NEW c \in Clients, Record(c) PROVE SourceInv'
  BY <1>0, <1>u, <1>s, <1>19 DEF Record
<1>20. ASSUME NEW c \in Clients, Delete(c) PROVE SourceInv'
  BY <1>0, <1>u, <1>s, <1>20 DEF Delete
<1>21. ASSUME NEW c \in Clients, Mark(c) PROVE SourceInv'
  BY <1>0, <1>u, <1>s, <1>21 DEF Mark
<1>22. ASSUME NEW c \in Clients, Previewed(c) PROVE SourceInv'
  BY <1>0, <1>u, <1>s, <1>22 DEF Previewed
<1>23. ASSUME NEW c \in Clients, WriteSpec(c) PROVE SourceInv'
  BY <1>0, <1>u, <1>s, <1>23 DEF WriteSpec
<1>24. ASSUME NEW c \in Clients, WriteEntry(c) PROVE SourceInv'
  BY <1>0, <1>u, <1>s, <1>24 DEF WriteEntry
<1>25. ASSUME NEW c \in Clients, RemoveSpec(c) PROVE SourceInv'
  BY <1>0, <1>u, <1>s, <1>25 DEF RemoveSpec
<1>26. ASSUME NEW c \in Clients, RemoveEntry(c) PROVE SourceInv'
  BY <1>0, <1>u, <1>s, <1>26 DEF RemoveEntry
<1>27. ASSUME NEW c \in Clients, Linted(c) PROVE SourceInv'
  BY <1>0, <1>u, <1>s, <1>27 DEF Linted, Answer, Leave
<1>28. ASSUME NEW c \in Clients, LoadRegistered(c) PROVE SourceInv'
  <2>1. /\ pc[c] = "load" /\ UNCHANGED <<spec, entry, tool, job>>
        /\ \A d \in Clients \ {c} : pc'[d] = pc[d] /\ seen'[d] = seen[d]
        /\ pc'[c] \in {"store", "audit"}
        /\ pc'[c] = "store" => seen'[c] = IF job[c].op = "switch" THEN entry ELSE tool
        /\ pc'[c] = "store" /\ job[c].op = "switch" => entry # Absent
        /\ pc'[c] = "store" /\ job[c].op = "register" => Newer(job[c].arg, tool)
    BY <1>0, <1>28 DEF LoadRegistered, Load, Switched
  <2>2. QED
    BY <2>1
<1>29. ASSUME NEW c \in Clients, LoadEnabled(c) PROVE SourceInv'
  <2>1. /\ pc[c] = "load" /\ UNCHANGED <<spec, entry, tool, job>>
        /\ \A d \in Clients \ {c} : pc'[d] = pc[d] /\ seen'[d] = seen[d]
        /\ pc'[c] \in {"store", "audit"}
        /\ pc'[c] = "store" => seen'[c] = IF job[c].op = "switch" THEN entry ELSE tool
        /\ pc'[c] = "store" /\ job[c].op = "switch" => entry # Absent
        /\ pc'[c] = "store" /\ job[c].op = "register" => Newer(job[c].arg, tool)
    BY <1>0, <1>29 DEF LoadEnabled, Load, Switched
  <2>2. QED
    BY <2>1
<1>30. ASSUME NEW c \in Clients, LoadRemoved(c) PROVE SourceInv'
  <2>1. /\ pc[c] = "load" /\ UNCHANGED <<spec, entry, tool, job>>
        /\ \A d \in Clients \ {c} : pc'[d] = pc[d] /\ seen'[d] = seen[d]
        /\ pc'[c] \in {"store", "audit"}
        /\ pc'[c] = "store" => seen'[c] = IF job[c].op = "switch" THEN entry ELSE tool
        /\ pc'[c] = "store" /\ job[c].op = "switch" => entry # Absent
        /\ pc'[c] = "store" /\ job[c].op = "register" => Newer(job[c].arg, tool)
    BY <1>0, <1>30 DEF LoadRemoved, Load, Switched
  <2>2. QED
    BY <2>1
<1>31. ASSUME NEW c \in Clients, LoadSource(c) PROVE SourceInv'
  <2>1. /\ pc[c] = "load" /\ UNCHANGED <<spec, entry, tool, job>>
        /\ \A d \in Clients \ {c} : pc'[d] = pc[d] /\ seen'[d] = seen[d]
        /\ pc'[c] \in {"store", "audit"}
        /\ pc'[c] = "store" => seen'[c] = IF job[c].op = "switch" THEN entry ELSE tool
        /\ pc'[c] = "store" /\ job[c].op = "switch" => entry # Absent
        /\ pc'[c] = "store" /\ job[c].op = "register" => Newer(job[c].arg, tool)
    BY <1>0, <1>31 DEF LoadSource, Load, Switched
  <2>2. QED
    BY <2>1
<1>32. ASSUME NEW c \in Clients, StoreRegistered(c) PROVE SourceInv'
  <2>1. /\ pc[c] = "store" /\ pc'[c] = "audit" /\ UNCHANGED <<spec, seen, job>>
        /\ \A d \in Clients \ {c} : pc'[d] = pc[d]
    BY <1>0, <1>32 DEF StoreRegistered, Store
  <2>2. \A d \in Clients : d # c => pc[d] \notin {"entry", "store"}
    BY <1>u, <2>1
  <2>3. QED
    BY <2>1, <2>2
<1>33. ASSUME NEW c \in Clients, StoreEnabled(c) PROVE SourceInv'
  <2>1. /\ pc[c] = "store" /\ pc'[c] = "audit" /\ UNCHANGED <<spec, seen, job>>
        /\ \A d \in Clients \ {c} : pc'[d] = pc[d]
    BY <1>0, <1>33 DEF StoreEnabled, Store
  <2>2. \A d \in Clients : d # c => pc[d] \notin {"entry", "store"}
    BY <1>u, <2>1
  <2>3. QED
    BY <2>1, <2>2
<1>34. ASSUME NEW c \in Clients, StoreRemoved(c) PROVE SourceInv'
  <2>1. /\ pc[c] = "store" /\ pc'[c] = "audit" /\ UNCHANGED <<spec, seen, job>>
        /\ \A d \in Clients \ {c} : pc'[d] = pc[d]
    BY <1>0, <1>34 DEF StoreRemoved, Store
  <2>2. \A d \in Clients : d # c => pc[d] \notin {"entry", "store"}
    BY <1>u, <2>1
  <2>3. QED
    BY <2>1, <2>2
<1>35. ASSUME NEW c \in Clients, StoreSource(c) PROVE SourceInv'
  <2>1. /\ pc[c] = "store" /\ pc'[c] = "audit" /\ UNCHANGED <<spec, seen, job>>
        /\ \A d \in Clients \ {c} : pc'[d] = pc[d]
    BY <1>0, <1>35 DEF StoreSource, Store
  <2>2. \A d \in Clients : d # c => pc[d] \notin {"entry", "store"}
    BY <1>u, <2>1
  <2>3. QED
    BY <2>1, <2>2
<1>36. ASSUME NEW c \in Clients, Fail(c) PROVE SourceInv'
  BY <1>0, <1>u, <1>s, <1>36 DEF Fail, Answer, Leave
<1>37. ASSUME NEW r \in Readers, List(r) PROVE SourceInv'
  BY <1>37 DEF List
<1>38. ASSUME NEW r \in Readers, HashPrompt(r) PROVE SourceInv'
  BY <1>38 DEF HashPrompt, HashFile
<1>39. ASSUME NEW r \in Readers, HashMeta(r) PROVE SourceInv'
  BY <1>39 DEF HashMeta, HashFile
<1>40. ASSUME NEW r \in Readers, Lookup(r) PROVE SourceInv'
  BY <1>40 DEF Lookup, Done
<1>41. ASSUME NEW r \in Readers, ReadMeta(r) PROVE SourceInv'
  BY <1>41 DEF ReadMeta
<1>42. ASSUME NEW r \in Readers, ReadMarker(r) PROVE SourceInv'
  BY <1>42 DEF ReadMarker
<1>43. ASSUME NEW r \in Readers, ReadPrompt(r) PROVE SourceInv'
  BY <1>43 DEF ReadPrompt
<1>44. ASSUME NEW r \in Readers, ReadRevision(r) PROVE SourceInv'
  BY <1>44 DEF ReadRevision
<1>45. ASSUME NEW r \in Readers, Keep(r) PROVE SourceInv'
  BY <1>45 DEF Keep, Done
<1>46. CASE Crash
  <2>1. PICK dead \in {Threads} \cup {{k} : k \in Cli} :
            /\ pc' = [c \in Clients |-> IF c \in dead THEN "idle" ELSE pc[c]]
            /\ job' = [c \in Clients |-> IF c \in dead THEN NoJob ELSE job[c]]
            /\ seen' = [c \in Clients |-> IF c \in dead THEN Absent ELSE seen[c]]
    BY <1>46 DEF Crash
  <2>2. UNCHANGED <<spec, entry, tool>>
    BY <1>46 DEF Crash
  <2>3. QED
    BY <2>1, <2>2
<1>47. CASE UNCHANGED vars
  BY <1>0, <1>47 DEF vars
<1> HIDE DEF SourceInv, StepsOf, Ops
<1>48. QED
  BY <1>1, <1>2, <1>3, <1>4, <1>5, <1>6, <1>7, <1>8, <1>9, <1>10, <1>11, <1>12, <1>13, <1>14, <1>15, <1>16, <1>17, <1>18, <1>19, <1>20, <1>21, <1>22, <1>23, <1>24, <1>25, <1>26, <1>27, <1>28, <1>29, <1>30, <1>31, <1>32, <1>33, <1>34, <1>35, <1>36, <1>37, <1>38, <1>39, <1>40, <1>41, <1>42, <1>43, <1>44, <1>45, <1>46, <1>47 DEF Next, Serve, Handle, Resolve

LEMMA EntryStep == NoCli /\ TypeOK /\ StepInv /\ LockInv /\ SourceInv /\ EntryInv /\ [Next]_vars => EntryInv'
<1> SUFFICES ASSUME NoCli, TypeOK, StepInv, LockInv, SourceInv, EntryInv, [Next]_vars PROVE EntryInv'
  OBVIOUS
<1> USE DEF EntryInv
<1>0. pc \in [Clients -> Steps] /\ entry \in Entries \cup {Absent}
  BY DEF TypeOK
<1>u. \A c \in Clients : pc[c] \in {"spec", "entry", "unspec", "unentry", "load", "store"} => lock = c
  BY OneInside DEF Inside, Steps
<1>1. ASSUME NEW c \in Clients, Ask(c) PROVE EntryInv'
  BY <1>0, <1>1 DEF Ask
<1>2. ASSUME NEW c \in Clients, TypeMeta(c) PROVE EntryInv'
  BY <1>0, <1>2 DEF TypeMeta, Answer, Leave
<1>3. ASSUME NEW c \in Clients, TypePrompt(c) PROVE EntryInv'
  BY <1>0, <1>3 DEF TypePrompt, Answer, Leave
<1>4. ASSUME NEW c \in Clients, PutItem(c) PROVE EntryInv'
  BY <1>0, <1>4 DEF PutItem, Enter
<1>5. ASSUME NEW c \in Clients, PutAgentType(c) PROVE EntryInv'
  BY <1>0, <1>5 DEF PutAgentType, Enter
<1>6. ASSUME NEW c \in Clients, DeleteItem(c) PROVE EntryInv'
  BY <1>0, <1>6 DEF DeleteItem, Enter
<1>7. ASSUME NEW c \in Clients, PostDisable(c) PROVE EntryInv'
  BY <1>0, <1>7 DEF PostDisable, Enter
<1>8. ASSUME NEW c \in Clients, PostToolSource(c) PROVE EntryInv'
  BY <1>0, <1>8 DEF PostToolSource, Enter
<1>9. ASSUME NEW c \in Clients, DeleteToolSource(c) PROVE EntryInv'
  BY <1>0, <1>9 DEF DeleteToolSource, Enter
<1>10. ASSUME NEW c \in Clients, PostToolSourceEnable(c) PROVE EntryInv'
  BY <1>0, <1>10 DEF PostToolSourceEnable, Enter
<1>11. ASSUME NEW c \in Clients, PostRegister(c) PROVE EntryInv'
  BY <1>0, <1>11 DEF PostRegister, Enter
<1>12. ASSUME NEW c \in Clients, PostUnregister(c) PROVE EntryInv'
  BY <1>0, <1>12 DEF PostUnregister, Enter
<1>13. ASSUME NEW c \in Clients, PostEnable(c) PROVE EntryInv'
  BY <1>0, <1>13 DEF PostEnable, Enter
<1>14. ASSUME NEW c \in Clients, Refuse(c) PROVE EntryInv'
  BY <1>0, <1>14 DEF Refuse, Answer, Leave
<1>15. ASSUME NEW c \in Clients, Audit(c) PROVE EntryInv'
  BY <1>0, <1>15 DEF Audit, Audited, Answer, Leave
<1>16. ASSUME NEW c \in Clients, Aside(c) PROVE EntryInv'
  BY <1>0, <1>16 DEF Aside
<1>17. ASSUME NEW c \in Clients, Place(c) PROVE EntryInv'
  BY <1>0, <1>17 DEF Place
<1>18. ASSUME NEW c \in Clients, Unmark(c) PROVE EntryInv'
  BY <1>0, <1>18 DEF Unmark
<1>19. ASSUME NEW c \in Clients, Record(c) PROVE EntryInv'
  BY <1>0, <1>19 DEF Record
<1>20. ASSUME NEW c \in Clients, Delete(c) PROVE EntryInv'
  BY <1>0, <1>20 DEF Delete
<1>21. ASSUME NEW c \in Clients, Mark(c) PROVE EntryInv'
  BY <1>0, <1>21 DEF Mark
<1>22. ASSUME NEW c \in Clients, Previewed(c) PROVE EntryInv'
  BY <1>0, <1>22 DEF Previewed
<1>23. ASSUME NEW c \in Clients, WriteSpec(c) PROVE EntryInv'
  BY <1>0, <1>23 DEF WriteSpec
<1>24. ASSUME NEW c \in Clients, WriteEntry(c) PROVE EntryInv'
  <2>1. spec = job[c].arg.from /\ spec' = spec /\ entry' = [from |-> job[c].arg.from, on |-> TRUE]
    BY <1>0, <1>24 DEF WriteEntry, SourceInv
  <2>2. QED
    BY <2>1
<1>25. ASSUME NEW c \in Clients, RemoveSpec(c) PROVE EntryInv'
  BY <1>0, <1>25 DEF RemoveSpec
<1>26. ASSUME NEW c \in Clients, RemoveEntry(c) PROVE EntryInv'
  BY <1>0, <1>26 DEF RemoveEntry
<1>27. ASSUME NEW c \in Clients, Linted(c) PROVE EntryInv'
  BY <1>0, <1>27 DEF Linted, Answer, Leave
<1>28. ASSUME NEW c \in Clients, LoadRegistered(c) PROVE EntryInv'
  BY <1>0, <1>28 DEF LoadRegistered, Load
<1>29. ASSUME NEW c \in Clients, LoadEnabled(c) PROVE EntryInv'
  BY <1>0, <1>29 DEF LoadEnabled, Load
<1>30. ASSUME NEW c \in Clients, LoadRemoved(c) PROVE EntryInv'
  BY <1>0, <1>30 DEF LoadRemoved, Load
<1>31. ASSUME NEW c \in Clients, LoadSource(c) PROVE EntryInv'
  BY <1>0, <1>31 DEF LoadSource, Load
<1>32. ASSUME NEW c \in Clients, StoreRegistered(c) PROVE EntryInv'
  BY <1>0, <1>32 DEF StoreRegistered, Store
<1>33. ASSUME NEW c \in Clients, StoreEnabled(c) PROVE EntryInv'
  BY <1>0, <1>33 DEF StoreEnabled, Store
<1>34. ASSUME NEW c \in Clients, StoreRemoved(c) PROVE EntryInv'
  BY <1>0, <1>34 DEF StoreRemoved, Store
<1>35. ASSUME NEW c \in Clients, StoreSource(c) PROVE EntryInv'
  <2>1. seen[c] = entry /\ seen[c] \in Entries /\ pc[c] = "store" /\ spec' = spec /\ behind' = behind
        /\ entry' = [seen[c] EXCEPT !.on = job[c].arg]
    BY <1>35 DEF StoreSource, Store, SourceInv, StepInv
  <2>2. \A d \in Clients : pc[d] \notin {"entry", "unentry"}
    BY <1>u, <2>1
  <2>3. entry # Absent
    BY <1>35 DEF StoreSource, Store, SourceInv
  <2>4. entry'.from = entry.from
    BY <2>1 DEF Entries
  <2>5. QED
    BY <2>1, <2>2, <2>3, <2>4
<1>36. ASSUME NEW c \in Clients, Fail(c) PROVE EntryInv'
  <2>1. SUFFICES ASSUME "source" \notin behind', \A d \in Clients : pc'[d] \notin {"entry", "unentry"}, entry # Absent
                 PROVE  spec = entry.from
    BY <1>36 DEF Fail
  <2>2. behind' = behind \cup LeftBehind(c) /\ \A d \in Clients \ {c} : pc'[d] = pc[d]
    BY <1>0, <1>36 DEF Fail, Answer
  <2>3. CASE pc[c] \in {"entry", "unentry"}
    BY <2>1, <2>2, <2>3 DEF LeftBehind
  <2>4. CASE pc[c] \notin {"entry", "unentry"}
    BY <2>1, <2>2, <2>4
  <2>5. QED
    BY <2>3, <2>4
<1>37. ASSUME NEW r \in Readers, List(r) PROVE EntryInv'
  BY <1>37 DEF List
<1>38. ASSUME NEW r \in Readers, HashPrompt(r) PROVE EntryInv'
  BY <1>38 DEF HashPrompt, HashFile
<1>39. ASSUME NEW r \in Readers, HashMeta(r) PROVE EntryInv'
  BY <1>39 DEF HashMeta, HashFile
<1>40. ASSUME NEW r \in Readers, Lookup(r) PROVE EntryInv'
  BY <1>40 DEF Lookup, Done
<1>41. ASSUME NEW r \in Readers, ReadMeta(r) PROVE EntryInv'
  BY <1>41 DEF ReadMeta
<1>42. ASSUME NEW r \in Readers, ReadMarker(r) PROVE EntryInv'
  BY <1>42 DEF ReadMarker
<1>43. ASSUME NEW r \in Readers, ReadPrompt(r) PROVE EntryInv'
  BY <1>43 DEF ReadPrompt
<1>44. ASSUME NEW r \in Readers, ReadRevision(r) PROVE EntryInv'
  BY <1>44 DEF ReadRevision
<1>45. ASSUME NEW r \in Readers, Keep(r) PROVE EntryInv'
  BY <1>45 DEF Keep, Done
<1>46. CASE Crash
  <2>1. PICK dead \in {Threads} \cup {{k} : k \in Cli} :
            /\ pc' = [c \in Clients |-> IF c \in dead THEN "idle" ELSE pc[c]]
            /\ behind' = behind \cup UNION {LeftBehind(c) : c \in dead}
    BY <1>46 DEF Crash
  <2>2. UNCHANGED <<spec, entry>>
    BY <1>46 DEF Crash
  <2>3. SUFFICES ASSUME "source" \notin behind', \A c \in Clients : pc'[c] \notin {"entry", "unentry"}, entry # Absent
                 PROVE  spec = entry.from
    BY <2>2
  <2>4. CASE \E c \in dead : pc[c] \in {"entry", "unentry"}
    <3>1. PICK c \in dead : pc[c] \in {"entry", "unentry"}
      BY <2>4
    <3>2. "source" \notin LeftBehind(c)
      BY <2>1, <2>3, <3>1
    <3>3. QED
      BY <2>3, <3>1, <3>2 DEF LeftBehind
  <2>5. CASE \A c \in dead : pc[c] \notin {"entry", "unentry"}
    <3>1. \A c \in Clients : pc[c] \notin {"entry", "unentry"}
      BY <1>0, <2>1, <2>3, <2>5
    <3>2. QED
      BY <2>1, <2>3, <3>1
  <2>6. QED
    BY <2>4, <2>5
<1>47. CASE UNCHANGED vars
  BY <1>0, <1>47 DEF vars
<1> HIDE DEF EntryInv
<1>48. QED
  BY <1>1, <1>2, <1>3, <1>4, <1>5, <1>6, <1>7, <1>8, <1>9, <1>10, <1>11, <1>12, <1>13, <1>14, <1>15, <1>16, <1>17, <1>18, <1>19, <1>20, <1>21, <1>22, <1>23, <1>24, <1>25, <1>26, <1>27, <1>28, <1>29, <1>30, <1>31, <1>32, <1>33, <1>34, <1>35, <1>36, <1>37, <1>38, <1>39, <1>40, <1>41, <1>42, <1>43, <1>44, <1>45, <1>46, <1>47 DEF Next, Serve, Handle, Resolve

\* The last revision of the history is the skill on disk whenever no request is at work,
\* however many threads and command lines there are, unless a crash behind a write.
THEOREM HistoryKept == Spec => []HistoryFollowsDisk
<1>1. Init => HistInv
  BY DEF Init, HistInv
<1>2. StepInv /\ LockInv /\ HistInv => HistoryFollowsDisk
  BY OneAtWork, SetupsAssumption DEF SetupsAssumption, SkillSteps, HistInv, HistoryFollowsDisk
<1>3. QED
  BY <1>1, <1>2, InitInv, TypeStep, StepStep, LockStep, HistStep, PTL DEF Spec

LEMMA SourcesStay == NoCli => (Spec => [](TypeOK /\ StepInv /\ LockInv /\ SourceInv /\ EntryInv))
<1> SUFFICES ASSUME NoCli PROVE Spec => [](TypeOK /\ StepInv /\ LockInv /\ SourceInv /\ EntryInv)
  OBVIOUS
<1>1. Init => SourceInv /\ EntryInv
  BY DEF Init, SourceInv, EntryInv
<1>2. /\ TypeOK /\ StepInv /\ LockInv /\ SourceInv /\ [Next]_vars => SourceInv'
      /\ TypeOK /\ StepInv /\ LockInv /\ SourceInv /\ EntryInv /\ [Next]_vars => EntryInv'
  BY SourceStep, EntryStep
<1>3. QED
  BY <1>1, <1>2, InitInv, TypeStep, StepStep, LockStep, PTL DEF Spec

\* Without command lines that write beside the service, a source's entry has the spec it was
\* made from too.
THEOREM Coherent == NoCli => (Spec => []LayerIsCoherent)
<1> SUFFICES ASSUME NoCli PROVE Spec => []LayerIsCoherent
  OBVIOUS
<1>1. LockInv /\ EntryInv => EntryHasItsSpec
  BY OneInside, SetupsAssumption DEF SetupsAssumption, Inside, Steps, EntryInv, EntryHasItsSpec, Clients, NoCli
<1>2. Spec => [](TypeOK /\ StepInv /\ LockInv /\ SourceInv /\ EntryInv)
  BY SourcesStay
<1>3. QED
  BY <1>1, <1>2, HistoryKept, PTL DEF LayerIsCoherent

LEMMA VersionStep ==
    TypeOK /\ StepInv /\ SourceInv /\ [Next]_vars /\ tool # Absent /\ tool' # Absent =>
        tool'.version > tool.version \/ (tool'.version = tool.version /\ tool'.decl = tool.decl)
<1> SUFFICES ASSUME TypeOK, StepInv, SourceInv, [Next]_vars, tool # Absent, tool' # Absent
             PROVE  tool'.version > tool.version \/ (tool'.version = tool.version /\ tool'.decl = tool.decl)
  OBVIOUS
<1>0. tool \in Tools
  BY DEF TypeOK
<1>1. ASSUME NEW c \in Clients, StoreRegistered(c)
      PROVE  tool'.version > tool.version
  BY <1>1 DEF StoreRegistered, Store, SourceInv, Newer
<1>2. ASSUME NEW c \in Clients, StoreEnabled(c)
      PROVE  tool'.version = tool.version /\ tool'.decl = tool.decl
  <2>1. seen[c] = tool
    BY <1>2 DEF StoreEnabled, Store, SourceInv
  <2>2. QED
    BY <1>0, <1>2, <2>1 DEF StoreEnabled, Store, Tools
<1>3. CASE \A c \in Clients : ~StoreRegistered(c) /\ ~StoreEnabled(c)
  <2>1. CASE \E c \in Clients : Ask(c) \/ Handle(c)
    <3>1. tool' = tool
      BY <2>1 DEF Handle, Ask, PutItem, PutAgentType, DeleteItem, PostDisable, PostToolSource, DeleteToolSource, PostToolSourceEnable, PostRegister, PostUnregister, PostEnable, Enter, Answer
    <3>2. QED
      BY <3>1
  <2>2. CASE \E c \in Clients : (Serve(c) \/ Fail(c)) /\ ~Handle(c) /\ ~StoreRemoved(c)
    <3>1. PICK c \in Clients : (Serve(c) \/ Fail(c)) /\ ~Handle(c) /\ ~StoreRemoved(c)
      BY <2>2
    <3>2. CASE TypeMeta(c) \/ TypePrompt(c) \/ Refuse(c) \/ Audit(c) \/ Aside(c) \/ Place(c) \/ Unmark(c) \/ Record(c) \/ Delete(c) \/ Mark(c) \/ Fail(c)
      BY <3>2 DEF TypeMeta, TypePrompt, Refuse, Audit, Audited, Aside, Place, Unmark, Record, Delete, Mark, Fail, Answer, Done
    <3>3. CASE Previewed(c) \/ Linted(c) \/ WriteSpec(c) \/ WriteEntry(c) \/ RemoveSpec(c) \/ RemoveEntry(c) \/ LoadRegistered(c) \/ LoadEnabled(c) \/ LoadRemoved(c) \/ LoadSource(c) \/ StoreSource(c)
      BY <3>3 DEF Previewed, Linted, Answer, WriteSpec, WriteEntry, RemoveSpec, RemoveEntry, LoadRegistered, LoadEnabled, LoadRemoved, LoadSource, StoreSource, Load, Store
    <3>4. QED
      BY <1>3, <3>1, <3>2, <3>3 DEF Serve
  <2>3. CASE \E c \in Clients : StoreRemoved(c)
    BY <2>3 DEF StoreRemoved
  <2>4. CASE (\E r \in Readers : Resolve(r)) \/ Crash \/ UNCHANGED vars
    <3>1. tool' = tool
      BY <2>4 DEF Resolve, vars, List, HashPrompt, HashMeta, Lookup, ReadMeta, ReadMarker, ReadPrompt, ReadRevision, Keep, HashFile, Done, Crash
    <3>2. QED
      BY <3>1
  <2>5. QED
    BY <2>1, <2>2, <2>3, <2>4 DEF Next, Serve
<1>4. QED
  BY <1>1, <1>2, <1>3

\* Without command lines, a registered tool's content changes with its version only, and its
\* version only grows.
THEOREM VersionsOnlyGrow == NoCli => (Spec => VersionsGrow)
<1> SUFFICES ASSUME NoCli PROVE Spec => VersionsGrow
  OBVIOUS
<1>1. TypeOK /\ StepInv /\ SourceInv /\ [Next]_vars =>
        [tool # Absent /\ tool' # Absent =>
            tool'.version > tool.version \/ (tool'.version = tool.version /\ tool'.decl = tool.decl)]_vars
  BY VersionStep
<1>2. Spec => [](TypeOK /\ StepInv /\ LockInv /\ SourceInv /\ EntryInv)
  BY SourcesStay
<1>3. QED
  BY <1>1, <1>2, PTL DEF Spec, VersionsGrow

(***************************************************************************)
(* The cache.                                                              *)
(***************************************************************************)

(* What a digest says was there.                                            *)
ValueOf(d) == IF d.meta = Absent \/ d.marker THEN Absent ELSE [meta |-> d.meta, prompt |-> d.prompt]

(* A reader nobody has disturbed has hashed and read what is there.         *)
Unread == IF skill = Absent THEN Absent ELSE Gone
Prompt == IF skill = Absent THEN Absent ELSE skill.prompt
TrueSoFar(r) ==
    /\ rpc[r] = "hash_prompt" => digest[r] = [prompt |-> Unread, meta |-> Unread, marker |-> marker]
    /\ rpc[r] = "hash_meta" => digest[r] = [prompt |-> Prompt, meta |-> Unread, marker |-> marker]
    /\ rpc[r] \in ReaderSteps \ {"idle", "hash_prompt", "hash_meta"} => digest[r] = DigestOnDisk
    /\ rpc[r] \in {"read_marker", "read_prompt", "read_revision"} => skill # Absent /\ value[r].meta = skill.meta
    /\ rpc[r] \in {"read_prompt", "read_revision"} => ~marker
    /\ rpc[r] = "read_revision" => value[r].prompt = skill.prompt
    /\ rpc[r] = "keep" => Files(value[r]) = ValueOf(DigestOnDisk)
ReadInv == \A r \in Readers : clean[r] => TrueSoFar(r)
CacheInv == cache # Absent /\ cache.clean => Files(cache.value) = ValueOf(cache.digest)

LEMMA Digested == TypeOK => ValueOf(DigestOnDisk) = Files(OnDisk)
<1> SUFFICES ASSUME TypeOK PROVE ValueOf(DigestOnDisk) = Files(OnDisk)
  OBVIOUS
<1> USE SetupsAssumption DEF SetupsAssumption, ValueOf, DigestOnDisk, OnDisk, Files
<1>1. CASE skill = Absent \/ marker
  BY <1>1
<1>2. CASE skill # Absent /\ ~marker
  <2>1. skill.meta \in Texts /\ skill.meta # Absent /\ history.revision \in Nat /\ skill.prompt \in Texts
    BY <1>2 DEF TypeOK, Skills, Histories
  <2>2. [meta |-> skill.meta, prompt |-> skill.prompt, revision |-> history.revision] \in Resolved
    BY <2>1 DEF Resolved
  <2>3. QED
    BY <1>2, <2>1, <2>2
<1>3. QED
  BY <1>1, <1>2

(* A step that changes nothing a reader has read or disturbs them all.      *)
LEMMA Untouched ==
    ASSUME ReadInv, CacheInv, UNCHANGED <<rpc, digest, value, cache>>, TypeOK,
           Disturb \/ UNCHANGED <<skill, marker, clean>>
    PROVE  ReadInv' /\ CacheInv'
<1>1. CacheInv'
  BY DEF CacheInv, ValueOf
<1>2. CASE UNCHANGED <<skill, marker, clean>>
  BY <1>1, <1>2 DEF ReadInv, TrueSoFar, Unread, Prompt, DigestOnDisk, ValueOf, ReaderSteps
<1>3. CASE Disturb
  BY <1>1, <1>3 DEF ReadInv, TrueSoFar
<1>4. QED
  BY <1>2, <1>3

LEMMA CacheStep == TypeOK /\ ViewInv /\ ReadInv /\ CacheInv /\ [Next]_vars => ReadInv' /\ CacheInv'
<1> SUFFICES ASSUME TypeOK, ViewInv, ReadInv, CacheInv, [Next]_vars PROVE ReadInv' /\ CacheInv'
  OBVIOUS
<1>0. /\ rpc \in [Readers -> ReaderSteps] /\ digest \in [Readers -> Digests] /\ value \in [Readers -> Views]
      /\ clean \in [Readers -> BOOLEAN] /\ skill \in Skills \cup {Absent} /\ marker \in BOOLEAN
  BY DEF TypeOK
<1>g. Gone # Absent
  BY SetupsAssumption DEF SetupsAssumption
<1>o. ASSUME NEW r \in Readers, UNCHANGED <<skill, marker>>,
             \A q \in Readers \ {r} : rpc'[q] = rpc[q] /\ digest'[q] = digest[q] /\ value'[q] = value[q] /\ clean'[q] = clean[q],
             clean'[r] => TrueSoFar(r)'
      PROVE  ReadInv'
  BY <1>o DEF ReadInv, TrueSoFar, Unread, Prompt, DigestOnDisk, ValueOf, ReaderSteps
<1>c. cache' = cache => CacheInv'
  BY DEF CacheInv, ValueOf
<1>t. \A r \in Readers : clean[r] => TrueSoFar(r)
  BY DEF ReadInv
<1>1. ASSUME NEW c \in Clients, Ask(c) PROVE ReadInv' /\ CacheInv'
  <2>1. UNCHANGED <<rpc, digest, value, cache>> /\ (Disturb \/ UNCHANGED <<skill, marker, clean>>)
    BY <1>0, <1>1 DEF Ask
  <2>2. QED
    BY <2>1, Untouched
<1>2. ASSUME NEW c \in Clients, TypeMeta(c) PROVE ReadInv' /\ CacheInv'
  <2>1. UNCHANGED <<rpc, digest, value, cache>> /\ (Disturb \/ UNCHANGED <<skill, marker, clean>>)
    BY <1>0, <1>2 DEF TypeMeta, Answer, Leave
  <2>2. QED
    BY <2>1, Untouched
<1>3. ASSUME NEW c \in Clients, TypePrompt(c) PROVE ReadInv' /\ CacheInv'
  <2>1. UNCHANGED <<rpc, digest, value, cache>> /\ (Disturb \/ UNCHANGED <<skill, marker, clean>>)
    BY <1>0, <1>3 DEF TypePrompt, Answer, Leave
  <2>2. QED
    BY <2>1, Untouched
<1>4. ASSUME NEW c \in Clients, PutItem(c) PROVE ReadInv' /\ CacheInv'
  <2>1. UNCHANGED <<rpc, digest, value, cache>> /\ (Disturb \/ UNCHANGED <<skill, marker, clean>>)
    BY <1>0, <1>4 DEF PutItem, Enter
  <2>2. QED
    BY <2>1, Untouched
<1>5. ASSUME NEW c \in Clients, PutAgentType(c) PROVE ReadInv' /\ CacheInv'
  <2>1. UNCHANGED <<rpc, digest, value, cache>> /\ (Disturb \/ UNCHANGED <<skill, marker, clean>>)
    BY <1>0, <1>5 DEF PutAgentType, Enter
  <2>2. QED
    BY <2>1, Untouched
<1>6. ASSUME NEW c \in Clients, DeleteItem(c) PROVE ReadInv' /\ CacheInv'
  <2>1. UNCHANGED <<rpc, digest, value, cache>> /\ (Disturb \/ UNCHANGED <<skill, marker, clean>>)
    BY <1>0, <1>6 DEF DeleteItem, Enter
  <2>2. QED
    BY <2>1, Untouched
<1>7. ASSUME NEW c \in Clients, PostDisable(c) PROVE ReadInv' /\ CacheInv'
  <2>1. UNCHANGED <<rpc, digest, value, cache>> /\ (Disturb \/ UNCHANGED <<skill, marker, clean>>)
    BY <1>0, <1>7 DEF PostDisable, Enter
  <2>2. QED
    BY <2>1, Untouched
<1>8. ASSUME NEW c \in Clients, PostToolSource(c) PROVE ReadInv' /\ CacheInv'
  <2>1. UNCHANGED <<rpc, digest, value, cache>> /\ (Disturb \/ UNCHANGED <<skill, marker, clean>>)
    BY <1>0, <1>8 DEF PostToolSource, Enter
  <2>2. QED
    BY <2>1, Untouched
<1>9. ASSUME NEW c \in Clients, DeleteToolSource(c) PROVE ReadInv' /\ CacheInv'
  <2>1. UNCHANGED <<rpc, digest, value, cache>> /\ (Disturb \/ UNCHANGED <<skill, marker, clean>>)
    BY <1>0, <1>9 DEF DeleteToolSource, Enter
  <2>2. QED
    BY <2>1, Untouched
<1>10. ASSUME NEW c \in Clients, PostToolSourceEnable(c) PROVE ReadInv' /\ CacheInv'
  <2>1. UNCHANGED <<rpc, digest, value, cache>> /\ (Disturb \/ UNCHANGED <<skill, marker, clean>>)
    BY <1>0, <1>10 DEF PostToolSourceEnable, Enter
  <2>2. QED
    BY <2>1, Untouched
<1>11. ASSUME NEW c \in Clients, PostRegister(c) PROVE ReadInv' /\ CacheInv'
  <2>1. UNCHANGED <<rpc, digest, value, cache>> /\ (Disturb \/ UNCHANGED <<skill, marker, clean>>)
    BY <1>0, <1>11 DEF PostRegister, Enter
  <2>2. QED
    BY <2>1, Untouched
<1>12. ASSUME NEW c \in Clients, PostUnregister(c) PROVE ReadInv' /\ CacheInv'
  <2>1. UNCHANGED <<rpc, digest, value, cache>> /\ (Disturb \/ UNCHANGED <<skill, marker, clean>>)
    BY <1>0, <1>12 DEF PostUnregister, Enter
  <2>2. QED
    BY <2>1, Untouched
<1>13. ASSUME NEW c \in Clients, PostEnable(c) PROVE ReadInv' /\ CacheInv'
  <2>1. UNCHANGED <<rpc, digest, value, cache>> /\ (Disturb \/ UNCHANGED <<skill, marker, clean>>)
    BY <1>0, <1>13 DEF PostEnable, Enter
  <2>2. QED
    BY <2>1, Untouched
<1>14. ASSUME NEW c \in Clients, Refuse(c) PROVE ReadInv' /\ CacheInv'
  <2>1. UNCHANGED <<rpc, digest, value, cache>> /\ (Disturb \/ UNCHANGED <<skill, marker, clean>>)
    BY <1>0, <1>14 DEF Refuse, Answer, Leave
  <2>2. QED
    BY <2>1, Untouched
<1>15. ASSUME NEW c \in Clients, Audit(c) PROVE ReadInv' /\ CacheInv'
  <2>1. UNCHANGED <<rpc, digest, value, cache>> /\ (Disturb \/ UNCHANGED <<skill, marker, clean>>)
    BY <1>0, <1>15 DEF Audit, Audited, Answer, Leave
  <2>2. QED
    BY <2>1, Untouched
<1>16. ASSUME NEW c \in Clients, Aside(c) PROVE ReadInv' /\ CacheInv'
  <2>1. UNCHANGED <<rpc, digest, value, cache>> /\ (Disturb \/ UNCHANGED <<skill, marker, clean>>)
    BY <1>0, <1>16 DEF Aside
  <2>2. QED
    BY <2>1, Untouched
<1>17. ASSUME NEW c \in Clients, Place(c) PROVE ReadInv' /\ CacheInv'
  <2>1. UNCHANGED <<rpc, digest, value, cache>> /\ (Disturb \/ UNCHANGED <<skill, marker, clean>>)
    BY <1>0, <1>17 DEF Place
  <2>2. QED
    BY <2>1, Untouched
<1>18. ASSUME NEW c \in Clients, Unmark(c) PROVE ReadInv' /\ CacheInv'
  <2>1. UNCHANGED <<rpc, digest, value, cache>> /\ (Disturb \/ UNCHANGED <<skill, marker, clean>>)
    BY <1>0, <1>18 DEF Unmark
  <2>2. QED
    BY <2>1, Untouched
<1>19. ASSUME NEW c \in Clients, Record(c) PROVE ReadInv' /\ CacheInv'
  <2>1. UNCHANGED <<rpc, digest, value, cache>> /\ (Disturb \/ UNCHANGED <<skill, marker, clean>>)
    BY <1>0, <1>19 DEF Record
  <2>2. QED
    BY <2>1, Untouched
<1>20. ASSUME NEW c \in Clients, Delete(c) PROVE ReadInv' /\ CacheInv'
  <2>1. UNCHANGED <<rpc, digest, value, cache>> /\ (Disturb \/ UNCHANGED <<skill, marker, clean>>)
    BY <1>0, <1>20 DEF Delete
  <2>2. QED
    BY <2>1, Untouched
<1>21. ASSUME NEW c \in Clients, Mark(c) PROVE ReadInv' /\ CacheInv'
  <2>1. UNCHANGED <<rpc, digest, value, cache>> /\ (Disturb \/ UNCHANGED <<skill, marker, clean>>)
    BY <1>0, <1>21 DEF Mark
  <2>2. QED
    BY <2>1, Untouched
<1>22. ASSUME NEW c \in Clients, Previewed(c) PROVE ReadInv' /\ CacheInv'
  <2>1. UNCHANGED <<rpc, digest, value, cache>> /\ (Disturb \/ UNCHANGED <<skill, marker, clean>>)
    BY <1>0, <1>22 DEF Previewed
  <2>2. QED
    BY <2>1, Untouched
<1>23. ASSUME NEW c \in Clients, WriteSpec(c) PROVE ReadInv' /\ CacheInv'
  <2>1. UNCHANGED <<rpc, digest, value, cache>> /\ (Disturb \/ UNCHANGED <<skill, marker, clean>>)
    BY <1>0, <1>23 DEF WriteSpec
  <2>2. QED
    BY <2>1, Untouched
<1>24. ASSUME NEW c \in Clients, WriteEntry(c) PROVE ReadInv' /\ CacheInv'
  <2>1. UNCHANGED <<rpc, digest, value, cache>> /\ (Disturb \/ UNCHANGED <<skill, marker, clean>>)
    BY <1>0, <1>24 DEF WriteEntry
  <2>2. QED
    BY <2>1, Untouched
<1>25. ASSUME NEW c \in Clients, RemoveSpec(c) PROVE ReadInv' /\ CacheInv'
  <2>1. UNCHANGED <<rpc, digest, value, cache>> /\ (Disturb \/ UNCHANGED <<skill, marker, clean>>)
    BY <1>0, <1>25 DEF RemoveSpec
  <2>2. QED
    BY <2>1, Untouched
<1>26. ASSUME NEW c \in Clients, RemoveEntry(c) PROVE ReadInv' /\ CacheInv'
  <2>1. UNCHANGED <<rpc, digest, value, cache>> /\ (Disturb \/ UNCHANGED <<skill, marker, clean>>)
    BY <1>0, <1>26 DEF RemoveEntry
  <2>2. QED
    BY <2>1, Untouched
<1>27. ASSUME NEW c \in Clients, Linted(c) PROVE ReadInv' /\ CacheInv'
  <2>1. UNCHANGED <<rpc, digest, value, cache>> /\ (Disturb \/ UNCHANGED <<skill, marker, clean>>)
    BY <1>0, <1>27 DEF Linted, Answer, Leave
  <2>2. QED
    BY <2>1, Untouched
<1>28. ASSUME NEW c \in Clients, LoadRegistered(c) PROVE ReadInv' /\ CacheInv'
  <2>1. UNCHANGED <<rpc, digest, value, cache>> /\ (Disturb \/ UNCHANGED <<skill, marker, clean>>)
    BY <1>0, <1>28 DEF LoadRegistered, Load
  <2>2. QED
    BY <2>1, Untouched
<1>29. ASSUME NEW c \in Clients, LoadEnabled(c) PROVE ReadInv' /\ CacheInv'
  <2>1. UNCHANGED <<rpc, digest, value, cache>> /\ (Disturb \/ UNCHANGED <<skill, marker, clean>>)
    BY <1>0, <1>29 DEF LoadEnabled, Load
  <2>2. QED
    BY <2>1, Untouched
<1>30. ASSUME NEW c \in Clients, LoadRemoved(c) PROVE ReadInv' /\ CacheInv'
  <2>1. UNCHANGED <<rpc, digest, value, cache>> /\ (Disturb \/ UNCHANGED <<skill, marker, clean>>)
    BY <1>0, <1>30 DEF LoadRemoved, Load
  <2>2. QED
    BY <2>1, Untouched
<1>31. ASSUME NEW c \in Clients, LoadSource(c) PROVE ReadInv' /\ CacheInv'
  <2>1. UNCHANGED <<rpc, digest, value, cache>> /\ (Disturb \/ UNCHANGED <<skill, marker, clean>>)
    BY <1>0, <1>31 DEF LoadSource, Load
  <2>2. QED
    BY <2>1, Untouched
<1>32. ASSUME NEW c \in Clients, StoreRegistered(c) PROVE ReadInv' /\ CacheInv'
  <2>1. UNCHANGED <<rpc, digest, value, cache>> /\ (Disturb \/ UNCHANGED <<skill, marker, clean>>)
    BY <1>0, <1>32 DEF StoreRegistered, Store
  <2>2. QED
    BY <2>1, Untouched
<1>33. ASSUME NEW c \in Clients, StoreEnabled(c) PROVE ReadInv' /\ CacheInv'
  <2>1. UNCHANGED <<rpc, digest, value, cache>> /\ (Disturb \/ UNCHANGED <<skill, marker, clean>>)
    BY <1>0, <1>33 DEF StoreEnabled, Store
  <2>2. QED
    BY <2>1, Untouched
<1>34. ASSUME NEW c \in Clients, StoreRemoved(c) PROVE ReadInv' /\ CacheInv'
  <2>1. UNCHANGED <<rpc, digest, value, cache>> /\ (Disturb \/ UNCHANGED <<skill, marker, clean>>)
    BY <1>0, <1>34 DEF StoreRemoved, Store
  <2>2. QED
    BY <2>1, Untouched
<1>35. ASSUME NEW c \in Clients, StoreSource(c) PROVE ReadInv' /\ CacheInv'
  <2>1. UNCHANGED <<rpc, digest, value, cache>> /\ (Disturb \/ UNCHANGED <<skill, marker, clean>>)
    BY <1>0, <1>35 DEF StoreSource, Store
  <2>2. QED
    BY <2>1, Untouched
<1>36. ASSUME NEW c \in Clients, Fail(c) PROVE ReadInv' /\ CacheInv'
  <2>1. UNCHANGED <<rpc, digest, value, cache>> /\ (Disturb \/ UNCHANGED <<skill, marker, clean>>)
    BY <1>0, <1>36 DEF Fail, Answer, Leave
  <2>2. QED
    BY <2>1, Untouched
<1>37. ASSUME NEW r \in Readers, List(r) PROVE ReadInv' /\ CacheInv'
  <2>1. UNCHANGED <<skill, marker, cache>>
        /\ \A q \in Readers \ {r} : rpc'[q] = rpc[q] /\ digest'[q] = digest[q] /\ value'[q] = value[q] /\ clean'[q] = clean[q]
    BY <1>0, <1>37 DEF List
  <2>2. clean'[r] => TrueSoFar(r)'
    BY <1>0, <1>t, <2>1, <1>37 DEF List, TrueSoFar, Unread, Prompt, DigestOnDisk, ValueOf, ReaderSteps
  <2>3. QED
    BY <1>o, <1>c, <2>1, <2>2
<1>38. ASSUME NEW r \in Readers, HashPrompt(r) PROVE ReadInv' /\ CacheInv'
  <2>1. UNCHANGED <<skill, marker, cache>>
        /\ \A q \in Readers \ {r} : rpc'[q] = rpc[q] /\ digest'[q] = digest[q] /\ value'[q] = value[q] /\ clean'[q] = clean[q]
    BY <1>0, <1>38 DEF HashPrompt, HashFile
  <2>2. rpc[r] = "hash_prompt" /\ rpc'[r] = "hash_meta" /\ clean' = clean
        /\ digest' = IF digest[r]["prompt"] = Absent \/ skill = Absent THEN digest
                     ELSE [digest EXCEPT ![r] = [digest[r] EXCEPT !["prompt"] = skill["prompt"]]]
    BY <1>0, <1>38 DEF HashPrompt, HashFile
  <2>3. ASSUME clean[r] PROVE digest'[r] = [prompt |-> Prompt, meta |-> Unread, marker |-> marker]
    <3>1. digest[r] = [prompt |-> Unread, meta |-> Unread, marker |-> marker]
      BY <1>t, <2>2, <2>3 DEF TrueSoFar
    <3>2. CASE skill = Absent
      BY <2>2, <3>1, <3>2 DEF Unread, Prompt, DigestOnDisk
    <3>3. CASE skill # Absent
      BY <1>0, <1>g, <2>2, <3>1, <3>3 DEF Unread, Prompt, DigestOnDisk
    <3>4. QED
      BY <3>2, <3>3
  <2>4. clean'[r] => TrueSoFar(r)'
    BY <2>1, <2>2, <2>3 DEF TrueSoFar, Unread, Prompt, DigestOnDisk
  <2>5. QED
    BY <1>o, <1>c, <2>1, <2>4
<1>39. ASSUME NEW r \in Readers, HashMeta(r) PROVE ReadInv' /\ CacheInv'
  <2>1. UNCHANGED <<skill, marker, cache>>
        /\ \A q \in Readers \ {r} : rpc'[q] = rpc[q] /\ digest'[q] = digest[q] /\ value'[q] = value[q] /\ clean'[q] = clean[q]
    BY <1>0, <1>39 DEF HashMeta, HashFile
  <2>2. rpc[r] = "hash_meta" /\ rpc'[r] = "lookup" /\ clean' = clean
        /\ digest' = IF digest[r]["meta"] = Absent \/ skill = Absent THEN digest
                     ELSE [digest EXCEPT ![r] = [digest[r] EXCEPT !["meta"] = skill["meta"]]]
    BY <1>0, <1>39 DEF HashMeta, HashFile
  <2>3. ASSUME clean[r] PROVE digest'[r] = DigestOnDisk
    <3>1. digest[r] = [prompt |-> Prompt, meta |-> Unread, marker |-> marker]
      BY <1>t, <2>2, <2>3 DEF TrueSoFar
    <3>2. CASE skill = Absent
      BY <2>2, <3>1, <3>2 DEF Unread, Prompt, DigestOnDisk
    <3>3. CASE skill # Absent
      BY <1>0, <1>g, <2>2, <3>1, <3>3 DEF Unread, Prompt, DigestOnDisk
    <3>4. QED
      BY <3>2, <3>3
  <2>4. clean'[r] => TrueSoFar(r)'
    BY <2>1, <2>2, <2>3 DEF TrueSoFar, Unread, Prompt, DigestOnDisk
  <2>5. QED
    BY <1>o, <1>c, <2>1, <2>4
<1>40. ASSUME NEW r \in Readers, Lookup(r) PROVE ReadInv' /\ CacheInv'
  <2>1. UNCHANGED <<skill, marker, cache>>
        /\ \A q \in Readers \ {r} : rpc'[q] = rpc[q] /\ digest'[q] = digest[q] /\ value'[q] = value[q] /\ clean'[q] = clean[q]
    BY <1>0, <1>40 DEF Lookup, Done
  <2>2. clean'[r] => TrueSoFar(r)'
    BY <1>0, <1>t, <2>1, <1>40 DEF Lookup, Done, TrueSoFar, Unread, Prompt, DigestOnDisk, ValueOf, ReaderSteps
  <2>3. QED
    BY <1>o, <1>c, <2>1, <2>2
<1>41. ASSUME NEW r \in Readers, ReadMeta(r) PROVE ReadInv' /\ CacheInv'
  <2>1. UNCHANGED <<skill, marker, cache>>
        /\ \A q \in Readers \ {r} : rpc'[q] = rpc[q] /\ digest'[q] = digest[q] /\ value'[q] = value[q] /\ clean'[q] = clean[q]
    BY <1>0, <1>41 DEF ReadMeta
  <2>2. clean' = clean /\ digest' = digest /\ rpc[r] = "read_meta"
        /\ \/ skill = Absent /\ rpc'[r] = "keep" /\ value'[r] = Absent
           \/ skill # Absent /\ rpc'[r] = "read_marker" /\ value'[r].meta = skill.meta
    BY <1>0, <1>41 DEF ReadMeta
  <2>3. clean'[r] => TrueSoFar(r)'
    BY <1>t, <2>1, <2>2 DEF TrueSoFar, ReaderSteps, DigestOnDisk, ValueOf, Files
  <2>4. QED
    BY <1>o, <1>c, <2>1, <2>3
<1>42. ASSUME NEW r \in Readers, ReadMarker(r) PROVE ReadInv' /\ CacheInv'
  <2>1. UNCHANGED <<skill, marker, cache>>
        /\ \A q \in Readers \ {r} : rpc'[q] = rpc[q] /\ digest'[q] = digest[q] /\ value'[q] = value[q] /\ clean'[q] = clean[q]
    BY <1>0, <1>42 DEF ReadMarker
  <2>2. clean' = clean /\ digest' = digest /\ rpc[r] = "read_marker"
        /\ \/ marker /\ rpc'[r] = "keep" /\ value'[r] = Absent
           \/ ~marker /\ rpc'[r] = "read_prompt" /\ value'[r] = value[r]
    BY <1>0, <1>42 DEF ReadMarker
  <2>3. clean'[r] => TrueSoFar(r)'
    BY <1>t, <2>1, <2>2 DEF TrueSoFar, ReaderSteps, DigestOnDisk, ValueOf, Files
  <2>4. QED
    BY <1>o, <1>c, <2>1, <2>3
<1>43. ASSUME NEW r \in Readers, ReadPrompt(r) PROVE ReadInv' /\ CacheInv'
  <2>1. UNCHANGED <<skill, marker, cache>>
        /\ \A q \in Readers \ {r} : rpc'[q] = rpc[q] /\ digest'[q] = digest[q] /\ value'[q] = value[q] /\ clean'[q] = clean[q]
    BY <1>0, <1>43 DEF ReadPrompt
  <2>2. clean' = clean /\ digest' = digest /\ rpc[r] = "read_prompt" /\ rpc'[r] = "read_revision"
        /\ value' = IF skill = Absent THEN value
                    ELSE [value EXCEPT ![r] = [value[r] EXCEPT !.prompt = skill.prompt]]
    BY <1>0, <1>43 DEF ReadPrompt
  <2>3. value[r] \in Resolved
    BY <2>2 DEF ViewInv
  <2>4. ASSUME clean[r] PROVE value'[r].meta = skill.meta /\ value'[r].prompt = skill.prompt /\ skill # Absent /\ ~marker
    <3>1. skill # Absent /\ ~marker /\ value[r].meta = skill.meta
      BY <1>t, <2>2, <2>4 DEF TrueSoFar
    <3>2. value'[r] = [value[r] EXCEPT !.prompt = skill.prompt]
      BY <1>0, <2>2, <3>1
    <3>3. QED
      BY <2>3, <3>1, <3>2 DEF Resolved
  <2>5. clean'[r] => TrueSoFar(r)'
    BY <1>t, <2>1, <2>2, <2>4 DEF TrueSoFar, ReaderSteps, DigestOnDisk
  <2>6. QED
    BY <1>o, <1>c, <2>1, <2>5
<1>44. ASSUME NEW r \in Readers, ReadRevision(r) PROVE ReadInv' /\ CacheInv'
  <2>1. UNCHANGED <<skill, marker, cache>>
        /\ \A q \in Readers \ {r} : rpc'[q] = rpc[q] /\ digest'[q] = digest[q] /\ value'[q] = value[q] /\ clean'[q] = clean[q]
    BY <1>0, <1>44 DEF ReadRevision
  <2>2. clean' = clean /\ digest' = digest /\ rpc[r] = "read_revision" /\ rpc'[r] = "keep"
        /\ value'[r] = [value[r] EXCEPT !.revision = history.revision]
    BY <1>0, <1>44 DEF ReadRevision
  <2>3. value[r] \in Resolved /\ history.revision \in Nat
    BY <2>2 DEF ViewInv, TypeOK, Histories
  <2>4. value'[r] \in Resolved /\ value'[r] # Absent /\ value'[r].meta = value[r].meta /\ value'[r].prompt = value[r].prompt
    BY <2>2, <2>3, SetupsAssumption DEF Resolved, SetupsAssumption
  <2>5. ASSUME clean[r] PROVE Files(value'[r]) = ValueOf(DigestOnDisk)
    <3>1. skill # Absent /\ ~marker /\ value[r].meta = skill.meta /\ value[r].prompt = skill.prompt
      BY <1>t, <2>2, <2>5 DEF TrueSoFar
    <3>2. skill.meta # Absent
      BY <1>0, <3>1, SetupsAssumption DEF SetupsAssumption, Skills
    <3>3. QED
      BY <2>4, <3>1, <3>2 DEF Files, ValueOf, DigestOnDisk
  <2>6. clean'[r] => TrueSoFar(r)'
    BY <1>t, <2>1, <2>2, <2>5 DEF TrueSoFar, ReaderSteps, DigestOnDisk, ValueOf
  <2>7. QED
    BY <1>o, <1>c, <2>1, <2>6
<1>45. ASSUME NEW r \in Readers, Keep(r) PROVE ReadInv' /\ CacheInv'
  <2>1. UNCHANGED <<skill, marker>>
        /\ \A q \in Readers \ {r} : rpc'[q] = rpc[q] /\ digest'[q] = digest[q] /\ value'[q] = value[q] /\ clean'[q] = clean[q]
    BY <1>0, <1>45 DEF Keep, Done
  <2>2. rpc[r] = "keep" /\ rpc'[r] = "idle" /\ cache' = [digest |-> digest[r], value |-> value[r], clean |-> clean[r]]
    BY <1>0, <1>45 DEF Keep, Done
  <2>3. TrueSoFar(r)'
    BY <2>2 DEF TrueSoFar
  <2>4. clean[r] => digest[r] = DigestOnDisk /\ Files(value[r]) = ValueOf(DigestOnDisk)
    BY <1>t, <2>2 DEF TrueSoFar, ReaderSteps
  <2>5. CacheInv'
    BY <2>2, <2>4 DEF CacheInv
  <2>6. QED
    BY <1>o, <2>1, <2>3, <2>5
<1>46. CASE Crash
  <2>1. UNCHANGED <<skill, marker>>
    BY <1>46 DEF Crash
  <2>2. \/ rpc' = [r \in Readers |-> "idle"] /\ cache' = Absent
        \/ UNCHANGED <<rpc, cache, digest, value, clean>>
    BY <1>46 DEF Crash
  <2>3. CASE rpc' = [r \in Readers |-> "idle"] /\ cache' = Absent
    BY <2>3 DEF ReadInv, TrueSoFar, CacheInv
  <2>4. CASE UNCHANGED <<rpc, cache, digest, value, clean>>
    BY <2>1, <2>4, Untouched
  <2>5. QED
    BY <2>2, <2>3, <2>4
<1>47. CASE UNCHANGED vars
  BY <1>47, Untouched DEF vars
<1>48. QED
  BY <1>1, <1>2, <1>3, <1>4, <1>5, <1>6, <1>7, <1>8, <1>9, <1>10, <1>11, <1>12, <1>13, <1>14, <1>15, <1>16, <1>17, <1>18, <1>19, <1>20, <1>21, <1>22, <1>23, <1>24, <1>25, <1>26, <1>27, <1>28, <1>29, <1>30, <1>31, <1>32, <1>33, <1>34, <1>35, <1>36, <1>37, <1>38, <1>39, <1>40, <1>41, <1>42, <1>43, <1>44, <1>45, <1>46, <1>47 DEF Next, Serve, Handle, Resolve

\* For any readers and writers, what a cached resolution of the files as they are says of
\* them is true, however many writes came in between,
\* unless a write of the skill overlapped the resolution that filled the cache.
THEOREM CachedTruth == Spec => []UndisturbedCacheIsTrue
<1>1. Init => ReadInv /\ CacheInv
  BY DEF Init, ReadInv, TrueSoFar, CacheInv
<1>2. TypeOK /\ CacheInv => UndisturbedCacheIsTrue
  BY Digested DEF CacheInv, UndisturbedCacheIsTrue
<1>3. QED
  BY <1>1, <1>2, InitInv, TypeStep, StepStep, CacheStep, PTL DEF Spec

=============================================================================
