----------------------------- MODULE SandboxPool -----------------------------
(***************************************************************************)
(* DockerSandbox (sandbox/docker_sandbox.py): the threads of agents run    *)
(* their tools in a pool of warm containers.  A thread takes a container   *)
(* from a bounded queue, or starts one while fewer than pool_size are      *)
(* alive, or waits for one to come back.  No lock is held anywhere: the    *)
(* queue is the only thing that is safe to share.                          *)
(***************************************************************************)
EXTENDS Integers, FiniteSets, Sequences

CONSTANTS
    Callers,      \* threads that run tools
    PoolSizes,    \* what the host may have chosen as the number of containers to keep warm
    Containers,   \* container ids; one is used again when nobody knows it any more
    NoContainer,  \* no container
    MaxHangs      \* bound: calls of `docker run` and `docker rm` that fail or take longer than they may

ASSUME SandboxAssumption ==
    /\ PoolSizes \subseteq Nat \ {0}
    /\ IsFiniteSet(Callers) /\ IsFiniteSet(Containers)
    /\ \A n \in PoolSizes : Cardinality(Containers) >= Cardinality(Callers) + n + MaxHangs
    /\ NoContainer \notin Containers
    /\ MaxHangs \in Nat

VARIABLES
    pool_size,
    docker,   \* containers that run
    pool,     \* _pool, a queue of at most pool_size ids
    alive,    \* _alive
    step,     \* where a call of run_tool stands
    held,     \* the container it has acquired
    dirty,    \* containers a tool was cut off in
    hangs     \* docker commands that failed or hung with a container left

poolVars == <<pool_size, docker, pool, alive, step, held, dirty, hangs>>

Steps == {"idle", "get", "count", "wait", "start", "exec", "stop", "discard", "put"}

PoolTypeOK ==
    /\ pool_size \in PoolSizes
    /\ docker \subseteq Containers /\ alive \subseteq Containers /\ dirty \subseteq Containers
    /\ pool \in Seq(Containers) /\ Len(pool) <= pool_size
    /\ step \in [Callers -> Steps]
    /\ held \in [Callers -> Containers \cup {NoContainer}]
    /\ hangs \in 0 .. MaxHangs

PoolInit ==
    /\ pool_size \in PoolSizes
    /\ docker = {} /\ pool = <<>> /\ alive = {} /\ dirty = {} /\ hangs = 0
    /\ step = [c \in Callers |-> "idle"]
    /\ held = [c \in Callers |-> NoContainer]

Goto(c, from, to) ==
    /\ step[c] = from
    /\ step' = [step EXCEPT ![c] = to]
    /\ UNCHANGED pool_size

Return(c, from) == Goto(c, from, "idle") /\ held' = [held EXCEPT ![c] = NoContainer]

(***************************************************************************)
(* _acquire.                                                               *)
(***************************************************************************)

RunTool(c) == Goto(c, "idle", "get") /\ UNCHANGED <<docker, pool, alive, held, dirty, hangs>>

Take_Shared(c, from) ==   \* defect: the container is looked at and left in the queue
    /\ pool # <<>>
    /\ Goto(c, from, "exec")
    /\ held' = [held EXCEPT ![c] = Head(pool)]
    /\ UNCHANGED <<docker, pool, alive, dirty, hangs>>

Take(c, from) ==
    /\ pool # <<>>
    /\ Goto(c, from, "exec")
    /\ held' = [held EXCEPT ![c] = Head(pool)]
    /\ pool' = Tail(pool)
    /\ UNCHANGED <<docker, alive, dirty, hangs>>

\* _pool.get_nowait().
GetNowait(c) ==
    \/ Take(c, "get")
    \/ pool = <<>> /\ Goto(c, "get", "count") /\ UNCHANGED <<docker, pool, alive, held, dirty, hangs>>

\* Nothing in the queue: at the cap the caller waits, below it it starts one.
Count(c) ==
    /\ Goto(c, "count", IF Cardinality(alive) >= pool_size THEN "wait" ELSE "start")
    /\ UNCHANGED <<docker, pool, alive, held, dirty, hangs>>

\* _pool.get(), without a timeout.
Get(c) == Take(c, "wait")

Queued == {pool[i] : i \in DOMAIN pool}

\* The id of a new container: one that nobody knows.
New == CHOOSE k \in Containers :
            k \notin docker \cup alive \cup dirty \cup Queued \cup {held[c] : c \in Callers}

Start_Unlisted(c) ==   \* defect: the new container is not counted
    /\ Goto(c, "start", "exec")
    /\ docker' = docker \cup {New}
    /\ held' = [held EXCEPT ![c] = New]
    /\ UNCHANGED <<pool, alive, dirty, hangs>>

\* run_detached takes seconds; its container is alive from then on.
Start(c) ==
    /\ Goto(c, "start", "exec")
    /\ docker' = docker \cup {New}
    /\ alive' = alive \cup {New}
    /\ held' = [held EXCEPT ![c] = New]
    /\ UNCHANGED <<pool, dirty, hangs>>

\* docker run fails, or has not answered within its thirty seconds, when its container may
\* run all the same: _acquire is outside run_tool's try, the call raises.
StartFails(c) ==
    /\ Return(c, "start")
    /\ \/ UNCHANGED <<docker, dirty, hangs>>
       \/ /\ hangs < MaxHangs /\ hangs' = hangs + 1
          /\ docker' = docker \cup {New} /\ dirty' = dirty \cup {New}
    /\ UNCHANGED <<pool, alive>>

(***************************************************************************)
(* run_tool.                                                               *)
(***************************************************************************)

\* docker exec ends with a result or an error, or the tool runs into its timeout.
ExecEnds(c) == Goto(c, "exec", "put") /\ UNCHANGED <<docker, pool, alive, held, dirty, hangs>>
ExecTimesOut(c) ==
    /\ Goto(c, "exec", "stop")
    /\ dirty' = dirty \cup {held[c]}
    /\ UNCHANGED <<docker, pool, alive, held, hangs>>

\* docker rm -f ends within its ten seconds; whether it has removed the container is not
\* looked at ...
Stop(c) ==
    /\ Goto(c, "stop", "discard")
    /\ \/ docker' = docker \ {held[c]} /\ UNCHANGED hangs
       \/ hangs < MaxHangs /\ hangs' = hangs + 1 /\ UNCHANGED docker
    /\ UNCHANGED <<pool, alive, held, dirty>>

\* ... or raises out of the handler, and the container may be gone all the same: the
\* finally clause puts it back.
StopRaises(c) ==
    /\ hangs < MaxHangs /\ hangs' = hangs + 1
    /\ Goto(c, "stop", "put")
    /\ docker' \in {docker, docker \ {held[c]}}
    /\ UNCHANGED <<pool, alive, held, dirty>>

Discard_Kept(c) ==   \* defect: the destroyed container is still counted as alive
    /\ Return(c, "discard")
    /\ dirty' = dirty \ {held[c]}
    /\ UNCHANGED <<docker, pool, alive, hangs>>

\* A destroyed container is not alive and not put back.
Discard(c) ==
    /\ Return(c, "discard")
    /\ alive' = alive \ {held[c]}
    /\ dirty' = dirty \ {held[c]}
    /\ UNCHANGED <<docker, pool, hangs>>

Release_Unbounded(c) ==   \* defect: a queue without a size
    /\ pool' = Append(pool, held[c])
    /\ Return(c, "put")
    /\ UNCHANGED <<docker, alive, dirty, hangs>>

\* _release: put() waits while the queue is full.
Release(c) ==
    /\ Len(pool) < pool_size
    /\ pool' = Append(pool, held[c])
    /\ Return(c, "put")
    /\ UNCHANGED <<docker, alive, dirty, hangs>>

\* dispose, when no call is running: whatever is alive is removed; a removal that hangs or
\* fails is passed over.
Dispose ==
    /\ \A c \in Callers : step[c] = "idle"
    /\ alive # {}
    /\ \E left \in SUBSET (docker \cap alive) :
            /\ hangs + Cardinality(left) <= MaxHangs
            /\ hangs' = hangs + Cardinality(left)
            /\ docker' = (docker \ alive) \cup left
            /\ dirty' = (dirty \ alive) \cup left
    /\ alive' = {} /\ pool' = <<>>
    /\ UNCHANGED <<pool_size, step, held>>

Run(c) ==
    \/ GetNowait(c) \/ Count(c) \/ Get(c) \/ Start(c) \/ StartFails(c)
    \/ ExecEnds(c) \/ ExecTimesOut(c) \/ Stop(c) \/ StopRaises(c) \/ Discard(c) \/ Release(c)

PoolNext == Dispose \/ \E c \in Callers : RunTool(c) \/ Run(c)

\* A thread that can go on goes on; one that waits for the queue may be passed over by
\* others that come later.
Fairness == \A c \in Callers : WF_poolVars(Run(c))

PoolSpec == PoolInit /\ [][PoolNext]_poolVars /\ Fairness

(***************************************************************************)
(* Properties.                                                             *)
(***************************************************************************)

Busy(k) == {c \in Callers : held[c] = k}

\* A container serves one call at a time, whoever starts, takes, waits and times out at
\* the same time, and what waits in the queue is nobody's.
OneCallPerContainer ==
    /\ \A k \in Containers : Cardinality(Busy(k)) <= 1
    /\ \A i \in DOMAIN pool :
            /\ pool[i] \in alive /\ Busy(pool[i]) = {}
            /\ \A j \in DOMAIN pool : pool[i] = pool[j] => i = j

\* A container that runs is one that dispose will remove, or its start or removal hung or
\* failed;
\* and there are never more alive than threads that run tools, whatever they see and count.
NothingLeaks ==
    /\ Cardinality(docker \ alive) <= hangs
    /\ Cardinality(alive) <= Cardinality(Callers)

\* Every call of run_tool returns or raises, when there is a container for every thread.
EveryCallReturns ==
    \A c \in Callers : step[c] # "idle" /\ Cardinality(Callers) <= pool_size ~> step[c] = "idle"

\* docker_sandbox.py:165-166, at the cap a caller waits for one to be returned "rather
\* than spinning up over the cap".
WithinCap == Cardinality(alive) <= pool_size

\* docker_sandbox.py:164-166, a caller waits when "every container is checked out".
NobodyIsStranded ==
    \A c \in Callers : step[c] = "wait" /\ pool = <<>> => \E d \in Callers : step[d] \notin {"idle", "wait"}

\* docker_sandbox.py:195-197, on a timeout the container is destroyed because "we don't
\* know what state the tool left it in".
NoDirtyReuse == \A c \in Callers : step[c] = "exec" => held[c] \notin dirty
=============================================================================
