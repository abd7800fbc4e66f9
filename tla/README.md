# fabri, modelled in TLA+

fabri runs LLM agents: a loop that plans, calls tools and sub-agents and answers;
a service that runs such agents as child processes for request threads; and
surfaces (Slack, Linear, GitHub) from which people start runs and answer the
questions a run asks. This directory holds TLA+ models of the parts of it whose
correctness depends on the order in which threads, processes and messages act,
the TLC instances that check them, and proofs for TLAPS.

Sources are cited as `file.py:line`, relative to `src/src/fabri/`.

    tlc -workers 2 -config RunService_callers.cfg MCRunService.tla
    tlapm RunServiceProofs.tla

## 1. The system

### Components, their state and operations

**Agent loop** (`core/agent.py`, with `core/planner.py`, `core/decompose.py`,
`core/structured.py`, `tools/runner.py`). State: the plan and the place in it, steps
used, cost so far, the message list, failure flags, the trace file. Operations:
`run_agent` -> `_run_with_repair` -> `_run_single_attempt` -> `_run_step_loop` ->
`_dispatch_tool_calls`, and `_finalize_structured`. Sub-agents of one parallel group
run on a thread pool; everything else is sequential. Hard: the sharing of one
step budget over several items, a cost cap that is read while siblings spend,
three nested kinds of retry, outcomes that must not hide a failure.

**Run service** (`service/service.py`, `launcher.py`, `run_store.py`, `tailer.py`).
State: `_runs` (handles of live children), `_finalized`, `_asks`, and two durable
histories, `index.jsonl` and the `runs` table of `runs.db`. Operations: `submit`,
`result`, `stream`, `cancel`, `events`, `list_sessions`, `submit_fleet`, `close`.
`http_server.py` calls them from a thread per request; the child is a process with
two pipes. Hard: no lock covers `_finalize`, `Popen.communicate` is called from
many threads, the child may block on a pipe nobody reads, and the service may
die between the two writes of a terminal record while its children live on.

**ask_user bridge** (`service/ask_user_listener.py`, `tools/examples/ask_user.py`,
`service.answer`, `surfaces/pipeline.py`). State: a Unix socket per run, the dict of
pending questions with an event each, the registry that maps a surface's
thread to a run and a run to its one pending question. Operations: ask, answer (from
the browser or from a thread), the time limits of both ends, `close`. Hard: a
dozen critical sections of a few lines between which others act.

**Surface pipeline and quota** (`service/surfaces/pipeline.py`, `quota.py`). State: the
window of seen delivery ids, a background thread per run, the rows the quota
reads. Operations: `dispatch`, `_run_and_deliver`, `quota.check`. Hard: repeated
deliveries, calls to the surface that raise, a process that dies while it owes
somebody a report.

**Surface adapters and installs** (`surfaces/slack.py`, `linear.py`, `github.py`,
`service/install_store.py`, `slack_oauth.py`, `linear_oauth.py`). State: the row of a
workspace with its encrypted tokens, in a SQLite file that several servers and the
children's tools share. Operations: verify, classify, deliver; `get_token`, which
refreshes Linear's rotating tokens under `BEGIN IMMEDIATE`; the OAuth callbacks that
upsert a row; `delete`. Hard: a refresh token can be spent once, the decision to refresh
is taken before the lock, answers get lost, clocks are read before waits.

**Setups** (`setups/store.py`, `resolver.py`, `tool_entries.py`, `tools/registration.py`,
`service/setups_routes.py`). State: layered directories of items (skills with a
history of revisions, tool sources that are two files, registered tools), and the
resolver's cache, keyed by a hash of the files. Operations: the API's writes under one
re-entrant lock, the command line's without it, resolutions without any. Hard: two
renames make one replacement, two files make one source, hash and content are read in
two passes, a crash may come between any two.

**Memory** (`memory/pruning.py`, `scopes.py`, `global_promotion.py`, `conventions.py`,
`orchestrator/*`). State: collections of guidelines shared by processes: one for all,
or one per organization, a queue of candidates, GLOBAL; among the guidelines the records
of conventions, with versions, issuers and a lifetime. Operations: ingest with merge
and promotion under a file lock, annotation and eviction outside it, retrieval; scan,
approve, reject and forget by an operator; `ingest_convention` under a lock of the process.
Hard: ids are wordings, which change in a merge; lists are stale when they are acted
upon; several processes share a collection whose lock belongs to one.

**Sandbox pool** (`sandbox/docker_sandbox.py`). State: a bounded queue of idle
containers, the set of those alive. Operations: check out, run a tool, check in,
destroy after a timeout, dispose. Hard: check-then-act on the cap without a lock,
docker commands that fail or hang.

**Repo agent** (`repo/run.py`, `repo/git_local.py`, `repo/github.py`). State: a stable
checkout per issue, its branch and pull request on GitHub, the announcements on Linear
and Slack, the day's bundle of evidence. Operations: `run_repo_flow` takes an issue
through ten gates. Hard: it is run again after failures, timeouts and crashes, on what
they left; a killed command's children go on writing; answers get lost.

**LLM backends** (`core/llm.py`). State: during a step, the attempts, the response that was cut
off, the tokens used. Operations: `step` of Anthropic, OpenAI, Gemini, Bedrock. Hard: a
request is repeated for two reasons that nest, each response is charged for, providers count
cached tokens in two ways and stop for reasons that only one backend has a case for.

**Tools** (`tools/registry.py`, `policy.py`, `approval.py`, `mcp_client.py`, `openapi.py`). State: the
registered tools; per MCP server a process, its pipes and the number of the last request.
Operations: connect, `invoke`, `call_tool`. Hard: a server is a process of its own that answers
late, talks unasked, blocks on a full pipe and dies, while the client reads one pipe without a
time limit.

**Builder** (`builder/*`), **decisions** (`decide/*`), **ingest,
observability, reports**, **CLI, config, scaffolds,
benchmarks, studio**: sequential code, I/O, text or statistics.

### How they interact

A request thread or a surface's thread calls `submit`, which opens an ask_user
bridge, starts `fabri run` and records the run twice. The child runs the agent
loop, writes its trace, asks questions over the bridge's socket, and prints one
JSON envelope. Waiting threads read that envelope, close the bridge and record the
end. After the run the child feeds the memory store; before each run the loop
reads it. Setups decide the configuration the child gets.

### What makes each part correct

| part | promises |
|---|---|
| agent loop | the step budget is never overrun and starves no item; the cap is overrun by one turn at most; "success" hides nothing; a run ends, unless it waits for a verifier or a server |
| run service | what history says is backed by what the process did; the store never runs ahead of the index; a settled record stays; a waiting request gets out |
| ask_user | the dict holds exactly the questions being served; no answer makes a handler hang up; an accepted answer arrives; what is written in a thread answers only that thread's runs |
| surfaces | no replay within the window; every command is answered |
| setups | whoever looks at an item sees the last one written, or none; each write takes effect once or not at all; history and sources follow the disk, what broke off until the next write; an undisturbed resolution serves the files on disk; among threads versions grow; every request is answered, unless it waits for a server |
| conventions | replacing one never leaves its key without, unless a lesson has evicted or merged into one of the key; the quota is overrun by one per process at most, until a lesson or an annotation writes back what was gone |
| memory | a session that was merged into a lesson stays its source, among processes of one home; what everybody reads was mined in enough organizations; a forgotten organization stays out |
| sandbox pool | a container serves one call at a time; none is forgotten; a call returns |
| installs | no refresh token is spent twice; a refresh writes over its own row only; a token handed out works |
| repo agent | what is published was tested and is the run's own work; one pull request per issue; "ok" means every gate |
| LLM backends | a run acts on whole answers only and accounts for every token it was charged |
| MCP client | a call returns the server's answer to this call; a run ends, or waits for its server; with a server that serves, it waits on blocked pipes only |

## 2. The modules

| module | models | composed of |
|---|---|---|
| `AgentLoop` | one run of an agent | environment: model, tools, children, verifier |
| `RunService` | runs, their children, the service's threads, crash and restart | the child is a small abstraction of `AgentLoop`: it logs, reports an outcome, exits, raises or is killed |
| `AskUser` | questions, answers, timeouts, routing through threads | a run is its bridge and its tools' calls |
| `SurfacePipeline` | deliveries, window, quota, reports | a run is submit, row, result, as in `RunService` |
| `RepoRun` | issues taken to pull requests by runs that share a checkout | the agent's run inside a gate is "some work, or none", as `AgentLoop` returns |
| `Setups` | one layer, its writers, its resolvers | refines `SkillRegister` |
| `SkillRegister` | what a layer promises of one skill: it changes in one step | abstract |
| `Lessons` | one lesson in all collections, its miners and operators | |
| `Conventions` | the conventions of one scope, the passes and issuers that ingest them | shares its collection with `Lessons`, of whose passes it has what touches conventions: `Lesson` evicts, `FindSimilar` merges |
| `SandboxPool` | threads and containers | `AgentLoop`'s pool of sub-agents is where the threads come from |
| `LinearInstalls` | one workspace's tokens, Linear, servers, callbacks | its `get_token` is the call that raises in `SurfacePipeline` |
| `LlmStep` | one step of a provider's backend | environment: the provider |
| `McpCall` | one client of an MCP server over its standard streams | environment: the server |
| `Turn` | a run that connects, asks the model and makes its calls, turn after turn | EXTENDS `LlmStep` and `McpCall`; the inside of `AgentLoop`'s step |
| `MC*` | instances for TLC | EXTENDS the module above |
| `*Proofs` | theorems | EXTENDS the module above and TLAPS |

Three of the proof modules hold the theorems of a neighbour as well: `AskUserProofs` those of `SurfacePipeline`,
`AgentLoopProofs` those of `SandboxPool`, `RepoRunProofs` those of `Turn`, `LlmStep` and `McpCall`. For that the
names of the modules that share a proof module are distinct: it is `PipelineSpec`, `PoolSpec` and `TurnSpec` there.

Every module has the same layout: constants and their named assumption,
variables, `TypeOK`, `Init`, actions in the order of the code, `Next`, `Spec`, `FairSpec`,
properties. An operator `A_What` marked `defect` beside an action `A` is a plausible
bug of that action; replacing `A` by it makes the property it is listed with
fail, which shows that the property depends on that code.

### RunService

* `child`, `logs`, `pipe`, `piped`, `stdout`, `trace`, `signalled`: the process `launch_run` starts.
  It writes log output to stderr and blocks when the pipe is full (`ChildLog`); it ends
  its trace with an outcome (`ChildReport`); its envelope can be read when it exits
  (`ChildExit`), because stdout is block-buffered. `ChildRaises` is an exception out of
  `run_agent`; `ChildKilled` is SIGTERM.
* `runs`, `asks`, `finalized`, `cache`: `_runs`, `_asks`, `_finalized` and the envelope a
  handle keeps. `index`, `row`: the lines of `index.jsonl`, the rows of `runs.db`.
* `pc`, `on`, `event`, `env`, `torn`: a request thread. `SubmitStart` .. `SubmitStore` are `submit`
  in its order: bridge, child, handle, index line, row. `Result`, `Stream`, `StreamEnds`,
  `Drain`, `WaitReturns`, `WaitRaises`, `ResultClose` are `result` and `stream`: a stream
  follows the trace until the child exits and reads the pipes only then; a thread in
  `communicate()` drains them. Two threads in it at once are `torn`: either may lose its
  data (an "error" envelope) or get an OSError. `Cancel` .. `CancelRelease` are `cancel`,
  `CloseAsk` is `_asks.pop`, `ShutBridge` the `close()` of what was popped: one thread gets
  the listener, the others get None and go on before it is closed.
  `FinalizeCheck` .. `FinalizeStore` are `_finalize`, whose guard, set, line and row are
  four steps since no lock joins them.
* `Crash`, `Shutdown` (`close()`: terminate the children, write nothing), `Restart`
  (migration of the index into an empty store), `PersistedResult` (the result of a run
  of an earlier process, from its trace).
* `known`, `told`, `cancelled`: what clients know. `EarlyClients` is GET /questions, which
  shows a session id before `submit` has returned it.

### AskUser

* `tool`, `handler`, `event`, `reply`: the two ends of a question and what they share.
  `pending` is the listener's dict; `bridge` is the listener's life from open to closed, the
  steps of `close()` apart.
* `sessionAt`, `target`, `slot`: the registry of `pipeline.py`: thread to run, run to its
  delivery target, run to its one pending question.
* A handler ends in one of four ways: no line in 10 s (`NoLine`; the tool reads its default from stdin),
  an answer (`SendReply`, `DropConn`), `close()` (`HandlerWakes` without a reply), or its own 3600 s
  (`HandlerTimesOut`, `Leave`). Which end gives up first is open: `FABRI_ASK_USER_TIMEOUT_S` has no upper bound.
* An answer is a thread of its own: `BrowserAnswers` starts at `service.answer`;
  `ThreadAnswers` starts in `deliver_answer`, which looks up the run, then its slot, then
  the listener, then sets the reply, then the event, then clears the slot.
* `via`, `shown`, `meant`, `verdict`, `got` are history: where a question was posted, which
  one a human saw when writing, what the caller of `answer` was told, whose
  reply the tool got.

### SurfacePipeline

One thread per delivery, `pc` from `idle` over `fresh`, `allowed`, `acked`, `launched`,
`waiting`, `reporting` to `reported`. `seen` is the window of delivery ids. `ListRuns` gives
the rows the way `RunStore._summary` gives them to `quota.check`, which is why
`OriginRuns` is empty. `limit` is the concurrency limit in the environment of the process; a
restart may bring another. `AckRaises` and `ErrorRaises` are calls to the surface
that raise (the token lookup reads SQLite).

### AgentLoop

* `items`, `idx`, `outputs`, `limit`, `used`, `steps`: the plan and the steps. `ItemBudget` is the
  share `max(1, remaining // items left)` of `agent.py:877`.
* `calls`, `taken`: one turn. Calls are of a `kind`: an ordinary tool, `decompose`, a
  specialist of `tools.agents`, `spawn_subagent` alone, or in a parallel group. `Ahead` is
  the order the code gives them (serial ones in order, then group after group, a
  group over a pool); `TakeResult` is the bookkeeping over the results, in call order.
* `own` is the attempt's cost, against which `Breached` is judged. `failed`, `reason`, `success`,
  `hadFailure`, `total`, `bad` feed `Classify`, the ladder of `_classify_outcome`.
* `Check` is the schema check of an answer with its corrective retries, under the
  three strategies; `Repair` is the loop over attempts, which stops on an accepted
  run, at the limit, or when the same signature comes back.
* `spent` and `sick` are history: what the run really knows it cost, what really
  went wrong.

### RepoRun

* `pc`: where a run stands in `run_repo_flow`. A gate is an action with the ways it fails:
  fetch, clone or reset of the checkout, install, reproduce, agent, verify, commit and push,
  pull request, Linear, Slack, then the four files of the bundle.
* A tree is the set of runs whose work is in it. `head` and `dirty` are the committed and the
  uncommitted part of a checkout; `disk` and `lock` are what a killed git leaves.
* `orphan` and `Stray` are a killed command's children: they write whenever they like.
* `prs`, `nextPR`, `found`: the listing by marker and the POST whose answer may be lost.
* `Overlap`, `Strays`, `PageHolds` are constants, so that a theorem can say which
  promise needs which assumption: no two runs of one issue at a time (nothing in the code
  enforces it), no strays, GitHub's first page showing the issue's pull request.

### Setups and SkillRegister

* `skill`, `marker`, `history`: a skill's directory, its `.disabled` marker, its last revision, which a
  skill that was authored as files does not have (`Layers`). `spec` and `entry` are the two files of a
  tool source, `tool` is one registered tool.
* A request is `Ask` (it has arrived), `TypeMeta`/`TypePrompt` (`put_agent_type` reads before it
  locks), a handler's action that takes `_write_lock`, `Refuse` or one action per file operation, then `Audit`,
  which takes the lock again. Adding a source waits for its server twice with the lock held (`Previewed`, `Linted`).
  `Load*`/`Store*` is the read-modify-write of `registration.py`; `Same` compares what `_content_hash` covers,
  which is not the flag. A client in `Cli` does the same without the lock.
* `Fail` is an operation that raises: `_atomic_dir` removes what it was about to put in place and does not bring
  back what it had renamed away; history and the second file of a source stay as they are. `Crash` stops the
  service or a command line. What is on disk stays; `behind` says which items such an end, or an author of
  files, has left with one file behind the other, until the next write.
* A reader lists, hashes two files, looks the hash up, and on a miss reads the files and the revision and keeps them.
  The revision is in a hidden file, which the hash leaves out. `clean` is history: did the skill change in between.
* `Register` is the refinement `StoreIsARegister == Register!Spec`. Nothing is hidden by the mapping: `item` is what is
  on disk at the instant, none between the two renames, as `get_item` and the resolver, which take no lock, see it. A request is
  pending until its write; `swapping` is the one between its renames.

### Lessons

* `coll[c]` are the entries of collection `c` that are about the lesson; an entry's wording is
  its id, so a longer wording moves it: upsert the new, delete the old.
* A run: `Mine` picks collection and wording, `Find` is `ingest_guideline` up to the similarity search under
  the lock of the collection, whose file (`LockFile`) is in the home of the process: runs with one home, as a parent
  and its sub-agents or those of one directory, exclude each other, those of the service, which gives each its own,
  do not; then `Upsert`, `DeleteOld`, then the lock is free; `Annotate` writes back
  what the ingestion returned, `Evict` lists and `EvictOne` deletes by the listed ids.
* An operator: `ScanOrg`/`ScanEntry` copy promoted lessons into `Queue`, `Approve`, `Publish`, `MarkApproved`,
  `Reject`, and `Drop`, `ListCandidates`, `Withdraw` for `forget_org`. `Corroborated` counts organizations.
* `kept`, `known`, `forgotten`, `rejected`, `torn` are history.

### Conventions

* `store` are the entries; an entry has its record, when it was born and when it ends, and whether it is
  active (tier "retrieve"), and the text a lesson has given it, if one has. Its id is the hash of its text: of
  the first three, or of the lesson's text; so a new verdict on a record overwrites it.
* An ingestion: `Judge` (gates, authority, lifetime, the time read before the lock), `Enter` (the lock of
  the process; list, pick the expired), `DropOne` each, `Admit` (what it supersedes, the quota), `Write`,
  `DeleteTarget`. `Annotate` is the second write of a scoped pass, `Lesson`/`DropOne`/`Evicted` the eviction by
  a lesson that the same pass ingests. A lesson looks for what is similar among all kinds: `FindSimilar` finds a
  convention and makes `into` of it (a longer text, a higher tier, or no convention any longer), `WriteMerged`
  writes that, `DeleteMoved` deletes the entry if its id has changed, `Stamp` is the scoped pass's second write.
  What was found is written back as it was read. `touched` are the keys that lessons have evicted or merged
  into, `back` is whether a lesson or an annotation has written what was not there. `StoreRaises` and `Die` end an ingestion anywhere.
* The only caller of `ingest_convention` in the program is `process_trace`, whose candidates are mined: they
  name no issuer and supersede nothing. Records with an issuer, a version they supersede or a
  human's approval come from callers of the API: benchmarks and tests.
* `Retrievable` and `BranchAccepted` are what `retrieval.py` and `structured.py` make of the store in a run.

### SandboxPool

`pc` of a caller follows `_acquire` (`get_nowait`, count, wait or start), `run_tool` (execute, after a
timeout stop and discard) and `_release`. Docker commands fail or hang at most `MaxHangs`
times; a `docker run` that hangs may leave a container nobody knows.

### LinearInstalls

* `issued`, `ends`, `from`, `live`, `refused`, `lost` are Linear: a pair of tokens per number, when its access
  token ends, which refresh token it was traded for, which are good.
* `row` is the workspace's row, `lock` SQLite's write lock. `Call`, `Read` (without the lock), `Begin` (under it,
  reading again), `Refreshed`/`AnswerLost`/`RefreshFails`, `LastResort`, `Commit` are `get_token`; `Busy` is the lock's
  time limit.
* The unit of time is 150 s: the margin of 300 s is two units, and a call
  (HTTP timeout 30 s, lock timeout 30 s) takes less than one, so `Tick` may pass a
  call in flight once at most.

### LlmStep, McpCall and Turn

* `at` follows `step()`: `Step`, then `request` (`_call_with_retry` with its `failures`, all of `Transient`,
  `Exhausted`, `ApiError`), then `judge`: `RetryTruncated` keeps the response that was cut off and asks
  once more under `RetryCap`; what is cut off again is an error that carries its usage; `Answer` is
  the rest. `Prompt` is what a provider says was the prompt (`Inclusive`: with the cached part),
  `Input` what the backend makes of it. `billed` is history: what has been charged.
* A provider's response is its cost, its stop and its content. `garbled` are arguments of a call
  that are no JSON, which only OpenAI's backend parses.
* `stdin`, `stdout`, `stderr` are the server's pipes, `voice` the line it is blocked on, `owed` the requests it
  has read and not answered. `Send` is `_request` up to its write (a large one blocks until it is read,
  `Sent`), `ReadLine` is `_read` with the loop around it, `EndOfFile`/`ReadStderr` the error that quotes stderr.
* `Turn` joins them: `Request`/`Connected` are `build_mcp_tools` at the start, `StartTurn`, `Answered`, `StepFailed`,
  `StepRaised` the body of `_run_step_loop`, `Elsewhere` a call the registry refuses or runs elsewhere, `Returned`
  the handler's result. A call is made by one thread at a time, as `mcp_client.py:67` requires.

## 3. The runs

| run | instance | asks |
|---|---|---|
| `run_callers` | 1 session, 2 threads, 2 units of log on a pipe of 1, 2 stops | do both histories stay backed by what the child did, does the index lead, is a settled record final, is no ended run left open in the store, does `result()` return? |
| `ask_answers` | 1 run that is moved from a fallback thread, 1 question, 2 answerers | is the dict exact, who hangs up, does a thread lead only home, does an accepted answer arrive? |
| `surfaces_deliveries` | 3 deliveries, 3 events of 2 workspaces, window 1, limit 0 or 1, 1 crash | no replay, and an answer to every command |
| `agent_plan` | 3 items, 4 steps, 1 call a turn, schema, 2 re-runs | steps, starvation, termination |
| `agent_turn` | 2 steps, 3 calls a turn in 2 groups, pool of 2 | cost, parallelism, clean success |
| `repo_reruns` | 2 runs of 1 issue, one after the other, strays, crashes anywhere | is what is published tested and the run's own, is there one pull request, is "ok" complete? |
| `setups_writes` | 2 threads, 1 reader, 2 requests, 1 resolution, failures and crashes anywhere, a skill that was authored as files | what does one see at an instant, is the layer coherent, the cache true, do versions grow, does everybody get an answer? |
| `lessons_promotion` | 2 runs of 2 organizations with one home, 1 operator, 2 lengths of wording, 5 requests | are merges kept, is GLOBAL corroborated, does a forgotten organization stay out? |
| `conventions` | 2 passes of 1 process or of 2, a convention and its successor, lessons with a longer text, quota 1, 4 ingestions | does a key stay served while it is replaced, by how much is the quota overrun? |
| `sandbox_calls` | 3 threads, pool of 2 or 3, 1 hang | one call per container, nothing leaks, every call returns |
| `linear_tokens` | 2 servers, 1 callback, 3 pairs of tokens, 6 units of time, 1 loss | whose token is spent, whose row is replaced, does the token work? |
| `turn_calls` | 2 turns, 2 attempts, 3 backends; 4 requests to a server with pipes of 1 line that logs 2, says 2 unasked, may die and leave its pipes to a child | is every charge accounted for, is only a whole answer acted on, is a call's result its own, does the run end? |

Why these bounds are enough. *RunService*: every race is between two threads on one
session; sessions share only the index and the emptiness of the store, so one
suffices; one unit more of log than the pipe holds is what blocks a child; two stops
give a crash after a restart. *AskUser*:
one question with two answers is
the smallest race, and a run that leaves its fallback thread while they are on their way is what may
send one astray; a second question of the same run shares only the slot, which
the instances of section 5 exercise. That two runs are not confused is proved for any number; with two
runs of a question each (`OneAskEach`, `R2Falls`) TLC agrees in 3.6 million states. *SurfacePipeline*: with a window of
one, the second event pushes the first out, and the third delivery repeats
it; the proof covers all sizes. *AgentLoop*: three items on four steps is the
smallest case in which shares differ and leave a remainder; three calls are one
more than the pool; two steps let a second turn see the cost of the first, and
an answer follow a failed call; two re-runs are needed for a repeated signature.
*RepoRun*: a second run is what meets the remains of the first; what three leave is what
two leave, and the proofs are for any number. *Setups*: items of a kind
share nothing but the lock, so one of each; two requests are one that cuts in and one
that is cut; a skill that the service wrote itself, or none, comes after the first of them. With all of `FourLayers` TLC agrees
on the safety properties, in 1.1 million states; the proofs, again, are for any number. *Lessons*: two organizations are
`MinOrgs`; five requests are mine, mine, scan, approve or forget, and one that comes between.
*Conventions*: a version, its successor and one that comes between are three ingestions, and as two processes may overrun a
quota of one by two, a fourth is what could pass that; both passes in one process or each in its own. With two keys, rival
issuers and a mined record (`Rivals`) TLC agrees on `KeyStaysServed` for three ingestions, and on `QuotaOverrun` for four while no time passes;
a lifetime of three lets an ingestion outlive none and a record end. `Tick` lets a unit (of
weeks) pass an ingestion at most once. *SandboxPool*: two callers race for the last place, the third waits; a pool of three is a
container for each. *LinearInstalls*: two servers for one token, a callback
between them; three pairs are the first, its refresh and the reinstalled one; six units let
a token of four expire. *Turn*: two requests connect, a third is given up and a fourth may get its
answer; a cap of two is doubled against a ceiling of three; Gemini's backend does what
OpenAI's does, less the parsing (with it TLC agrees, in longer). Two lines unasked
make a client with `MaxMessages = 2` give up, and, like two lines of log, more than fill a pipe of one: both the server and the client may block. Unbounded counters are bounded by these constants; no
other bound is hidden in a guard.

Symmetry is used for group names (`agent_turn`), runs (`repo_reruns`), clients
(`linear_tokens`) and passes and processes (`conventions`), in runs without liveness only. Deadlock is not checked where the
system may rest: all requests served, all deliveries handled, all runs over.
`AgentLoop` has an explicit `Stops` step, so there a deadlock is an error.

The type invariant of every module is proved for all constants; the runs `conventions` and `sandbox_calls` check
theirs too, and in the other cfg files it can be named to see it hold on the instance.

### Fairness

`RunService`: weak fairness of each child, of draining, and of each request thread past
its start - the operating system runs them. Requests, crashes and stops are not
fair. That the child itself goes on is assumed - of a child without a verifier or MCP server
`AgentLoop!Terminates` shows it - except where a full pipe stops it. `AskUser`: the handler's, the closer's and the answerers' threads
are fair; no timeout must fire and nobody must answer. `SurfacePipeline`: the threads
are fair, including the end of a run; deliveries and crashes are not.
`AgentLoop`: `WF` of a step while the run does not wait for what has no time limit: the verifier's
`subprocess.run` (`agent.py:1107`) and the read of an MCP server (`mcp_client.py:113`). `Terminates` says that a run ends or waits
there for ever (`Waits`). The other calls end: tools and children by `tools/runner.py`'s timeouts, the
model's by its SDK's limit, which is an assumption about code outside the repository. `Setups`: each
client's `Serve` is weakly fair while it does not wait for a source's server, whose reads have no time limit
(`mcp_client.py:113`) and during which the lock is held: `EveryRequestIsAnswered` excepts a request that waits
so for ever, and those that wait for its lock. Requests, failures and crashes are not fair. Weak fairness
suffices for the lock because requests are bounded. `SandboxPool`: each caller's `Run` is weakly fair; a waiter may be passed over, so
`EveryCallReturns` is stated for a container per thread. `Turn`: the run's process is fair, which includes that a
provider answers or times out (the SDKs have a limit). The server has no fairness: `RunEnds` says that a run
ends or waits for its server for ever. `EndsUnlessBlocked` has it as a premise (`ServerServes`: it reads, answers and
writes what it has begun; it need not speak unasked nor die). `RepoRun`, `Lessons`, `Conventions` and
`LinearInstalls` have no liveness property and no fairness.

## 4. What is proved

All theorems hold for every value of the constants that satisfies the
module's assumption; those say only that bounds are natural numbers, that `None` and
its like are not values of another kind, that group names are not tool names, that a
window holds at least one id, that Linear's margin is at least two units and less than a
token's life, that the passes over a collection are finitely many. Where a promise needs more, the theorem says so
as a premise: `~Overlap`, `PageHolds`, `~Strays`, `OneHome`, `OneOperator`, `NoCli`, `~Dated`, `TTL >= 3`.

| theorem | says | inductive invariant |
|---|---|---|
| `RunServiceProofs!TypeCorrect` | `[]TypeOK` | with `TypeOK`, which phases of a request hold an envelope (`TypeInv`) |
| `RunServiceProofs!EndedRunsEnded` | `[]HistoryBackedByProcess` | a thread that is about to write a "result" has seen the child exited, one about to write a "cancel" has sent the signal or found it exited; neither is undone by a restart |
| `RunServiceProofs!RecordedOutcomes` | `[]OutcomeBackedByTrace` | whatever is in `stdout`, in a cache or in a thread's hand is the trace's outcome or "error" |
| `RunServiceProofs!StoreFollowsIndex` | `[]IndexBeforeStore` | a thread at `record` has its line in the index; migrated rows come from it |
| `RunServiceProofs!BridgeIsReleased` | `[]BridgeReleased` | a request past the pop finds the bridge taken, and it is never opened again; while it is popped one thread stands before its `close()`, and no two do (`ClosedInv`) |
| `RunServiceProofs!SettledRunsAreFinal` | `SettledIsFinal` | see below |
| `RunServiceProofs!RecordsBacked` | `[]RecordsAreBacked`, the three together | |
| `RunServiceProofs!TerminalsArrive` | `[]NoLostTerminal` | while nothing was stopped and clients wait for `submit`, a known run has its row (`KnownInv`), and a run ended in the index is ended in the store or its writer is at `record` (`PendingInv`) |
| `AskUserProofs!TypeCorrect` | `[]TypeOK` | itself |
| `AskUserProofs!PendingServed` | `[]PendingIsServed` | which phases of a handler have the question in the dict |
| `AskUserProofs!NeverHungUpByAnswer` | `[]NoAnswerHangsUp` | an event is set with a reply or by `close`, so a handler that wakes with nothing to send is a closed bridge's (`HangUpInv`) |
| `AskUserProofs!BridgeOrderly` | `[]BridgeIsOrderly`, the two together | |
| `AskUserProofs!AnswersStay` | `[]ThreadsStayApart` | what a thread's entry ever held, carried along the answerer's lookups |
| `AskUserProofs!PipelineTypes` | `[]PipelineTypeOK`, so the window never exceeds its size | itself |
| `AskUserProofs!NoReplay` | `[]NoReplayInWindow` | an active delivery's id is in the window or forgotten; of two of the same event only if forgotten |
| `AgentLoopProofs!TypeCorrect` | `[]TypeOK` | with `IInv`, which bounds the counters |
| `AgentLoopProofs!StepsBounded` | `[]StepsWithinBudget` | see below |
| `AgentLoopProofs!NoItemStarves` | `[]EveryItemHasATurn` | see below |
| `AgentLoopProofs!BudgetShared` | `[]BudgetIsShared`, the two together | |
| `AgentLoopProofs!SuccessClean` | `[]SuccessIsClean` | whatever went wrong is on record as a failure of the attempt, as a call that failed or recovered, or in a result not yet taken (`CleanInv`) |
| `AgentLoopProofs!OverrunBounded` | `[]OverrunIsOneTurn` | see below (`CapInv`) |
| `AgentLoopProofs!PoolBounded` | `[]PoolBoundsTheTurn` | see below (`PoolInv`) |
| `AgentLoopProofs!PoolTypes` | `[]PoolTypeOK`, so the queue never holds more than the pool | with `LeakInv`: a container can be started only because an id is left |
| `AgentLoopProofs!OneCallEach` | `[]OneCallPerContainer` | whoever executes, stops, discards or returns holds a container, no two the same, none that is queued, none that the queue has twice; and what is alive is held or queued (`OwnerInv`) |
| `AgentLoopProofs!NoLeak` | `[]NothingLeaks` | see below (`LeakInv`) |
| `RepoRunProofs!TypeCorrect` | `[]TypeOK` | itself |
| `RepoRunProofs!SuccessComplete` | `[]SuccessIsComplete` | what a run past each gate has to show (`DoneInv`) |
| `RepoRunProofs!PublishedTested` | `[](PublishedWasTested /\ OnlyOwnWork)`, given `~Overlap` | one run of an issue is active at a time (`TurnInv`); the checkout holds, from its reset on, the work of the active run and strays only (`TreeInv`) |
| `RepoRunProofs!OwnAndTested` | `[]PublishedIsOwnAndTested`, given `~Overlap` | the same |
| `RepoRunProofs!PublishedStrictly` | `[]StrictlyTested`, given `~Overlap` and `~Strays` | and no stray's (`CleanInv`) |
| `RepoRunProofs!OnePR` | `[]OnePRPerIssue`, given `~Overlap` and `PageHolds` | a run about to POST has listed and found none, and none was made since (`PRInv`) |
| `RepoRunProofs!TurnTypes` | `[]TurnTypeOK` | with `CallInv`: a call in flight is one that is still to be made |
| `RepoRunProofs!ChargesAdd` | `[]AnswersAreSound` | see below (`AccountInv`) |
| `RepoRunProofs!ResultsAreOwn` | `[]AnswersItsCall` | itself: the number only grows with a call, and a call in hand is compared with it |
| `SetupsProofs!TypeCorrect` | `[]TypeOK` | with what a client's step says of its request (`StepInv`) and of a reader's view (`ViewInv`) |
| `SetupsProofs!Refines` | `StoreIsARegister`: `Setups` implements `SkillRegister` | see below |
| `SetupsProofs!HistoryKept` | `[]HistoryFollowsDisk`, with any command line | the history lags only while a request is between its rename and its record, or `behind` says so (`HistInv`) |
| `SetupsProofs!Coherent` | `[]LayerIsCoherent`, given `NoCli` | and whoever is between the two files of a source holds the lock (`SourceInv`, `EntryInv`) |
| `SetupsProofs!VersionsOnlyGrow` | `VersionsGrow`, given `NoCli` | what was read under the lock is still there when it is written |
| `SetupsProofs!CachedTruth` | `[]UndisturbedCacheIsTrue` | a reader that nobody disturbed has hashed, and read, what was there when it listed (`ReadInv`, `CacheInv`) |
| `LessonsProofs!TypeCorrect` | `[]TypeOK` | with the steps' requests and hands (`StepInv`, `HandInv`) |
| `LessonsProofs!Corroboration` | `[]GlobalIsCorroborated` | every source of every candidate, in the queue or in a hand, is an organization that has mined the lesson (`KnownInv`) |
| `LessonsProofs!MergesKept` | `[]MergesAreKept`, given `OneHome` | between a search under the lock and its write nobody else writes, and an eviction takes its session out of `kept` (`LockInv`, `MergeInv`) |
| `LessonsProofs!ForgottenOut` | `[]ForgottenStaysOut`, given `OneOperator` | a forgotten organization is in no hand either (`ForgetInv`) |
| `ConventionsProofs!ConventionsTypes` | `[]TypeOK` | with what a pass at each place holds (`StandingInv`) |
| `ConventionsProofs!QuotaHolds` | `[]QuotaOverrun` | see below (`QuotaInv`, `PlainInv`) |
| `ConventionsProofs!Replacements` | `KeyStaysServed`, given `~Dated` and `TTL >= 3` | see below (`BornInv`, `FreshInv`, `TouchedInv`, `SpanInv`, `HeirInv`) |
| `LinearInstallsProofs!TypeCorrect` | `[]TypeOK` | itself, with what each place holds (`ShapeInv`) |
| `LinearInstallsProofs!SpendsLive` | `[]SpendsLiveTokens` | only the holder of the lock spends the row's refresh token, and it is live or was lost (`LockInv`, `TokenInv`) |
| `LinearInstallsProofs!Continues` | `RefreshContinues` | an answer in hand was traded for the row that is still there (`FromInv`) |
| `LinearInstallsProofs!HandedOut` | `HandedOutWorks` | the row's lifetime exceeds the token's by less than a unit, and a call's clock is behind by one at most (`TimeInv`) |

The argument for `SettledIsFinal`. It is an action property, so it needs an invariant that
says why a settled run cannot be finalized again. Within one process that is the set
`_finalized`; but a restart empties it. `ShutInv` has both cases: a terminal row is of a
session in `_finalized`, or of one that was launched, has no handle and no request. The second is
what a stop leaves (`PlaceInv`: a stopped service has neither handles nor requests), and it
stays true because only `submit` makes handles, of sessions never launched before. A row
that migration fills in counts as launched because its line is backed by a process
(`HistoryBackedByProcess`, already proved). Lemma `WayIn` says that a thread gets into
`_finalize` only through the guard, which `ShutInv` closes.

The argument for `AgentLoop`. `StepsWithinBudget` is not inductive: that an item's share
fits into what is left depends on how many items are left. `IInv` adds the types of
the counters, what each `pc` says about the plan (`PhaseInv`), that the steps of earlier
items and the share of this one fit (`StepInv`), and that, while nothing has
failed and there were at least as many steps as items, at least one step is left for
each item to come (`ShareInv`). The lemma `FairShare` is the arithmetic: with
`r >= k > 0`, the share `q = r \div k` satisfies `q >= 1` and `r - q >= k - 1`. Every action then
preserves `IInv`, one lemma each.

The argument for one turn of `AgentLoop`. A turn begins only below the cap and adds the model's call.
From there `CapInv` bounds what is spent not by the sum of the calls' costs but by their number: `Paid`
is the set of calls whose cost is already counted (a taken result, or a `decompose` that is over), no call
enters it twice, and each entry costs at most `Dear`; the set stays within the turn, whose length
`MaxCalls` bounds. For the pool, `PoolInv` says that when a call has started, all of `Ahead` of it is over.
Of two calls that are not of one group one is ahead of the other: a serial call of a parallel one, the
earlier of two serial ones, and of two groups the one whose first call comes first (`OneIsAhead`, with `LeastOf`
for the first call). So running calls are all of one group, of which the guard of `Starts` counts no more than
the workers.

The argument for `Refines`. The old directory is renamed away, which is `TakeAway` if there is one and leaves none, and
the new one into place, which is `Apply`. What has to be shown of every other step is that it leaves the item and the
pending requests alone (`PendStep`, `SwapStep`, `Stutters`), and of these two that nobody else is between its renames:
whoever is at work on the skill is a thread that holds the lock (`OneAtWork`, from `StepInv` and `LockInv`), as the command
line does not write skills. A failure between the renames is `GiveUp`, a crash there is `Crash`: both cost the
skill. That its replacement is not seen as one instant is not hidden but said; what is excluded is that a
write is lost, done twice, or undone by an older one.

The argument for `HandedOut`. A token ends `Life` after Linear issued it. `install_store.py:299` counts
the lifetime from the write, at most one unit later, and `get_token` compares with a clock that it read
before it waited, at most one unit earlier. The margin is two units, so what is judged not due has
not ended when it is returned.

The argument for the sandbox pool. `_acquire` finds the queue empty, counts and starts without a lock, so
nothing bounds the containers by `pool_size`; what bounds them is the threads. `LeakInv` counts, with those alive, the
callers that have decided to start one (`Starters`): they never exceed the callers, because whoever has seen the
queue empty holds none. A container that runs and is not alive is charged to a docker command
that failed or hung; a removal that failed is charged while its caller still stands before `_alive.discard`
(`Survivors`), where the container is still alive.

The argument for `ChargesAdd`. The sum is wrong in the middle of a step, where the provider has charged and the
backend has not reported yet. `AccountInv` says by how much, at each place of `step()`: at a request by the
response that was cut off and kept, at the judgement by that and the one in hand, at the end by what the
step reports. The difference is gone when the turn adds it, or the run has failed.

The argument for `QuotaHolds`. Whether a scope is full is judged by the listing that a pass made when it took the
lock of its process; passes of other processes write meanwhile, by listings of their own. `QuotaInv` counts
with the retrievable entries the candidates that have found room and are not written yet (`Coming`). When a pass
lists a scope with room, at most `MaxEntries` are retrievable, the one it will replace included; a process brings
one candidate at a time, since its lock is held from the listing to the write. From there the union only
shrinks, as a write takes its candidate from one part to the other. A lesson that merges may make a quarantined
entry active, write back one that was deleted, or give one the id of none: then it has written what was not there
(`back`), which the property exempts; until then every entry has the text of its record (`PlainInv`).

The argument for `Replacements`. A replacement writes the new entry and deletes the old one; before the deletion
the new one may be dropped, overwritten or replaced in its turn. `HeirInv` says that
while a pass stands before its deletion some entry of its key serves and is not itself to be deleted
(`Doomed`). A pass that would replace the heir writes its own candidate first, which then is the heir.
Nothing may overwrite an heir by an inactive entry of its id: ids carry the ingestion, and no
entry is of an ingestion that still waits (`FreshInv`, with `BornInv` for those that are over). What lessons have
lengthened, or move, or stamp once more is of a key that one has touched (`TouchedInv`), which the property exempts. And no pass may
drop it as expired: an ingestion sees one tick at most, so what was written for `TTL` ticks outlives it
(`SpanInv`). That is where the premises come from. With `Dated` a record that comes back carries the id it had, and
its new verdict, inactive as it expired, replaces the old one; TLC shows it. A lifetime of one or two ticks (weeks
or months in the code) could end during the ingestion.

Only model-checked, because liveness is beyond the prover: `ResultReturns`, `AcceptedAnswerArrives`,
`EveryCommandIsAnswered`, `Terminates`, `EveryRequestIsAnswered`, `EveryCallReturns`, `RunEnds`, `EndsUnlessBlocked`. Every safety property
and every action property that a run checks is a theorem.

## 5. Where the code and its documentation differ

The modules state promises of the documentation, of comments and of tests that the code does not keep.
Each has a comment with the line it quotes, and an instance that refutes it. They are not among the
standing runs, which are kept for what holds; run them by hand, with the property
named in the first column alone in the cfg, or with `-continue`:

    tlc -config RunService_refuted.cfg MCRunService.tla

| promise | instance | what happens |
|---|---|---|
| `OneTerminalLine` | `RunService_refuted.cfg` | two `result()` calls pass the unlocked guard of `_finalize` and write two terminal lines |
| `CancelIsInHistory` | `RunService_refuted.cfg` | a run exits while it is being cancelled: the client hears "cancelled", history says "done" |
| `ErrorMeansNoEnvelope` | `RunService_refuted.cfg` | two threads in one `communicate()`: a finished run is recorded as an error |
| `StreamEndsWithResult` | `RunService_refuted.cfg` | a client that only streams; nobody drains stderr; the child blocks and the stream never ends |
| `HistoryIsTheIndex` | `RunService_refuted.cfg` | a crash between line and row; the two differ for good |
| `EarlyTerminalsArrive` | `RunService_refuted.cfg` | a cancel that comes before `submit` has written its row: the row is inserted as running and stays so |
| `SameVerdictAfterRestart` | `RunService_refuted.cfg` | `all_tools_failed` is a success before a restart and a failure after it |
| `AcceptedMeansReceived` | `AskUser_refuted.cfg` | `answer()` is True for a question whose tool has given up, or that another answer has won |
| `CloseReleasesAll` | `AskUser_refuted.cfg` | a question registered after `close()` waits on |
| `MessageAnswersItsQuestion` | `AskUser_refuted.cfg` | with two questions in a thread, a message answers the other one |
| `PostedQuestionCanBeAnswered` | `AskUser_refuted.cfg` | the one slot per run is overwritten or cleared |
| `QuotaHolds` | `SurfacePipeline_refuted.cfg` | the quota reads `origin`, `submitted_at`, `finished_at` and `cost_total`, which `RunStore._summary` does not return; it counts nothing and allows every run |
| `ReportOutlivesProcess` | `SurfacePipeline_refuted.cfg` | nobody reports a run whose process died |
| `AckNeverAborts` | `SurfacePipeline_refuted.cfg` | an acknowledgement that raises ends the command |
| `WorstOutcomeIsReported` | `AgentLoop_refuted.cfg` | a sub-agent fails and the parent reports `success_with_recovery` |
| `EveryRunEndsWithUsage` | `AgentLoop_refuted.cfg` | a turn with neither calls nor text leaves before the usage event |
| `BreachStopsSpawns` | `AgentLoop_refuted.cfg` | a spawn is checked against a cost that lacks its siblings' |
| `ReportedCostIsSpent` | `AgentLoop_refuted.cfg` | `decompose` raises, the turn's children are not counted |
| `CapIsForAllAttempts` | `AgentLoop_refuted.cfg` | each re-run has the whole cap |
| `InvalidOutputIsStrict` | `AgentLoop_refuted.cfg` | a corrective call that fails gives `invalid_output` under any strategy |
| `PublishedWasTested` with `Overlap` | `RepoRun_refuted.cfg` | a second run of the issue edits the checkout between the first one's verifier and its commit |
| `StrictlyTested` with `Strays` | `RepoRun_refuted.cfg` | a killed run's subprocess writes into the tree that is committed |
| `OnePRPerIssue` without `PageHolds` | `RepoRun_refuted.cfg` | the marked pull request is not on the page that is listed |
| `CheckoutIsUsable` | `RepoRun_refuted.cfg` | a killed git leaves `index.lock`, or a directory without `.git` |
| `TruthfulBundle` | `RepoRun_refuted.cfg` | `result.json` says ok, a later file fails, the run returns failed |
| `TypeKeepsPrompt` | `Setups_refuted.cfg` | `put_agent_type` writes back a prompt that was replaced since it read it |
| `VersionsGrow` with a command line | `Setups_refuted.cfg` | both read the tool's file, both write |
| `CacheIsTrue` | `Setups_refuted.cfg` | what a resolver read after a write is kept under the hash from before |
| `CachedRevisionIsTrue` | `Setups_refuted.cfg` | a skill changes and changes back with no resolution in between: the hash is the old one, and so is the revision in the cache |
| `ReadersSeeOldOrNew` | `Setups_refuted.cfg` | between the two renames there is no item, and nothing brings it back when the second one fails |
| `RegistrationIsStored` | `Setups_refuted.cfg` | the version on disk is registered again with another flag; the call succeeds and changes nothing |
| `EveryWriteReturns` | `Setups_refuted.cfg` | a source is previewed with the lock held and its MCP server does not answer: every later write waits |
| `ForgottenStaysOut` with two operators | `Lessons_refuted.cfg` | a scan puts the organization back |
| `RejectedStaysOut` | `Lessons_refuted.cfg` | the wording is approved under a candidate read before |
| `CandidatesAreDeidentified` | `Lessons_refuted.cfg` | a name of another run's scope passes the scrubber |
| `ScopedMergesAreKept` | `Lessons_refuted.cfg` | `annotate` writes back the entry as its own ingestion left it |
| `MergesAreKept` with a home each | `Lessons_refuted.cfg` | the lock's file is under `$FABRI_HOME` (`pruning.py:283`), which the service sets for each run (`service.py:272`): two merges write what both read |
| `EvictionsSpareMerges` | `Lessons_refuted.cfg` | an eviction deletes by the ids it has listed, and with them what was merged since |
| `OneVersionIsActive` | `Conventions_refuted.cfg` | write and delete of a replacement are two calls; a crash, or another process between them, leaves both versions |
| `ActiveIsNotEvicted` | `Conventions_refuted.cfg` | `_evict_if_needed` of a lesson takes conventions as victims |
| `WhatIsRetrievedApplies` | `Conventions_refuted.cfg` | the same record is active twice, so no branch of it is "exactly one" |
| `WithinCap` | `SandboxPool_refuted.cfg` | two threads count, both start |
| `NobodyIsStranded` | `SandboxPool_refuted.cfg` | the container a caller waits for is destroyed |
| `NoDirtyReuse` | `SandboxPool_refuted.cfg` | the removal after a timeout raises and the container goes back |
| `SpendsOnce`, `StaysRefreshable` | `LinearInstalls_refuted.cfg` | Linear's answer is lost, the stored refresh token is spent |
| `LastResortWorks` | `LinearInstalls_refuted.cfg` | the fallback judges expiry by a clock from before the failed refresh |
| `CogsReflectCharges` | `Turn_refuted.cfg` | a response is cut off and its retry fails, or Bedrock refuses: the error carries no usage, what was charged is not accounted for |
| `NoPartialAnswer` | `Turn_refuted.cfg` | what a content filter stopped is an answer, for every backend but Bedrock's |
| `NoRawTraceback` | `Turn_refuted.cfg` | OpenAI's arguments that are no JSON, a response without choices, the transport under Gemini's SDK: no `LLMError` |
| `ResultIsAnAnswer` | `Turn_refuted.cfg` | a request of the server with the number awaited is taken for the answer |
| `ServedRunEnds` | `Turn_refuted.cfg` | debug output "MUST go to stderr" (`mcp_client.py:37`), which nobody reads: the server blocks, and with it the run |

## 6. What is left out

* `RunService`: fleets (a loop over `submit`), per-user filters, aggregates, text of the trace.
* `AgentLoop`: prompts, narration, memory retrieval before the run; which branch of the
  convention check is taken inside the schema check; the order `topological_order`
  gives the items (their number is what matters here). `planner.max_items = 0`, under which
  the planner asks for no item, is excluded by the assumption. `max_cost_usd = None` is a `Cap` that is never reached. The repair
  loop is modelled as `run_agent` has it when it is given a `repair` configuration.
* `SurfacePipeline`: signatures of webhooks, formatting; spend is a count of finished runs.
* `RepoRun`: redaction, the pull request's text, trace lines, the agent inside its gate.
* `Setups`: layer precedence and seeds, rows of agent types, import, `post_sync`, `post_probe`, more than
  one item of a kind (they share only the lock).
* `Lessons`: scores, tiers, the summaries of evicted entries, the sqlite backend, collections of users,
  the verification of a session, unfamiliar words in the scrubber. Other lessons exist through evictions only.
* `Conventions`: what the gates look at; other scopes. A record that brings its own dates (`Dated`) may come back
  under its old end: with `Dated = TRUE` TLC refutes `KeyStaysServed`. Not modelled, but noticed: quarantined
  records have no quota, and retrieval counts the instruction against `convention_max_tokens`.
* `SandboxPool`: `dispose` during a run, which its comment excludes; the host's sync hooks.
* `Turn`: the translation of messages and tools, prewarming, delays; usage statistics, `batch` (a loop over
  `invoke`), exposure of tools; `close` of the client, which nothing of the run waits for; schema, budget and plan,
  which are `AgentLoop`'s.
* `LinearInstalls`: encryption, other workspaces (they meet at the write lock only).
* Action memory; retrieval (ranking, text); decisions (floating-point statistics); the
  builder, the tool writer and the ideator (generated files); OpenAPI tools and MCP over HTTP (one
  request each), ingest, observability, reports, the command line, configuration, scaffolds,
  benchmarks and the studio: I/O, text or statistics without shared state. The models'
  environments contain what those parts can return.
