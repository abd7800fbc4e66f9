---------------------------- MODULE SurfacePipeline ----------------------------
(***************************************************************************)
(* The pipeline every chat or issue-tracker surface shares                 *)
(* (service/surfaces/pipeline.py): a webhook delivery is checked against   *)
(* the window of seen delivery ids, classified, held against the quota,    *)
(* and run on a thread of its own that reports back to the surface.        *)
(* Surfaces deliver an event again when they are not sure it arrived; the  *)
(* process may crash and be restarted.  Answers to questions, the other    *)
(* kind of delivery, are the subject of AskUser.                           *)
(***************************************************************************)
EXTENDS Naturals, FiniteSets, Sequences

CONSTANTS
    Deliveries,     \* webhook requests, each handled by a request thread
    Events,         \* what is delivered: the delivery ids
    KnownRef,       \* events that name a catalog entry that exists
    TenantOf,       \* TenantOf[e]: the workspace an event comes from
    NoEvent,        \* of a request thread that has no delivery
    Window,         \* _MAX_DELIVERY_IDS
    Limits,         \* QuotaPolicy.max_concurrent, as the deployment may set it; 0 is "off"
    MaxPerDay, MaxSpend,   \* the rest of QuotaPolicy; all runs are of one day
    MaxCrashes      \* bound: how often the process may crash

ASSUME SurfaceAssumption ==
    /\ KnownRef \subseteq Events /\ NoEvent \notin Events
    /\ Window \in Nat \ {0}
    /\ Limits \subseteq Nat /\ Limits # {} /\ MaxPerDay \in Nat /\ MaxSpend \in Nat
    /\ MaxCrashes \in Nat

VARIABLES
    stage, ev,   \* the threads: where each is, the event it handles
    seen,        \* _delivery_ids of the surface, oldest first
    row,         \* the row of a run in runs.db
    said,        \* what the surface was sent for a delivery
    raised,      \* the call to the surface that raised instead
    limit,       \* max_concurrent, from the environment of this process
    crashes,
    forgotten    \* history: ids that have left `seen`

pipelineVars == <<stage, ev, seen, row, said, raised, limit, crashes, forgotten>>

Running  == {"acked", "launched", "waiting", "reporting"}
Launched == {"launched", "waiting", "reporting", "reported", "lost"}

PipelineTypeOK ==
    /\ stage \in [Deliveries -> {"idle", "fresh", "allowed", "acked", "done", "gone"} \cup Launched]
    /\ ev \in [Deliveries -> Events \cup {NoEvent}]
    /\ \A d \in Deliveries : stage[d] # "idle" => ev[d] # NoEvent
    /\ seen \in Seq(Events) /\ Len(seen) <= Window
    /\ row \in [Deliveries -> {"none", "running", "finished"}]
    /\ said \in [Deliveries -> SUBSET {"catalog", "refused", "result", "error"}]
    /\ raised \in [Deliveries -> {"none", "ack", "report"}]
    /\ limit \in Limits
    /\ crashes \in 0..MaxCrashes
    /\ forgotten \in SUBSET Events

PipelineInit ==
    /\ stage = [d \in Deliveries |-> "idle"] /\ ev = [d \in Deliveries |-> NoEvent]
    /\ seen = <<>> /\ forgotten = {}
    /\ row = [d \in Deliveries |-> "none"]
    /\ said = [d \in Deliveries |-> {}]
    /\ raised = [d \in Deliveries |-> "none"]
    /\ limit \in Limits /\ crashes = 0

Goes(d, here, next) == stage[d] = here /\ stage' = [stage EXCEPT ![d] = next]

Say(d, what) == said' = [said EXCEPT ![d] = @ \cup {what}]

-----------------------------------------------------------------------------
(* _is_duplicate, under its lock: an id is remembered before anything is    *)
(* decided about it, the oldest one makes room.                             *)

Remembers(id) == \E i \in 1..Len(seen) : seen[i] = id

Duplicate(d, e) ==
    /\ Remembers(e) /\ Goes(d, "idle", "done")
    /\ ev' = [ev EXCEPT ![d] = e]
    /\ UNCHANGED <<seen, row, said, raised, limit, crashes, forgotten>>

Fresh_NotRemembered(d, e) ==   \* defect: the id is not stored
    /\ ~Remembers(e) /\ Goes(d, "idle", "fresh")
    /\ ev' = [ev EXCEPT ![d] = e]
    /\ UNCHANGED <<seen, row, said, raised, limit, crashes, forgotten>>

Fresh_OffByOne(d, e) ==   \* defect: the oldest id goes one delivery too late
    /\ ~Remembers(e) /\ Goes(d, "idle", "fresh")
    /\ ev' = [ev EXCEPT ![d] = e]
    /\ IF Len(seen) <= Window
       THEN seen' = Append(seen, e) /\ UNCHANGED forgotten
       ELSE seen' = Append(Tail(seen), e) /\ forgotten' = forgotten \cup {Head(seen)}
    /\ UNCHANGED <<row, said, raised, limit, crashes>>

Fresh(d, e) ==
    /\ ~Remembers(e) /\ Goes(d, "idle", "fresh")
    /\ ev' = [ev EXCEPT ![d] = e]
    /\ IF Len(seen) < Window
       THEN seen' = Append(seen, e) /\ UNCHANGED forgotten
       ELSE seen' = Append(Tail(seen), e) /\ forgotten' = forgotten \cup {Head(seen)}
    /\ UNCHANGED <<row, said, raised, limit, crashes>>

(* An unknown catalog entry, list or help: the catalog is the reply.        *)
ShowCatalog(d) ==
    /\ ev[d] \notin KnownRef /\ Goes(d, "fresh", "done") /\ Say(d, "catalog")
    /\ UNCHANGED <<ev, seen, row, raised, limit, crashes, forgotten>>

-----------------------------------------------------------------------------
(* quota.check over run_store.list_runs().                                  *)

(* RunStore._summary: what a row looks like to its readers.                 *)
Summary(d) == [session_id |-> d,
               status |-> IF row[d] = "running" THEN "running" ELSE "done",
               cost |-> IF row[d] = "finished" THEN 1 ELSE 0]

ListRuns == {Summary(d) : d \in {x \in Deliveries : row[x] # "none"}}

(* _origin_runs: rows without an origin were not started from a surface.    *)
OriginRuns == {r \in ListRuns : "origin" \in DOMAIN r}

RunsFrom(t) == {r \in OriginRuns : r.origin = t}

Allowed(t) ==
    /\ Cardinality({r \in RunsFrom(t) : "finished_at" \notin DOMAIN r}) < limit
    /\ Cardinality(RunsFrom(t)) < MaxPerDay
    /\ Cardinality({r \in RunsFrom(t) : "cost_total" \in DOMAIN r}) < MaxSpend

QuotaAllows(d) ==
    /\ ev[d] \in KnownRef /\ Allowed(TenantOf[ev[d]]) /\ Goes(d, "fresh", "allowed")
    /\ UNCHANGED <<ev, seen, row, said, raised, limit, crashes, forgotten>>

QuotaRefuses_Silent(d) ==   \* defect: the refusal is not sent
    /\ ev[d] \in KnownRef /\ ~Allowed(TenantOf[ev[d]])
    /\ Goes(d, "fresh", "done")
    /\ UNCHANGED <<ev, seen, row, said, raised, limit, crashes, forgotten>>

QuotaRefuses(d) ==
    /\ ev[d] \in KnownRef /\ ~Allowed(TenantOf[ev[d]])
    /\ Goes(d, "fresh", "done") /\ Say(d, "refused")
    /\ UNCHANGED <<ev, seen, row, raised, limit, crashes, forgotten>>

-----------------------------------------------------------------------------
(* _run_and_deliver on the background thread.                               *)

Ack(d) ==
    /\ Goes(d, "allowed", "acked")
    /\ UNCHANGED <<ev, seen, row, said, raised, limit, crashes, forgotten>>

(* Looking up the workspace's token may raise, and the ack is outside the   *)
(* try: the thread ends here.                                               *)
AckRaises(d) ==
    /\ Goes(d, "allowed", "done")
    /\ raised' = [raised EXCEPT ![d] = "ack"]
    /\ UNCHANGED <<ev, seen, row, said, limit, crashes, forgotten>>

Submit(d) ==
    /\ Goes(d, "acked", "launched")
    /\ UNCHANGED <<ev, seen, row, said, raised, limit, crashes, forgotten>>

RecordSubmit(d) ==
    /\ Goes(d, "launched", "waiting")
    /\ row' = [row EXCEPT ![d] = "running"]
    /\ UNCHANGED <<ev, seen, said, raised, limit, crashes, forgotten>>

(* service.result: blocks until the child is gone, then writes the row.     *)
ResultReturns(d) ==
    /\ Goes(d, "waiting", "reporting")
    /\ row' = [row EXCEPT ![d] = "finished"]
    /\ UNCHANGED <<ev, seen, said, raised, limit, crashes, forgotten>>

DeliverResult(d) ==
    /\ Goes(d, "reporting", "reported") /\ Say(d, "result")
    /\ UNCHANGED <<ev, seen, row, raised, limit, crashes, forgotten>>

Ends(d) ==
    /\ stage[d] \in Running
    /\ stage' = [stage EXCEPT ![d] = IF @ = "acked" THEN "done" ELSE "reported"]

Raises_Silent(d) ==   \* defect: an exception ends the thread without a word
    /\ Ends(d)
    /\ UNCHANGED <<ev, seen, row, said, raised, limit, crashes, forgotten>>

(* Whatever the run raises, the surface is told.                            *)
Raises(d) ==
    /\ Ends(d) /\ Say(d, "error")
    /\ UNCHANGED <<ev, seen, row, raised, limit, crashes, forgotten>>

(* deliver_error can raise too, here and in dispatch.                       *)
ErrorRaises(d) ==
    /\ \/ Ends(d)
       \/ /\ ~(ev[d] \in KnownRef /\ Allowed(TenantOf[ev[d]]))
          /\ Goes(d, "fresh", "done")
    /\ raised' = [raised EXCEPT ![d] = "report"]
    /\ UNCHANGED <<ev, seen, row, said, limit, crashes, forgotten>>

(* The process is gone and started anew, perhaps with another limit: the    *)
(* window and the threads go with it, but not the rows.                     *)
Crash ==
    /\ crashes < MaxCrashes /\ crashes' = crashes + 1
    /\ limit' \in Limits
    /\ seen' = <<>>
    /\ forgotten' = forgotten \cup {seen[i] : i \in 1..Len(seen)}
    /\ stage' = [d \in Deliveries |-> IF stage[d] \in {"launched", "waiting", "reporting"} THEN "lost"
                                      ELSE IF stage[d] \in {"fresh", "allowed", "acked"} THEN "gone" ELSE stage[d]]
    /\ UNCHANGED <<ev, row, said, raised>>

-----------------------------------------------------------------------------
Step(d) == \/ ShowCatalog(d) \/ QuotaAllows(d) \/ QuotaRefuses(d)
           \/ Ack(d) \/ AckRaises(d) \/ Submit(d) \/ RecordSubmit(d)
           \/ ResultReturns(d) \/ DeliverResult(d) \/ Raises(d) \/ ErrorRaises(d)

PipelineNext ==
    \/ \E d \in Deliveries, e \in Events : Duplicate(d, e) \/ Fresh(d, e)
    \/ \E d \in Deliveries : Step(d)
    \/ Crash

PipelineSpec == PipelineInit /\ [][PipelineNext]_pipelineVars

(* The threads run, and a run ends (RunService); surfaces owe us nothing.   *)
FairPipeline == PipelineSpec /\ \A d \in Deliveries : WF_pipelineVars(Step(d))

-----------------------------------------------------------------------------
(* Properties.                                                              *)

RunsOf(e) == {d \in Deliveries : stage[d] \in Launched /\ ev[d] = e}

(* An event that is delivered again, by two requests at once or after a     *)
(* refusal, starts no second run unless its id has left the window.         *)
NoReplayInWindow ==
    \A c, d \in Deliveries :
        c # d /\ stage[c] \in Launched /\ stage[d] \in Launched /\ ev[c] = ev[d] => ev[c] \in forgotten

Told(d, what) == what \cap said[d] # {}

(* Unless the process dies or the call to the surface raises, a command     *)
(* that passed the window gets one of the replies it is owed: the catalog,  *)
(* the refusal, or the report of a run, whatever that run raises.           *)
EveryCommandIsAnswered ==
    \A d \in Deliveries :
        stage[d] = "fresh" ~> \/ Told(d, {"result", "error"}) \/ raised[d] # "none"
                              \/ stage[d] \in {"lost", "gone"}
                              \/ stage[d] \notin Launched /\ Told(d, {"catalog", "refused"})

(* base.py:111, of deliver_ack: "Best effort; failure never aborts a run."  *)
AckNeverAborts ==
    \A d \in Deliveries :
        stage[d] = "allowed" ~> Told(d, {"result", "error"}) \/ raised[d] = "report"

(* pipeline.py:288-289, quota is checked "so no adapter can forget it and   *)
(* no surface can spend past its share": a workspace has no more runs than  *)
(* the greatest limit allows.                                               *)
QuotaHolds ==
    \A e \in Events : \E n \in Limits :
        Cardinality({d \in Deliveries : row[d] = "running" /\ TenantOf[ev[d]] = TenantOf[e]}) <= n

(* types.py:46-47, the target is persisted with the run "so a delivery can  *)
(* outlive the process that started it".                                    *)
ReportOutlivesProcess ==
    \A d \in Deliveries : row[d] # "none" ~> Told(d, {"result", "error"}) \/ raised[d] = "report"

=============================================================================
