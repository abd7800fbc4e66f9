---------------------------- MODULE LinearInstalls ----------------------------
(***************************************************************************)
(* LinearInstallStore (service/install_store.py): the tokens of a Linear   *)
(* workspace, in a database that several servers and tool processes share. *)
(* An access token is swapped for a new one shortly before it expires, and *)
(* Linear takes each refresh token once.  One workspace is modelled: the   *)
(* rows of others meet it only at the database's write lock.               *)
(***************************************************************************)
EXTENDS Integers, FiniteSets

CONSTANTS
    Clients,    \* threads and processes that call get_token
    Installers, \* OAuth callbacks, each in a thread of its own
    None,
    Life,       \* what Linear gives an access token, in units of time
    Margin,     \* REFRESH_MARGIN_S in those units; any call takes less than one unit
    MaxTime,    \* bound: the clock
    MaxGrants,  \* bound: token pairs Linear issues
    MaxLosses   \* bound: answers that are lost and processes that die

Tokens == 1 .. MaxGrants   \* the access and the refresh token of one answer share a number
Never  == MaxTime + Life + 1
Times  == 0 .. Never

\* The row: refresh_token and expires_at may be NULL.
Rows == [access : Tokens, refresh : Tokens \cup {None}, expires : Times \cup {None}]

ASSUME LinearAssumption ==
    /\ Life \in Nat /\ Margin \in Nat /\ MaxTime \in Nat /\ MaxGrants \in Nat /\ MaxLosses \in Nat
    /\ 2 <= Margin /\ Margin < Life
    /\ None \notin Clients \cup Installers \cup Int \cup Rows

VARIABLES
    clock,
    \* Linear: pairs issued so far, when each access token ends, what each was traded for,
    \* the refresh tokens that are good, and those that were refused or lost
    issued, ends, from, live, refused, lost,
    row, lock,           \* the workspace's row; the client that holds the write lock
    pc, now, seen, out,  \* get_token: place, time sampled, row read, result
    fresh,               \* what Linear has answered
    ipc, inow, code      \* the callbacks: place, time sampled, tokens received

linear == <<issued, ends, from, live, refused, lost>>
client == <<pc, now, seen, out, fresh>>
callback == <<ipc, inow, code>>
vars == <<clock, linear, row, lock, client, callback>>

TypeOK ==
    /\ clock \in 0 .. MaxTime /\ issued \in 0 .. MaxGrants
    /\ ends \in [Tokens -> Times] /\ from \in [Tokens -> Tokens \cup {None}]
    /\ live \subseteq 1 .. issued /\ refused \subseteq Tokens /\ lost \subseteq Tokens
    /\ row \in Rows \cup {None}
    /\ lock \in Clients \cup {None}
    /\ lock # None => pc[lock] \in {"ask", "commit", "last"}
    /\ pc \in [Clients -> {"idle", "read", "begin", "ask", "commit", "last"}]
    /\ now \in [Clients -> 0 .. MaxTime]
    /\ seen \in [Clients -> Rows \cup {None}] /\ fresh \in [Clients -> Rows \cup {None}]
    /\ out \in [Clients -> Tokens \cup {None}]
    /\ ipc \in [Installers -> {"idle", "fetch", "upsert"}]
    /\ inow \in [Installers -> 0 .. MaxTime] /\ code \in [Installers -> Rows \cup {None}]

Init ==
    /\ clock = 0 /\ issued = 0 /\ live = {} /\ refused = {} /\ lost = {}
    /\ ends = [k \in Tokens |-> 0] /\ from = [k \in Tokens |-> None]
    /\ row = None /\ lock = None
    /\ pc = [c \in Clients |-> "idle"] /\ now = [c \in Clients |-> 0]
    /\ seen = [c \in Clients |-> None] /\ out = [c \in Clients |-> None]
    /\ fresh = [c \in Clients |-> None]
    /\ ipc = [i \in Installers |-> "idle"] /\ inow = [i \in Installers |-> 0]
    /\ code = [i \in Installers |-> None]

(***************************************************************************)
(* Linear: the token endpoint.                                             *)
(***************************************************************************)

\* Tokens for a code or a refresh token `for`; the answer may come without a lifetime, then
\* the access token does not end, and without a refresh token, then the one it was traded
\* for stays good.  `expires` here is expires_in.
Answers == [access : {issued + 1}, refresh : {issued + 1, None}, expires : {Life, None}]

Grant(for, answer) ==
    /\ issued < MaxGrants /\ issued' = issued + 1
    /\ ends' = [ends EXCEPT ![issued + 1] = IF answer.expires = None THEN Never ELSE clock + Life]
    /\ from' = [from EXCEPT ![issued + 1] = for]
    /\ live' = IF answer.refresh = None THEN live ELSE (live \ {for}) \cup {issued + 1}

\* Time passes; no call is so long that it sees two units go by: a wait for the lock is at
\* most thirty seconds and a request ten.
Tick ==
    /\ clock < MaxTime /\ clock' = clock + 1
    /\ \A c \in Clients : pc[c] # "idle" => now[c] = clock
    /\ \A i \in Installers : ipc[i] # "idle" => inow[i] = clock
    /\ UNCHANGED <<linear, row, lock, client, callback>>

(***************************************************************************)
(* get_token.                                                              *)
(***************************************************************************)

Goto(c, to) == pc' = [pc EXCEPT ![c] = to]

Return(c, token) ==
    /\ Goto(c, "idle")
    /\ out' = [out EXCEPT ![c] = token]
    /\ seen' = [seen EXCEPT ![c] = None] /\ fresh' = [fresh EXCEPT ![c] = None]
    /\ now' = [now EXCEPT ![c] = 0]

Call(c) ==
    /\ pc[c] = "idle" /\ Goto(c, "read")
    /\ now' = [now EXCEPT ![c] = clock]
    /\ out' = [out EXCEPT ![c] = None]
    /\ UNCHANGED <<seen, fresh, clock, linear, row, lock, callback>>

Due_NoMargin(r, t) == r.expires # None /\ r.expires - t <= 0   \* defect: due when it has ended

\* The access token is within the margin of its end.
Due(r, t) == r.expires # None /\ r.expires - t <= Margin

Read(c) ==
    /\ pc[c] = "read"
    /\ \/ row = None /\ Return(c, None)
       \/ row # None /\ ~Due(row, now[c]) /\ Return(c, row.access)
       \/ /\ row # None /\ Due(row, now[c])
          /\ Goto(c, IF row.refresh = None THEN "last" ELSE "begin")
          /\ seen' = [seen EXCEPT ![c] = row] /\ UNCHANGED <<now, out, fresh>>
    /\ UNCHANGED <<clock, linear, row, lock, callback>>

Begin_Unlocked(c) ==   \* defect: a plain BEGIN, whose read takes no write lock
    /\ pc[c] = "begin"
    /\ \/ row = None /\ Return(c, None)
       \/ row # None /\ row.expires # None /\ ~Due(row, now[c]) /\ Return(c, row.access)
       \/ /\ row # None /\ (row.expires = None \/ Due(row, now[c]))
          /\ Goto(c, "ask") /\ seen' = [seen EXCEPT ![c] = row] /\ UNCHANGED <<now, out, fresh>>
    /\ UNCHANGED <<clock, linear, row, lock, callback>>

Begin_SeenBefore(c) ==   \* defect: the row is not read again under the lock
    /\ pc[c] = "begin" /\ lock = None
    /\ lock' = c /\ Goto(c, "ask") /\ UNCHANGED <<now, out, fresh, seen>>
    /\ UNCHANGED <<clock, linear, row, callback>>

\* _refresh: BEGIN IMMEDIATE, and the row is read again.  A row without an expiry counts as
\* due here.
Begin(c) ==
    /\ pc[c] = "begin" /\ lock = None
    /\ \/ row = None /\ Return(c, None) /\ UNCHANGED lock
       \/ row # None /\ row.expires # None /\ ~Due(row, now[c]) /\ Return(c, row.access) /\ UNCHANGED lock
       \/ /\ row # None /\ (row.expires = None \/ Due(row, now[c]))
          /\ lock' = c
          /\ Goto(c, "ask") /\ seen' = [seen EXCEPT ![c] = row] /\ UNCHANGED <<now, out, fresh>>
    /\ UNCHANGED <<clock, linear, row, callback>>

\* "database is locked" after thirty seconds: get_token raises.
Busy(c) ==
    /\ pc[c] = "begin" /\ lock # None
    /\ Return(c, None)
    /\ UNCHANGED <<clock, linear, row, lock, callback>>

\* The refresher reaches Linear and its answer arrives.
Refreshed(c) ==
    /\ pc[c] = "ask" /\ seen[c].refresh \in live
    /\ \E answer \in Answers :
            Grant(seen[c].refresh, answer) /\ fresh' = [fresh EXCEPT ![c] = answer]
    /\ Goto(c, "commit")
    /\ UNCHANGED <<refused, lost, now, seen, out, clock, row, lock, callback>>

\* It reaches Linear and its answer is lost, or the process dies with it.
AnswerLost(c) ==
    /\ pc[c] = "ask" /\ seen[c].refresh \in live
    /\ Cardinality(lost) < MaxLosses
    /\ \E answer \in Answers : Grant(seen[c].refresh, answer)
    /\ lost' = lost \cup {seen[c].refresh}
    /\ Goto(c, "last")
    /\ UNCHANGED <<refused, now, seen, out, fresh, clock, row, lock, callback>>

\* It does not reach Linear, or Linear does not know the token: a row without one, which a
\* callback may have written since the first read, is asked for all the same.
RefreshFails(c) ==
    /\ pc[c] = "ask" /\ Goto(c, "last")
    /\ refused' \in {refused, refused \cup ({seen[c].refresh} \ (live \cup {None}))}
    /\ UNCHANGED <<issued, ends, from, live, lost, now, seen, out, fresh, clock, row, lock, callback>>

Unlock_Kept(c) == lock' = lock   \* defect: the connection stays open in its transaction

\* rollback, commit and close all let the lock go; without a refresh token there was none.
Unlock(c) == lock' = IF lock = c THEN None ELSE lock

\* No refresh: what the row held, if that has not ended.
LastResort(c) ==
    /\ pc[c] = "last" /\ Unlock(c)
    /\ Return(c, IF seen[c].expires # None /\ seen[c].expires > now[c] THEN seen[c].access ELSE None)
    /\ UNCHANGED <<clock, linear, row, callback>>

\* The UPDATE and its commit.
Commit(c) ==
    /\ pc[c] = "commit" /\ Unlock(c)
    /\ row' = IF row = None THEN None
              ELSE [access  |-> fresh[c].access,
                    refresh |-> IF fresh[c].refresh # None THEN fresh[c].refresh ELSE seen[c].refresh,
                    expires |-> IF fresh[c].expires # None THEN now[c] + Life ELSE None]
    /\ Return(c, fresh[c].access)
    /\ UNCHANGED <<clock, linear, callback>>

\* The process dies: sqlite rolls back, what Linear has answered is lost.
Die(c) ==
    /\ pc[c] \in {"ask", "commit", "last"} /\ Unlock(c)
    /\ pc[c] = "commit" => Cardinality(lost) < MaxLosses
    /\ lost' = IF pc[c] = "commit" THEN lost \cup {seen[c].refresh} ELSE lost
    /\ Return(c, None)
    /\ UNCHANGED <<issued, ends, from, live, refused, clock, row, callback>>

(***************************************************************************)
(* _linear_oauth_callback and the uninstall route.                         *)
(***************************************************************************)

InstallerTo(i, here, to) == ipc[i] = here /\ ipc' = [ipc EXCEPT ![i] = to]

ExchangeCode(i) ==
    /\ InstallerTo(i, "idle", "fetch")
    /\ \E answer \in Answers : Grant(None, answer) /\ code' = [code EXCEPT ![i] = answer]
    /\ inow' = [inow EXCEPT ![i] = clock]
    /\ UNCHANGED <<refused, lost, clock, row, lock, client>>

\* fetch_workspace, whose request may fail, then upsert takes the time.
FetchWorkspace(i) ==
    /\ \/ InstallerTo(i, "fetch", "upsert") /\ inow' = [inow EXCEPT ![i] = clock] /\ UNCHANGED code
       \/ InstallerTo(i, "fetch", "idle") /\ code' = [code EXCEPT ![i] = None] /\ inow' = [inow EXCEPT ![i] = 0]
    /\ UNCHANGED <<clock, linear, row, lock, client>>

\* The write waits for the lock as well, and raises when that takes too long.
Upsert(i) ==
    /\ InstallerTo(i, "upsert", "idle")
    /\ \/ /\ lock = None
          /\ row' = [code[i] EXCEPT !.expires = IF @ # None THEN inow[i] + Life ELSE None]
       \/ lock # None /\ UNCHANGED row
    /\ code' = [code EXCEPT ![i] = None] /\ inow' = [inow EXCEPT ![i] = 0]
    /\ UNCHANGED <<clock, linear, lock, client>>

Delete ==
    /\ lock = None /\ row # None /\ row' = None
    /\ UNCHANGED <<clock, linear, lock, client, callback>>

GetToken(c) ==
    \/ Read(c) \/ Begin(c) \/ Busy(c) \/ Refreshed(c) \/ AnswerLost(c) \/ RefreshFails(c)
    \/ LastResort(c) \/ Commit(c)

Next ==
    \/ Tick \/ Delete
    \/ \E c \in Clients : Call(c) \/ GetToken(c) \/ Die(c)
    \/ \E i \in Installers : ExchangeCode(i) \/ FetchWorkspace(i) \/ Upsert(i)

Spec == Init /\ [][Next]_vars

(***************************************************************************)
(* Properties.                                                             *)
(***************************************************************************)

\* Linear refuses a stored refresh token only if it has taken it before and the answer was
\* lost: servers that refresh, callbacks that reinstall and removals, at the same time,
\* never make one spend what another has spent.
SpendsLiveTokens == refused \subseteq lost

\* A refresh replaces only the row whose refresh token it has traded: a token that a callback
\* has stored meanwhile stays.
RefreshContinues ==
    [][row # None /\ row' # None /\ row' # row => from'[row'.access] \in {None, row.refresh}]_vars

\* What get_token returns, unless a refresh has failed or there is none, is a token that has
\* not ended by then: the margin makes up for a callback that counts the lifetime from a
\* later moment than Linear, and for the time the call takes.
HandedOutWorks ==
    [][\A c \in Clients :
          pc[c] \notin {"idle", "last"} /\ pc'[c] = "idle" /\ out'[c] # None => clock < ends[out'[c]]]_vars

\* CHANGELOG.md:44-45, "two servers sharing it never spend the same refresh token".
SpendsOnce == refused = {}

\* CHANGELOG.md:45-46, a failed refresh "keeps a token that is still live and returns nothing
\* for an expired one".
LastResortWorks ==
    [][\A c \in Clients :
          pc[c] = "last" /\ pc'[c] = "idle" /\ out'[c] # None => clock < ends[out'[c]]]_vars

\* CHANGELOG.md:35, "Linear installs that keep working": an install that has a refresh token
\* can be refreshed.
StaysRefreshable ==
    lock = None /\ row # None => row.refresh \in live \cup {None}
=============================================================================
