------------------------------ MODULE RepoRun ------------------------------
(***************************************************************************)
(* The repo agent (repo/run.py, repo/git_local.py, repo/github.py): an     *)
(* invocation of `fabri repo run` takes a Linear issue through ten gates   *)
(* to a pull request, stopping at the first gate that fails.  Every run of *)
(* an issue works in the same stable checkout, pushes the same branch and  *)
(* updates the same pull request, and every run of a day writes the same   *)
(* results bundle.  A run may die between any two steps.                   *)
(*                                                                         *)
(* A tree is the set of runs whose work is in it: the checkout has a       *)
(* committed part (head) and an uncommitted one (dirty), both relative to  *)
(* the base branch.                                                        *)
(***************************************************************************)
EXTENDS Integers, FiniteSets

CONSTANTS
    Runs,      \* invocations of `fabri repo run`
    Issues,    \* Linear issues, each with its checkout, branch and PR
    IssueOf,   \* the issue a run is started for
    Nobody,    \* no run
    Stray,     \* work of a process that outlived its run
    Overlap,   \* two runs of one issue may be active together
    Strays,    \* a dead run's subprocess may go on writing
    PageHolds  \* GitHub's first page of open PRs holds those of the issue

ASSUME RunsAssumption ==
    /\ IsFiniteSet(Runs)
    /\ IssueOf \in [Runs -> Issues]
    /\ Nobody \notin Runs \cup {Stray} /\ Stray \notin Runs
    /\ {Overlap, Strays, PageHolds} \subseteq BOOLEAN

VARIABLES
    pc,        \* the next step of a run
    result,    \* what run_repo_flow returned: none, ok, failed
    disk,      \* a stable checkout on disk: absent, husk, repo
    lock,      \* a killed git left .git/index.lock behind
    head,      \* work committed in the checkout
    dirty,     \* work in the checkout that is not committed
    orphan,    \* a subprocess of a run that is over still works in the checkout
    tested,    \* the tree a run's verifier returned zero on
    branch,    \* fabri/<identifier> on GitHub: its tree and who pushed it
    prs,       \* open pull requests that carry the issue's marker
    nextPR,    \* the number GitHub gives the next pull request
    found,     \* the marked pull request a run's listing showed, 0 if none
    url,       \* the pull request a run reports, 0 before
    mention,   \* the pull request the issue's text named when it was fetched
    told,      \* where a run announced its pull request
    bundle,    \* who wrote each file of the day's bundle last
    claim      \* the `ok` that the bundle's result.json states

checkoutVars == <<disk, lock, head, dirty, orphan>>
githubVars   == <<branch, prs, nextPR>>
bundleVars   == <<bundle, claim>>
ownVars      == <<found, url, mention, told>>
vars == <<pc, result, checkoutVars, tested, githubVars, ownVars, bundleVars>>

Marks   == Runs \cup {Stray}
NoTree  == {Nobody}
Files   == {"trace", "result", "links", "diff"}
Branches == [tree : {NoTree} \cup SUBSET Marks, by : Runs \cup {Nobody}]

Steps == {"idle", "resolve_creds", "fetch_issue", "clone", "setup", "agency_run",
          "verified_tests", "has_changes", "capture_diff", "auth", "commit", "push", "list_prs",
          "open_pr", "comment_linear", "notify_slack", "finish_ok", "finish_failed",
          "result_ok", "result_failed", "links_ok", "links_failed",
          "diff_ok", "diff_failed", "done", "dead"}

TypeOK ==
    /\ pc \in [Runs -> Steps]
    /\ result \in [Runs -> {"none", "ok", "failed"}]
    /\ disk \in [Issues -> {"absent", "husk", "repo"}]
    /\ lock \in [Issues -> BOOLEAN]
    /\ head \in [Issues -> SUBSET Marks]
    /\ dirty \in [Issues -> SUBSET Marks]
    /\ orphan \in [Issues -> BOOLEAN]
    /\ tested \in [Runs -> {NoTree} \cup SUBSET Marks]
    /\ branch \in [Issues -> Branches]
    /\ prs \in [Issues -> SUBSET Nat]
    /\ nextPR \in Nat \ {0}
    /\ found \in [Runs -> Nat]
    /\ url \in [Runs -> Nat]
    /\ mention \in [Runs -> Nat]
    /\ told \in [Runs -> SUBSET {"linear", "slack"}]
    /\ bundle \in [Files -> Runs \cup {Nobody}]
    /\ claim \in BOOLEAN

Init ==
    /\ pc = [r \in Runs |-> "idle"]
    /\ result = [r \in Runs |-> "none"]
    /\ disk = [i \in Issues |-> "absent"]
    /\ lock = [i \in Issues |-> FALSE]
    /\ head = [i \in Issues |-> {}]
    /\ dirty = [i \in Issues |-> {}]
    /\ orphan = [i \in Issues |-> FALSE]
    /\ tested = [r \in Runs |-> NoTree]
    /\ branch = [i \in Issues |-> [tree |-> NoTree, by |-> Nobody]]
    /\ prs = [i \in Issues |-> {}]
    /\ nextPR = 1
    /\ found = [r \in Runs |-> 0]
    /\ url = [r \in Runs |-> 0]
    /\ mention = [r \in Runs |-> 0]
    /\ told = [r \in Runs |-> {}]
    /\ bundle = [f \in Files |-> Nobody]
    /\ claim = FALSE

Active(r) == pc[r] \notin {"idle", "done", "dead"}

Goto(r, from, to) ==
    /\ pc[r] = from
    /\ pc' = [pc EXCEPT ![r] = to]

\* _record_gate of a failed gate, then finish(False): no later gate is tried.
Fail(r, at) == Goto(r, at, "finish_failed")

(***************************************************************************)
(* The gates before anything is published.                                 *)
(***************************************************************************)

\* The command starts.
Start(r) ==
    /\ Overlap \/ \A o \in Runs : Active(o) => IssueOf[o] # IssueOf[r]
    /\ Goto(r, "idle", "resolve_creds")
    /\ UNCHANGED <<result, checkoutVars, tested, githubVars, ownVars, bundleVars>>

\* The Linear token and a GitHub auth provider.
ResolveCreds(r) ==
    /\ Goto(r, "resolve_creds", "fetch_issue") \/ Fail(r, "resolve_creds")
    /\ UNCHANGED <<result, checkoutVars, tested, githubVars, ownVars, bundleVars>>

\* The issue, whose description may name a pull request opened for it before.
FetchIssue(r) ==
    /\ \/ /\ Goto(r, "fetch_issue", "clone")
          /\ \E n \in prs[IssueOf[r]] \cup {0} : mention' = [mention EXCEPT ![r] = n]
       \/ Fail(r, "fetch_issue") /\ UNCHANGED mention
    /\ UNCHANGED <<result, checkoutVars, tested, githubVars, found, url, told, bundleVars>>

\* What a fresh `git clone` that is killed can leave at its destination.
CloneRemains == {"absent", "husk", "repo"}

ResetTo_NoClean(i) ==   \* defect: untracked files of the last run are kept
    /\ disk' = [disk EXCEPT ![i] = "repo"]
    /\ head' = [head EXCEPT ![i] = {}]
    /\ UNCHANGED <<dirty, lock, orphan>>

\* The checkout at origin/<base>: nothing committed on top, nothing untracked.
ResetTo(i) ==
    /\ disk' = [disk EXCEPT ![i] = "repo"]
    /\ head' = [head EXCEPT ![i] = {}]
    /\ dirty' = [dirty EXCEPT ![i] = {}]
    /\ UNCHANGED <<lock, orphan>>

\* An existing repository is fetched, checked out by force and cleaned; what is
\* not a repository is refused, and git refuses a locked index.
Clone(r) ==
    LET i == IssueOf[r] IN
    /\ \/ disk[i] # "husk" /\ ~lock[i] /\ Goto(r, "clone", "setup") /\ ResetTo(i)
       \/ Fail(r, "clone") /\ UNCHANGED checkoutVars
       \/ /\ disk[i] = "repo" /\ ~lock[i] /\ Fail(r, "clone")   \* reset, not yet cleaned
          /\ head' = [head EXCEPT ![i] = {}]
          /\ UNCHANGED <<disk, lock, dirty, orphan>>
    /\ UNCHANGED <<result, tested, githubVars, ownVars, bundleVars>>

\* The clone gate's commands run with a timeout, which kills git where it stands.
CloneKilled(r) ==
    LET i == IssueOf[r] IN
    /\ Fail(r, "clone")
    /\ \E left \in IF disk[i] = "absent" THEN CloneRemains ELSE {disk[i]} :
            disk' = [disk EXCEPT ![i] = left]
    /\ \/ disk'[i] = "repo" /\ lock' = [lock EXCEPT ![i] = TRUE]
       \/ UNCHANGED lock
    /\ UNCHANGED <<result, head, dirty, orphan, tested, githubVars, ownVars, bundleVars>>

\* The configured setup command, or the gate is skipped.
Setup(r) ==
    /\ Goto(r, "setup", "agency_run") \/ Fail(r, "setup")
    /\ UNCHANGED <<result, checkoutVars, tested, githubVars, ownVars, bundleVars>>

\* The crew works in the checkout.  It edits files, commits all or some of them
\* itself or does nothing, and whatever it did stays when its command fails or times out.  A
\* timeout kills that command alone, not the processes it started.
AgencyRun(r) ==
    LET i == IssueOf[r] IN
    /\ \/ Goto(r, "agency_run", "verified_tests") /\ UNCHANGED orphan
       \/ Fail(r, "agency_run")
          /\ \/ Strays /\ orphan' = [orphan EXCEPT ![i] = TRUE]
             \/ UNCHANGED orphan
    /\ \/ /\ dirty' = [dirty EXCEPT ![i] = @ \cup {r}]
          /\ UNCHANGED head
       \/ /\ head' = [head EXCEPT ![i] = @ \cup dirty[i] \cup {r}]
          /\ \E more \in {{}, {r}} : dirty' = [dirty EXCEPT ![i] = more]
       \/ UNCHANGED <<head, dirty>>
    /\ UNCHANGED <<result, disk, lock, tested, githubVars, ownVars, bundleVars>>

VerifiedTests_FallsThrough(r) ==   \* defect: a failed verifier does not end the run
    LET i == IssueOf[r] IN
    /\ Goto(r, "verified_tests", "has_changes")
    /\ tested' = [tested EXCEPT ![r] = head[i] \cup dirty[i]] \/ UNCHANGED tested
    /\ UNCHANGED <<result, checkoutVars, githubVars, ownVars, bundleVars>>

\* The test command's return code decides.  What it was run on is the checkout.
VerifiedTests(r) ==
    LET i == IssueOf[r] IN
    /\ \/ /\ Goto(r, "verified_tests", "has_changes")
          /\ tested' = [tested EXCEPT ![r] = head[i] \cup dirty[i]]
       \/ Fail(r, "verified_tests") /\ UNCHANGED tested
    /\ UNCHANGED <<result, checkoutVars, githubVars, ownVars, bundleVars>>

(***************************************************************************)
(* branch_push: git status, the diff for the bundle, a token, one commit   *)
(* of everything, a forced push.                                           *)
(***************************************************************************)

HasChanges(r) ==
    /\ \/ dirty[IssueOf[r]] # {} /\ Goto(r, "has_changes", "capture_diff")
       \/ Fail(r, "has_changes")
    /\ UNCHANGED <<result, checkoutVars, tested, githubVars, ownVars, bundleVars>>

\* The diff for the bundle is read from git before anything is staged.
CaptureDiff(r) ==
    /\ Goto(r, "capture_diff", "auth") \/ Fail(r, "capture_diff")
    /\ UNCHANGED <<result, checkoutVars, tested, githubVars, ownVars, bundleVars>>

\* get_token: a PAT, a cached installation token or a newly minted one.
GitHubToken(r) ==
    /\ Goto(r, "auth", "commit") \/ Fail(r, "auth")
    /\ UNCHANGED <<result, checkoutVars, tested, githubVars, ownVars, bundleVars>>

\* git add -A; nothing staged fails the gate; else one commit.
Commit(r) ==
    LET i == IssueOf[r] IN
    /\ \/ /\ dirty[i] # {} /\ ~lock[i]
          /\ Goto(r, "commit", "push")
          /\ head' = [head EXCEPT ![i] = @ \cup dirty[i]]
          /\ dirty' = [dirty EXCEPT ![i] = {}]
       \/ Fail(r, "commit") /\ UNCHANGED <<head, dirty>>
    /\ UNCHANGED <<result, disk, lock, orphan, tested, githubVars, ownVars, bundleVars>>

\* git push --force HEAD:refs/heads/<branch>.  The branch may have moved even
\* when git reports a failure.
Push(r) ==
    LET i == IssueOf[r] IN
    /\ \/ /\ Goto(r, "push", "list_prs") \/ Fail(r, "push")
          /\ branch' = [branch EXCEPT ![i] = [tree |-> head[i], by |-> r]]
       \/ Fail(r, "push") /\ UNCHANGED branch
    /\ UNCHANGED <<result, checkoutVars, tested, prs, nextPR, ownVars, bundleVars>>

(***************************************************************************)
(* open_pr: the listing of open pull requests, then PATCH or POST.         *)
(***************************************************************************)

ListPRs_NoMarker(r) ==   \* defect: the body of an open pull request never matches
    /\ Goto(r, "list_prs", "open_pr") \/ Fail(r, "list_prs")
    /\ found' = [found EXCEPT ![r] = 0]
    /\ UNCHANGED <<result, checkoutVars, tested, githubVars, url, mention, told, bundleVars>>

ListPRs_MinusOne(r) ==   \* defect: no match is reported as -1
    /\ Goto(r, "list_prs", "open_pr")
    /\ found' = [found EXCEPT ![r] = -1]
    /\ UNCHANGED <<result, checkoutVars, tested, githubVars, url, mention, told, bundleVars>>

ListPRs(r) ==
    LET open == prs[IssueOf[r]] IN
    /\ \/ /\ Goto(r, "list_prs", "open_pr")
          /\ \E page \in IF PageHolds THEN {open} ELSE SUBSET open :
                \/ page = {} /\ found' = [found EXCEPT ![r] = 0]
                \/ \E n \in page : found' = [found EXCEPT ![r] = n]
       \/ Fail(r, "list_prs") /\ UNCHANGED found
    /\ UNCHANGED <<result, checkoutVars, tested, githubVars, url, mention, told, bundleVars>>

\* PATCH of the marked pull request, open or closed meanwhile.
UpdatePR(r) ==
    /\ found[r] # 0
    /\ \/ /\ Goto(r, "open_pr", "comment_linear")
          /\ url' = [url EXCEPT ![r] = found[r]]
       \/ Fail(r, "open_pr") /\ UNCHANGED url
    /\ UNCHANGED <<result, checkoutVars, tested, githubVars, found, mention, told, bundleVars>>

\* POST of a draft pull request, whose answer may be lost.
CreatePR(r) ==
    LET i == IssueOf[r] IN
    /\ found[r] = 0
    /\ \/ /\ prs' = [prs EXCEPT ![i] = @ \cup {nextPR}]
          /\ nextPR' = nextPR + 1
          /\ \/ /\ Goto(r, "open_pr", "comment_linear")
                /\ url' = [url EXCEPT ![r] = nextPR]
             \/ Fail(r, "open_pr") /\ UNCHANGED url
       \/ Fail(r, "open_pr") /\ UNCHANGED <<prs, nextPR, url>>
    /\ UNCHANGED <<result, checkoutVars, tested, branch, found, mention, told, bundleVars>>

(***************************************************************************)
(* The announcements.                                                      *)
(***************************************************************************)

\* Skipped when the issue's text already names the pull request.
CommentLinear(r) ==
    /\ \/ /\ url[r] = mention[r]
          /\ Goto(r, "comment_linear", "notify_slack")
          /\ UNCHANGED told
       \/ /\ url[r] # mention[r]
          /\ Goto(r, "comment_linear", "notify_slack") \/ Fail(r, "comment_linear")
          /\ told' = [told EXCEPT ![r] = @ \cup {"linear"}]
       \/ /\ url[r] # mention[r]
          /\ Fail(r, "comment_linear")
          /\ UNCHANGED told
    /\ UNCHANGED <<result, checkoutVars, tested, githubVars, found, url, mention, bundleVars>>

NotifySlack_Optional(r) ==   \* defect: a post that fails does not fail the gate
    /\ Goto(r, "notify_slack", "finish_ok")
    /\ told' = [told EXCEPT ![r] = @ \cup {"slack"}] \/ UNCHANGED told
    /\ UNCHANGED <<result, checkoutVars, tested, githubVars, found, url, mention, bundleVars>>

\* No channel, a refused post or an answer without a ts fails the last gate.
NotifySlack(r) ==
    /\ \/ /\ Goto(r, "notify_slack", "finish_ok") \/ Fail(r, "notify_slack")
          /\ told' = [told EXCEPT ![r] = @ \cup {"slack"}]
       \/ Fail(r, "notify_slack") /\ UNCHANGED told
    /\ UNCHANGED <<result, checkoutVars, tested, githubVars, found, url, mention, bundleVars>>

(***************************************************************************)
(* _finalize_result: the files of the day's bundle one after another, then *)
(* the value returned.  A file that cannot be written turns the result     *)
(* into a failure; the files before it stay as they are.                   *)
(***************************************************************************)

WriteFile(r, file, from, to) ==
    /\ Goto(r, from, to)
    /\ bundle' = [bundle EXCEPT ![file] = r]

BundleFails(r) ==
    /\ \E at \in {"finish_ok", "finish_failed", "result_ok", "result_failed",
                  "links_ok", "links_failed", "diff_ok", "diff_failed"} :
            Goto(r, at, "done")
    /\ result' = [result EXCEPT ![r] = "failed"]
    /\ UNCHANGED <<checkoutVars, tested, githubVars, ownVars, bundleVars>>

WriteTrace(r) ==
    /\ \/ WriteFile(r, "trace", "finish_ok", "result_ok")
       \/ WriteFile(r, "trace", "finish_failed", "result_failed")
    /\ UNCHANGED <<result, checkoutVars, tested, githubVars, ownVars, claim>>

WriteResult(r) ==
    /\ \/ WriteFile(r, "result", "result_ok", "links_ok") /\ claim' = TRUE
       \/ WriteFile(r, "result", "result_failed", "links_failed") /\ claim' = FALSE
    /\ UNCHANGED <<result, checkoutVars, tested, githubVars, ownVars>>

\* pr_url.txt, linear_comment_url.txt and slack.json.
WriteLinks(r) ==
    /\ \/ WriteFile(r, "links", "links_ok", "diff_ok")
       \/ WriteFile(r, "links", "links_failed", "diff_failed")
    /\ UNCHANGED <<result, checkoutVars, tested, githubVars, ownVars, claim>>

WriteDiff(r) ==
    /\ \/ /\ WriteFile(r, "diff", "diff_ok", "done")
          /\ result' = [result EXCEPT ![r] = "ok"]
       \/ /\ WriteFile(r, "diff", "diff_failed", "done")
          /\ result' = [result EXCEPT ![r] = "failed"]
    /\ UNCHANGED <<checkoutVars, tested, githubVars, ownVars, claim>>

(***************************************************************************)
(* Around the runs.                                                        *)
(***************************************************************************)

\* Gates whose command works in the checkout.
Subprocesses == {"setup", "agency_run", "verified_tests"}

\* The process of a run dies; the git it was running may leave a lock.
Crash(r) ==
    LET i == IssueOf[r] IN
    /\ Active(r)
    /\ pc' = [pc EXCEPT ![r] = "dead"]
    /\ \/ disk[i] = "repo" /\ pc[r] \in {"clone", "commit"} /\ lock' = [lock EXCEPT ![i] = TRUE]
       \/ UNCHANGED lock
    /\ \/ Strays /\ pc[r] \in Subprocesses /\ orphan' = [orphan EXCEPT ![i] = TRUE]
       \/ UNCHANGED orphan
    /\ UNCHANGED <<result, disk, head, dirty, tested, githubVars, ownVars, bundleVars>>

\* What a run that is over started goes on writing.
StrayWrites(i) ==
    /\ orphan[i]
    /\ dirty' = [dirty EXCEPT ![i] = @ \cup {Stray}]
    /\ UNCHANGED <<pc, result, disk, lock, head, orphan, tested, githubVars, ownVars, bundleVars>>

\* A reviewer merges or closes a pull request.
ClosePR(i) ==
    /\ \E n \in prs[i] : prs' = [prs EXCEPT ![i] = @ \ {n}]
    /\ UNCHANGED <<pc, result, checkoutVars, tested, branch, nextPR, ownVars, bundleVars>>

Gates(r) ==
    \/ Start(r) \/ ResolveCreds(r) \/ FetchIssue(r) \/ Clone(r) \/ CloneKilled(r)
    \/ Setup(r) \/ AgencyRun(r) \/ VerifiedTests(r) \/ HasChanges(r) \/ CaptureDiff(r)
    \/ GitHubToken(r) \/ Commit(r) \/ Push(r) \/ ListPRs(r) \/ UpdatePR(r) \/ CreatePR(r)
    \/ CommentLinear(r) \/ NotifySlack(r)

Finalize(r) ==
    WriteTrace(r) \/ WriteResult(r) \/ WriteLinks(r) \/ WriteDiff(r) \/ BundleFails(r)

Next ==
    \/ \E r \in Runs : Gates(r) \/ Finalize(r) \/ Crash(r)
    \/ \E i \in Issues : StrayWrites(i) \/ ClosePR(i)

Spec == Init /\ [][Next]_vars

(***************************************************************************)
(* Properties.                                                             *)
(***************************************************************************)

\* What stands on an issue's branch is exactly the tree on which the run that
\* pushed it saw the tests return zero: whatever happened to the shared checkout
\* between the verifier and the push, and to the runs before, nothing untested is
\* published.
StrictlyTested ==
    \A i \in Issues :
        branch[i].by # Nobody => branch[i].tree = tested[branch[i].by]

\* A tree up to a stray's work.
Proper(tree) == tree \ {Stray}

\* The same, up to what a subprocess that outlived its run writes into the
\* checkout: no gate can see that.
PublishedWasTested ==
    \A i \in Issues :
        branch[i].by # Nobody => Proper(branch[i].tree) = Proper(tested[branch[i].by])

\* What a run publishes is its own work and at most a stray's: nothing that an
\* earlier run of the issue left in the stable checkout, committed or not, when it
\* failed, timed out or died.
OnlyOwnWork ==
    \A i \in Issues :
        branch[i].by # Nobody => Proper(branch[i].tree) \subseteq {branch[i].by}

\* Both: what is on an issue's branch was tested and is its run's own.
PublishedIsOwnAndTested == PublishedWasTested /\ OnlyOwnWork

\* However often an issue is run again, after lost answers and crashes too, it has
\* at most one open pull request with its marker.
OnePRPerIssue == \A i \in Issues : Cardinality(prs[i]) <= 1

\* A run that returned ok pushed a tested tree, reports a pull request, named it on
\* Linear unless the issue already does, posted it to Slack, and left a complete
\* bundle that says so, unless a later run has written the bundle since.
SuccessIsComplete ==
    \A r \in Runs : result[r] = "ok" =>
        /\ tested[r] # NoTree
        /\ url[r] # 0
        /\ "slack" \in told[r]
        /\ "linear" \in told[r] \/ mention[r] = url[r]
        /\ bundle["result"] = r => claim

\* The bundle's evidence is true: a result.json that states ok was written by a run
\* that does not return failed.
TruthfulBundle == claim => result[bundle["result"]] # "failed"

\* No failed or killed clone keeps later runs of the issue from the checkout.
CheckoutIsUsable == \A i \in Issues : disk[i] # "husk" /\ ~lock[i]
=============================================================================
