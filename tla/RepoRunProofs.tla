--------------------------- MODULE RepoRunProofs ---------------------------
(***************************************************************************)
(* For any set of runs and issues: the variables of RepoRun keep their     *)
(* types and a run that returned ok did all of it; and, as long as runs of *)
(* one issue do not overlap, what is published is the run's own and what   *)
(* was tested, and an issue has one open pull request.  Inside a run, for  *)
(* any limits, costs and pipes, the turns account for what the model       *)
(* charged, and an MCP call returns its own answer.                        *)
(***************************************************************************)
EXTENDS RepoRun, Turn, FiniteSetTheorems, TLAPS

USE DEF checkoutVars, githubVars, bundleVars, ownVars, Goto, Fail

(* Where a run stands, by what it has done.                                 *)
Working   == {"setup", "agency_run", "verified_tests", "has_changes", "capture_diff", "auth", "commit"}
Verified  == {"has_changes", "capture_diff", "auth", "commit"}
Before    == {"idle", "resolve_creds", "fetch_issue", "clone", "push"} \cup Working
Reporting == {"comment_linear", "notify_slack"}
Closing   == {"finish_ok", "result_ok", "links_ok", "diff_ok"}

LEMMA TypeStep == TypeOK /\ [Next]_vars => TypeOK'
<1> SUFFICES ASSUME TypeOK, [Next]_vars PROVE TypeOK'
  OBVIOUS
<1> USE RunsAssumption DEF RunsAssumption, TypeOK
<1>1. ASSUME NEW r \in Runs, Start(r) PROVE TypeOK'
  <2>1. pc' \in [Runs -> Steps]
    BY <1>1 DEF Start, Steps
  <2>2. QED
    BY <1>1, <2>1 DEF Start
<1>2. ASSUME NEW r \in Runs, ResolveCreds(r) PROVE TypeOK'
  <2>1. pc' \in [Runs -> Steps]
    BY <1>2 DEF ResolveCreds, Steps
  <2>2. QED
    BY <1>2, <2>1 DEF ResolveCreds
<1>3. ASSUME NEW r \in Runs, FetchIssue(r) PROVE TypeOK'
  <2>1. pc' \in [Runs -> Steps]
    BY <1>3 DEF FetchIssue, Steps
  <2>2. QED
    BY <1>3, <2>1 DEF FetchIssue
<1>4. ASSUME NEW r \in Runs, Clone(r) PROVE TypeOK'
  <2>1. pc' \in [Runs -> Steps]
    BY <1>4 DEF Clone, ResetTo, Steps
  <2>2. QED
    BY <1>4, <2>1 DEF Clone, ResetTo
<1>5. ASSUME NEW r \in Runs, CloneKilled(r) PROVE TypeOK'
  <2>1. pc' \in [Runs -> Steps]
    BY <1>5 DEF CloneKilled, CloneRemains, Steps
  <2>2. disk' \in [Issues -> {"absent", "husk", "repo"}]
    BY <1>5 DEF CloneKilled, CloneRemains
  <2>3. lock' \in [Issues -> BOOLEAN]
    BY <1>5 DEF CloneKilled
  <2>4. QED
    BY <1>5, <2>1, <2>2, <2>3 DEF CloneKilled, CloneRemains
<1>6. ASSUME NEW r \in Runs, Setup(r) PROVE TypeOK'
  <2>1. pc' \in [Runs -> Steps]
    BY <1>6 DEF Setup, Steps
  <2>2. QED
    BY <1>6, <2>1 DEF Setup
<1>7. ASSUME NEW r \in Runs, AgencyRun(r) PROVE TypeOK'
  <2>1. pc' \in [Runs -> Steps]
    BY <1>7 DEF AgencyRun, Steps
  <2>2. head' \in [Issues -> SUBSET Marks]
    BY <1>7 DEF AgencyRun, Marks
  <2>3. dirty' \in [Issues -> SUBSET Marks]
    BY <1>7 DEF AgencyRun, Marks
  <2>4. orphan' \in [Issues -> BOOLEAN]
    BY <1>7 DEF AgencyRun
  <2>5. QED
    BY <1>7, <2>1, <2>2, <2>3, <2>4 DEF AgencyRun
<1>8. ASSUME NEW r \in Runs, VerifiedTests(r) PROVE TypeOK'
  <2>1. pc' \in [Runs -> Steps]
    BY <1>8 DEF VerifiedTests, Steps
  <2>2. QED
    BY <1>8, <2>1 DEF VerifiedTests
<1>9. ASSUME NEW r \in Runs, HasChanges(r) PROVE TypeOK'
  <2>1. pc' \in [Runs -> Steps]
    BY <1>9 DEF HasChanges, Steps
  <2>2. QED
    BY <1>9, <2>1 DEF HasChanges
<1>10. ASSUME NEW r \in Runs, CaptureDiff(r) PROVE TypeOK'
  <2>1. pc' \in [Runs -> Steps]
    BY <1>10 DEF CaptureDiff, Steps
  <2>2. QED
    BY <1>10, <2>1 DEF CaptureDiff
<1>11. ASSUME NEW r \in Runs, GitHubToken(r) PROVE TypeOK'
  <2>1. pc' \in [Runs -> Steps]
    BY <1>11 DEF GitHubToken, Steps
  <2>2. QED
    BY <1>11, <2>1 DEF GitHubToken
<1>12. ASSUME NEW r \in Runs, Commit(r) PROVE TypeOK'
  <2>1. pc' \in [Runs -> Steps]
    BY <1>12 DEF Commit, Steps
  <2>2. head' \in [Issues -> SUBSET Marks] /\ dirty' \in [Issues -> SUBSET Marks]
    BY <1>12 DEF Commit
  <2>3. QED
    BY <1>12, <2>1, <2>2 DEF Commit
<1>13. ASSUME NEW r \in Runs, Push(r) PROVE TypeOK'
  <2>1. pc' \in [Runs -> Steps]
    BY <1>13 DEF Push, Steps
  <2>2. branch' \in [Issues -> Branches]
    <3>1. [tree |-> head[IssueOf[r]], by |-> r] \in Branches
      BY DEF Branches
    <3>2. QED
      BY <1>13, <3>1 DEF Push
  <2>3. QED
    BY <1>13, <2>1, <2>2 DEF Push
<1>14. ASSUME NEW r \in Runs, ListPRs(r) PROVE TypeOK'
  <2>1. pc' \in [Runs -> Steps]
    BY <1>14 DEF ListPRs, Steps
  <2>2. QED
    BY <1>14, <2>1 DEF ListPRs
<1>15. ASSUME NEW r \in Runs, UpdatePR(r) PROVE TypeOK'
  <2>1. pc' \in [Runs -> Steps]
    BY <1>15 DEF UpdatePR, Steps
  <2>2. QED
    BY <1>15, <2>1 DEF UpdatePR
<1>16. ASSUME NEW r \in Runs, CreatePR(r) PROVE TypeOK'
  <2>1. pc' \in [Runs -> Steps]
    BY <1>16 DEF CreatePR, Steps
  <2>2. prs' \in [Issues -> SUBSET Nat] /\ nextPR' \in Nat \ {0} /\ url' \in [Runs -> Nat]
    BY <1>16 DEF CreatePR
  <2>3. QED
    BY <1>16, <2>1, <2>2 DEF CreatePR
<1>17. ASSUME NEW r \in Runs, CommentLinear(r) PROVE TypeOK'
  <2>1. pc' \in [Runs -> Steps]
    BY <1>17 DEF CommentLinear, Steps
  <2>2. QED
    BY <1>17, <2>1 DEF CommentLinear
<1>18. ASSUME NEW r \in Runs, NotifySlack(r) PROVE TypeOK'
  <2>1. pc' \in [Runs -> Steps]
    BY <1>18 DEF NotifySlack, Steps
  <2>2. QED
    BY <1>18, <2>1 DEF NotifySlack
<1>19. ASSUME NEW r \in Runs, WriteTrace(r) PROVE TypeOK'
  <2>1. pc' \in [Runs -> Steps]
    BY <1>19 DEF WriteTrace, WriteFile, Steps
  <2>2. QED
    BY <1>19, <2>1 DEF WriteTrace, WriteFile
<1>20. ASSUME NEW r \in Runs, WriteResult(r) PROVE TypeOK'
  <2>1. pc' \in [Runs -> Steps]
    BY <1>20 DEF WriteResult, WriteFile, Steps
  <2>2. bundle' \in [Files -> Runs \cup {Nobody}]
    BY <1>20 DEF WriteResult, WriteFile
  <2>3. claim' \in BOOLEAN
    BY <1>20 DEF WriteResult
  <2>4. QED
    BY <1>20, <2>1, <2>2, <2>3 DEF WriteResult, WriteFile
<1>21. ASSUME NEW r \in Runs, WriteLinks(r) PROVE TypeOK'
  <2>1. pc' \in [Runs -> Steps]
    BY <1>21 DEF WriteLinks, WriteFile, Steps
  <2>2. QED
    BY <1>21, <2>1 DEF WriteLinks, WriteFile
<1>22. ASSUME NEW r \in Runs, WriteDiff(r) PROVE TypeOK'
  <2>1. pc' \in [Runs -> Steps]
    BY <1>22 DEF WriteDiff, WriteFile, Steps
  <2>2. result' \in [Runs -> {"none", "ok", "failed"}]
    BY <1>22 DEF WriteDiff, WriteFile
  <2>3. bundle' \in [Files -> Runs \cup {Nobody}]
    BY <1>22 DEF WriteDiff, WriteFile
  <2>4. QED
    BY <1>22, <2>1, <2>2, <2>3 DEF WriteDiff, WriteFile
<1>23. ASSUME NEW r \in Runs, BundleFails(r) PROVE TypeOK'
  <2>1. pc' \in [Runs -> Steps]
    BY <1>23 DEF BundleFails, Steps
  <2>2. QED
    BY <1>23, <2>1 DEF BundleFails
<1>24. ASSUME NEW r \in Runs, Crash(r) PROVE TypeOK'
  <2>1. pc' \in [Runs -> Steps]
    BY <1>24 DEF Crash, Subprocesses, Active, Steps
  <2>2. lock' \in [Issues -> BOOLEAN]
    BY <1>24 DEF Crash
  <2>3. orphan' \in [Issues -> BOOLEAN]
    BY <1>24 DEF Crash
  <2>4. QED
    BY <1>24, <2>1, <2>2, <2>3 DEF Crash, Subprocesses, Active
<1>25. ASSUME NEW i \in Issues, StrayWrites(i) PROVE TypeOK'
  BY <1>25 DEF StrayWrites, Marks
<1>26. ASSUME NEW i \in Issues, ClosePR(i) PROVE TypeOK'
  BY <1>26 DEF ClosePR
<1>27. CASE UNCHANGED vars
  BY <1>27 DEF vars
<1>28. QED
  BY <1>1, <1>2, <1>3, <1>4, <1>5, <1>6, <1>7, <1>8, <1>9, <1>10, <1>11, <1>12, <1>13, <1>14, <1>15, <1>16, <1>17, <1>18, <1>19, <1>20, <1>21, <1>22, <1>23, <1>24, <1>25, <1>26, <1>27 DEF Next, Gates, Finalize

LEMMA TypeInit == Init => TypeOK
<1> SUFFICES ASSUME Init PROVE TypeOK
  OBVIOUS
<1>1. pc \in [Runs -> Steps]
  BY DEF Init, Steps
<1>2. [tree |-> NoTree, by |-> Nobody] \in Branches
  BY DEF Branches
<1>3. tested \in [Runs -> {NoTree} \cup SUBSET Marks]
  BY DEF Init
<1>4. prs \in [Issues -> SUBSET Nat] /\ told \in [Runs -> SUBSET {"linear", "slack"}]
  BY DEF Init
<1>5. head \in [Issues -> SUBSET Marks] /\ dirty \in [Issues -> SUBSET Marks]
  BY DEF Init
<1>6. branch \in [Issues -> Branches]
  BY <1>2 DEF Init
<1>7. bundle \in [Files -> Runs \cup {Nobody}] /\ claim \in BOOLEAN
  BY DEF Init
<1>8. found \in [Runs -> Nat] /\ url \in [Runs -> Nat] /\ mention \in [Runs -> Nat] /\ nextPR \in Nat \ {0}
  BY DEF Init
<1>9. /\ lock \in [Issues -> BOOLEAN] /\ orphan \in [Issues -> BOOLEAN]
      /\ disk \in [Issues -> {"absent", "husk", "repo"}]
      /\ result \in [Runs -> {"none", "ok", "failed"}]
  BY DEF Init
<1>10. QED
  BY <1>1, <1>3, <1>4, <1>5, <1>6, <1>7, <1>8, <1>9 DEF TypeOK

\* The variables keep their types, whatever runs, crashes and strays do.
THEOREM TypeCorrect == Spec => []TypeOK
<1> QED
  BY TypeInit, TypeStep, PTL DEF Spec

(* What a run that is on its way to ok, or that returned it, has done.      *)
DoneInv ==
    \A r \in Runs :
        LET past == pc[r] \in Reporting \cup Closing \/ result[r] = "ok" IN
        /\ result[r] = "ok" => pc[r] = "done"
        /\ pc[r] \in Verified \cup {"push", "list_prs", "open_pr"} \/ past => tested[r] # NoTree
        /\ past => url[r] # 0
        /\ pc[r] = "notify_slack" \/ pc[r] \in Closing \/ result[r] = "ok" =>
              "linear" \in told[r] \/ mention[r] = url[r]
        /\ pc[r] \in Closing \/ result[r] = "ok" => "slack" \in told[r]
        /\ pc[r] \in {"links_ok", "diff_ok"} \/ result[r] = "ok" =>
              (bundle["result"] = r => claim)

LEMMA DoneStep == TypeOK /\ DoneInv /\ [Next]_vars => DoneInv'
<1> SUFFICES ASSUME TypeOK, DoneInv, [Next]_vars PROVE DoneInv'
  OBVIOUS
<1> USE RunsAssumption DEF RunsAssumption, TypeOK, Marks, NoTree, Files, DoneInv,
             Working, Verified, Reporting, Closing
<1>1. ASSUME NEW r \in Runs, Start(r) PROVE DoneInv'
  BY <1>1 DEF Start
<1>2. ASSUME NEW r \in Runs, ResolveCreds(r) PROVE DoneInv'
  BY <1>2 DEF ResolveCreds
<1>3. ASSUME NEW r \in Runs, FetchIssue(r) PROVE DoneInv'
  BY <1>3 DEF FetchIssue
<1>4. ASSUME NEW r \in Runs, Clone(r) PROVE DoneInv'
  BY <1>4 DEF Clone, ResetTo
<1>5. ASSUME NEW r \in Runs, CloneKilled(r) PROVE DoneInv'
  BY <1>5 DEF CloneKilled, CloneRemains
<1>6. ASSUME NEW r \in Runs, Setup(r) PROVE DoneInv'
  BY <1>6 DEF Setup
<1>7. ASSUME NEW r \in Runs, AgencyRun(r) PROVE DoneInv'
  BY <1>7 DEF AgencyRun
<1>8. ASSUME NEW r \in Runs, VerifiedTests(r) PROVE DoneInv'
  BY <1>8 DEF VerifiedTests
<1>9. ASSUME NEW r \in Runs, HasChanges(r) PROVE DoneInv'
  BY <1>9 DEF HasChanges
<1>10. ASSUME NEW r \in Runs, CaptureDiff(r) PROVE DoneInv'
  BY <1>10 DEF CaptureDiff
<1>11. ASSUME NEW r \in Runs, GitHubToken(r) PROVE DoneInv'
  BY <1>11 DEF GitHubToken
<1>12. ASSUME NEW r \in Runs, Commit(r) PROVE DoneInv'
  BY <1>12 DEF Commit
<1>13. ASSUME NEW r \in Runs, Push(r) PROVE DoneInv'
  BY <1>13 DEF Push
<1>14. ASSUME NEW r \in Runs, ListPRs(r) PROVE DoneInv'
  BY <1>14 DEF ListPRs
<1>15. ASSUME NEW r \in Runs, UpdatePR(r) PROVE DoneInv'
  BY <1>15 DEF UpdatePR
<1>16. ASSUME NEW r \in Runs, CreatePR(r) PROVE DoneInv'
  BY <1>16 DEF CreatePR
<1>17. ASSUME NEW r \in Runs, CommentLinear(r) PROVE DoneInv'
  BY <1>17 DEF CommentLinear
<1>18. ASSUME NEW r \in Runs, NotifySlack(r) PROVE DoneInv'
  BY <1>18 DEF NotifySlack
<1>19. ASSUME NEW r \in Runs, WriteTrace(r) PROVE DoneInv'
  BY <1>19 DEF WriteTrace, WriteFile
<1>20. ASSUME NEW r \in Runs, WriteResult(r) PROVE DoneInv'
  BY <1>20 DEF WriteResult, WriteFile
<1>21. ASSUME NEW r \in Runs, WriteLinks(r) PROVE DoneInv'
  BY <1>21 DEF WriteLinks, WriteFile
<1>22. ASSUME NEW r \in Runs, WriteDiff(r) PROVE DoneInv'
  BY <1>22 DEF WriteDiff, WriteFile
<1>23. ASSUME NEW r \in Runs, BundleFails(r) PROVE DoneInv'
  BY <1>23 DEF BundleFails
<1>24. ASSUME NEW r \in Runs, Crash(r) PROVE DoneInv'
  BY <1>24 DEF Crash, Subprocesses, Active
<1>25. ASSUME NEW i \in Issues, StrayWrites(i) PROVE DoneInv'
  BY <1>25 DEF StrayWrites
<1>26. ASSUME NEW i \in Issues, ClosePR(i) PROVE DoneInv'
  BY <1>26 DEF ClosePR
<1>27. CASE UNCHANGED vars
  BY <1>27 DEF vars
<1>28. QED
  BY <1>1, <1>2, <1>3, <1>4, <1>5, <1>6, <1>7, <1>8, <1>9, <1>10, <1>11, <1>12, <1>13, <1>14, <1>15, <1>16, <1>17, <1>18, <1>19, <1>20, <1>21, <1>22, <1>23, <1>24, <1>25, <1>26, <1>27 DEF Next, Gates, Finalize

\* A run that returns ok has pushed a tested tree, reports a pull request that the
\* issue and Slack know of, and its result.json does not say otherwise: with any
\* number of runs, overlapping or not, and of strays and crashes.
THEOREM SuccessComplete == Spec => []SuccessIsComplete
<1>1. Init => TypeOK /\ DoneInv
  BY TypeInit DEF Init, DoneInv, Reporting, Closing, Verified
<1>2. DoneInv => SuccessIsComplete
  BY DEF DoneInv, SuccessIsComplete
<1>3. QED
  BY <1>1, <1>2, TypeStep, DoneStep, PTL DEF Spec

(***************************************************************************)
(* The shared checkout, when the runs of an issue take turns.              *)
(***************************************************************************)

(* Runs of one issue are not active together.                               *)
TurnInv == \A r, o \in Runs : Active(r) /\ Active(o) /\ IssueOf[r] = IssueOf[o] => r = o

LEMMA TurnStep == ~Overlap /\ TypeOK /\ TurnInv /\ [Next]_vars => TurnInv'
<1> SUFFICES ASSUME ~Overlap, TypeOK, TurnInv, [Next]_vars PROVE TurnInv'
  OBVIOUS
<1> USE RunsAssumption DEF RunsAssumption, TypeOK, TurnInv, Active
<1>1. ASSUME NEW r \in Runs, Start(r) PROVE TurnInv'
  BY <1>1 DEF Start
<1>2. ASSUME NEW r \in Runs, ResolveCreds(r) PROVE TurnInv'
  BY <1>2 DEF ResolveCreds
<1>3. ASSUME NEW r \in Runs, FetchIssue(r) PROVE TurnInv'
  BY <1>3 DEF FetchIssue
<1>4. ASSUME NEW r \in Runs, Clone(r) PROVE TurnInv'
  BY <1>4 DEF Clone, ResetTo
<1>5. ASSUME NEW r \in Runs, CloneKilled(r) PROVE TurnInv'
  BY <1>5 DEF CloneKilled, CloneRemains
<1>6. ASSUME NEW r \in Runs, Setup(r) PROVE TurnInv'
  BY <1>6 DEF Setup
<1>7. ASSUME NEW r \in Runs, AgencyRun(r) PROVE TurnInv'
  BY <1>7 DEF AgencyRun
<1>8. ASSUME NEW r \in Runs, VerifiedTests(r) PROVE TurnInv'
  BY <1>8 DEF VerifiedTests
<1>9. ASSUME NEW r \in Runs, HasChanges(r) PROVE TurnInv'
  BY <1>9 DEF HasChanges
<1>10. ASSUME NEW r \in Runs, CaptureDiff(r) PROVE TurnInv'
  BY <1>10 DEF CaptureDiff
<1>11. ASSUME NEW r \in Runs, GitHubToken(r) PROVE TurnInv'
  BY <1>11 DEF GitHubToken
<1>12. ASSUME NEW r \in Runs, Commit(r) PROVE TurnInv'
  BY <1>12 DEF Commit
<1>13. ASSUME NEW r \in Runs, Push(r) PROVE TurnInv'
  BY <1>13 DEF Push
<1>14. ASSUME NEW r \in Runs, ListPRs(r) PROVE TurnInv'
  BY <1>14 DEF ListPRs
<1>15. ASSUME NEW r \in Runs, UpdatePR(r) PROVE TurnInv'
  BY <1>15 DEF UpdatePR
<1>16. ASSUME NEW r \in Runs, CreatePR(r) PROVE TurnInv'
  <2>1. pc' \in {[pc EXCEPT ![r] = "comment_linear"], [pc EXCEPT ![r] = "finish_failed"]} /\ pc[r] = "open_pr"
    BY <1>16 DEF CreatePR
  <2>2. QED
    BY <2>1
<1>17. ASSUME NEW r \in Runs, CommentLinear(r) PROVE TurnInv'
  BY <1>17 DEF CommentLinear
<1>18. ASSUME NEW r \in Runs, NotifySlack(r) PROVE TurnInv'
  <2>1. pc' \in {[pc EXCEPT ![r] = "finish_ok"], [pc EXCEPT ![r] = "finish_failed"]} /\ pc[r] = "notify_slack"
    BY <1>18 DEF NotifySlack
  <2>2. QED
    BY <2>1
<1>19. ASSUME NEW r \in Runs, WriteTrace(r) PROVE TurnInv'
  BY <1>19 DEF WriteTrace, WriteFile
<1>20. ASSUME NEW r \in Runs, WriteResult(r) PROVE TurnInv'
  BY <1>20 DEF WriteResult, WriteFile
<1>21. ASSUME NEW r \in Runs, WriteLinks(r) PROVE TurnInv'
  BY <1>21 DEF WriteLinks, WriteFile
<1>22. ASSUME NEW r \in Runs, WriteDiff(r) PROVE TurnInv'
  BY <1>22 DEF WriteDiff, WriteFile
<1>23. ASSUME NEW r \in Runs, BundleFails(r) PROVE TurnInv'
  BY <1>23 DEF BundleFails
<1>24. ASSUME NEW r \in Runs, Crash(r) PROVE TurnInv'
  BY <1>24 DEF Crash, Subprocesses, Active
<1>25. ASSUME NEW i \in Issues, StrayWrites(i) PROVE TurnInv'
  BY <1>25 DEF StrayWrites
<1>26. ASSUME NEW i \in Issues, ClosePR(i) PROVE TurnInv'
  BY <1>26 DEF ClosePR
<1>27. CASE UNCHANGED vars
  BY <1>27 DEF vars
<1>28. QED
  BY <1>1, <1>2, <1>3, <1>4, <1>5, <1>6, <1>7, <1>8, <1>9, <1>10, <1>11, <1>12, <1>13, <1>14, <1>15, <1>16, <1>17, <1>18, <1>19, <1>20, <1>21, <1>22, <1>23, <1>24, <1>25, <1>26, <1>27 DEF Next, Gates, Finalize

(* The trees of a run that has the checkout, of one that pushed, and of the *)
(* branch, up to the work of strays.                                        *)
CheckoutInv ==
    \A r \in Runs :
        LET i == IssueOf[r] IN
        /\ pc[r] \in Working \cup {"push"} => Proper(head[i] \cup dirty[i]) \subseteq {r}
        /\ pc[r] \in Verified => Proper(head[i] \cup dirty[i]) = Proper(tested[r])
        /\ pc[r] = "push" => Proper(head[i]) = Proper(tested[r])

BranchInv ==
    \A i \in Issues : branch[i].by \in Runs =>
        /\ IssueOf[branch[i].by] = i
        /\ pc[branch[i].by] \notin Before

TreeInv == CheckoutInv /\ BranchInv /\ PublishedWasTested /\ OnlyOwnWork

\* After the push, a step of a run leaves the trees alone.
LEMMA Later ==
    ASSUME TypeOK, TreeInv, NEW r \in Runs, NEW s,
           s \notin Before, pc' = [pc EXCEPT ![r] = s], UNCHANGED <<head, dirty, tested, branch>>
    PROVE  TreeInv'
<1> USE DEF TypeOK, TreeInv, Working, Verified, Before
<1>1. CheckoutInv'
  <2>1. \A o \in Runs : pc'[o] \in Before => pc'[o] = pc[o]
    OBVIOUS
  <2>2. Working \cup Verified \cup {"push"} \subseteq Before
    OBVIOUS
  <2>3. QED
    BY <2>1, <2>2 DEF CheckoutInv
<1>2. BranchInv'
  BY DEF BranchInv
<1>3. PublishedWasTested' /\ OnlyOwnWork'
  BY DEF PublishedWasTested, OnlyOwnWork
<1>4. QED
  BY <1>1, <1>2, <1>3

\* The gate that looks for changes moves its run only, and no tree.
LEMMA HasChangesMoves ==
    ASSUME TypeOK, NEW r \in Runs, HasChanges(r)
    PROVE  /\ \A o \in Runs : pc'[o] = pc[o] \/ (pc[o] = "has_changes" /\ pc'[o] \in {"capture_diff", "finish_failed"})
           /\ UNCHANGED <<head, dirty, tested>>
<1>1. pc \in [Runs -> Steps]
  BY DEF TypeOK
<1>2. /\ pc[r] = "has_changes"
      /\ \/ pc' = [pc EXCEPT ![r] = "capture_diff"]
         \/ pc' = [pc EXCEPT ![r] = "finish_failed"]
  BY DEF HasChanges, Goto, Fail
<1>3. UNCHANGED <<head, dirty, tested>>
  BY DEF HasChanges, checkoutVars
<1>4. ASSUME NEW o \in Runs, o # r PROVE pc'[o] = pc[o]
  BY <1>1, <1>2, <1>4
<1>5. pc'[r] = "capture_diff" \/ pc'[r] = "finish_failed"
  BY <1>1, <1>2
<1>6. QED
  BY <1>2, <1>3, <1>4, <1>5

LEMMA TreeStep == TypeOK /\ TurnInv /\ TreeInv /\ [Next]_vars => TreeInv'
<1> SUFFICES ASSUME TypeOK, TurnInv, TreeInv, [Next]_vars PROVE TreeInv'
  OBVIOUS
<1> USE RunsAssumption DEF RunsAssumption, TypeOK, TurnInv, Active, TreeInv,
             Working, Verified, Before
<1>1. ASSUME NEW r \in Runs, Start(r) PROVE TreeInv'
  <2>1. CheckoutInv'
    BY <1>1 DEF Start, CheckoutInv
  <2>2. BranchInv'
    BY <1>1 DEF Start, BranchInv
  <2>3. PublishedWasTested' /\ OnlyOwnWork'
    BY <1>1 DEF Start, BranchInv, PublishedWasTested, OnlyOwnWork
  <2>4. QED
    BY <2>1, <2>2, <2>3
<1>2. ASSUME NEW r \in Runs, ResolveCreds(r) PROVE TreeInv'
  <2>1. CheckoutInv'
    BY <1>2 DEF ResolveCreds, CheckoutInv
  <2>2. BranchInv'
    BY <1>2 DEF ResolveCreds, BranchInv
  <2>3. PublishedWasTested' /\ OnlyOwnWork'
    BY <1>2 DEF ResolveCreds, BranchInv, PublishedWasTested, OnlyOwnWork
  <2>4. QED
    BY <2>1, <2>2, <2>3
<1>3. ASSUME NEW r \in Runs, FetchIssue(r) PROVE TreeInv'
  <2>1. CheckoutInv'
    BY <1>3 DEF FetchIssue, CheckoutInv
  <2>2. BranchInv'
    BY <1>3 DEF FetchIssue, BranchInv
  <2>3. PublishedWasTested' /\ OnlyOwnWork'
    BY <1>3 DEF FetchIssue, BranchInv, PublishedWasTested, OnlyOwnWork
  <2>4. QED
    BY <2>1, <2>2, <2>3
<1>4. ASSUME NEW r \in Runs, Clone(r) PROVE TreeInv'
  <2>0. \A o \in Runs : o # r => pc'[o] = pc[o]
    BY <1>4 DEF Clone
  <2>1. CheckoutInv'
    BY <1>4, <2>0 DEF Clone, ResetTo, CheckoutInv, Proper
  <2>2. BranchInv'
    BY <1>4 DEF Clone, ResetTo, BranchInv
  <2>3. PublishedWasTested' /\ OnlyOwnWork'
    BY <1>4 DEF Clone, ResetTo, BranchInv, PublishedWasTested, OnlyOwnWork
  <2>4. QED
    BY <2>1, <2>2, <2>3
<1>5. ASSUME NEW r \in Runs, CloneKilled(r) PROVE TreeInv'
  <2>1. CheckoutInv'
    BY <1>5 DEF CloneKilled, CloneRemains, CheckoutInv, Proper
  <2>2. BranchInv'
    BY <1>5 DEF CloneKilled, CloneRemains, BranchInv
  <2>3. PublishedWasTested' /\ OnlyOwnWork'
    BY <1>5 DEF CloneKilled, CloneRemains, BranchInv, PublishedWasTested, OnlyOwnWork
  <2>4. QED
    BY <2>1, <2>2, <2>3
<1>6. ASSUME NEW r \in Runs, Setup(r) PROVE TreeInv'
  <2>1. CheckoutInv'
    BY <1>6 DEF Setup, CheckoutInv
  <2>2. BranchInv'
    BY <1>6 DEF Setup, BranchInv
  <2>3. PublishedWasTested' /\ OnlyOwnWork'
    BY <1>6 DEF Setup, BranchInv, PublishedWasTested, OnlyOwnWork
  <2>4. QED
    BY <2>1, <2>2, <2>3
<1>7. ASSUME NEW r \in Runs, AgencyRun(r) PROVE TreeInv'
  <2>0. /\ \A o \in Runs : o # r => pc'[o] = pc[o]
        /\ pc[r] = "agency_run" /\ pc'[r] \in {"verified_tests", "finish_failed"}
        /\ UNCHANGED tested
        /\ \A i \in Issues : /\ i # IssueOf[r] => head'[i] = head[i] /\ dirty'[i] = dirty[i]
                             /\ head'[i] \cup dirty'[i] \subseteq head[i] \cup dirty[i] \cup {r}
    BY <1>7 DEF AgencyRun
  <2>1. CheckoutInv'
    BY <2>0 DEF CheckoutInv, Proper
  <2>2. BranchInv'
    BY <1>7 DEF AgencyRun, BranchInv
  <2>3. PublishedWasTested' /\ OnlyOwnWork'
    BY <1>7 DEF AgencyRun, BranchInv, PublishedWasTested, OnlyOwnWork
  <2>4. QED
    BY <2>1, <2>2, <2>3
<1>8. ASSUME NEW r \in Runs, VerifiedTests(r) PROVE TreeInv'
  <2>1. CheckoutInv'
    BY <1>8 DEF VerifiedTests, CheckoutInv, Proper
  <2>2. BranchInv'
    BY <1>8 DEF VerifiedTests, BranchInv
  <2>3. ASSUME NEW i \in Issues, branch[i].by # Nobody PROVE branch[i].by \in Runs /\ branch[i].by # r
    BY <1>8, <2>3 DEF VerifiedTests, BranchInv, Branches
  <2>4. PublishedWasTested' /\ OnlyOwnWork'
    BY <1>8, <2>3 DEF VerifiedTests, PublishedWasTested, OnlyOwnWork
  <2>5. QED
    BY <2>1, <2>2, <2>4
<1>9. ASSUME NEW r \in Runs, HasChanges(r) PROVE TreeInv'
  <2>0. /\ \A o \in Runs : pc'[o] = pc[o] \/ (pc[o] = "has_changes" /\ pc'[o] \in {"capture_diff", "finish_failed"})
        /\ UNCHANGED <<head, dirty, tested>>
    BY <1>9, HasChangesMoves
  <2>1. CheckoutInv'
    BY <2>0 DEF CheckoutInv
  <2>2. BranchInv'
    BY <1>9 DEF HasChanges, BranchInv
  <2>3. PublishedWasTested' /\ OnlyOwnWork'
    BY <1>9 DEF HasChanges, BranchInv, PublishedWasTested, OnlyOwnWork
  <2>4. QED
    BY <2>1, <2>2, <2>3
<1>10. ASSUME NEW r \in Runs, CaptureDiff(r) PROVE TreeInv'
  <2>1. CheckoutInv'
    BY <1>10 DEF CaptureDiff, CheckoutInv
  <2>2. BranchInv'
    BY <1>10 DEF CaptureDiff, BranchInv
  <2>3. PublishedWasTested' /\ OnlyOwnWork'
    BY <1>10 DEF CaptureDiff, BranchInv, PublishedWasTested, OnlyOwnWork
  <2>4. QED
    BY <2>1, <2>2, <2>3
<1>11. ASSUME NEW r \in Runs, GitHubToken(r) PROVE TreeInv'
  <2>1. CheckoutInv'
    BY <1>11 DEF GitHubToken, CheckoutInv
  <2>2. BranchInv'
    BY <1>11 DEF GitHubToken, BranchInv
  <2>3. PublishedWasTested' /\ OnlyOwnWork'
    BY <1>11 DEF GitHubToken, BranchInv, PublishedWasTested, OnlyOwnWork
  <2>4. QED
    BY <2>1, <2>2, <2>3
<1>12. ASSUME NEW r \in Runs, Commit(r) PROVE TreeInv'
  <2>1. CheckoutInv'
    BY <1>12 DEF Commit, CheckoutInv, Proper
  <2>2. BranchInv'
    BY <1>12 DEF Commit, BranchInv
  <2>3. PublishedWasTested' /\ OnlyOwnWork'
    BY <1>12 DEF Commit, BranchInv, PublishedWasTested, OnlyOwnWork
  <2>4. QED
    BY <2>1, <2>2, <2>3
<1>13. ASSUME NEW r \in Runs, Push(r) PROVE TreeInv'
  <2> DEFINE i == IssueOf[r]
  <2>1. pc[r] = "push" /\ pc'[r] \notin Before /\ \A o \in Runs \ {r} : pc'[o] = pc[o]
    BY <1>13 DEF Push
  <2>2. UNCHANGED <<head, dirty, tested>>
    BY <1>13 DEF Push
  <2>3. UNCHANGED branch \/ branch' = [branch EXCEPT ![i] = [tree |-> head[i], by |-> r]]
    BY <1>13 DEF Push
  <2>4. ASSUME NEW j \in Issues
        PROVE  \/ branch'[j] = branch[j]
               \/ j = i /\ branch'[j].by = r /\ branch'[j].tree = head[i]
    BY <2>3
  <2>5. CheckoutInv'
    BY <2>1, <2>2 DEF CheckoutInv
  <2>6. BranchInv'
    BY <2>1, <2>4 DEF BranchInv
  <2>7. Proper(head[i]) = Proper(tested[r]) /\ Proper(head[i]) \subseteq {r}
    BY <2>1 DEF CheckoutInv, Proper
  <2>8. PublishedWasTested' /\ OnlyOwnWork'
    BY <2>2, <2>4, <2>7 DEF PublishedWasTested, OnlyOwnWork
  <2>9. QED
    BY <2>5, <2>6, <2>8
<1>14. ASSUME NEW r \in Runs, ListPRs(r) PROVE TreeInv'
  <2>1. \E s : s \notin Before /\ pc' = [pc EXCEPT ![r] = s]
    BY <1>14 DEF ListPRs
  <2>2. QED
    BY <1>14, <2>1, Later DEF ListPRs
<1>15. ASSUME NEW r \in Runs, UpdatePR(r) PROVE TreeInv'
  <2>1. \E s : s \notin Before /\ pc' = [pc EXCEPT ![r] = s]
    BY <1>15 DEF UpdatePR
  <2>2. QED
    BY <1>15, <2>1, Later DEF UpdatePR
<1>16. ASSUME NEW r \in Runs, CreatePR(r) PROVE TreeInv'
  <2>1. \E s : s \notin Before /\ pc' = [pc EXCEPT ![r] = s]
    BY <1>16 DEF CreatePR
  <2>2. QED
    BY <1>16, <2>1, Later DEF CreatePR
<1>17. ASSUME NEW r \in Runs, CommentLinear(r) PROVE TreeInv'
  <2>1. \E s : s \notin Before /\ pc' = [pc EXCEPT ![r] = s]
    BY <1>17 DEF CommentLinear
  <2>2. QED
    BY <1>17, <2>1, Later DEF CommentLinear
<1>18. ASSUME NEW r \in Runs, NotifySlack(r) PROVE TreeInv'
  <2>1. \E s : s \notin Before /\ pc' = [pc EXCEPT ![r] = s]
    BY <1>18 DEF NotifySlack
  <2>2. QED
    BY <1>18, <2>1, Later DEF NotifySlack
<1>19. ASSUME NEW r \in Runs, WriteTrace(r) PROVE TreeInv'
  <2>1. \E s : s \notin Before /\ pc' = [pc EXCEPT ![r] = s]
    BY <1>19 DEF WriteTrace, WriteFile
  <2>2. QED
    BY <1>19, <2>1, Later DEF WriteTrace, WriteFile
<1>20. ASSUME NEW r \in Runs, WriteResult(r) PROVE TreeInv'
  <2>1. \E s : s \notin Before /\ pc' = [pc EXCEPT ![r] = s]
    BY <1>20 DEF WriteResult, WriteFile
  <2>2. QED
    BY <1>20, <2>1, Later DEF WriteResult, WriteFile
<1>21. ASSUME NEW r \in Runs, WriteLinks(r) PROVE TreeInv'
  <2>1. \E s : s \notin Before /\ pc' = [pc EXCEPT ![r] = s]
    BY <1>21 DEF WriteLinks, WriteFile
  <2>2. QED
    BY <1>21, <2>1, Later DEF WriteLinks, WriteFile
<1>22. ASSUME NEW r \in Runs, WriteDiff(r) PROVE TreeInv'
  <2>1. \E s : s \notin Before /\ pc' = [pc EXCEPT ![r] = s]
    BY <1>22 DEF WriteDiff, WriteFile
  <2>2. QED
    BY <1>22, <2>1, Later DEF WriteDiff, WriteFile
<1>23. ASSUME NEW r \in Runs, BundleFails(r) PROVE TreeInv'
  <2>1. \E s : s \notin Before /\ pc' = [pc EXCEPT ![r] = s]
    BY <1>23 DEF BundleFails
  <2>2. QED
    BY <1>23, <2>1, Later DEF BundleFails
<1>24. ASSUME NEW r \in Runs, Crash(r) PROVE TreeInv'
  <2>1. CheckoutInv'
    BY <1>24 DEF Crash, Subprocesses, Active, CheckoutInv
  <2>2. BranchInv'
    BY <1>24 DEF Crash, Subprocesses, Active, BranchInv
  <2>3. PublishedWasTested' /\ OnlyOwnWork'
    BY <1>24 DEF Crash, Subprocesses, Active, BranchInv, PublishedWasTested, OnlyOwnWork
  <2>4. QED
    BY <2>1, <2>2, <2>3
<1>25. ASSUME NEW i \in Issues, StrayWrites(i) PROVE TreeInv'
  <2>1. CheckoutInv'
    BY <1>25 DEF StrayWrites, CheckoutInv, Proper
  <2>2. BranchInv'
    BY <1>25 DEF StrayWrites, BranchInv
  <2>3. PublishedWasTested' /\ OnlyOwnWork'
    BY <1>25 DEF StrayWrites, BranchInv, PublishedWasTested, OnlyOwnWork
  <2>4. QED
    BY <2>1, <2>2, <2>3
<1>26. ASSUME NEW i \in Issues, ClosePR(i) PROVE TreeInv'
  <2>1. CheckoutInv'
    BY <1>26 DEF ClosePR, CheckoutInv
  <2>2. BranchInv'
    BY <1>26 DEF ClosePR, BranchInv
  <2>3. PublishedWasTested' /\ OnlyOwnWork'
    BY <1>26 DEF ClosePR, BranchInv, PublishedWasTested, OnlyOwnWork
  <2>4. QED
    BY <2>1, <2>2, <2>3
<1>27. CASE UNCHANGED vars
  BY <1>27 DEF vars, CheckoutInv, BranchInv, PublishedWasTested, OnlyOwnWork
<1>28. QED
  BY <1>1, <1>2, <1>3, <1>4, <1>5, <1>6, <1>7, <1>8, <1>9, <1>10, <1>11, <1>12, <1>13, <1>14, <1>15, <1>16, <1>17, <1>18, <1>19, <1>20, <1>21, <1>22, <1>23, <1>24, <1>25, <1>26, <1>27 DEF Next, Gates, Finalize

\* As long as runs of one issue do not overlap, a branch holds what its run tested
\* and nothing of the runs before it, up to strays: for any number of re-runs after
\* failures, timeouts and crashes.
THEOREM PublishedTested == ~Overlap => (Spec => [](PublishedWasTested /\ OnlyOwnWork))
<1> SUFFICES ASSUME ~Overlap PROVE Spec => [](PublishedWasTested /\ OnlyOwnWork)
  OBVIOUS
<1>1. Init => TypeOK /\ TurnInv /\ TreeInv
  BY TypeInit, RunsAssumption DEF RunsAssumption, Init, TurnInv, Active, TreeInv, CheckoutInv, BranchInv, Working,
             Verified, PublishedWasTested, OnlyOwnWork
<1>2. TypeOK /\ TurnInv /\ [Next]_vars => TurnInv'
  BY TurnStep
<1>3. TreeInv => PublishedWasTested /\ OnlyOwnWork
  BY DEF TreeInv
<1>4. QED
  BY <1>1, <1>2, <1>3, TypeStep, TreeStep, PTL DEF Spec

\* The property that the runs check, as a consequence.
THEOREM OwnAndTested == ~Overlap => (Spec => []PublishedIsOwnAndTested)
<1> SUFFICES ASSUME ~Overlap PROVE Spec => []PublishedIsOwnAndTested
  OBVIOUS
<1>1. PublishedWasTested /\ OnlyOwnWork => PublishedIsOwnAndTested
  BY DEF PublishedIsOwnAndTested
<1>2. Spec => [](PublishedWasTested /\ OnlyOwnWork)
  BY PublishedTested
<1>3. QED
  BY <1>1, <1>2, PTL

(* No stray, no stray's work.                                               *)
CleanInv ==
    /\ \A i \in Issues : ~orphan[i] /\ Stray \notin head[i] \cup dirty[i] \cup branch[i].tree
    /\ \A r \in Runs : Stray \notin tested[r]

LEMMA CleanStep == ~Strays /\ TypeOK /\ CleanInv /\ [Next]_vars => CleanInv'
<1> SUFFICES ASSUME ~Strays, TypeOK, CleanInv, [Next]_vars PROVE CleanInv'
  OBVIOUS
<1> USE RunsAssumption DEF RunsAssumption, TypeOK, Marks, NoTree, CleanInv
<1>1. ASSUME NEW r \in Runs, Start(r) PROVE CleanInv'
  BY <1>1 DEF Start
<1>2. ASSUME NEW r \in Runs, ResolveCreds(r) PROVE CleanInv'
  BY <1>2 DEF ResolveCreds
<1>3. ASSUME NEW r \in Runs, FetchIssue(r) PROVE CleanInv'
  BY <1>3 DEF FetchIssue
<1>4. ASSUME NEW r \in Runs, Clone(r) PROVE CleanInv'
  <2>1. \A i \in Issues : head'[i] \in {head[i], {}} /\ dirty'[i] \in {dirty[i], {}}
    BY <1>4 DEF Clone, ResetTo
  <2>2. UNCHANGED <<orphan, branch, tested>>
    BY <1>4 DEF Clone, ResetTo
  <2>3. QED
    BY <2>1, <2>2
<1>5. ASSUME NEW r \in Runs, CloneKilled(r) PROVE CleanInv'
  BY <1>5 DEF CloneKilled, CloneRemains
<1>6. ASSUME NEW r \in Runs, Setup(r) PROVE CleanInv'
  BY <1>6 DEF Setup
<1>7. ASSUME NEW r \in Runs, AgencyRun(r) PROVE CleanInv'
  BY <1>7 DEF AgencyRun
<1>8. ASSUME NEW r \in Runs, VerifiedTests(r) PROVE CleanInv'
  <2>1. \A o \in Runs : tested'[o] \in {tested[o], head[IssueOf[o]] \cup dirty[IssueOf[o]]}
    BY <1>8 DEF VerifiedTests
  <2>2. UNCHANGED <<head, dirty, orphan, branch>>
    BY <1>8 DEF VerifiedTests
  <2>3. \A o \in Runs : Stray \notin tested'[o]
    BY <2>1
  <2>4. QED
    BY <2>2, <2>3
<1>9. ASSUME NEW r \in Runs, HasChanges(r) PROVE CleanInv'
  BY <1>9 DEF HasChanges
<1>10. ASSUME NEW r \in Runs, CaptureDiff(r) PROVE CleanInv'
  BY <1>10 DEF CaptureDiff
<1>11. ASSUME NEW r \in Runs, GitHubToken(r) PROVE CleanInv'
  BY <1>11 DEF GitHubToken
<1>12. ASSUME NEW r \in Runs, Commit(r) PROVE CleanInv'
  BY <1>12 DEF Commit
<1>13. ASSUME NEW r \in Runs, Push(r) PROVE CleanInv'
  <2>1. \A i \in Issues : branch'[i].tree \in {branch[i].tree, head[i]}
    BY <1>13 DEF Push
  <2>2. UNCHANGED <<head, dirty, orphan, tested>>
    BY <1>13 DEF Push
  <2>3. QED
    BY <2>1, <2>2
<1>14. ASSUME NEW r \in Runs, ListPRs(r) PROVE CleanInv'
  BY <1>14 DEF ListPRs
<1>15. ASSUME NEW r \in Runs, UpdatePR(r) PROVE CleanInv'
  BY <1>15 DEF UpdatePR
<1>16. ASSUME NEW r \in Runs, CreatePR(r) PROVE CleanInv'
  BY <1>16 DEF CreatePR
<1>17. ASSUME NEW r \in Runs, CommentLinear(r) PROVE CleanInv'
  BY <1>17 DEF CommentLinear
<1>18. ASSUME NEW r \in Runs, NotifySlack(r) PROVE CleanInv'
  BY <1>18 DEF NotifySlack
<1>19. ASSUME NEW r \in Runs, WriteTrace(r) PROVE CleanInv'
  BY <1>19 DEF WriteTrace, WriteFile
<1>20. ASSUME NEW r \in Runs, WriteResult(r) PROVE CleanInv'
  BY <1>20 DEF WriteResult, WriteFile
<1>21. ASSUME NEW r \in Runs, WriteLinks(r) PROVE CleanInv'
  BY <1>21 DEF WriteLinks, WriteFile
<1>22. ASSUME NEW r \in Runs, WriteDiff(r) PROVE CleanInv'
  BY <1>22 DEF WriteDiff, WriteFile
<1>23. ASSUME NEW r \in Runs, BundleFails(r) PROVE CleanInv'
  BY <1>23 DEF BundleFails
<1>24. ASSUME NEW r \in Runs, Crash(r) PROVE CleanInv'
  BY <1>24 DEF Crash, Subprocesses, Active
<1>25. ASSUME NEW i \in Issues, StrayWrites(i) PROVE CleanInv'
  BY <1>25 DEF StrayWrites
<1>26. ASSUME NEW i \in Issues, ClosePR(i) PROVE CleanInv'
  BY <1>26 DEF ClosePR
<1>27. CASE UNCHANGED vars
  BY <1>27 DEF vars
<1>28. QED
  BY <1>1, <1>2, <1>3, <1>4, <1>5, <1>6, <1>7, <1>8, <1>9, <1>10, <1>11, <1>12, <1>13, <1>14, <1>15, <1>16, <1>17, <1>18, <1>19, <1>20, <1>21, <1>22, <1>23, <1>24, <1>25, <1>26, <1>27 DEF Next, Gates, Finalize

\* With no subprocess that outlives its run, a branch holds exactly what was tested.
THEOREM PublishedStrictly == ~Overlap /\ ~Strays => (Spec => []StrictlyTested)
<1> SUFFICES ASSUME ~Overlap, ~Strays PROVE Spec => []StrictlyTested
  OBVIOUS
<1>1. Init => TypeOK /\ CleanInv
  BY TypeInit, RunsAssumption DEF RunsAssumption, Init, NoTree, CleanInv
<1>2. TypeOK /\ CleanInv /\ [Next]_vars => CleanInv'
  BY CleanStep
<1>3. TypeOK /\ CleanInv /\ PublishedWasTested => StrictlyTested
  <2> SUFFICES ASSUME TypeOK, CleanInv, PublishedWasTested, NEW i \in Issues, branch[i].by # Nobody
               PROVE  branch[i].tree = tested[branch[i].by]
    BY DEF StrictlyTested
  <2>1. branch[i].by \in Runs
    BY DEF TypeOK, Branches
  <2>2. Stray \notin branch[i].tree /\ Stray \notin tested[branch[i].by]
    BY <2>1 DEF CleanInv
  <2>3. Proper(branch[i].tree) = branch[i].tree /\ Proper(tested[branch[i].by]) = tested[branch[i].by]
    BY <2>2 DEF Proper
  <2>4. QED
    BY <2>3 DEF PublishedWasTested
<1>4. Spec => [](PublishedWasTested /\ OnlyOwnWork)
  BY PublishedTested
<1>5. QED
  BY <1>1, <1>2, <1>3, <1>4, TypeStep, PTL DEF Spec

(***************************************************************************)
(* One pull request.                                                       *)
(***************************************************************************)

(* A run that is about to create one has seen that there is none.           *)
PRInv ==
    /\ \A i \in Issues : \A m, n \in prs[i] : m = n
    /\ \A r \in Runs : pc[r] = "open_pr" /\ found[r] = 0 => prs[IssueOf[r]] = {}
    /\ \A i \in Issues : 0 \notin prs[i]

LEMMA PRStep == PageHolds /\ TypeOK /\ TurnInv /\ PRInv /\ [Next]_vars => PRInv'
<1> SUFFICES ASSUME PageHolds, TypeOK, TurnInv, PRInv, [Next]_vars PROVE PRInv'
  OBVIOUS
<1> USE RunsAssumption DEF RunsAssumption, TypeOK, TurnInv, Active, PRInv
<1>1. ASSUME NEW r \in Runs, Start(r) PROVE PRInv'
  BY <1>1 DEF Start
<1>2. ASSUME NEW r \in Runs, ResolveCreds(r) PROVE PRInv'
  BY <1>2 DEF ResolveCreds
<1>3. ASSUME NEW r \in Runs, FetchIssue(r) PROVE PRInv'
  BY <1>3 DEF FetchIssue
<1>4. ASSUME NEW r \in Runs, Clone(r) PROVE PRInv'
  BY <1>4 DEF Clone, ResetTo
<1>5. ASSUME NEW r \in Runs, CloneKilled(r) PROVE PRInv'
  BY <1>5 DEF CloneKilled, CloneRemains
<1>6. ASSUME NEW r \in Runs, Setup(r) PROVE PRInv'
  BY <1>6 DEF Setup
<1>7. ASSUME NEW r \in Runs, AgencyRun(r) PROVE PRInv'
  BY <1>7 DEF AgencyRun
<1>8. ASSUME NEW r \in Runs, VerifiedTests(r) PROVE PRInv'
  BY <1>8 DEF VerifiedTests
<1>9. ASSUME NEW r \in Runs, HasChanges(r) PROVE PRInv'
  BY <1>9 DEF HasChanges
<1>10. ASSUME NEW r \in Runs, CaptureDiff(r) PROVE PRInv'
  BY <1>10 DEF CaptureDiff
<1>11. ASSUME NEW r \in Runs, GitHubToken(r) PROVE PRInv'
  BY <1>11 DEF GitHubToken
<1>12. ASSUME NEW r \in Runs, Commit(r) PROVE PRInv'
  BY <1>12 DEF Commit
<1>13. ASSUME NEW r \in Runs, Push(r) PROVE PRInv'
  BY <1>13 DEF Push
<1>14. ASSUME NEW r \in Runs, ListPRs(r) PROVE PRInv'
  BY <1>14 DEF ListPRs
<1>15. ASSUME NEW r \in Runs, UpdatePR(r) PROVE PRInv'
  BY <1>15 DEF UpdatePR
<1>16. ASSUME NEW r \in Runs, CreatePR(r) PROVE PRInv'
  <2> DEFINE i == IssueOf[r]
  <2>1. \A o \in Runs \ {r} : pc[o] = "open_pr" => IssueOf[o] # i
    BY <1>16 DEF CreatePR
  <2>2. prs[i] = {} /\ pc'[r] # "open_pr" /\ \A o \in Runs \ {r} : pc'[o] = pc[o]
    BY <1>16 DEF CreatePR
  <2>3. \/ UNCHANGED <<prs, found>>
        \/ prs' = [prs EXCEPT ![i] = {nextPR}] /\ UNCHANGED found
    BY <1>16, <2>2 DEF CreatePR
  <2>4. nextPR # 0
    OBVIOUS
  <2>5. ASSUME NEW j \in Issues PROVE (\A m, n \in prs'[j] : m = n) /\ 0 \notin prs'[j]
    BY <2>3, <2>4
  <2>6. ASSUME NEW o \in Runs, pc'[o] = "open_pr", found'[o] = 0 PROVE prs'[IssueOf[o]] = {}
    BY <2>1, <2>2, <2>3, <2>6
  <2>7. QED
    BY <2>5, <2>6
<1>17. ASSUME NEW r \in Runs, CommentLinear(r) PROVE PRInv'
  BY <1>17 DEF CommentLinear
<1>18. ASSUME NEW r \in Runs, NotifySlack(r) PROVE PRInv'
  BY <1>18 DEF NotifySlack
<1>19. ASSUME NEW r \in Runs, WriteTrace(r) PROVE PRInv'
  BY <1>19 DEF WriteTrace, WriteFile
<1>20. ASSUME NEW r \in Runs, WriteResult(r) PROVE PRInv'
  BY <1>20 DEF WriteResult, WriteFile
<1>21. ASSUME NEW r \in Runs, WriteLinks(r) PROVE PRInv'
  BY <1>21 DEF WriteLinks, WriteFile
<1>22. ASSUME NEW r \in Runs, WriteDiff(r) PROVE PRInv'
  BY <1>22 DEF WriteDiff, WriteFile
<1>23. ASSUME NEW r \in Runs, BundleFails(r) PROVE PRInv'
  BY <1>23 DEF BundleFails
<1>24. ASSUME NEW r \in Runs, Crash(r) PROVE PRInv'
  BY <1>24 DEF Crash, Subprocesses, Active
<1>25. ASSUME NEW i \in Issues, StrayWrites(i) PROVE PRInv'
  BY <1>25 DEF StrayWrites
<1>26. ASSUME NEW i \in Issues, ClosePR(i) PROVE PRInv'
  BY <1>26 DEF ClosePR
<1>27. CASE UNCHANGED vars
  BY <1>27 DEF vars
<1>28. QED
  BY <1>1, <1>2, <1>3, <1>4, <1>5, <1>6, <1>7, <1>8, <1>9, <1>10, <1>11, <1>12, <1>13, <1>14, <1>15, <1>16, <1>17, <1>18, <1>19, <1>20, <1>21, <1>22, <1>23, <1>24, <1>25, <1>26, <1>27 DEF Next, Gates, Finalize

\* As long as runs of one issue do not overlap and the first page of open pull
\* requests holds the issue's, it never has two: a lost answer to the POST, a crash
\* after it or a rerun included.
THEOREM OnePR == ~Overlap /\ PageHolds => (Spec => []OnePRPerIssue)
<1> SUFFICES ASSUME ~Overlap, PageHolds PROVE Spec => []OnePRPerIssue
  OBVIOUS
<1>1. Init => TypeOK /\ TurnInv /\ PRInv
  BY TypeInit DEF Init, TurnInv, Active, PRInv
<1>2. TypeOK /\ TurnInv /\ [Next]_vars => TurnInv'
  BY TurnStep
<1>3. TypeOK /\ TurnInv /\ PRInv /\ [Next]_vars => PRInv'
  BY PRStep
<1>4. PRInv => OnePRPerIssue
  <2> SUFFICES ASSUME PRInv, NEW i \in Issues PROVE Cardinality(prs[i]) <= 1
    BY DEF OnePRPerIssue
  <2>1. CASE prs[i] = {}
    BY <2>1, FS_EmptySet
  <2>2. CASE prs[i] # {}
    <3> PICK n \in prs[i] : TRUE
      BY <2>2
    <3>1. prs[i] = {n}
      BY DEF PRInv
    <3>2. Cardinality({n}) = 1
      BY FS_Singleton
    <3>3. QED
      BY <3>1, <3>2
  <2>3. QED
    BY <2>1, <2>2
<1>5. QED
  BY <1>1, <1>2, <1>3, <1>4, TypeStep, PTL DEF Spec

-----------------------------------------------------------------------------
(***************************************************************************)
(* The turns.  For any limits, costs and pipes, a run accounts for what    *)
(* its answers cost, acts on whole answers, and an MCP call returns the    *)
(* answer to itself.                                                       *)
(***************************************************************************)

(* A call is with the server only while it is among those to be made.       *)
CallInv == inFlight => todo > 0 /\ phase \in {"connect", "tools"}

LEMMA UsedTypes ==
  ASSUME StepTypeOK, NEW r \in Responses \cup {None}
  PROVE  /\ Used(r) \in Counts
         /\ r # None => Used(r) = r.cost /\ r.cost \in Counts
<1> USE LlmAssumption, NoneIsNoAccount
<1>1. CASE r = None
  <2>1. Used(r) = Nothing
    BY <1>1 DEF Used
  <2>2. Nothing \in Counts
    BY DEF Nothing, Counts
  <2>3. QED
    BY <1>1, <2>1, <2>2
<1>2. CASE r # None
  <2>1. r \in Responses /\ r.cost \in Usages
    BY <1>2 DEF Responses
  <2>2. r.cost \in Counts
    BY <2>1 DEF LlmAssumption, Counts
  <2>3. /\ r.cost.fresh \in Nat /\ r.cost.cached \in Nat /\ r.cost.out \in Nat
        /\ r.cost = [fresh |-> r.cost.fresh, cached |-> r.cost.cached, out |-> r.cost.out]
    BY <2>2 DEF Counts
  <2>4. Input(r) = r.cost.fresh
    BY <2>3 DEF Input, Prompt, NonCached
  <2>5. Used(r) = r.cost
    BY <1>2, <2>3, <2>4 DEF Used
  <2>6. QED
    BY <2>2, <2>5
<1>3. QED
  BY <1>1, <1>2

LEMMA PlusType ==
  ASSUME NEW a \in Counts, NEW b \in Counts
  PROVE  Plus(a, b) \in Counts
BY DEF Plus, Counts

LEMMA PlusAdds ==
  ASSUME NEW a \in Counts, NEW b \in Counts, NEW c \in Counts
  PROVE  /\ Plus(Plus(a, b), c) = Plus(a, Plus(b, c))
         /\ Plus(Plus(a, b), c) = Plus(Plus(a, c), b)
         /\ Plus(a, Nothing) = a
BY DEF Plus, Counts, Nothing

LEMMA StepTypeStep ==
  ASSUME StepTypeOK, Step \/ StepNext \/ Back \/ UNCHANGED stepVars
  PROVE  StepTypeOK'
<1> USE LlmAssumption DEF LlmAssumption
<1>1. Nothing \in Counts
  BY DEF Nothing, Counts
<1>2. CASE Step
  BY <1>2 DEF Step, StepTypeOK
<1>3. CASE Back
  BY <1>3 DEF Back, StepTypeOK
<1>4. CASE UNCHANGED stepVars
  BY <1>4 DEF stepVars, StepTypeOK
<1>5. ASSUME NEW r \in Responses, Respond(r) PROVE StepTypeOK'
  <2>1. r.cost \in Counts
    BY LlmAssumption DEF Responses, Counts
  <2>2. Plus(billed, r.cost) \in Counts
    BY <2>1, PlusType DEF StepTypeOK
  <2>3. QED
    BY <1>5, <2>2 DEF Respond, StepTypeOK
<1>6. CASE Transient
  BY <1>6 DEF Transient, StepTypeOK
<1>7. CASE Exhausted \/ ApiError \/ PassesThrough \/ Refused \/ Garbled
  BY <1>7 DEF Exhausted, ApiError, PassesThrough, Refused, Garbled, Ends, StepTypeOK
<1>8. CASE RetryTruncated
  <2>1. RetryCap \in Nat
    BY DEF RetryCap
  <2>2. QED
    BY <1>8, <2>1 DEF RetryTruncated, StepTypeOK
<1>9. CASE TruncatedForGood \/ Answer
  <2>1. CallUsage \in Counts
    BY UsedTypes, PlusType DEF CallUsage, StepTypeOK
  <2>2. QED
    BY <1>9, <2>1 DEF TruncatedForGood, Answer, Ends, StepTypeOK
<1>10. QED
  BY <1>2, <1>3, <1>4, <1>5, <1>6, <1>7, <1>8, <1>9 DEF StepNext, Provider, Judge

LEMMA LineTypes ==
  /\ \A k \in Kinds, n \in 0 .. MaxRequests : Line(k, n) \in Lines
  /\ Failed \in Lines /\ Failed.kind = "error"
  /\ Unasked \subseteq Lines
  /\ Silent \notin Lines
BY McpAssumption, SilentIsNoLine DEF Kinds, Line, Lines, Failed, Unasked, McpAssumption

LEMMA McpTypeStep ==
  ASSUME McpTypeOK, Send \/ Client \/ Server \/ UNCHANGED mcpVars
  PROVE  McpTypeOK'
<1> USE McpAssumption, LineTypes DEF McpAssumption, McpTypeOK, pipes, ServerSleeps, ClientSleeps
<1>1. CASE Send
  <2>1. nextId + 1 \in 1 .. MaxRequests /\ nextId' = nextId + 1
    BY <1>1 DEF Send
  <2>2. Append(stdin, nextId + 1) \in Seq(1 .. MaxRequests)
    BY <2>1
  <2>3. CASE server = "up"
    BY <1>1, <2>1, <2>2, <2>3 DEF Send
  <2>4. CASE server # "up"
    BY <1>1, <2>1, <2>4 DEF Send
  <2>5. QED
    BY <2>3, <2>4
<1>2. CASE Sent
  BY <1>2 DEF Sent
<1>3. CASE ReadLine
  <2>1. Head(stdout) \in Lines /\ Tail(stdout) \in Seq(Lines)
    BY <1>3 DEF ReadLine
  <2>2. /\ client' \in {"reading", "ready"} /\ got' \in Lines
        /\ \/ messages' = 0 /\ noise' = 0
           \/ messages' = messages /\ noise' = noise + 1 /\ noise + 1 # MaxNoise
           \/ messages' = messages + 1 /\ noise' = 0 /\ messages + 1 # MaxMessages
    BY <1>3, <2>1 DEF ReadLine, Returns
  <2>3. messages' \in 0 .. MaxMessages - 1 /\ noise' \in 0 .. MaxNoise - 1
    BY <2>2
  <2>4. stdout' \in Seq(Lines) /\ UNCHANGED <<stdin, nextId, server, stderr, voice, owed, chatter>>
    BY <1>3, <2>1 DEF ReadLine
  <2>5. QED
    BY <2>2, <2>3, <2>4
<1>4. CASE EndOfFile
  BY <1>4 DEF EndOfFile
<1>5. CASE ReadStderr
  BY <1>5 DEF ReadStderr, Returns
<1>6. CASE Take
  <2>1. Head(stdin) \in 1 .. MaxRequests /\ Tail(stdin) \in Seq(1 .. MaxRequests)
    BY <1>6 DEF Take
  <2>2. QED
    BY <1>6, <2>1 DEF Take
<1>7. CASE Reply
  BY <1>7 DEF Reply, Kinds
<1>8. CASE Talk
  BY <1>8 DEF Talk
<1>9. CASE Log
  BY <1>9 DEF Log, Kinds
<1>10. CASE Emit
  <2>1. voice \in Lines
    BY <1>10 DEF Emit
  <2>2. Append(stdout, voice) \in Seq(Lines)
    BY <2>1
  <2>3. stdout' \in Seq(Lines)
    BY <1>10, <2>2 DEF Emit
  <2>4. stderr' \in 0 .. ErrPipe
    BY <1>10 DEF Emit
  <2>5. voice' \in Lines \cup {Silent} /\ UNCHANGED <<server, stdin, owed, chatter, client, nextId, messages, noise, got>>
    BY <1>10 DEF Emit
  <2>6. QED
    BY <2>3, <2>4, <2>5
<1>11. CASE Dies
  BY <1>11 DEF Dies
<1>12. CASE UNCHANGED mcpVars
  BY <1>12 DEF mcpVars
<1>13. QED
  BY <1>1, <1>2, <1>3, <1>4, <1>5, <1>6, <1>7, <1>8, <1>9, <1>10, <1>11, <1>12
  DEF Client, Server, Serve

(* What a step of a run does to the model's side and to the server's.       *)
LEMMA Sides ==
  ASSUME [TurnNext]_systemVars, McpTypeOK
  PROVE  /\ Step \/ StepNext \/ Back \/ UNCHANGED stepVars
         /\ Send \/ Client \/ Server \/ UNCHANGED mcpVars \/ Returned
<1>1. CASE Request
  BY <1>1 DEF Request
<1>2. CASE Connected \/ OutOfTurns \/ Elsewhere \/ TurnEnds
  BY <1>2 DEF Connected, OutOfTurns, Elsewhere, TurnEnds
<1>3. CASE Returned
  BY <1>3 DEF Returned
<1>4. CASE StartTurn
  BY <1>4 DEF StartTurn
<1>5. CASE Answered \/ StepFailed \/ StepRaised
  BY <1>5 DEF Answered, StepFailed, StepRaised
<1>6. CASE StepNext /\ UNCHANGED <<mcpVars, turnVars>>
  BY <1>6
<1>7. CASE (Client \/ Server) /\ UNCHANGED <<stepVars, turnVars>>
  BY <1>7
<1>8. CASE UNCHANGED systemVars
  BY <1>8 DEF systemVars
<1>9. QED
  BY <1>1, <1>2, <1>3, <1>4, <1>5, <1>6, <1>7, <1>8 DEF TurnNext, Run

LEMMA TurnTypeStep ==
  ASSUME TurnTypeOK, CallInv, [TurnNext]_systemVars
  PROVE  TurnTypeOK' /\ CallInv'
<1> USE TurnAssumption DEF TurnAssumption
<1>1. StepTypeOK'
  BY Sides, StepTypeStep DEF TurnTypeOK
<1>2. McpTypeOK'
  <2>1. CASE Returned
    BY <2>1, LineTypes DEF Returned, TurnTypeOK, McpTypeOK, pipes
  <2>2. QED
    BY <2>1, Sides, McpTypeStep DEF TurnTypeOK
<1> DEFINE Rest ==
      /\ phase \in {"connect", "model", "tools", "ended"}
      /\ offered \in BOOLEAN /\ turns \in 0 .. MaxTurns
      /\ todo \in 0 .. Most /\ inFlight \in BOOLEAN
      /\ accounted \in Counts
      /\ why \in {"none", "final", "incomplete", "llm_error", "raised"}
<1>3. Most \in Nat /\ MaxCalls <= Most /\ 2 <= Most
  BY DEF Most
<1>4. Rest /\ usage \in Counts \cup {None}
  BY DEF TurnTypeOK, StepTypeOK
<1>5. (Rest /\ CallInv)'
  <2>1. CASE Request
    BY <1>3, <1>4, <2>1 DEF Request, CallInv
  <2>2. CASE Connected
    <3>1. /\ todo > 0 /\ (todo' = todo - 1 \/ todo' = 0) /\ inFlight' = FALSE
          /\ phase' \in {"connect", "model"} /\ UNCHANGED <<turns, accounted, why>>
      BY <2>2 DEF Connected, CallInv
    <3>2. offered' \in BOOLEAN
      BY <2>2 DEF Connected
    <3>3. todo' \in 0 .. Most
      BY <1>3, <1>4, <3>1
    <3>4. Rest' /\ CallInv'
      BY <1>4, <3>1, <3>2, <3>3 DEF CallInv
    <3>5. QED
      BY <3>4
  <2>3. CASE StartTurn
    BY <1>3, <1>4, <2>3 DEF StartTurn, CallInv
  <2>4. CASE OutOfTurns
    BY <1>3, <1>4, <2>4 DEF OutOfTurns, Over, CallInv
  <2>5. CASE Answered \/ StepFailed \/ StepRaised
    <3>1. accounted' \in Counts
      BY <1>3, <1>4, <2>5, PlusType DEF Answered, StepFailed, StepRaised, Accumulate
    <3>2. CASE Answered
      <4>1. \/ phase' = "tools" /\ (\E n \in 1 .. MaxCalls : todo' = n) /\ UNCHANGED why
            \/ phase' = "ended" /\ why' \in {"final", "raised"} /\ UNCHANGED todo
        BY <3>2 DEF Answered, Over
      <4>2. phase = "model" /\ UNCHANGED <<offered, turns, inFlight>>
        BY <3>2 DEF Answered
      <4>3. QED
        BY <1>3, <1>4, <3>1, <4>1, <4>2 DEF CallInv
    <3>3. CASE StepFailed \/ StepRaised
      BY <1>3, <1>4, <3>1, <3>3 DEF StepFailed, StepRaised, Over, CallInv
    <3>4. QED
      BY <2>5, <3>2, <3>3
  <2>6. CASE Elsewhere
    BY <1>3, <1>4, <2>6 DEF Elsewhere, CallInv
  <2>7. CASE Returned
    <3>1. todo > 0 /\ todo' = todo - 1 /\ inFlight' = FALSE /\ UNCHANGED <<phase, offered, turns, accounted, why>>
      BY <2>7 DEF Returned, CallInv
    <3>2. todo' \in 0 .. Most
      BY <1>3, <1>4, <3>1
    <3>3. Rest' /\ CallInv'
      BY <1>4, <3>1, <3>2 DEF CallInv
    <3>4. QED
      BY <3>3
  <2>8. CASE TurnEnds
    BY <1>3, <1>4, <2>8 DEF TurnEnds, CallInv
  <2>9. CASE UNCHANGED turnVars
    BY <1>3, <1>4, <2>9 DEF turnVars, CallInv
  <2>10. QED
    BY <2>1, <2>2, <2>3, <2>4, <2>5, <2>6, <2>7, <2>8, <2>9 DEF TurnNext, Run, systemVars
<1>6. QED
  BY <1>1, <1>2, <1>5 DEF TurnTypeOK

(* The costs that the run has not accounted for yet are those of the step   *)
(* it is in: of the response in hand and of the one that was cut off.       *)
AccountInv ==
    /\ phase # "ended" => why = "none"
    /\ at # "idle" => phase = "model"
    /\ ChargesAreReported
    /\ at = "request" => billed = Plus(accounted, Used(kept))
    /\ at = "judge" => resp # None /\ billed = Plus(Plus(accounted, Used(resp)), Used(kept))
    /\ at = "answered" => usage # None /\ billed = Plus(accounted, usage)

LEMMA RequestAccounted ==
  ASSUME TurnTypeOK, AccountInv, StepNext, UNCHANGED turnVars
  PROVE  AccountInv'
<1> USE NoneIsNoAccount
<1>0. /\ StepTypeOK /\ accounted \in Counts /\ billed \in Counts
      /\ resp \in Responses \cup {None} /\ kept \in Responses \cup {None}
      /\ UNCHANGED <<phase, why, accounted>>
  BY DEF TurnTypeOK, StepTypeOK, turnVars
<1>1. at \in {"request", "judge"} /\ UNCHANGED backend
  BY DEF StepNext, Provider, Judge, Respond, Transient, Exhausted, ApiError, PassesThrough, RetryTruncated,
         TruncatedForGood, Refused, Garbled, Answer, Ends
<1>2. phase = "model" /\ why = "none" /\ phase' = "model" /\ why' = "none"
  BY <1>0, <1>1 DEF AccountInv
<1>3. Used(kept) \in Counts /\ Used(resp) \in Counts
  BY <1>0, UsedTypes
<1>4. ASSUME NEW r \in Responses, Respond(r) PROVE AccountInv'
  <2>1. r # None /\ Used(r) = r.cost /\ r.cost \in Counts
    BY <1>0, UsedTypes
  <2>2. at' = "judge" /\ resp' = r /\ billed' = Plus(billed, r.cost) /\ UNCHANGED <<backend, kept>> /\ at = "request"
    BY <1>4 DEF Respond
  <2>3. billed' = Plus(Plus(accounted, Used(r)), Used(kept))
    BY <1>0, <1>3, <2>1, <2>2, PlusAdds DEF AccountInv
  <2>4. Used(r)' = Used(r) /\ Used(kept)' = Used(kept) /\ Used(resp)' = Used(r)
    BY <2>2 DEF Used, Input, Prompt, Inclusive, NonCached
  <2>5. QED
    BY <1>0, <1>2, <2>1, <2>2, <2>3, <2>4 DEF AccountInv, ChargesAreReported
<1>5. CASE Transient
  <2>1. Used(kept)' = Used(kept) /\ UNCHANGED <<at, billed>> /\ at = "request"
    BY <1>5 DEF Transient, Used, Input, Prompt, Inclusive, NonCached
  <2>2. QED
    BY <1>0, <1>2, <2>1 DEF AccountInv, ChargesAreReported
<1>6. CASE Exhausted \/ ApiError \/ PassesThrough \/ TruncatedForGood \/ Refused \/ Garbled
  <2>1. at' \in {"error", "raised"}
    BY <1>6 DEF Exhausted, ApiError, PassesThrough, TruncatedForGood, Refused, Garbled, Ends
  <2>2. QED
    BY <1>2, <2>1 DEF AccountInv, ChargesAreReported
<1>7. CASE RetryTruncated
  <2>1. at = "judge" /\ at' = "request" /\ kept = None /\ kept' = resp /\ UNCHANGED <<backend, billed>>
    BY <1>7 DEF RetryTruncated, MayRetry
  <2>2. Used(kept) = Nothing
    BY <2>1 DEF Used
  <2>3. Used(kept)' = Used(resp)
    BY <2>1 DEF Used, Input, Prompt, Inclusive, NonCached
  <2>4. billed = Plus(accounted, Used(resp))
    BY <1>0, <1>3, <2>1, <2>2, PlusAdds, PlusType DEF AccountInv
  <2>5. QED
    BY <1>0, <1>2, <2>1, <2>3, <2>4 DEF AccountInv, ChargesAreReported
<1>8. CASE Answer
  <2>1. at = "judge" /\ at' = "answered" /\ usage' = CallUsage /\ UNCHANGED <<billed>>
    BY <1>8 DEF Answer, Ends
  <2>2. CallUsage \in Counts /\ CallUsage = Plus(Used(resp), Used(kept))
    BY <1>3, PlusType DEF CallUsage
  <2>3. billed = Plus(accounted, CallUsage)
    BY <1>0, <1>3, <2>1, <2>2, PlusAdds DEF AccountInv
  <2>4. QED
    BY <1>0, <1>2, <2>1, <2>2, <2>3 DEF AccountInv, ChargesAreReported
<1>9. QED
  BY <1>4, <1>5, <1>6, <1>7, <1>8 DEF StepNext, Provider, Judge

LEMMA AccountStep ==
  ASSUME TurnTypeOK, AccountInv, [TurnNext]_systemVars
  PROVE  AccountInv'
<1>0. accounted \in Counts /\ billed \in Counts /\ usage \in Counts \cup {None}
  BY DEF TurnTypeOK, StepTypeOK
<1>1. CASE StartTurn
  <2>1. at = "idle" /\ at' = "request" /\ kept' = None
        /\ UNCHANGED <<billed, phase, accounted, why>> /\ phase = "model"
    BY <1>1 DEF StartTurn, Step
  <2>2. Used(kept)' = Nothing
    BY <2>1 DEF Used
  <2>3. why = "none" /\ accounted = billed
    BY <2>1 DEF AccountInv, ChargesAreReported
  <2>4. billed' = Plus(accounted, Nothing)
    BY <1>0, <2>1, <2>3, PlusAdds
  <2>5. QED
    BY <2>1, <2>2, <2>3, <2>4 DEF AccountInv, ChargesAreReported
<1>2. CASE OutOfTurns
  BY <1>2 DEF OutOfTurns, Over, stepVars, AccountInv, ChargesAreReported
<1>3. CASE Answered
  <2>1. phase = "model" /\ at = "answered" /\ at' = "idle" /\ UNCHANGED billed
    BY <1>3 DEF Answered, Back
  <2>2. accounted' = Plus(accounted, usage) /\ billed' = accounted'
    BY <1>3, <2>1 DEF Answered, Accumulate, AccountInv
  <2>3. \/ phase' = "tools" /\ UNCHANGED why
        \/ phase' = "ended" /\ why' \in {"final", "raised"}
    BY <1>3 DEF Answered, Over
  <2>4. QED
    BY <2>1, <2>2, <2>3 DEF AccountInv, ChargesAreReported
<1>4. CASE StepFailed \/ StepRaised
  <2>1. at' = "idle" /\ phase' = "ended" /\ why' \in {"llm_error", "raised"}
    BY <1>4 DEF StepFailed, StepRaised, Back, Over
  <2>2. QED
    BY <2>1 DEF AccountInv, ChargesAreReported
<1>5. CASE StepNext /\ UNCHANGED <<mcpVars, turnVars>>
  BY <1>5, RequestAccounted
<1>6. CASE UNCHANGED <<stepVars, accounted, why>> /\ (phase' = "model" \/ UNCHANGED phase) /\ (phase = "ended" => phase' = "ended")
           /\ (at # "idle" => phase' = "model")
  BY <1>6 DEF stepVars, AccountInv, ChargesAreReported, Used, Input, Prompt, Inclusive, NonCached
<1>7. CASE Request \/ Connected \/ Elsewhere \/ Returned \/ TurnEnds
  <2>1. /\ UNCHANGED <<stepVars, accounted, why>> /\ phase \in {"connect", "tools"} /\ phase' # "ended"
    BY <1>7 DEF Request, Connected, Elsewhere, Returned, TurnEnds
  <2>2. at = "idle" /\ why = "none"
    BY <2>1 DEF AccountInv
  <2>3. QED
    BY <2>1, <2>2 DEF stepVars, AccountInv, ChargesAreReported
<1>8. CASE UNCHANGED <<stepVars, turnVars>>
  <2>1. UNCHANGED <<stepVars, accounted, why, phase>>
    BY <1>8 DEF turnVars
  <2>2. QED
    BY <1>6, <2>1 DEF AccountInv
<1>9. QED
  BY <1>1, <1>2, <1>3, <1>4, <1>5, <1>7, <1>8 DEF TurnNext, Run, systemVars

LEMMA WholeStep ==
  ASSUME OnlyWholeAnswers, [TurnNext]_systemVars, McpTypeOK
  PROVE  OnlyWholeAnswers'
<1>1. CASE Step \/ Back
  BY <1>1 DEF Step, Back, OnlyWholeAnswers
<1>2. CASE UNCHANGED stepVars
  BY <1>2 DEF stepVars, OnlyWholeAnswers
<1>3. CASE StepNext
  BY <1>3 DEF StepNext, Provider, Judge, Respond, Transient, Exhausted, ApiError, PassesThrough, RetryTruncated,
              TruncatedForGood, Refused, Garbled, Answer, Ends, OnlyWholeAnswers
<1>4. QED
  BY <1>1, <1>2, <1>3, Sides

LEMMA OwnAnswerStep ==
  ASSUME McpTypeOK, AnswersItsCall, [TurnNext]_systemVars
  PROVE  AnswersItsCall'
<1> USE LineTypes DEF AnswersItsCall
<1>1. CASE Send
  BY <1>1 DEF Send
<1>2. CASE Sent
  BY <1>2 DEF Sent
<1>3. CASE ReadLine
  <2>1. \/ client' = "reading"
        \/ got' = Failed
        \/ got' = Head(stdout) /\ Head(stdout).id = nextId /\ nextId' = nextId
    BY <1>3 DEF ReadLine, Returns, Matches, Awaited
  <2>2. QED
    BY <2>1
<1>4. CASE EndOfFile
  BY <1>4 DEF EndOfFile
<1>5. CASE ReadStderr
  BY <1>5 DEF ReadStderr, Returns
<1>6. CASE Server
  <2>1. UNCHANGED <<client, nextId, got>>
    BY <1>6 DEF Server, Serve, Take, Reply, Emit, Talk, Log, Dies, ClientSleeps
  <2>2. QED
    BY <2>1
<1>7. CASE Returned
  BY <1>7 DEF Returned
<1>8. CASE UNCHANGED mcpVars
  BY <1>8 DEF mcpVars
<1>9. QED
  BY <1>1, <1>2, <1>3, <1>4, <1>5, <1>6, <1>7, <1>8, Sides DEF Client

RunInv == TurnTypeOK /\ CallInv /\ AccountInv /\ OnlyWholeAnswers /\ AnswersItsCall

LEMMA TurnInductive == TurnSpec => []RunInv
<1>1. TurnInit => RunInv
  <2> SUFFICES ASSUME TurnInit PROVE RunInv
    OBVIOUS
  <2> USE TurnAssumption, LlmAssumption, McpAssumption DEF TurnAssumption, LlmAssumption, McpAssumption
  <2>1. StepTypeOK /\ Nothing \in Counts
    BY DEF TurnInit, StepInit, StepTypeOK, Nothing, Counts
  <2>2. McpTypeOK
    BY LineTypes DEF TurnInit, McpInit, McpTypeOK
  <2>3. TurnTypeOK /\ CallInv
    <3>1. todo \in 0 .. Most /\ turns \in 0 .. MaxTurns
      BY DEF TurnInit, Most
    <3>2. /\ phase \in {"connect", "model", "tools", "ended"} /\ offered \in BOOLEAN /\ inFlight \in BOOLEAN
          /\ accounted \in Counts /\ why \in {"none", "final", "incomplete", "llm_error", "raised"}
      BY <2>1 DEF TurnInit
    <3>3. CallInv
      BY DEF TurnInit, CallInv
    <3>4. QED
      BY <2>1, <2>2, <3>1, <3>2, <3>3 DEF TurnTypeOK
  <2>4. AccountInv /\ OnlyWholeAnswers
    BY DEF TurnInit, StepInit, AccountInv, ChargesAreReported, OnlyWholeAnswers
  <2>5. AnswersItsCall
    BY LineTypes DEF TurnInit, McpInit, AnswersItsCall
  <2>6. QED
    BY <2>3, <2>4, <2>5 DEF RunInv
<1>2. RunInv /\ [TurnNext]_systemVars => RunInv'
  <2> SUFFICES ASSUME RunInv, [TurnNext]_systemVars PROVE RunInv'
    OBVIOUS
  <2>1. TurnTypeOK /\ McpTypeOK /\ CallInv /\ AccountInv /\ OnlyWholeAnswers /\ AnswersItsCall
    BY DEF RunInv, TurnTypeOK
  <2>2. QED
    BY <2>1, TurnTypeStep, AccountStep, WholeStep, OwnAnswerStep DEF RunInv
<1>3. QED
  BY <1>1, <1>2, PTL DEF TurnSpec

(* The counters of the client, the pipes and the limits keep their ranges,  *)
(* and a call is with the server only while it is to be made (TurnTypeOK).  *)
THEOREM TurnTypes == TurnSpec => []TurnTypeOK
<1>1. RunInv => TurnTypeOK
  BY DEF RunInv
<1>2. QED
  BY <1>1, TurnInductive, PTL

(* Through every sequence of transient errors, truncation and retry, and    *)
(* with each way to count cached tokens, an answer is whole and all that    *)
(* was charged up to it is accounted for (AnswersAreSound).                 *)
THEOREM ChargesAdd == TurnSpec => []AnswersAreSound
<1>1. RunInv => AnswersAreSound
  BY DEF RunInv, AccountInv, AnswersAreSound
<1>2. QED
  BY <1>1, TurnInductive, PTL

(* However late, unasked and out of order the server writes, a result is    *)
(* the answer to the call that returns it (AnswersItsCall).                 *)
THEOREM ResultsAreOwn == TurnSpec => []AnswersItsCall
<1>1. RunInv => AnswersItsCall
  BY DEF RunInv
<1>2. QED
  BY <1>1, TurnInductive, PTL
=============================================================================
