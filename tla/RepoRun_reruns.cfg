CONSTANTS
    i1 = i1
    Runs = {r1, r2}
    Issues = {i1}
    IssueOf <- OneIssue
    Nobody = Nobody
    Stray = Stray
    Overlap = FALSE
    Strays = TRUE
    PageHolds = TRUE
SYMMETRY RunsAreAlike
SPECIFICATION Spec
INVARIANTS
    PublishedIsOwnAndTested
    OnePRPerIssue
    SuccessIsComplete
CHECK_DEADLOCK FALSE
