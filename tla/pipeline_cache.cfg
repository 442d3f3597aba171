\* Two calls, two deployments, the rules version bumped with the guardrails.
SPECIFICATION Spec
CONSTANTS
    Calls = {c1, c2}
    f1 = f1
    f2 = f2
    near1 = near1
    near2 = near2
    far = far
    pii = pii
    domain = domain
    leak = leak
    thin = thin
    Fields <- MCFields
    Texts <- MCTexts
    Similarity <- MCSimilarity
    Threshold = 8
    BlockingGuards <- MCBlocking
    FilterGuards <- MCFilter
    OutputGuards <- MCOutput
    Requests <- MCRequests
    Deployments <- MCDeployments
    VersionsBumped = TRUE
    MaxDeploys = 2
    Nothing = Nothing
SYMMETRY CallSymmetry
CHECK_DEADLOCK FALSE
INVARIANTS
  ServedApproved
  ServedFitsRequest
