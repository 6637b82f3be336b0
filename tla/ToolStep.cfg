SPECIFICATION FairSpec
CONSTANTS
    s1 = s1
    s2 = s2
    Steps <- MCSteps
    Plans <- MCPlans
    Retries = 1
    Nobody = Nobody
INVARIANTS TypeOK OwnEvidenceDecides SessionsEnded RejectionIsFinal
PROPERTY StepEnds
CHECK_DEADLOCK FALSE
