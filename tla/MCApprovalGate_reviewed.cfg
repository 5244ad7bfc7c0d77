SPECIFICATION Spec
CONSTANTS
    low = low
    high = high
    Policies <- AllPolicies
    High <- HighPolicies
    MaxCommits = 4
    MaxNights = 1
    MaxReruns = 1
CHECK_DEADLOCK FALSE
INVARIANT NoUnreviewedPolicy
