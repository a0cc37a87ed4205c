\* Three gates, a failure, a crash, an abort and two resumes.
SPECIFICATION FairSpec
CONSTANTS
    Last = 3
    Kinds = {"owned", "loose"}
    MaxFaults = 1
    MaxCrashes = 1
    MaxAborts = 1
    MaxResumes = 2
INVARIANT WorkFollowsApproval
INVARIANT ProgressIsCores
PROPERTY ApprovalIsNoticed
CHECK_DEADLOCK FALSE
PROPERTY EndedNeverWorks
