\* One failure, and two resumes by a person.
SPECIFICATION Spec
CONSTANTS
    Last = 3
    Kinds = {"loose"}
    MaxFaults = 1
    MaxCrashes = 0
    MaxAborts = 0
    MaxResumes = 2
PROPERTY ResumeContinues
CHECK_DEADLOCK FALSE
