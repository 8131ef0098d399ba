\* One credential and its schedule, owned in turn by two users; two secrets, to
\* tell a new one from the old; one failure or cut.
SPECIFICATION Spec
CONSTANTS
    Users = {1, 2}
    Creds = {1}
    Secrets = {x, y}
    Schedules = {1}
    MaxFaults = 1
    Empty = Empty
    None = None
SYMMETRY SecretSymmetry
INVARIANTS RestartChangesNothing OwnerIsCredited ErasedStays
PROPERTY RestartGrantsNothing
