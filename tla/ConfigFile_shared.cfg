\* Two pvectl and the user on one file, with a process killed.
CONSTANTS
    Contexts = {"prod", "dev"}
    Targets = {"t1", "t2", "t3", "t9"}
    Dangling = {"t9"}
    Procs = {p1, p2}
    Versions <- Texts
    MaxEdits = 1
    MaxCrashes = 1
    None = None
SPECIFICATION Spec
INVARIANTS
    TypeOK
    LoadedIsUsers
    TargetsAreChosen
