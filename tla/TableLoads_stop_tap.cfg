\* The stop_tap command while a run is at work.
SPECIFICATION SpecAll
CONSTANTS
    Rows = {r1, r2}
    InitialRange = {r1}
    Taps = {"mysql", "postgres", "mongodb"}
    Targets = {"snowflake", "postgres"}
    None = None
    Absent = Absent
    MaxChanges = 2
    MaxLoads = 2
    MaxDeaths = 1
    Procs = {p1, p2}
    SelectedTables = {"full", "part", "da-shed"}
    FullTables = {"full"}
    PartialTables = {"part"}
    DashedTables = {"da-shed"}
    MaxCommands = 3
    NoProc = NoProc
    DeadProc = DeadProc
SYMMETRY Symmetric
INVARIANTS
    StoppedTapIsNotRunning
\* The bounds on changes, loads and commands end the run.
CHECK_DEADLOCK FALSE
