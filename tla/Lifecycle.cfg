\* Two tasks, at most two arguments, and everything that may fail.
CONSTANTS
    Tasks = {"tests", "more"}
    MaxArgs = 2
    MayFail = {"script", "task", "select", "exit_function"}
SPECIFICATION FairSpec
INVARIANTS
    NothingTooEarly
    ExitsMatchInits
    StaysStoppable
    ExitFunctionsRun
PROPERTY StopSignalEnds
