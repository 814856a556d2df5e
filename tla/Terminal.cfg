SPECIFICATION Spec
CONSTANTS
    Up = Up
    Names = {"a.slurm", "j.out", "batch.slurm", "pp"}
    Outputs = {"j.out"}
    Slurms = {"a.slurm", "batch.slurm"}
    BatchFile = "batch.slurm"
    pp_name = "pp"
    Arguments <- MCArguments
    MaxEntries = 6
    MaxDepth = 3
CHECK_DEADLOCK FALSE
INVARIANTS TypeOK ProtectedStays OpenFileCanBeSaved
PROPERTIES RemoveKeepsWorkingDir
