CONSTANTS
    Items = 4
    Dropped = {1}
    Pipes <- MCPipes
    Sizes <- MCSizes
SPECIFICATION Spec
CHECK_DEADLOCK FALSE
INVARIANTS
    PipelineInv
    AsWritten
PROPERTIES
    PipelineEnds
