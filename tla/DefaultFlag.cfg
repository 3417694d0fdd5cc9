SPECIFICATION Spec
CONSTANTS
    d1 = d1
    d2 = d2
    d3 = d3
    r1 = r1
    Docs <- ThreeDocs
    Seed = d1
    Requests <- OneRequest
    Defaults <- AnyField
    Enables <- AnyField
    MaxFailures = 2
INVARIANTS
    TypeOK
    DefaultUnlessLone
PROPERTIES
    ElectedAlone
    CreationRestores
CHECK_DEADLOCK FALSE
