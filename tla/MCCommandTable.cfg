\* Every row of the source table, and requests of up to 7 arguments: enough
\* for three key/value pairs of MSET and for every fixed arity in the table.
CONSTANTS
    Table <- SourceTable
    MaxArgc = 7
SPECIFICATION Spec
INVARIANT TableLoads
INVARIANT KeysMatchKeySpec
