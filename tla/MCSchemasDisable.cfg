\* One caller disables the latest version of a schema.
SPECIFICATION SchemaSpec
CONSTANTS
    s1 = s1
    c1 = c1
    NoSchema = NoSchema
    NoOne = NoOne
    Schemas = {s1}
    Callers = {c1}
    MaxVersion = 2
INVARIANT DisabledStopsEvaluation
CHECK_DEADLOCK FALSE
