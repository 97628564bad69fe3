CONSTANTS
    FieldNames <- MCFieldNames
    MaxNesting = 2
SPECIFICATION Spec
INVARIANTS NestedCommasIgnored
CHECK_DEADLOCK FALSE
