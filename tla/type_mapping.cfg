CONSTANTS
    FieldNames <- MCFieldNames
    MaxNesting = 2
SPECIFICATION Spec
INVARIANTS NeverAnotherType NestedTypesConvert OverrunsHaveHoles
CHECK_DEADLOCK FALSE
