SPECIFICATION Spec
CONSTANT Requests <- HeadEdge
INVARIANT FieldsAgree
CHECK_DEADLOCK FALSE
