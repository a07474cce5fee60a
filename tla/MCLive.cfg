SPECIFICATION Spec
CHECK_DEADLOCK FALSE
PROPERTIES ThrottlingEnds CallsReturn
