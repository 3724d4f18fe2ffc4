\* The comment on the assignments, on every subset of the options.
SPECIFICATION Spec
INVARIANT AcceptedIsSet
CHECK_DEADLOCK FALSE
