\* What entry.c 42 asks for.
CONSTANT Experiments = {1}
CHECK_DEADLOCK FALSE
SPECIFICATION Spec
INVARIANT RestartFieldsKept
