CONSTANT Runs = {r1, r2}
SPECIFICATION Spec
PROPERTY RefusesWhilePending
CHECK_DEADLOCK FALSE
