SPECIFICATION Spec
CONSTANT Workers = {w1, w2}
PROPERTY StopEndsLoop
