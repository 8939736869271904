SPECIFICATION Spec
CONSTANT Workers = {w1, w2}
INVARIANT TypeOK
INVARIANT SessionReleased
INVARIANT ExitIsOrderly
PROPERTY ShutdownCompletes
