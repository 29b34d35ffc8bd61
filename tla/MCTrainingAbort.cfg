\* Does the assertion of backward_train hold?
SPECIFICATION Spec
CONSTANTS
    KanvaSizes = {195}
    RSSizes = {195}
    Fit = 23
INVARIANT StepPositive
CHECK_DEADLOCK FALSE
