\* Two contacts, one call at a time; the main loop is responsive.
CONSTANTS
    Contact = {c1, c2}
    CallLimit = 1
    PipeSize = 2
    Prompt = TRUE
SPECIFICATION Spec
INVARIANTS
    RunningIffArmed
    MessagesFresh
    RunningUndisturbed
