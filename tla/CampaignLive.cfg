\* One contact: the operator starts, pauses and stops the campaign at will,
\* and the main loop may be slow.
CONSTANTS
    Contact = {c1}
    CallLimit = 1
    PipeSize = 1
    Prompt = FALSE
SPECIFICATION Spec
PROPERTIES
    StopCompletes
    ResumeStarts
