CONSTANTS
    Address = {a1}
    Value = {v0, v1}
    None = None
    MaxId = 2
    BatchCap = 1
    Backend = TRUE
    Opened = FALSE
SPECIFICATION Spec

PROPERTY CancelHonoured
