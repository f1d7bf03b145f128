CONSTANTS
    Offset = {o1, o2}
    Byte = {b0, b1}
    Zero = b0
    None = None
    MaxEditHistory = 1
    ExternalWriters = FALSE
SYMMETRY Symmetry
SPECIFICATION WSpec
INVARIANT
    SuccessfulApplyKept
