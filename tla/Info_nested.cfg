\* Info_nested
SPECIFICATION InfoSpec
CONSTANTS
    Var = {"a", "b"}
    Key <- TwoKeys
    Value = {"x", "y"}
    MaxObject = 4
    NestsTwice = FALSE
INVARIANT ImportEqualsExport
PROPERTY CopiesAreIndependent
