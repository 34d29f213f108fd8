CONSTANTS
    Bytes = {1, 2}
    MaxLength = 5
    Careless = {"ignore"}
SPECIFICATION Spec
INVARIANT HoldsExactly
