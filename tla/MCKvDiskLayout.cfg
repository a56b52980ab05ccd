SPECIFICATION Spec
CONSTANTS
    Tokens = {a, b}
    NoToken = NoToken
    Layouts = {"dsa", "plain"}
    Contexts = {4}
    LoadReserve = 1
    DecodeReserve = 1
    NGen = 1
SYMMETRY Interchangeable
INVARIANT RowsMatchHistory
