SPECIFICATION Spec
CONSTANTS
    Pieces = 2
    RBufSize = 5
    Chunk = 4
    MaxSends = 3
    MaxLines = 3
    MaxBlanks = 2
    Stratum = Stratum
    Workio = Workio
    Nobody = Nobody
    Newline = Newline
INVARIANTS TypeOK SentLinesArrive LinesKept MoveStaysInside
