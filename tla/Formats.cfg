CONSTANTS
    Datas <- MCDatas
    Ints = {0, 127, 128, 256}
    Counts = {1, 2, 3}
    MaxAppends = 4
    Foreign <- MCAllForeign
    Widths = {1, 2, 32}
    CommandLines <- MCLines
    MaxRendered = 120
    Indices = {0, 1, 2, 3}
    Object = {1, 2}
    Top = 4
    Wrap = 16
    Asked = {0, 1, 2}

SPECIFICATION MCSpec

INVARIANTS ReadBack HashesAsDefined OperationsOfSets
CHECK_DEADLOCK FALSE
