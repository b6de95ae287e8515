SPECIFICATION MCSpec
CONSTANTS
    Blocks = 3
    Timeout = 2
    MaxLate = 2
    MaxOps = 1
    Orders <- MCOrders
    DefaultOrder <- MCDefaultOrder
    Boxes <- MCBoxes
    MaxSaves = 2
    MaxRestarts = 2
    MaxBmc = 2
    MaxChanges = 3
INVARIANTS   OneShotOnce AnswersMatch WaitBounded
CHECK_DEADLOCK FALSE
