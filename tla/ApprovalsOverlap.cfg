CONSTANTS
    Marks = {m1}
    Operators = {o1, o2}
    ApiCalls = {c1, c2}
    NoOperator = NoOperator
    NoCall = NoCall
    MaxClock = 2
SPECIFICATION ApprovalsSpec
INVARIANT StatusIsLastEvent
CHECK_DEADLOCK FALSE
