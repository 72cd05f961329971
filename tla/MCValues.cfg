SPECIFICATION Spec
INVARIANTS
    InputUnderstood
    MomentsKept
    LiteralsReadBack
    NumbersExact
    ListsSelect
    ObjectsKept
CHECK_DEADLOCK FALSE
