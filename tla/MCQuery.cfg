SPECIFICATION Spec
CONSTANTS
    Queries = {q1, q2}
    Temporary = Temporary
    Texts <- MCTexts
    Parameters <- MCParameters
    Careful = TRUE
    MaxText = 4
    MaxParms = 2
    MaxCalls = 6
SYMMETRY MCSymmetry
INVARIANTS
    IInv
    ElementsSpellTemplate
    SentAsWritten
