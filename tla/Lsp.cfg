CONSTANTS
    Uri = {a, b}
    Text <- MCText
    EmptyText = ""
    Closed = Closed
    MaxSent = 4
    MaxChanges = 2
    Capacity = 1
    Diagnose <- MCDiagnose
    HoverMarkdown <- MCHoverMarkdown
SPECIFICATION Spec
INVARIANTS TypeOK ViewSettles HoverIsOfItsText
PROPERTIES HoversAnswered EndsUnlessJoinWaits
CHECK_DEADLOCK FALSE
