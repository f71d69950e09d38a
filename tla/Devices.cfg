SPECIFICATION DevicesSpec
CONSTANTS
    Legacy = Legacy
    Benefit = Benefit
    NewDevices = {d1, d2}
    Hardware = {w1, w2}
    Requests = {h1, h2}
    None = None
    MaxDevices = 2
    MaxChanges = 2
    MaxIssued = 2
SYMMETRY Symmetry
INVARIANTS VerifiedIsBound DevicesSound
PROPERTIES AnswersHoldNow CreatedUnlessOvertaken
CHECK_DEADLOCK FALSE
