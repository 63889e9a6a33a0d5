SPECIFICATION MCSpec
CONSTANTS
    r1 = r1
    r2 = r2
    Request = {r1, r2}
    Poll = poll
    Utterance <- MCUtterance
    MaxExpiries = 1
    MaxFaults = 1
    MaxRestarts = 1
    TextLength = 4
    DocumentLength = 3
INVARIANTS ForwardedAwake SleepIsTold VolumeSurvives TextIsAllSpoken
SYMMETRY MCSymmetry
CHECK_DEADLOCK FALSE
