SPECIFICATION FairGateSpec
CONSTANTS
    Issues = {1, 2}
    TextsOf <- GateTexts
    Dependent = {2}
    MaxChanges = 1
    MaxFaults = 1
INVARIANT GateTypeOK
INVARIANT VerdictsAgree
INVARIANT RefusalIsActionable
PROPERTY BlockedIsNotTaken
PROPERTY ClearedWorkIsTaken
