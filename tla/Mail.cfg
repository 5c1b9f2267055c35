CONSTANTS
    Messages <- MCMessages
    Limits = {0, 1, 3}
SPECIFICATION Spec
INVARIANTS
    AttachmentsInOrder
    LossesAreExplained
    FirstTextIsShown
