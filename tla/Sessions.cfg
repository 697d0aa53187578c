CONSTANTS
    Actor = {1, 2}
    Session = {s}
    Me = 1
    Other = 2
    Quantity = {0, 1}
    MaxEdits = 2
SPECIFICATION Spec
INVARIANT OwnEditsAreStored
