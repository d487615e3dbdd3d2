CONSTANTS
    c1 = c1
    c2 = c2
    Cities = {c1, c2}
    Squares <- Block
    Around <- Reach
    Territory <- Claims
    Near <- BlockNear
    Resources = {"Animal"}
    Kinds = {}
    Learnable = {"Philosophy", "Hunting", "Riding"}
    Modes = {TRUE}
    StartBalance = 25
    MaxStack = 1
    MaxBalance = 25
SPECIFICATION Spec
INVARIANTS PaidOnce
