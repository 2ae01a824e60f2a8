CONSTANTS
    Client = {a, b}
    Key = {k}
    Value = {x, y}
    NoValue = NoValue
    MaxVersion = 3
SPECIFICATION Spec
INVARIANTS ResendInv PutHonest
PROPERTIES Linearizable CallsReturn
