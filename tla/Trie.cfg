SPECIFICATION Spec
CONSTANTS
    Depth = 2
    Value = {v1, v2}
    None = none
    Torn = torn
    Writer = {w1}
    Reader = {r1}
    MaxCopies = 1
INVARIANTS TrieIsMap RootIsContent ReadsCurrent
PROPERTY InsertLocal
