SPECIFICATION CompareSpec
CONSTANTS
    Names = {n1, n2}
    Data = {d1, d2}
    Solid = {s1, s2}
    MaxLen = 2
INVARIANT
    ChangeNoticed
CHECK_DEADLOCK FALSE
