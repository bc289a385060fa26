SPECIFICATION Spec
CONSTANTS
    o1 = o1
    o2 = o2
    r1 = r1
    r2 = r2
    Op = {o1, o2}
    Documents <- Both
    Changes <- Others
    Given <- Seeded
    MaxId = 4
    MaxChanges = 1
    MaxFaults = 1
    Absent = Absent
    Null = Null
INVARIANT ElementsAreObjects
CHECK_DEADLOCK FALSE
