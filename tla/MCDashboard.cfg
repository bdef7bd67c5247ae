SPECIFICATION MCSpec
CONSTANTS
    None = None
    Panel = {p1, p2}
    Group = {top}
    Name = {a, b}
    NewSize = 2
    MaxSize = 2
    MaxButtons = 2
    MaxWidgets = 2
    MaxChanges = 1
    Mine = {m1, m2}
    Theirs = {t1}
    Old = o
    MaxReloads = 1
    MaxLosses = 1
    Top = 3
    Places = {5, 7}
    MaxEvents = 3
    Content = {c1, c2}
    MaxEntries = 3
    MaxSteps = 4
INVARIANTS LayoutHolds DashboardFollows WidgetHolds EntriesKept
SYMMETRY Symmetry
CHECK_DEADLOCK FALSE
