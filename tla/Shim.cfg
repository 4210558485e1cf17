SPECIFICATION Spec
CONSTANTS
    Threads = {t1, t2}
    Null = Null
    SizeMax = 63
    ArenaBase = 12
    ArenaBytes = 28
    ArenaAlign = 4
    WordBytes = 2
    HeapPointers = {8, 40}
    Sizes = {1, 62}
    Alignments = {0, 3, 16}
    NestedMax = 1
    NestedSize = 1
INVARIANTS ArenaSound NeverReentered RoutedToOwner
PROPERTIES CallsReturn
