CONSTANT NUM = 4
SPECIFICATION FairSpec
INVARIANTS ZombieSeen StuckOnlyIf
PROPERTIES EveryChildReaped EndsOrStuck
CHECK_DEADLOCK FALSE
