CONSTANT N = 4
SPECIFICATION FairSpec
INVARIANTS BowlExclusive ChopsticksHeld DeadlockFree
PROPERTY StarvationFree
