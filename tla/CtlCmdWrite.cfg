\* A FIFO of three words filled and drained twice over, by either master.
SPECIFICATION CtlFairSpec
CONSTANTS
    Depth = 3
    BReadyModes = {TRUE, FALSE}
    MaxWords = 7
INVARIANTS WordsInOrder NoOverflow AckedIsPushed
PROPERTY WriteAnswered
