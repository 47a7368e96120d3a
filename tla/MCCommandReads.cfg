CONSTANTS
    Records <- MCRecords
    Buffer = 2
    Stalls = FALSE
    ReplyReads = 4
    QuietReads = 3
SPECIFICATION ReadsFairSpec
INVARIANTS TypeOK WholeInOrder
PROPERTIES AllRead WaitEnds DrainEnds
