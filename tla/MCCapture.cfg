CONSTANTS
    Prepare = 1
    Window = 2
    Finish = 1
    KeyAt = 2
    ReplyReads = 2
    QuietReads = 2
    MaxBurst = 2
    MaxLines = 3
    MaxSends = 5
    MaxResets = 1
SPECIFICATION Spec
INVARIANTS TypeOK EveryLineKept DecryptedRight WindowsApart
