SPECIFICATION MCSpec
CONSTANTS
    Byte = {0, 1}
    Zero = 0
    Xor <- MCXor
    Block = 2
    Size = 4
    MaxBytes = 7
    Base = 4
    Digits = 3
    Modulus = 64
    MaxPacketSize = 7
    MaxPacketID = 8
    CompressThreshold = 3
    Thresholds = {1, 3, 5}
    Packets <- MCPackets
    Parsed = {1}
    Buffers = {b1, b2}
    MaxSent = 3
    None = None
SYMMETRY MCSymmetry
INVARIANTS
    CipherCorrect
    EndToEnd
CHECK_DEADLOCK FALSE
