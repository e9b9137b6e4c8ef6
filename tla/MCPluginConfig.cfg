\* LP64 widths, one option read by a thread whose errno is still 0.
CONSTANTS
    UIntBits <- MCUIntBits
    LongBits <- MCLongBitsLP64
    DefaultTTL <- MCDefaultTTL
    NumeralValues <- MCNumeralValues
    MaxTokens <- MCMaxTokens
    MaxReads <- MCMaxReadsOne
    Hosts <- MCHosts
    PortValues <- MCPortValues
    DefaultPort <- MCDefaultPort
    EmptyUriParses = TRUE
SPECIFICATION Spec
INVARIANTS
    TtlMeansOption
    BootstrapMeansOption
\* The thread stops after MaxReads options.
CHECK_DEADLOCK FALSE
