\* LP64 widths; expected to fail: errno left at ERANGE by one read spoils the next.
CONSTANTS
    UIntBits <- MCUIntBits
    LongBits <- MCLongBitsLP64
    DefaultTTL <- MCDefaultTTL
    NumeralValues <- MCNumeralValues
    MaxTokens <- MCMaxTokens
    MaxReads <- MCMaxReads
    Hosts <- MCHosts
    PortValues <- MCPortValues
    DefaultPort <- MCDefaultPort
    EmptyUriParses = TRUE
SPECIFICATION Spec
INVARIANT TtlMeansOption
\* The thread stops after MaxReads options.
CHECK_DEADLOCK FALSE
