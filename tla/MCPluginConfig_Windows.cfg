\* Windows widths (long as wide as unsigned int); expected to fail.
CONSTANTS
    UIntBits <- MCUIntBits
    LongBits <- MCLongBitsWindows
    DefaultTTL <- MCDefaultTTL
    NumeralValues <- MCNumeralValues
    MaxTokens <- MCMaxTokens
    MaxReads <- MCMaxReads
    Hosts <- MCHosts
    PortValues <- MCPortValues
    DefaultPort <- MCDefaultPort
    EmptyUriParses = TRUE
SPECIFICATION Spec
INVARIANT TtlMeansOption
\* The thread stops after MaxReads options.
CHECK_DEADLOCK FALSE
