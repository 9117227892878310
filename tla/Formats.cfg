CONSTANTS
    Width = 8
    LongMinRepr <- MCLongMinRepr
    FractionBits = 7
    ExponentBits = 4
    FormatSet <- MCFormatSet
    Longs <- MCLongs
    Ulongs <- MCUlongs
    Letters = {"a", " "}
    Words <- MCWords
    FloatSet <- MCFloats
    WordCapacity = 3
SPECIFICATION FormatsSpec
INVARIANTS FormatsTypeOK NumeralsDenote FloatsAreTruncated FormatReadsToItsEnd RoundTrip ParseStaysInside
CHECK_DEADLOCK FALSE
