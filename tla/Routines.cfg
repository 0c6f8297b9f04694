SPECIFICATION RoutinesSpec
CONSTANT W = 6
CONSTANT V = 5
CONSTANT P = 2
CONSTANT RootBits = 2
CONSTANT Flags = {1, 3, 5, 7}
CONSTANT SIZE = 4
CONSTANT BYTE = 3
CONSTANT LONG_BITS = 8
CONSTANT DEC_BUF = 4
CONSTANT HEX_BUF = 3
CONSTANT Formats <- TestFormats
CONSTANT Strings <- TestStrings
CONSTANT Longs <- TestLongs
INVARIANT RangeExact
INVARIANT AsMandated
INVARIANT NumberRight
INVARIANT WithinFormat
INVARIANT NothingLost
CHECK_DEADLOCK FALSE
