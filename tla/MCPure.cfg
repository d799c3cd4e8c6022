\* ByteOrder: words built from the bytes 0, 1, 0x7F, 0x80, 0xFF on both byte
\* orders.  Auth: passwords and attempts over two byte values, up to one byte
\* past a three-byte buffer.  Slowlog: entries of at most 3 arguments and 2
\* bytes per string, for commands of up to 5 arguments of up to 3 bytes.
CONSTANTS
    ByteSample = {0, 1, 127, 128, 255}
    Alphabet = {1, 255}
    BufLen = 3
    NoPass = NoPass
    MaxArgc = 3
    MaxString = 2
    IntLen = 2
    ExtraArgs = 2
SPECIFICATION Spec
INVARIANT IntRev32Reverses
INVARIANT AuthenticatedIffPassword
INVARIANT EntryAccountsForCommand
