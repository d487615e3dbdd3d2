CONSTANTS
    Nicks = {ann, bob}
    Devices = {phone, desk}
    MaxMessages = 2
    MaxTokens = 3
SYMMETRY Interchangeable
SPECIFICATION Spec
INVARIANTS TypeOK LoginsAreHonoured
PROPERTIES AccountsAreKept
\* Every client may be past the login dialog with a token that has expired.
CHECK_DEADLOCK FALSE
