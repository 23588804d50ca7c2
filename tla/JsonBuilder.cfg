SPECIFICATION Spec
CONSTANTS
    KeyName = {a, b}
    Scalar = {x}
    NoKey = NoKey
    MaxCalls = 8
INVARIANTS
    StackIsSpine
    DictKeysUnique
    ThrowsUnlessJson
    BuildsWhatIsSpelt
    ChainNeverThrows
