SPECIFICATION Spec
CONSTANTS
    Capacity = 3
    Names <- MCNames
    Pages <- MCPages
    PageOf <- MCPageOf
    BucketOf <- MCBucketOf
    BitOf <- MCBitOf
    NoName = NoName
    Temps <- MCTemps
    BufferLen = 2
    MaxDirty = 2
    Scenes <- MCScenes
INVARIANTS
    LinksSound
    IndexesExact
    ServedCurrent
    CodeCurrent
