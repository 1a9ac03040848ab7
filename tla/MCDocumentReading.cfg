SPECIFICATION Spec
CONSTANTS
    Preface = Preface
    A = A
    B = B
    Jobs <- MCJobs
    MinVisual = 6
    MaxRounds = 2
    NoSection = Preface
    ChunkSize = 10
    MaxChars = 8
    Overlap = 3
    MinPiece = 2
    MinPage = 2
    MinDirect = 2
    MinReadable = 2
INVARIANTS
    KeysUnique
    TextKept
    SectionsKept
    ChunksFit
    PagesInPlace
    TranscriptionKept
