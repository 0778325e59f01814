SPECIFICATION ConnectionSpec
CONSTANTS
    Base = 2
    HeaderLen = 2
    MaxChunk = 3
    BlockSize = 2
    MaxBytes = 6
INVARIANTS TypeOK ChunkingIrrelevant NothingHeldBack AnswersInOrder BlockOpsExact
