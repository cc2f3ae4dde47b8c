\* Lengths in hundreds of bytes; a title and a summary have no bound of their
\* own, and one block may be as long as 45.
SPECIFICATION Spec
CONSTANTS
    MaxArticles = 4
    BlockSizes = {4, 16, 33, 45}
    HeaderSize = 2
    FooterSize = 1
    FlushAt = 35
    FooterAt = 39
    TelegramMax = 40
INVARIANTS
    EveryChunkFits
CHECK_DEADLOCK FALSE
