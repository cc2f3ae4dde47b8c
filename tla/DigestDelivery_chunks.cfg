\* Lengths in hundreds of bytes; a block is at most 38, so that it fits into
\* a message with the header.
SPECIFICATION Spec
CONSTANTS
    MaxArticles = 4
    BlockSizes = {4, 16, 33, 38}
    HeaderSize = 2
    FooterSize = 1
    FlushAt = 35
    FooterAt = 39
    TelegramMax = 40
INVARIANTS
    TypeOK
    EveryArticleOnce
    ChunksFit
    DeliveredInOrder
CHECK_DEADLOCK FALSE
