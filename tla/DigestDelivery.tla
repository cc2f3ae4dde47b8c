--------------------------- MODULE DigestDelivery ---------------------------
(***************************************************************************)
(* From a non-empty digest to Telegram messages: the loop of               *)
(* Digest.FormatHTMLChunks (internal/domain/entity/digest.go) that packs   *)
(* article blocks into chunks, then SendDigest (internal/adapter/telegram/ *)
(* bot.go) that sends the chunks one by one, each first as HTML and, when  *)
(* the error reads as a bad request, once more as plain text.              *)
(*                                                                         *)
(* A text is what it holds and how long it is.  Lengths are in any unit    *)
(* (the configurations use hundreds of bytes).                             *)
(***************************************************************************)
EXTENDS Naturals, Sequences

CONSTANTS
    MaxArticles,    \* bound: articles in a digest (TOP_ARTICLES_LIMIT)
    BlockSizes,     \* the lengths an article's block may have
    HeaderSize,     \* length of the header
    FooterSize,     \* length of the footer
    FlushAt,        \* 3500: a block that passes it starts a new chunk
    FooterAt,       \* 3900: a footer that passes it starts a new chunk
    TelegramMax     \* 4096: the longest message Telegram takes

ASSUME SizesAssumption ==
    /\ MaxArticles \in Nat \ {0}
    /\ BlockSizes \subseteq Nat \ {0}
    /\ HeaderSize \in Nat \ {0} /\ FooterSize \in Nat \ {0}
    /\ FlushAt \in Nat /\ FooterAt \in Nat /\ TelegramMax \in Nat
\* The marks are below Telegram's limit, and the footer alone is a message.
ASSUME MarksAssumption ==
    /\ FlushAt <= TelegramMax /\ FooterAt <= TelegramMax
    /\ FooterSize <= TelegramMax

VARIABLES
    blocks,     \* the length of each article's block, in digest order
    pc,         \* formatting, sending HTML or plain text, or how it ended
    next,       \* the article the loop is at
    current,    \* the chunk being built: its articles and its length
    chunks,     \* the finished chunks
    sending,    \* the chunk being sent
    delivered   \* the chunks Telegram has posted, in order

vars == <<blocks, pc, next, current, chunks, sending, delivered>>

Chunk(arts, size) == [arts |-> arts, size |-> size]
Empty == Chunk(<<>>, 0)

\* What sendChunk returns for an error: "badRequest" is any text with "Bad
\* Request" or "can't parse entities" in it, wherever these words come from.
Failures == {"badRequest", "otherError"}
Endings == {"done", "error", "console"}

-----------------------------------------------------------------------------
\* Seeded fault: blocks are appended whatever the length.
MustFlush_Never == FALSE

\* The next block would pass the mark, and there is more than the header to
\* flush.  The builder is compared with the header even after a flush.
MustFlush ==
    /\ current.size + blocks[next] > FlushAt
    /\ current.size > HeaderSize

\* Seeded fault: the block that forces a flush is left out.
AfterFlush_Drops(i) == Empty

\* After a flush the new chunk starts with the block.
AfterFlush(i) == Chunk(<<i>>, blocks[i])

\* Only these errors are retried as plain text.
RetriedAsPlain(f) == f = "badRequest"

\* Seeded fault: the loop over the chunks runs one too far.
MoreChunks_OffByOne == sending <= Len(chunks)

MoreChunks == sending < Len(chunks)

-----------------------------------------------------------------------------
Init ==
    /\ \E n \in 1..MaxArticles : blocks \in [1..n -> BlockSizes]
    /\ pc = "format"
    /\ next = 1
    /\ current = Chunk(<<>>, HeaderSize)
    /\ chunks = <<>>
    /\ sending = 1
    /\ delivered = <<>>

\* Without a token or a chat SendDigest logs the digest and returns nil.
Console ==
    /\ pc = "format" /\ next = 1
    /\ pc' = "console"
    /\ UNCHANGED <<blocks, next, current, chunks, sending, delivered>>

\* One turn of the loop, the block fits.
AddBlock ==
    /\ pc = "format"
    /\ next <= Len(blocks)
    /\ ~MustFlush
    /\ current' = Chunk(Append(current.arts, next), current.size + blocks[next])
    /\ next' = next + 1
    /\ UNCHANGED <<blocks, pc, chunks, sending, delivered>>

\* One turn of the loop, the chunk is flushed first.
FlushAndAddBlock ==
    /\ pc = "format"
    /\ next <= Len(blocks)
    /\ MustFlush
    /\ chunks' = Append(chunks, current)
    /\ current' = AfterFlush(next)
    /\ next' = next + 1
    /\ UNCHANGED <<blocks, pc, sending, delivered>>

\* The footer, in a chunk of its own when it does not fit, and SendDigest
\* starts with the first chunk.
AddFooter ==
    /\ pc = "format"
    /\ next > Len(blocks)
    /\ chunks' = IF current.size + FooterSize > FooterAt
                 THEN chunks \o <<current, Chunk(<<>>, FooterSize)>>
                 ELSE Append(chunks, Chunk(current.arts, current.size + FooterSize))
    /\ current' = Empty
    /\ pc' = "html"
    /\ UNCHANGED <<blocks, next, sending, delivered>>

\* Telegram posts the message and says so.  A text that is too long it refuses
\* (SendFails), but it counts the characters that are shown, and the size is
\* that of the HTML in bytes.
Posted ==
    /\ pc \in {"html", "plain"}
    /\ delivered' = Append(delivered, sending)
    /\ IF MoreChunks
       THEN pc' = "html" /\ sending' = sending + 1
       ELSE pc' = "done" /\ sending' = sending
    /\ UNCHANGED <<blocks, next, current, chunks>>

\* Seeded fault: a retry in a loop, the plain text is tried again as well.
AfterError_Again(f) == pc' = IF RetriedAsPlain(f) THEN "plain" ELSE "error"

\* The first chunk that fails ends the delivery; HTML may be tried again.
AfterError(f) ==
    pc' = IF pc = "html" /\ RetriedAsPlain(f) THEN "plain" ELSE "error"

\* Telegram posts the message, but its answer does not arrive, or not whole.
\* What did arrive of it, or of a proxy's answer, becomes the text of the error
\* and is searched: it may read as a bad request.
PostedUnheard ==
    /\ pc \in {"html", "plain"}
    /\ delivered' = Append(delivered, sending)
    /\ \E f \in Failures : AfterError(f)
    /\ UNCHANGED <<blocks, next, current, chunks, sending>>

\* The message is refused, or the call fails.
SendFails ==
    /\ pc \in {"html", "plain"}
    /\ \E f \in Failures : AfterError(f)
    /\ UNCHANGED <<blocks, next, current, chunks, sending, delivered>>

Next ==
    \/ Console \/ AddBlock \/ FlushAndAddBlock \/ AddFooter
    \/ Posted \/ PostedUnheard \/ SendFails

Spec == Init /\ [][Next]_vars

-----------------------------------------------------------------------------
(* Properties.                                                             *)

Formatted == pc \notin {"format", "console"}

Chunks == [arts : Seq(Nat), size : Nat]

\* These chunks hold the articles 1..n, each of them, and going through the
\* chunks one meets them in increasing order, so each once.
Hold(cs, n) ==
    /\ \A a \in 1..n : \E i \in 1..Len(cs) : \E k \in 1..Len(cs[i].arts) :
          cs[i].arts[k] = a
    /\ \A i \in 1..Len(cs) : \A k \in 1..Len(cs[i].arts) : cs[i].arts[k] \in 1..n
    /\ \A i, j \in 1..Len(cs) :
          \A k \in 1..Len(cs[i].arts), l \in 1..Len(cs[j].arts) :
              i < j \/ (i = j /\ k < l) => cs[i].arts[k] < cs[j].arts[l]

\* Every variable keeps its type.
TypeOK ==
    /\ blocks \in Seq(BlockSizes)
    /\ pc \in {"format", "html", "plain"} \union Endings
    /\ next \in 1..(Len(blocks) + 1)
    /\ current \in Chunks
    /\ chunks \in Seq(Chunks)
    /\ sending \in 1..(Len(chunks) + 1)
    /\ Formatted => sending \in 1..Len(chunks)
    /\ delivered \in Seq(1..Len(chunks))

\* The chunks hold every article exactly once and in the order of the digest,
\* wherever the flushes fall: no article is lost or split over two messages
\* (digest.go:46-70).
EveryArticleOnce == Hold(Append(chunks, current), next - 1)

\* If every block leaves room for the header, no chunk is longer than Telegram
\* takes: the flush at 3500 and the footer's own mark at 3900 are enough.
ChunksFit ==
    (Formatted /\ \A i \in DOMAIN blocks : HeaderSize + blocks[i] <= TelegramMax)
        => \A i \in DOMAIN chunks : chunks[i].size <= TelegramMax

\* What the comment of FormatHTMLChunks says without that condition
\* (digest.go:32): each message does not exceed Telegram's length limits.
EveryChunkFits ==
    Formatted => \A i \in DOMAIN chunks : chunks[i].size <= TelegramMax

\* Chunks are posted from the first on, and none is skipped; one that is posted
\* again comes right after itself, and only once more.
InOrder ==
    /\ delivered # <<>> => delivered[1] = 1
    /\ \A i \in 1..(Len(delivered) - 1) :
          delivered[i + 1] \in {delivered[i], delivered[i] + 1}
    /\ \A i \in 1..(Len(delivered) - 2) : delivered[i] # delivered[i + 2]

\* What has been posted is a beginning of the digest in its order, though a
\* chunk may be there twice, as HTML and as plain text (bot.go:86-94); and when
\* every chunk has been sent without an error (bot.go:83), it is the whole.
DeliveredInOrder ==
    /\ InOrder
    /\ pc = "done" => delivered # <<>> /\ delivered[Len(delivered)] = Len(chunks)
=============================================================================
