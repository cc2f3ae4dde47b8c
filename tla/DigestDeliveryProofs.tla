------------------------ MODULE DigestDeliveryProofs ------------------------
(***************************************************************************)
(* Proofs about DigestDelivery, for digests of any length, blocks, header  *)
(* and footer of any lengths and any marks below Telegram's limit: the     *)
(* inductive invariant IInv, and from it that the chunks hold every        *)
(* article once and in order, that they fit, and that they are posted in   *)
(* order, without a gap and each at most twice.                            *)
(***************************************************************************)
EXTENDS DigestDelivery, SequenceTheorems, TLAPS

\* Every block leaves room for the header, the condition of ChunksFit.
BlocksFit == \A i \in DOMAIN blocks : HeaderSize + blocks[i] <= TelegramMax

\* The finished chunks and the one being built are short enough at any time,
\* and formatting has at least a chunk to show for it.
SizesFit ==
    BlocksFit =>
        /\ current.size <= TelegramMax
        /\ \A i \in 1..Len(chunks) : chunks[i].size <= TelegramMax

\* Formatting is over when every block is in a chunk.
WhereFormattingIs ==
    /\ Len(blocks) >= 1
    /\ pc \in {"format", "console"} => sending = 1 /\ delivered = <<>>

\* The chunk that was posted last, 0 before the first.
LastPosted == IF delivered = <<>> THEN 0 ELSE delivered[Len(delivered)]

\* When a chunk is sent as HTML, the one before it is the last that was posted.
\* When it is sent as plain text, it may have been posted itself, but then it
\* was the last one and only once.
PostedSoFar ==
    /\ InOrder
    /\ pc = "html" =>
          /\ LastPosted = sending - 1
          /\ \A i \in 1..Len(delivered) : delivered[i] < sending
    /\ pc = "plain" =>
          /\ LastPosted \in {sending - 1, sending}
          /\ \A i \in 1..(Len(delivered) - 1) : delivered[i] < sending
    /\ pc = "done" => delivered # <<>> /\ LastPosted = Len(chunks)

\* The inductive invariant.
IInv ==
    /\ TypeOK
    /\ EveryArticleOnce
    /\ SizesFit
    /\ WhereFormattingIs
    /\ PostedSoFar

-----------------------------------------------------------------------------
(* Sequences of chunks.                                                    *)

\* The last of a sequence of chunks is as good as another that holds the same
\* articles.
LEMMA HoldSame ==
    ASSUME NEW cs \in Seq(Chunks), NEW n \in Nat, NEW c \in Chunks,
           NEW d \in Chunks, d.arts = c.arts, Hold(Append(cs, c), n)
    PROVE  Hold(Append(cs, d), n)
<1>1. /\ Len(Append(cs, d)) = Len(Append(cs, c))
      /\ \A i \in 1..Len(Append(cs, c)) : Append(cs, d)[i].arts = Append(cs, c)[i].arts
  OBVIOUS
<1>. DEFINE u == Append(cs, c)
            v == Append(cs, d)
<1>2. Len(v) = Len(u) /\ \A i \in 1..Len(u) : v[i].arts = u[i].arts
  BY <1>1
<1>3. Hold(u, n)
  OBVIOUS
<1>. HIDE DEF u, v
<1>4. /\ \A a \in 1..n : \E i \in 1..Len(v) : \E k \in 1..Len(v[i].arts) :
            v[i].arts[k] = a
      /\ \A i \in 1..Len(v) : \A k \in 1..Len(v[i].arts) : v[i].arts[k] \in 1..n
  <2>1. ASSUME NEW a \in 1..n
        PROVE  \E i \in 1..Len(v) : \E k \in 1..Len(v[i].arts) : v[i].arts[k] = a
    <3>1. PICK i \in 1..Len(u) : \E k \in 1..Len(u[i].arts) : u[i].arts[k] = a
      BY <1>3 DEF Hold
    <3>2. i \in 1..Len(v) /\ v[i].arts = u[i].arts
      BY <1>2
    <3>. QED  BY <3>1, <3>2
  <2>2. ASSUME NEW i \in 1..Len(v), NEW k \in 1..Len(v[i].arts)
        PROVE  v[i].arts[k] \in 1..n
    <3>1. i \in 1..Len(u) /\ v[i].arts = u[i].arts
      BY <1>2
    <3>. QED  BY <1>3, <3>1 DEF Hold
  <2>. QED  BY <2>1, <2>2
<1>5. ASSUME NEW i \in 1..Len(v), NEW j \in 1..Len(v),
             NEW k \in 1..Len(v[i].arts), NEW l \in 1..Len(v[j].arts),
             i < j \/ (i = j /\ k < l)
      PROVE  v[i].arts[k] < v[j].arts[l]
  <2>1. /\ i \in 1..Len(u) /\ v[i].arts = u[i].arts
        /\ j \in 1..Len(u) /\ v[j].arts = u[j].arts
    BY <1>2
  <2>. QED  BY <1>3, <1>5, <2>1 DEF Hold
<1>6. Hold(v, n)
  BY <1>4, <1>5 DEF Hold
<1>. QED  BY <1>6 DEF v

\* A chunk without articles adds none.
LEMMA HoldEmpty ==
    ASSUME NEW cs \in Seq(Chunks), NEW n \in Nat, NEW c \in Chunks,
           c.arts = <<>>, Hold(cs, n)
    PROVE  Hold(Append(cs, c), n)
<1>. DEFINE u == Append(cs, c)
<1>1. /\ Len(cs) \in Nat /\ Len(u) = Len(cs) + 1 /\ Len(u[Len(u)].arts) = 0
      /\ \A i \in 1..Len(cs) : u[i] = cs[i]
  OBVIOUS
<1>. HIDE DEF u
<1>2. \A i \in 1..Len(u) : i \in 1..Len(cs) \/ (i = Len(u) /\ i \notin 1..Len(cs))
  BY <1>1
<1>3. \A i \in 1..Len(u) : \A k \in 1..Len(u[i].arts) :
          i \in 1..Len(cs) /\ k \in 1..Len(cs[i].arts) /\ u[i].arts[k] = cs[i].arts[k]
  <2>1. 1..Len(u[Len(u)].arts) = {}
    BY <1>1
  <2>. QED  BY <1>1, <1>2, <2>1
<1>4. \A i \in 1..Len(cs) : i \in 1..Len(u)
  BY <1>1
<1>5. \A a \in 1..n : \E i \in 1..Len(u) : \E k \in 1..Len(u[i].arts) :
          u[i].arts[k] = a
  <2>1. SUFFICES ASSUME NEW a \in 1..n
                 PROVE  \E i \in 1..Len(u) : \E k \in 1..Len(u[i].arts) :
                            u[i].arts[k] = a
    OBVIOUS
  <2>2. PICK i \in 1..Len(cs) : \E k \in 1..Len(cs[i].arts) : cs[i].arts[k] = a
    BY DEF Hold
  <2>3. i \in 1..Len(u) /\ u[i] = cs[i]
    BY <1>1, <1>4
  <2>. QED  BY <2>2, <2>3
<1>6. \A i \in 1..Len(u) : \A k \in 1..Len(u[i].arts) : u[i].arts[k] \in 1..n
  BY <1>3 DEF Hold
<1>7. ASSUME NEW i \in 1..Len(u), NEW j \in 1..Len(u),
             NEW k \in 1..Len(u[i].arts), NEW l \in 1..Len(u[j].arts),
             i < j \/ (i = j /\ k < l)
      PROVE  u[i].arts[k] < u[j].arts[l]
  <2>1. /\ i \in 1..Len(cs) /\ k \in 1..Len(cs[i].arts) /\ u[i].arts[k] = cs[i].arts[k]
        /\ j \in 1..Len(cs) /\ l \in 1..Len(cs[j].arts) /\ u[j].arts[l] = cs[j].arts[l]
    BY <1>3
  <2>. QED  BY <1>7, <2>1 DEF Hold
<1>8. Hold(u, n)
  BY <1>5, <1>6, <1>7 DEF Hold
<1>. QED  BY <1>8 DEF u

\* The next article goes to the end of the last chunk.
LEMMA HoldAdd ==
    ASSUME NEW cs \in Seq(Chunks), NEW n \in Nat, NEW c \in Chunks,
           NEW d \in Chunks, d.arts = Append(c.arts, n + 1),
           Hold(Append(cs, c), n)
    PROVE  Hold(Append(cs, d), n + 1)
<1>. DEFINE u == Append(cs, c)
            v == Append(cs, d)
            m == Len(cs) + 1
<1>1. /\ m \in Nat \ {0} /\ Len(u) = m /\ Len(v) = m
      /\ u[m] = c /\ v[m] = d
      /\ \A i \in 1..m : i # m => v[i] = u[i]
  OBVIOUS
<1>2. c.arts \in Seq(Nat) /\ Len(c.arts) \in Nat
  BY DEF Chunks
<1>3. /\ Len(d.arts) = Len(c.arts) + 1 /\ d.arts[Len(d.arts)] = n + 1
      /\ \A k \in 1..Len(c.arts) : d.arts[k] = c.arts[k]
  BY <1>2
<1>4. Hold(u, n)
  OBVIOUS
<1>. HIDE DEF u, v, m
\* An article of v is one of u in the same place, or the new one at the end.
<1>5. ASSUME NEW i \in 1..m, NEW k \in 1..Len(v[i].arts)
      PROVE  \/ k \in 1..Len(u[i].arts) /\ v[i].arts[k] = u[i].arts[k]
             \/ i = m /\ k = Len(d.arts) /\ v[i].arts[k] = n + 1
  <2>1. CASE i # m
    BY <1>1, <2>1
  <2>2. CASE i = m
    <3>1. u[i].arts = c.arts /\ v[i].arts = d.arts
      BY <1>1, <2>2
    <3>2. k \in 1..Len(d.arts)
      BY <3>1
    <3>3. k \in 1..Len(c.arts) \/ k = Len(d.arts)
      BY <1>2, <1>3, <3>2
    <3>. QED  BY <1>3, <2>2, <3>1, <3>3
  <2>. QED  BY <2>1, <2>2
<1>6. \A i \in 1..m : \A k \in 1..Len(u[i].arts) :
          k \in 1..Len(v[i].arts) /\ v[i].arts[k] = u[i].arts[k]
  <2>1. \A i \in 1..m : i # m => v[i] = u[i]
    BY <1>1
  <2>2. \A k \in 1..Len(c.arts) : k \in 1..Len(d.arts) /\ d.arts[k] = c.arts[k]
    BY <1>2, <1>3
  <2>. QED  BY <1>1, <2>1, <2>2
<1>7. /\ \A i \in 1..m : \A k \in 1..Len(u[i].arts) : u[i].arts[k] \in 1..n
      /\ \A i, j \in 1..m :
            \A k \in 1..Len(u[i].arts), l \in 1..Len(u[j].arts) :
                i < j \/ (i = j /\ k < l) => u[i].arts[k] < u[j].arts[l]
  BY <1>1, <1>4 DEF Hold
<1>8. \A a \in 1..(n + 1) : \E i \in 1..m : \E k \in 1..Len(v[i].arts) :
          v[i].arts[k] = a
  <2>1. ASSUME NEW a \in 1..n
        PROVE  \E i \in 1..m : \E k \in 1..Len(v[i].arts) : v[i].arts[k] = a
    <3>1. \E i \in 1..m : \E k \in 1..Len(u[i].arts) : u[i].arts[k] = a
      BY <1>1, <1>4 DEF Hold
    <3>. QED  BY <3>1, <1>6
  <2>2. m \in 1..m /\ Len(d.arts) \in 1..Len(v[m].arts) /\ v[m].arts[Len(d.arts)] = n + 1
    BY <1>1, <1>2, <1>3
  <2>3. \A a \in 1..(n + 1) : a \in 1..n \/ a = n + 1
    OBVIOUS
  <2>. QED  BY <2>1, <2>2, <2>3
<1>9. \A i \in 1..m : \A k \in 1..Len(v[i].arts) : v[i].arts[k] \in 1..(n + 1)
  <2>1. n + 1 \in 1..(n + 1) /\ 1..n \subseteq 1..(n + 1)
    OBVIOUS
  <2>. QED  BY <1>5, <1>7, <2>1
<1>10. ASSUME NEW i \in 1..m, NEW j \in 1..m,
              NEW k \in 1..Len(v[i].arts), NEW l \in 1..Len(v[j].arts),
              i < j \/ (i = j /\ k < l)
       PROVE  v[i].arts[k] < v[j].arts[l]
  <2>1. CASE k \in 1..Len(u[i].arts) /\ v[i].arts[k] = u[i].arts[k]
    <3>1. CASE l \in 1..Len(u[j].arts) /\ v[j].arts[l] = u[j].arts[l]
      BY <1>7, <1>10, <2>1, <3>1
    <3>2. CASE v[j].arts[l] = n + 1
      BY <1>7, <2>1, <3>2
    <3>. QED  BY <1>5, <3>1, <3>2
  <2>2. CASE i = m /\ k = Len(d.arts)
    <3>1. j = m /\ l > Len(d.arts)
      BY <1>1, <1>2, <1>3, <1>10, <2>2
    <3>. QED  BY <1>1, <1>2, <1>3, <3>1
  <2>. QED  BY <1>5, <2>1, <2>2
<1>11. Hold(v, n + 1)
  BY <1>1, <1>8, <1>9, <1>10 DEF Hold
<1>. QED  BY <1>11 DEF v

-----------------------------------------------------------------------------
(* Formatting.                                                             *)

\* The first chunk begins with the header, and nothing is in it yet.
LEMMA InitInv == Init => IInv
<1>. SUFFICES ASSUME Init PROVE IInv
  OBVIOUS
<1>1. /\ blocks \in Seq(BlockSizes) /\ Len(blocks) \in Nat /\ Len(blocks) >= 1
      /\ \A i \in DOMAIN blocks : blocks[i] \in Nat
      /\ 1 \in DOMAIN blocks
  <2>1. PICK n \in 1..MaxArticles : blocks \in [1..n -> BlockSizes]
    BY DEF Init
  <2>2. n \in Nat /\ n >= 1
    BY <2>1, SizesAssumption
  <2>3. blocks \in Seq(BlockSizes) /\ Len(blocks) = n
    BY <2>1, <2>2
  <2>4. \A b \in BlockSizes : b \in Nat
    BY SizesAssumption
  <2>. QED  BY <2>1, <2>2, <2>3, <2>4
<1>2. /\ current \in Chunks /\ current.arts = <<>> /\ current.size = HeaderSize
      /\ chunks = <<>> /\ chunks \in Seq(Chunks) /\ Len(chunks) = 0
      /\ delivered = <<>> /\ delivered \in Seq(1..Len(chunks)) /\ Len(delivered) = 0
  BY SizesAssumption DEF Init, Chunk, Chunks
<1>3. TypeOK
  BY <1>1, <1>2 DEF Init, TypeOK, Formatted
<1>4. EveryArticleOnce
  <2>1. Hold(<<>>, 0)
    BY DEF Hold
  <2>2. <<>> \in Seq(Chunks) /\ 0 \in Nat
    OBVIOUS
  <2>3. Hold(Append(<<>>, current), 0)
    BY <1>2, <2>1, <2>2, HoldEmpty
  <2>. QED  BY <1>2, <2>3 DEF Init, EveryArticleOnce
<1>5. SizesFit
  <2>1. BlocksFit => HeaderSize <= TelegramMax
    BY <1>1, SizesAssumption DEF BlocksFit
  <2>. QED  BY <1>2, <2>1 DEF SizesFit
<1>6. WhereFormattingIs /\ PostedSoFar
  BY <1>1, <1>2 DEF Init, WhereFormattingIs, PostedSoFar, InOrder
<1>. QED  BY <1>3, <1>4, <1>5, <1>6 DEF IInv

\* What the loop of FormatHTMLChunks finds at its head.
LEMMA AtTheHead ==
    ASSUME IInv, pc = "format", next <= Len(blocks)
    PROVE  /\ next \in DOMAIN blocks /\ next \in Nat \ {0} /\ Len(blocks) \in Nat
           /\ blocks[next] \in Nat
           /\ current \in Chunks /\ current.size \in Nat
           /\ current.arts \in Seq(Nat) /\ chunks \in Seq(Chunks)
           /\ sending = 1 /\ delivered = <<>>
           /\ Hold(Append(chunks, current), next - 1)
           /\ BlocksFit => HeaderSize + blocks[next] <= TelegramMax
<1>1. /\ next \in DOMAIN blocks /\ next \in Nat \ {0} /\ Len(blocks) \in Nat
      /\ blocks[next] \in BlockSizes
  BY DEF IInv, TypeOK
<1>2. blocks[next] \in Nat
  BY <1>1, SizesAssumption
<1>. QED
  BY <1>1, <1>2
  DEF IInv, TypeOK, Chunks, WhereFormattingIs, EveryArticleOnce, BlocksFit

\* The block of one more article goes into the chunk, or into the next one.
LEMMA BlockInv ==
    ASSUME IInv, AddBlock \/ FlushAndAddBlock
    PROVE  IInv'
<1>1. pc = "format" /\ next <= Len(blocks) /\ next' = next + 1
      /\ UNCHANGED <<blocks, pc, sending, delivered>>
  BY DEF AddBlock, FlushAndAddBlock
<1>2. /\ next \in DOMAIN blocks /\ next \in Nat \ {0} /\ Len(blocks) \in Nat
      /\ blocks[next] \in Nat
      /\ current \in Chunks /\ current.size \in Nat
      /\ current.arts \in Seq(Nat) /\ chunks \in Seq(Chunks)
      /\ sending = 1 /\ delivered = <<>>
      /\ Hold(Append(chunks, current), next - 1)
      /\ BlocksFit => HeaderSize + blocks[next] <= TelegramMax
  BY <1>1, AtTheHead
<1>3. next - 1 \in Nat /\ (next - 1) + 1 = next /\ next' - 1 = next
      /\ next' \in 1..(Len(blocks) + 1)
  BY <1>1, <1>2
<1>4. /\ current' \in Chunks /\ chunks' \in Seq(Chunks)
      /\ EveryArticleOnce' /\ SizesFit'
  <2>1. CASE AddBlock
    <3>1. /\ ~MustFlush /\ chunks' = chunks
          /\ current' = Chunk(Append(current.arts, next), current.size + blocks[next])
      BY <2>1 DEF AddBlock
    <3>2. Append(current.arts, next) \in Seq(Nat) /\ current.size + blocks[next] \in Nat
      BY <1>2
    <3>3. /\ current' \in Chunks /\ current'.arts = Append(current.arts, next)
          /\ current'.size = current.size + blocks[next]
      BY <3>1, <3>2 DEF Chunk, Chunks
    <3>4. Hold(Append(chunks, current'), (next - 1) + 1)
      BY <1>2, <1>3, <3>3, HoldAdd
    <3>5. EveryArticleOnce'
      BY <1>3, <3>1, <3>4 DEF EveryArticleOnce
    <3>6. BlocksFit => current'.size <= TelegramMax
      BY <1>2, <3>1, <3>3, SizesAssumption, MarksAssumption DEF MustFlush
    <3>7. SizesFit'
      BY <1>1, <3>1, <3>6 DEF IInv, SizesFit, BlocksFit
    <3>. QED  BY <1>2, <3>1, <3>3, <3>5, <3>7
  <2>2. CASE FlushAndAddBlock
    <3>1. /\ chunks' = Append(chunks, current)
          /\ current' = Chunk(<<next>>, blocks[next])
      BY <2>2 DEF FlushAndAddBlock, AfterFlush
    <3>2. /\ chunks' \in Seq(Chunks) /\ Len(chunks) \in Nat
          /\ Len(chunks') = Len(chunks) + 1 /\ chunks'[Len(chunks')] = current
          /\ \A i \in 1..Len(chunks) : chunks'[i] = chunks[i]
      BY <1>2, <3>1
    <3>3. /\ current' \in Chunks /\ current'.arts = Append(<<>>, next)
          /\ current'.size = blocks[next]
      BY <1>2, <3>1 DEF Chunk, Chunks
    <3>4. Empty \in Chunks /\ Empty.arts = <<>>
      BY DEF Empty, Chunk, Chunks
    <3>5. Hold(Append(chunks', Empty), next - 1)
      BY <1>2, <1>3, <3>1, <3>2, <3>4, HoldEmpty
    <3>6. Hold(Append(chunks', current'), (next - 1) + 1)
      BY <1>3, <3>2, <3>3, <3>4, <3>5, HoldAdd
    <3>7. EveryArticleOnce'
      BY <1>3, <3>6 DEF EveryArticleOnce
    <3>8. BlocksFit => current'.size <= TelegramMax
      BY <1>2, <3>3, SizesAssumption
    <3>9. BlocksFit => \A i \in 1..Len(chunks') : chunks'[i].size <= TelegramMax
      <4>1. \A i \in 1..Len(chunks') : i \in 1..Len(chunks) \/ i = Len(chunks')
        BY <3>2
      <4>. QED  BY <3>2, <4>1 DEF IInv, SizesFit
    <3>10. SizesFit'
      BY <1>1, <3>8, <3>9 DEF SizesFit, BlocksFit
    <3>. QED  BY <3>2, <3>3, <3>7, <3>10
  <2>. QED  BY <2>1, <2>2
<1>5. /\ Len(chunks') \in Nat /\ sending' \in 1..(Len(chunks') + 1)
      /\ delivered' = <<>> /\ delivered' \in Seq(1..Len(chunks'))
  BY <1>1, <1>2, <1>4
<1>6. TypeOK'
  BY <1>1, <1>3, <1>4, <1>5 DEF IInv, TypeOK, Formatted
<1>7. WhereFormattingIs' /\ PostedSoFar'
  BY <1>1, <1>5 DEF IInv, WhereFormattingIs, PostedSoFar, InOrder
<1>. QED  BY <1>4, <1>6, <1>7 DEF IInv

\* In console mode nothing happens to the digest.
LEMMA ConsoleInv == ASSUME IInv, Console PROVE IInv'
<1>1. /\ pc = "format" /\ pc' = "console"
      /\ UNCHANGED <<blocks, next, current, chunks, sending, delivered>>
      /\ sending = 1 /\ delivered = <<>>
  BY DEF Console, IInv, WhereFormattingIs
<1>2. TypeOK'
  BY <1>1 DEF IInv, TypeOK, Formatted, Endings
<1>3. EveryArticleOnce' /\ SizesFit'
  BY <1>1 DEF IInv, EveryArticleOnce, SizesFit, BlocksFit
<1>4. WhereFormattingIs' /\ PostedSoFar'
  BY <1>1 DEF IInv, WhereFormattingIs, PostedSoFar, InOrder
<1>. QED  BY <1>2, <1>3, <1>4 DEF IInv

\* The footer joins the last chunk or makes one of its own.
LEMMA FooterInv == ASSUME IInv, AddFooter PROVE IInv'
<1>1. /\ pc = "format" /\ pc' = "html" /\ current' = Empty
      /\ UNCHANGED <<blocks, next, sending, delivered>>
      /\ chunks' = IF current.size + FooterSize > FooterAt
                   THEN chunks \o <<current, Chunk(<<>>, FooterSize)>>
                   ELSE Append(chunks, Chunk(current.arts, current.size + FooterSize))
  BY DEF AddFooter
<1>2. /\ current \in Chunks /\ current.size \in Nat /\ current.arts \in Seq(Nat)
      /\ chunks \in Seq(Chunks) /\ Len(chunks) \in Nat
      /\ sending = 1 /\ delivered = <<>>
      /\ next - 1 \in Nat /\ Hold(Append(chunks, current), next - 1)
  BY <1>1 DEF IInv, TypeOK, Chunks, WhereFormattingIs, EveryArticleOnce
<1>3. Empty \in Chunks /\ Empty.arts = <<>> /\ Empty.size = 0
  BY DEF Empty, Chunk, Chunks
<1>4. /\ chunks' \in Seq(Chunks) /\ Len(chunks') \in Nat /\ Len(chunks') >= 1
      /\ Hold(chunks', next - 1)
      /\ BlocksFit => \A i \in 1..Len(chunks') : chunks'[i].size <= TelegramMax
  <2>1. CASE current.size + FooterSize > FooterAt
    <3>. DEFINE f == Chunk(<<>>, FooterSize)
                u == Append(chunks, current)
    <3>1. f \in Chunks /\ f.arts = <<>> /\ f.size = FooterSize
      BY SizesAssumption DEF Chunk, Chunks
    <3>2. /\ u \in Seq(Chunks) /\ Len(u) = Len(chunks) + 1 /\ u[Len(u)] = current
          /\ \A i \in 1..Len(chunks) : u[i] = chunks[i]
      BY <1>2
    <3>. HIDE DEF f
    <3>3. chunks' = Append(u, f)
      BY <1>1, <1>2, <2>1, <3>1 DEF f
    <3>. HIDE DEF u
    <3>4. Hold(chunks', next - 1)
      <4>1. Hold(u, next - 1)
        BY <1>2 DEF u
      <4>. QED  BY <1>2, <3>1, <3>2, <3>3, <4>1, HoldEmpty
    <3>5. /\ chunks' \in Seq(Chunks) /\ Len(chunks') = Len(u) + 1
          /\ chunks'[Len(chunks')] = f
          /\ \A i \in 1..Len(u) : chunks'[i] = u[i]
      BY <3>1, <3>2, <3>3
    <3>6. \A i \in 1..Len(chunks') :
              i \in 1..Len(chunks) \/ i = Len(u) \/ i = Len(chunks')
      BY <1>2, <3>2, <3>5
    <3>7. BlocksFit => \A i \in 1..Len(chunks') : chunks'[i].size <= TelegramMax
      <4>1. Len(u) \in 1..Len(u) /\ \A i \in 1..Len(chunks) : i \in 1..Len(u)
        BY <1>2, <3>2
      <4>2. /\ chunks'[Len(u)] = current
            /\ \A i \in 1..Len(chunks) : chunks'[i] = chunks[i]
        BY <3>2, <3>5, <4>1
      <4>. QED
        BY <3>1, <3>5, <3>6, <4>2, MarksAssumption DEF IInv, SizesFit
    <3>. QED  BY <1>2, <3>2, <3>4, <3>5, <3>7
  <2>2. CASE ~(current.size + FooterSize > FooterAt)
    <3>. DEFINE d == Chunk(current.arts, current.size + FooterSize)
    <3>1. /\ d \in Chunks /\ d.arts = current.arts
          /\ d.size = current.size + FooterSize
      BY <1>2, SizesAssumption DEF Chunk, Chunks
    <3>2. chunks' = Append(chunks, d)
      BY <1>1, <2>2
    <3>. HIDE DEF d
    <3>3. Hold(chunks', next - 1)
      BY <1>2, <3>1, <3>2, HoldSame
    <3>4. /\ chunks' \in Seq(Chunks) /\ Len(chunks') = Len(chunks) + 1
          /\ chunks'[Len(chunks')] = d
          /\ \A i \in 1..Len(chunks) : chunks'[i] = chunks[i]
      BY <1>2, <3>1, <3>2
    <3>5. \A i \in 1..Len(chunks') : i \in 1..Len(chunks) \/ i = Len(chunks')
      BY <1>2, <3>4
    <3>6. d.size <= TelegramMax
      BY <1>2, <2>2, <3>1, SizesAssumption, MarksAssumption
    <3>7. BlocksFit => \A i \in 1..Len(chunks') : chunks'[i].size <= TelegramMax
      BY <3>4, <3>5, <3>6 DEF IInv, SizesFit
    <3>. QED  BY <1>2, <3>3, <3>4, <3>7
  <2>. QED  BY <2>1, <2>2
<1>5. EveryArticleOnce'
  <2>1. Hold(Append(chunks', Empty), next - 1)
    BY <1>2, <1>3, <1>4, HoldEmpty
  <2>. QED  BY <1>1, <2>1 DEF EveryArticleOnce
<1>6. SizesFit'
  BY <1>1, <1>3, <1>4, SizesAssumption DEF SizesFit, BlocksFit
<1>7. /\ sending' = 1 /\ sending' \in 1..Len(chunks') /\ delivered' = <<>>
      /\ sending' \in 1..(Len(chunks') + 1)
      /\ delivered' \in Seq(1..Len(chunks')) /\ Len(delivered') = 0
  BY <1>1, <1>2, <1>4
<1>8. TypeOK'
  BY <1>1, <1>3, <1>4, <1>7 DEF IInv, TypeOK, Formatted
<1>9. WhereFormattingIs' /\ PostedSoFar'
  BY <1>1, <1>7 DEF IInv, WhereFormattingIs, PostedSoFar, InOrder, LastPosted
<1>. QED  BY <1>5, <1>6, <1>8, <1>9 DEF IInv

-----------------------------------------------------------------------------
(* Sending.                                                                *)

\* Posting the chunk that is sent keeps the order, whichever way it is sent.
LEMMA PostInOrder ==
    ASSUME IInv, pc \in {"html", "plain"}, delivered' = Append(delivered, sending)
    PROVE  /\ delivered' \in Seq(1..Len(chunks)) /\ delivered' # <<>>
           /\ InOrder' /\ LastPosted' = sending
           /\ \A i \in 1..Len(delivered') : delivered'[i] <= sending
           /\ pc = "html" =>
                 \A i \in 1..(Len(delivered') - 1) : delivered'[i] < sending
<1>. DEFINE n == Len(delivered)
<1>1. /\ sending \in 1..Len(chunks) /\ Len(chunks) \in Nat /\ sending \in Nat
      /\ delivered \in Seq(1..Len(chunks)) /\ n \in Nat
      /\ \A i \in 1..n : delivered[i] \in Nat \ {0}
  BY DEF IInv, TypeOK, Formatted
<1>2. /\ delivered' \in Seq(1..Len(chunks)) /\ Len(delivered') = n + 1
      /\ delivered'[n + 1] = sending /\ delivered' # <<>>
      /\ \A i \in 1..n : delivered'[i] = delivered[i]
  BY <1>1
<1>3. /\ n = 0 => LastPosted = 0
      /\ n # 0 => LastPosted = delivered[n]
      /\ LastPosted \in {sending - 1, sending}
      /\ \A i \in 1..(n - 1) : delivered[i] < sending
      /\ pc = "html" => \A i \in 1..n : delivered[i] < sending
  <2>1. /\ n = 0 => LastPosted = 0
        /\ n # 0 => LastPosted = delivered[n]
    BY <1>1 DEF LastPosted
  <2>2. CASE pc = "html"
    BY <1>1, <2>1, <2>2 DEF IInv, PostedSoFar
  <2>3. CASE pc = "plain"
    BY <1>1, <2>1, <2>3 DEF IInv, PostedSoFar
  <2>. QED  BY <2>1, <2>2, <2>3
<1>4. InOrder
  BY DEF IInv, PostedSoFar
<1>. HIDE DEF n
<1>5. \A i \in 1..(n + 1) : i \in 1..(n - 1) \/ i = n \/ i = n + 1
  BY <1>1
<1>6. InOrder'
  <2>1. delivered'[1] = 1
    <3>1. CASE n = 0
      BY <1>1, <1>2, <1>3, <3>1
    <3>2. CASE n # 0
      BY <1>1, <1>2, <1>4, <3>2 DEF InOrder, n
    <3>. QED  BY <3>1, <3>2
  <2>2. ASSUME NEW i \in 1..n
        PROVE  delivered'[i + 1] \in {delivered'[i], delivered'[i] + 1}
    <3>1. CASE i = n
      BY <1>1, <1>2, <1>3, <3>1
    <3>2. CASE i # n
      <4>1. i \in 1..(n - 1) /\ i + 1 \in 1..n
        BY <1>1, <3>2
      <4>. QED  BY <1>2, <1>4, <4>1 DEF InOrder, n
    <3>. QED  BY <3>1, <3>2
  <2>3. ASSUME NEW i \in 1..(n - 1)
        PROVE  delivered'[i] # delivered'[i + 2]
    <3>1. CASE i = n - 1
      BY <1>1, <1>2, <1>3, <3>1
    <3>2. CASE i # n - 1
      <4>1. i \in 1..(n - 2) /\ i \in 1..n /\ i + 2 \in 1..n
        BY <1>1, <3>2
      <4>. QED  BY <1>2, <1>4, <4>1 DEF InOrder, n
    <3>. QED  BY <3>1, <3>2
  <2>4. Len(delivered') - 1 = n /\ Len(delivered') - 2 = n - 1
    BY <1>1, <1>2
  <2>. QED  BY <2>1, <2>2, <2>3, <2>4 DEF InOrder
<1>7. LastPosted' = sending
  BY <1>1, <1>2 DEF LastPosted
<1>8. \A i \in 1..(n + 1) : delivered'[i] <= sending
  BY <1>1, <1>2, <1>3, <1>5
<1>9. pc = "html" => \A i \in 1..n : delivered'[i] < sending
  BY <1>2, <1>3
<1>. QED  BY <1>1, <1>2, <1>6, <1>7, <1>8, <1>9

\* A chunk more is posted, heard of or not, or none.
LEMMA SendingInv ==
    ASSUME IInv, Posted \/ PostedUnheard \/ SendFails
    PROVE  IInv'
<1>1. /\ pc \in {"html", "plain"} /\ UNCHANGED <<blocks, next, current, chunks>>
      /\ Len(chunks) \in Nat /\ sending \in 1..Len(chunks) /\ sending \in Nat
      /\ delivered \in Seq(1..Len(chunks)) /\ Len(delivered) \in Nat
      /\ \A i \in 1..Len(delivered) : delivered[i] \in Nat
  BY DEF Posted, PostedUnheard, SendFails, IInv, TypeOK, Formatted
<1>2. ASSUME delivered' = Append(delivered, sending)
      PROVE  /\ delivered' \in Seq(1..Len(chunks)) /\ delivered' # <<>>
             /\ \A i \in 1..Len(delivered') : delivered'[i] \in Nat
             /\ InOrder' /\ LastPosted' = sending
             /\ \A i \in 1..Len(delivered') : delivered'[i] <= sending
             /\ pc = "html" =>
                   \A i \in 1..(Len(delivered') - 1) : delivered'[i] < sending
  <2>1. delivered' \in Seq(1..Len(chunks))
    BY <1>1, <1>2, PostInOrder
  <2>2. \A i \in 1..Len(delivered') : delivered'[i] \in Nat
    BY <1>1, <2>1
  <2>. QED  BY <1>1, <1>2, <2>2, PostInOrder
<1>3. /\ delivered' \in Seq(1..Len(chunks)) /\ sending' \in 1..Len(chunks)
      /\ pc' \in {"html", "plain", "done", "error"}
      /\ PostedSoFar'
  <2>1. CASE Posted /\ MoreChunks
    <3>1. /\ delivered' = Append(delivered, sending) /\ pc' = "html"
          /\ sending' = sending + 1 /\ sending < Len(chunks)
      BY <2>1 DEF Posted, MoreChunks
    <3>2. \A i \in 1..Len(delivered') : delivered'[i] < sending'
      BY <1>1, <1>2, <3>1
    <3>. QED  BY <1>1, <1>2, <3>1, <3>2 DEF PostedSoFar
  <2>2. CASE Posted /\ ~MoreChunks
    <3>1. /\ delivered' = Append(delivered, sending) /\ pc' = "done"
          /\ sending' = sending /\ sending = Len(chunks)
      BY <1>1, <2>2 DEF Posted, MoreChunks
    <3>. QED  BY <1>1, <1>2, <3>1 DEF PostedSoFar
  <2>3. CASE PostedUnheard
    <3>1. /\ delivered' = Append(delivered, sending) /\ sending' = sending
          /\ pc' = "error" \/ (pc' = "plain" /\ pc = "html")
      BY <2>3 DEF PostedUnheard, AfterError
    <3>. QED  BY <1>1, <1>2, <3>1 DEF PostedSoFar
  <2>4. CASE SendFails
    <3>1. /\ delivered' = delivered /\ sending' = sending
          /\ pc' = "error" \/ (pc' = "plain" /\ pc = "html")
      BY <2>4 DEF SendFails, AfterError
    <3>2. InOrder' /\ LastPosted' = LastPosted
      BY <3>1 DEF IInv, PostedSoFar, InOrder, LastPosted
    <3>3. CASE pc' = "error"
      BY <1>1, <3>1, <3>2, <3>3 DEF PostedSoFar
    <3>4. CASE pc' = "plain" /\ pc = "html"
      <4>1. \A i \in 1..(Len(delivered) - 1) : i \in 1..Len(delivered)
        BY <1>1
      <4>. QED  BY <1>1, <3>1, <3>2, <3>4, <4>1 DEF IInv, PostedSoFar
    <3>. QED  BY <3>1, <3>3, <3>4
  <2>. QED  BY <2>1, <2>2, <2>3, <2>4
<1>4. TypeOK'
  <2>1. sending' \in 1..(Len(chunks) + 1)
    BY <1>1, <1>3
  <2>. QED  BY <1>1, <1>3, <2>1 DEF IInv, TypeOK, Formatted, Endings
<1>5. EveryArticleOnce' /\ SizesFit' /\ WhereFormattingIs'
  BY <1>1, <1>3
  DEF IInv, EveryArticleOnce, SizesFit, BlocksFit, WhereFormattingIs
<1>. QED  BY <1>3, <1>4, <1>5 DEF IInv

-----------------------------------------------------------------------------
(* The theorems.                                                           *)

\* The inductive invariant holds in every reachable state.
THEOREM Invariance == Spec => []IInv
<1>1. IInv /\ [Next]_vars => IInv'
  <2>. SUFFICES ASSUME IInv, [Next]_vars PROVE IInv'
    OBVIOUS
  <2>1. CASE Next
    BY <2>1, ConsoleInv, BlockInv, FooterInv, SendingInv DEF Next
  <2>2. CASE UNCHANGED vars
    BY <2>2 DEF vars, IInv, TypeOK, Formatted, EveryArticleOnce, SizesFit,
                BlocksFit, WhereFormattingIs, PostedSoFar, InOrder, LastPosted
  <2>. QED  BY <2>1, <2>2
<1>. QED  BY InitInv, <1>1, PTL DEF Spec

\* Every variable keeps its type, and SendDigest never looks for a chunk that
\* is not there.
THEOREM TypeCorrect == Spec => []TypeOK
<1>1. IInv => TypeOK
  BY DEF IInv
<1>. QED  BY <1>1, Invariance, PTL

\* No article of a digest is lost, doubled or moved by FormatHTMLChunks,
\* wherever the lengths of the blocks make it flush (digest.go:46-70).
THEOREM NoArticleIsLost == Spec => []EveryArticleOnce
<1>1. IInv => EveryArticleOnce
  BY DEF IInv
<1>. QED  BY <1>1, Invariance, PTL

\* If every block leaves room for the header, Telegram takes every chunk: for
\* any marks that are not above its limit.
THEOREM ChunksAreTaken == Spec => []ChunksFit
<1>1. IInv => ChunksFit
  <2>. SUFFICES ASSUME IInv, BlocksFit
                PROVE  \A i \in DOMAIN chunks : chunks[i].size <= TelegramMax
    BY DEF ChunksFit, BlocksFit
  <2>1. DOMAIN chunks = 1..Len(chunks)
    BY DEF IInv, TypeOK
  <2>. QED  BY <2>1 DEF IInv, SizesFit
<1>. QED  BY <1>1, Invariance, PTL

\* Messages are posted in the order of the digest, none is skipped, none comes
\* more than twice, and all are there when SendDigest has sent each without an
\* error, although a message may be posted without its answer arriving and be
\* sent again as plain text (bot.go).
THEOREM DigestIsPostedInOrder == Spec => []DeliveredInOrder
<1>1. IInv => DeliveredInOrder
  BY DEF IInv, PostedSoFar, InOrder, LastPosted, DeliveredInOrder
<1>. QED  BY <1>1, Invariance, PTL
=============================================================================
