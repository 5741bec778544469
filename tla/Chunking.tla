------------------------------ MODULE Chunking ------------------------------
(***************************************************************************)
(* chunkPages, which cuts the pages of the financial education booklet     *)
(* into the overlapping chunks that are embedded and cited by page.        *)
(*                                                                         *)
(* A paragraph is a place in the booklet and a number of words: cleaning a *)
(* page of its repeated lines happens before, and the embedding after      *)
(* (Education).  The reader's steps are the iterations of the two loops.   *)
(***************************************************************************)
EXTENDS Integers, Sequences, SequencesExt, Functions

CONSTANTS
    MIN_CHUNK_WORDS, MAX_CHUNK_WORDS,
    Sentences,              \* lengths of sentences, in words
    MaxSentences,           \* of a block
    MaxPages, MaxBlocks     \* of a booklet

ASSUME ChunkAssumption ==
    /\ {MIN_CHUNK_WORDS, MAX_CHUNK_WORDS, MaxPages, MaxBlocks} \subseteq Nat
    /\ MIN_CHUNK_WORDS <= MAX_CHUNK_WORDS
    /\ Sentences \subseteq Nat \ {0} /\ MaxSentences \in Nat \ {0}

VARIABLES
    page, blocks,           \* the page, and the blocks read so far
    text,                   \* history: every paragraph of the booklet, in order
    pending,                \* paragraphs of the page the loop has not reached
    current, hasNewContent,
    chunks

chunkVars == <<page, blocks, text, pending, current, hasNewContent, chunks>>

ChunkInit ==
    /\ page = 1 /\ blocks = 0
    /\ text = <<>> /\ pending = <<>>
    /\ current = <<>> /\ hasNewContent = FALSE
    /\ chunks = <<>>

Words(paragraphs) == SumFunction([i \in DOMAIN paragraphs |-> paragraphs[i].size])

-----------------------------------------------------------------------------
\* The sizes of the parts of a paragraph, split between sentences.
splitLongParagraph(sentences) ==
    LET Total == SumFunction(sentences)
        Join(parts, s) ==
            IF parts # <<>> /\ Last(parts) + s <= MAX_CHUNK_WORDS
            THEN [parts EXCEPT ![Len(parts)] = @ + s]
            ELSE Append(parts, s)
    IN  IF Total <= MAX_CHUNK_WORDS THEN <<Total>> ELSE FoldLeft(Join, <<>>, sentences)

\* paragraphsOf: the next block of the page's text.
ReadBlock ==
    /\ blocks < MaxBlocks
    /\ current = <<>>
    /\ blocks' = blocks + 1
    /\ \E n \in 1..MaxSentences : \E sentences \in [1..n -> Sentences] :
          LET parts == splitLongParagraph(sentences)
              new == [i \in DOMAIN parts |->
                         [page |-> page, place |-> Len(text) + i, size |-> parts[i]]]
          IN  text' = text \o new /\ pending' = pending \o new
    /\ UNCHANGED <<page, current, hasNewContent, chunks>>

Chunk == [page |-> page, paragraphs |-> current]

isFull(size) ==
    /\ hasNewContent
    /\ Words(current) + size > MAX_CHUNK_WORDS
    /\ Words(current) >= MIN_CHUNK_WORDS

\* Faulty variant: the next chunk starts with the first paragraph of this one.
overlapFirst(paragraphs) == SubSeq(paragraphs, 1, 1)
\* slice(-1)
overlap(paragraphs) == SubSeq(paragraphs, Len(paragraphs), Len(paragraphs))

\* One iteration of the loop over a page's paragraphs.
Take ==
    /\ pending # <<>>
    /\ LET p == Head(pending)
           full == isFull(p.size)
       IN  /\ chunks' = IF full THEN Append(chunks, Chunk) ELSE chunks
           /\ current' = Append(IF full THEN overlap(current) ELSE current, p)
    /\ pending' = Tail(pending)
    /\ hasNewContent' = TRUE
    /\ UNCHANGED <<page, blocks, text>>

\* The end of a page, which flushes what the loop has collected.
EndPage ==
    /\ pending = <<>> /\ page < MaxPages + 1
    /\ chunks' = IF hasNewContent THEN Append(chunks, Chunk) ELSE chunks
    /\ page' = page + 1
    /\ current' = <<>> /\ hasNewContent' = FALSE
    /\ UNCHANGED <<blocks, text, pending>>

ChunkNext == (page <= MaxPages /\ (ReadBlock \/ Take)) \/ EndPage

ChunkSpec == ChunkInit /\ [][ChunkNext]_chunkVars

-----------------------------------------------------------------------------
(***************************************************************************)
(* ChunksKeepParagraphs: chunks are what a citation and an answer rely on. *)
(* Without the overlaps they are the paragraphs read so far, none lost,    *)
(* repeated or moved; a chunk has one page; neighbours of a page share     *)
(* exactly the paragraph at their boundary; every chunk but the last of a  *)
(* page has at least MIN_CHUNK_WORDS; and a chunk outgrows MAX_CHUNK_WORDS *)
(* only by one paragraph, which is all its new content or follows less     *)
(* than MIN_CHUNK_WORDS (chunking.ts 62-106).                              *)
(***************************************************************************)
ChunksSoFar == IF hasNewContent THEN Append(chunks, Chunk) ELSE chunks

SamePage(all, i) == i > 1 /\ all[i - 1].page = all[i].page

\* The paragraphs of a chunk that the chunk before it does not have.
Fresh(all, i) == IF SamePage(all, i) THEN Tail(all[i].paragraphs) ELSE all[i].paragraphs

GoodChunk(all, i) ==
    LET paragraphs == all[i].paragraphs
    IN  /\ Fresh(all, i) # <<>>
        /\ \A j \in DOMAIN paragraphs : paragraphs[j].page = all[i].page
        /\ SamePage(all, i) =>
              /\ Head(paragraphs) = Last(all[i - 1].paragraphs)
              /\ Words(all[i - 1].paragraphs) >= MIN_CHUNK_WORDS
        /\ \/ Words(paragraphs) <= MAX_CHUNK_WORDS
           \/ Len(Fresh(all, i)) = 1
           \/ Words(Front(paragraphs)) < MIN_CHUNK_WORDS

ChunksKeepParagraphs ==
    /\ FlattenSeq([i \in DOMAIN ChunksSoFar |-> Fresh(ChunksSoFar, i)]) \o pending = text
    /\ \A i \in DOMAIN ChunksSoFar : GoodChunk(ChunksSoFar, i)
=============================================================================
