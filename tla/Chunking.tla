------------------------------ MODULE Chunking ------------------------------
(***************************************************************************)
(* From a markdown file to the texts of its chunks: extract_sections       *)
(* (ingestion/markdown.py) splits at headings, chunk_markdown_sections     *)
(* (ingestion/chunking.py) splits a section that is over the budget at     *)
(* paragraphs and fenced code, and repeats the end of a chunk in front of  *)
(* the next.  Each of the three loops is an action per line or block.      *)
(*                                                                         *)
(* A document is a sequence of lines, and of a line we keep what decides   *)
(* something: that it is blank, text of so many words, a heading of some   *)
(* level, or a fence of some length (of one character).  A word is known   *)
(* by its line and its place there.  Line breaks and the words of          *)
(* frontmatter, which is cut off before, are left out.                     *)
(***************************************************************************)
EXTENDS Integers, FiniteSets, SequencesExt

CONSTANTS
    LineKinds,       \* the lines that a document is written with
    MaxLines,        \* bound: the lines of a document
    ChunkSettings    \* the settings.chunking in use

Kinds == {"text", "blank", "heading", "fence"}

(* `size` is the words of a text, the level of a heading, the length of a  *)
(* fence.                                                                  *)
Line == [kind: Kinds, size: Nat]

ASSUME ChunkingAssumption ==
    /\ LineKinds \subseteq Line /\ MaxLines \in Nat
    /\ \A l \in LineKinds : l.kind # "blank" => l.size > 0
    /\ ChunkSettings \subseteq
         [maxTokens: Nat \ {0}, overlap: Nat, preserveCode: BOOLEAN]

VARIABLES
    document,   \* the lines of the file
    chunking,   \* the settings
    sections,   \* what extract_sections has found: a heading path and a text
    path,       \* the headings that are open, active_heading_path
    blocks,     \* of each section under way or done, what it was split into
    chunks,     \* the chunks, with what each repeats and what is its own
    open,       \* the chunk that is being filled, current_blocks
    scan,       \* the loop: the next line or block, what was collected, and
                \* the length of the fence that is open (0: none)
    stage       \* "reading", "sectioned", "splitting" or "packing"

chunkVars ==
    <<document, chunking, sections, path, blocks, chunks, open, scan, stage>>

Documents == UNION {[1 .. n -> LineKinds] : n \in 0 .. MaxLines}

-----------------------------------------------------------------------------
IsFence(i)   == document[i].kind = "fence"
IsHeading(i) == document[i].kind = "heading"
IsBlank(i)   == document[i].kind = "blank"

(* The tokens that re.findall(r"\S+") and split() find in a line; "# A B"  *)
(* has one more than its heading has words.                                *)
WordCount(i) ==
    CASE document[i].kind = "text"  -> document[i].size
      [] document[i].kind = "blank" -> 0
      [] OTHER                      -> 1

LineWords(i) == [k \in 1 .. WordCount(i) |-> <<i, k>>]

(* A text: its lines, and their words. *)
NoText == [lines |-> << >>, words |-> << >>]

Extended(text, i) ==
    [lines |-> Append(text.lines, i), words |-> text.words \o LineWords(i)]

(* What is left of a text without a word: nothing. *)
Added(list, text, item) ==
    IF text.words = << >> THEN list ELSE Append(list, item)

Begin == [at |-> 1, text |-> NoText, fence |-> 0]

(* What a chunk repeats are the words that end the chunk before it. *)
Chunk(section, repeated, own) ==
    [section |-> section, repeated |-> repeated, own |-> own]

TextOf(chunk) == chunk.repeated \o chunk.own

Nothing == Chunk(0, << >>, << >>)

ChunkingInit ==
    /\ document \in Documents
    /\ chunking \in ChunkSettings
    /\ sections = << >> /\ path = << >> /\ blocks = << >> /\ chunks = << >>
    /\ open = Nothing /\ scan = Begin
    /\ stage = "reading"

(* The fence that is open after line i. *)
OpenFence(fence, i) ==
    IF ~IsFence(i) THEN fence
    ELSE IF fence = 0 THEN document[i].size
    ELSE IF document[i].size >= fence THEN 0 ELSE fence

-----------------------------------------------------------------------------
(* extract_sections *)

(* mutant: a heading of the same level stays on the stack *)
StackWithSibling(stack, i) ==
    Append(SubSeq(stack, 1, IF Len(stack) < document[i].size THEN Len(stack)
                            ELSE document[i].size), i)

(* heading_stack[: level - 1], and the heading. *)
Stack(stack, i) ==
    LET kept == document[i].size - 1
    IN  Append(SubSeq(stack, 1, IF Len(stack) < kept THEN Len(stack) ELSE kept),
               i)

(* flush_current *)
Flushed == Added(sections, scan.text, [path |-> path, text |-> scan.text])

Reading ==
    stage = "reading" /\ UNCHANGED <<document, chunking, blocks, chunks, open>>

ReadHeading ==
    /\ Reading /\ scan.at <= Len(document)
    /\ IsHeading(scan.at) /\ scan.fence = 0
    /\ sections' = Flushed
    /\ path' = Stack(path, scan.at)
    /\ scan' = [scan EXCEPT !.at = @ + 1, !.text = NoText]
    /\ UNCHANGED stage

ReadLine ==
    /\ Reading /\ scan.at <= Len(document)
    /\ ~(IsHeading(scan.at) /\ scan.fence = 0)
    /\ scan' = [at    |-> scan.at + 1,
                text  |-> Extended(scan.text, scan.at),
                fence |-> OpenFence(scan.fence, scan.at)]
    /\ UNCHANGED <<sections, path, stage>>

EndOfDocument ==
    /\ Reading /\ scan.at > Len(document)
    /\ sections' = Flushed
    /\ scan' = Begin
    /\ stage' = "sectioned"
    /\ UNCHANGED path

-----------------------------------------------------------------------------
(* chunk_markdown_sections: the section under way is the last that has     *)
(* blocks.                                                                 *)
Current == Len(blocks)

AllChunked == stage = "sectioned" /\ Current = Len(sections)

NextSection ==
    /\ stage = "sectioned" /\ Current < Len(sections)
    /\ LET words == sections[Current + 1].text.words
       IN  IF Len(words) <= chunking.maxTokens
           THEN /\ chunks' = Append(chunks, Chunk(Current + 1, << >>, words))
                /\ UNCHANGED stage
           ELSE stage' = "splitting" /\ UNCHANGED chunks
    /\ blocks' = Append(blocks, << >>)
    /\ UNCHANGED <<document, chunking, sections, path, open, scan>>

(* _split_blocks: paragraphs and code blocks, each without blank edges;    *)
(* without preserve_code_blocks, re.split at blank lines.                  *)
Splitting ==
    /\ stage = "splitting"
    /\ UNCHANGED <<document, chunking, sections, path, chunks, open>>

SectionLines == sections[Current].text.lines

(* flush_paragraph, flush_code *)
FlushBlock(text) ==
    blocks' = [blocks EXCEPT ![Current] = Added(@, text, text)]

SplitNext(text, fence) ==
    scan' = [at |-> scan.at + 1, text |-> text, fence |-> fence]

(* mutant: the paragraph in front of a fence is not flushed *)
BeginCodeAtOnce(i) ==
    /\ scan.fence = 0 /\ IsFence(i) /\ chunking.preserveCode
    /\ UNCHANGED blocks
    /\ SplitNext(Extended(NoText, i), document[i].size)

BeginCode(i) ==
    /\ scan.fence = 0 /\ IsFence(i) /\ chunking.preserveCode
    /\ FlushBlock(scan.text)
    /\ SplitNext(Extended(NoText, i), document[i].size)

EndCode(i) ==
    /\ scan.fence # 0 /\ OpenFence(scan.fence, i) = 0
    /\ FlushBlock(Extended(scan.text, i))
    /\ SplitNext(NoText, 0)

EndParagraph(i) ==
    /\ scan.fence = 0 /\ IsBlank(i)
    /\ FlushBlock(scan.text)
    /\ SplitNext(NoText, 0)

CollectLine(i) ==
    /\ \/ scan.fence # 0 /\ OpenFence(scan.fence, i) # 0
       \/ scan.fence = 0 /\ ~IsBlank(i) /\ ~(IsFence(i) /\ chunking.preserveCode)
    /\ UNCHANGED blocks
    /\ SplitNext(Extended(scan.text, i), scan.fence)

SplitLine ==
    /\ Splitting /\ scan.at <= Len(SectionLines)
    /\ LET i == SectionLines[scan.at]
       IN  BeginCode(i) \/ EndCode(i) \/ EndParagraph(i) \/ CollectLine(i)
    /\ UNCHANGED stage

EndSplitting ==
    /\ Splitting /\ scan.at > Len(SectionLines)
    /\ FlushBlock(scan.text)
    /\ scan' = Begin
    /\ stage' = "packing"

(* _is_fenced_code_block *)
IsFencedCode(block) ==
    LET first == block.lines[1]
        last  == block.lines[Len(block.lines)]
    IN  /\ Len(block.lines) >= 2
        /\ IsFence(first) /\ IsFence(last)
        /\ document[last].size >= document[first].size

(* _tail_tokens *)
TailTokens(words) ==
    IF Len(words) <= chunking.overlap THEN words
    ELSE SubSeq(words, Len(words) - chunking.overlap + 1, Len(words))

Finalized == IF open.own = << >> THEN chunks ELSE Append(chunks, open)

(* mutant: the budget is compared before the block is counted *)
OverBudgetBefore(words) == Len(TextOf(open)) > chunking.maxTokens

(* projected > max_tokens *)
OverBudget(words) == Len(TextOf(open)) + Len(words) > chunking.maxTokens

(* _chunk_section_text: the loop over the blocks.  A section that is over  *)
(* the budget has a word, hence a block.                                   *)
Packing ==
    stage = "packing" /\ UNCHANGED <<document, chunking, sections, path, blocks>>

PackBlock ==
    /\ Packing /\ scan.at <= Len(blocks[Current])
    /\ LET block == blocks[Current][scan.at]
           code  == chunking.preserveCode /\ IsFencedCode(block)
           over  == open.own # << >> /\ OverBudget(block.words)
       IN  \/ /\ code
              /\ chunks' = Append(Finalized, Chunk(Current, << >>, block.words))
              /\ open' = Nothing
           \/ /\ ~code /\ over
              /\ chunks' = Append(chunks, open)
              /\ open' = Chunk(Current, TailTokens(TextOf(open)), block.words)
           \/ /\ ~code /\ ~over
              /\ open' = Chunk(Current, open.repeated, open.own \o block.words)
              /\ UNCHANGED chunks
    /\ scan' = [scan EXCEPT !.at = @ + 1]
    /\ UNCHANGED stage

EndSection ==
    /\ Packing /\ scan.at > Len(blocks[Current])
    /\ chunks' = Finalized
    /\ open' = Nothing
    /\ scan' = Begin
    /\ stage' = "sectioned"

(* The same file is ingested again. *)
IngestAgain ==
    /\ AllChunked /\ stage' = "reading"
    /\ sections' = << >> /\ path' = << >> /\ blocks' = << >> /\ chunks' = << >>
    /\ UNCHANGED <<document, chunking, open, scan>>

ChunkingNext ==
    \/ ReadHeading \/ ReadLine \/ EndOfDocument
    \/ NextSection \/ SplitLine \/ EndSplitting \/ PackBlock \/ EndSection
    \/ IngestAgain

ChunkingSpec == ChunkingInit /\ [][ChunkingNext]_chunkVars

-----------------------------------------------------------------------------
IsSectionHeading(i) ==
    /\ IsHeading(i)
    /\ \A s \in 1 .. Len(sections) : i \notin ToSet(sections[s].text.lines)

SectionHeadings == {i \in 1 .. Len(document) : IsSectionHeading(i)}

WordsOf(lines) == UNION {ToSet(LineWords(i)) : i \in lines}

ComesBefore(v, w) == v[1] < w[1] \/ (v[1] = w[1] /\ v[2] < w[2])

WordsInOrder(words) ==
    \A j, k \in 1 .. Len(words) : j < k => ComesBefore(words[j], words[k])

EndsWith(words, tail) ==
    /\ Len(tail) <= Len(words)
    /\ \A k \in 1 .. Len(tail) : tail[k] = words[Len(words) - Len(tail) + k]

(* The chunks, without what they repeat, are the text of the document in   *)
(* its order: no word is lost, doubled or moved, however fences, headings  *)
(* and paragraphs follow each other, except the headings, which are in the *)
(* paths; and what a chunk repeats ends the chunk before it in its section.*)
NothingIsLost ==
    AllChunked =>
      /\ UNION {ToSet(chunks[c].own) : c \in 1 .. Len(chunks)}
           = WordsOf((1 .. Len(document)) \ SectionHeadings)
      /\ \A c \in 1 .. Len(chunks) :
           /\ WordsInOrder(chunks[c].own)
           /\ \A d \in 1 .. c - 1 :
                \A v \in ToSet(chunks[d].own), w \in ToSet(chunks[c].own) :
                  ComesBefore(v, w)
           /\ chunks[c].repeated # << >> =>
                /\ c > 1 /\ chunks[c - 1].section = chunks[c].section
                /\ EndsWith(TextOf(chunks[c - 1]), chunks[c].repeated)

(* A chunk is over the budget only by what it repeats, which is no more    *)
(* than the overlap, unless it is one paragraph or code block, which is    *)
(* never split.                                                            *)
ChunksAreBounded ==
    AllChunked =>
      \A c \in 1 .. Len(chunks) :
        /\ Len(chunks[c].repeated) <= chunking.overlap
        /\ \/ Len(chunks[c].own) <= chunking.maxTokens
           \/ \E b \in ToSet(blocks[chunks[c].section]) : chunks[c].own = b.words

(* The headings above line i: those that no later one up to there closes.  *)
Ancestors(i) ==
    {h \in SectionHeadings :
       h < i /\ \A g \in SectionHeadings :
                  h < g /\ g < i => document[g].size > document[h].size}

(* No heading is more than one level below the heading before it. *)
LevelsAreUnbroken ==
    \A h \in SectionHeadings :
      \/ document[h].size = 1
      \/ \E g \in SectionHeadings :
           /\ g < h /\ document[h].size <= document[g].size + 1
           /\ \A f \in SectionHeadings : ~(g < f /\ f < h)

(* The heading path of a section, from which its chunks get their hashes   *)
(* and ids, is the headings above it.  Where a level is left out it may    *)
(* not be: under "# A", the second of two "### " headings comes below the  *)
(* first.                                                                  *)
PathsAreAncestors ==
    stage = "sectioned" /\ LevelsAreUnbroken =>
      \A s \in 1 .. Len(sections) :
        LET above == sections[s].path
        IN  /\ ToSet(above) = Ancestors(sections[s].text.lines[1])
            /\ \A k \in 1 .. Len(above) - 1 : above[k] < above[k + 1]
=============================================================================
