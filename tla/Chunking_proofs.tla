--------------------------- MODULE Chunking_proofs ---------------------------
(***************************************************************************)
(* Proofs about Chunking, for documents of any length, lines of any kind   *)
(* and any settings.                                                       *)
(***************************************************************************)
EXTENDS Chunking, SequenceTheorems, TLAPS

-----------------------------------------------------------------------------
(* Lists.                                                                  *)

LEMMA ElementsOf ==
    ASSUME NEW S, NEW s \in Seq(S)
    PROVE  /\ DOMAIN s = 1 .. Len(s) /\ Len(s) \in Nat
           /\ \A k \in 1 .. Len(s) : s[k] \in S
           /\ ToSet(s) = {s[k] : k \in 1 .. Len(s)}
           /\ ToSet(s) \in SUBSET S
           /\ ToSet(s) = {} <=> s = << >>
           /\ s = << >> <=> Len(s) = 0
<1>1. DOMAIN s = 1 .. Len(s) /\ Len(s) \in Nat /\ \A k \in 1 .. Len(s) : s[k] \in S
    BY LenProperties
<1>2. ToSet(s) = {s[k] : k \in 1 .. Len(s)}
    BY <1>1 DEF ToSet
<1>3. s = << >> <=> Len(s) = 0
    BY EmptySeq
<1>4. ToSet(s) = {} <=> Len(s) = 0
    BY <1>1, <1>2
<1> QED
    BY <1>1, <1>2, <1>3, <1>4

LEMMA EmptyList == ASSUME NEW S PROVE << >> \in Seq(S) /\ ToSet(<< >>) = {} /\ Len(<< >>) = 0
    BY ElementsOf, EmptySeq

LEMMA Appended ==
    ASSUME NEW S, NEW s \in Seq(S), NEW x \in S
    PROVE  /\ Append(s, x) \in Seq(S) /\ Len(Append(s, x)) = Len(s) + 1
           /\ Append(s, x)[Len(s) + 1] = x
           /\ \A k \in 1 .. Len(s) : Append(s, x)[k] = s[k]
           /\ ToSet(Append(s, x)) = ToSet(s) \cup {x}
<1>1. /\ Append(s, x) \in Seq(S) /\ Len(Append(s, x)) = Len(s) + 1
      /\ Append(s, x)[Len(s) + 1] = x
      /\ \A k \in 1 .. Len(s) : Append(s, x)[k] = s[k]
    BY AppendProperties
<1>2. Len(s) \in Nat /\ ToSet(s) = {s[k] : k \in 1 .. Len(s)}
    BY ElementsOf
<1>3. ToSet(Append(s, x)) = {Append(s, x)[k] : k \in 1 .. Len(s) + 1}
    <2> DEFINE longer == Append(s, x)
    <2>1. longer \in Seq(S) /\ Len(longer) = Len(s) + 1
        BY <1>1
    <2> HIDE DEF longer
    <2>2. ToSet(longer) = {longer[k] : k \in 1 .. Len(s) + 1}
        BY <2>1, ElementsOf
    <2> QED
        BY <2>2 DEF longer
<1>4. ToSet(Append(s, x)) = {Append(s, x)[k] : k \in 1 .. Len(s)} \cup {x}
    BY <1>1, <1>2, <1>3
<1>5. {Append(s, x)[k] : k \in 1 .. Len(s)} = {s[k] : k \in 1 .. Len(s)}
    BY <1>1
<1> QED
    BY <1>1, <1>2, <1>4, <1>5

LEMMA Joined ==
    ASSUME NEW S, NEW s \in Seq(S), NEW t \in Seq(S)
    PROVE  /\ s \o t \in Seq(S) /\ Len(s \o t) = Len(s) + Len(t)
           /\ \A k \in 1 .. Len(s) : (s \o t)[k] = s[k]
           /\ \A k \in 1 .. Len(t) : (s \o t)[Len(s) + k] = t[k]
           /\ ToSet(s \o t) = ToSet(s) \cup ToSet(t)
<1>1. /\ s \o t \in Seq(S) /\ Len(s \o t) = Len(s) + Len(t)
      /\ \A k \in 1 .. Len(s) + Len(t) :
           (s \o t)[k] = IF k <= Len(s) THEN s[k] ELSE t[k - Len(s)]
    BY ConcatProperties
<1>2. Len(s) \in Nat /\ Len(t) \in Nat
    BY ElementsOf
<1>3. \A k \in 1 .. Len(s) : (s \o t)[k] = s[k]
    BY <1>1, <1>2
<1>4. \A k \in 1 .. Len(t) : (s \o t)[Len(s) + k] = t[k]
    BY <1>1, <1>2
<1>5. /\ ToSet(s) = {s[k] : k \in 1 .. Len(s)} /\ ToSet(t) = {t[k] : k \in 1 .. Len(t)}
      /\ ToSet(s \o t) = {(s \o t)[k] : k \in 1 .. Len(s) + Len(t)}
    <2> DEFINE both == s \o t
    <2>1. both \in Seq(S) /\ Len(both) = Len(s) + Len(t)
        BY <1>1
    <2> HIDE DEF both
    <2>2. ToSet(both) = {both[k] : k \in 1 .. Len(s) + Len(t)}
        BY <2>1, ElementsOf
    <2> QED
        BY <2>2, ElementsOf DEF both
<1>6. ASSUME NEW k \in 1 .. Len(s) + Len(t)
      PROVE  \/ k \in 1 .. Len(s) /\ (s \o t)[k] = s[k]
             \/ k - Len(s) \in 1 .. Len(t) /\ (s \o t)[k] = t[k - Len(s)]
    BY <1>1, <1>2
<1>7. /\ \A k \in 1 .. Len(s) : k \in 1 .. Len(s) + Len(t)
      /\ \A k \in 1 .. Len(t) : Len(s) + k \in 1 .. Len(s) + Len(t)
    BY <1>2
<1>8. ToSet(s \o t) \subseteq ToSet(s) \cup ToSet(t)
    BY <1>5, <1>6
<1>9. ToSet(s) \subseteq ToSet(s \o t)
    BY <1>3, <1>5, <1>7
<1>10. ToSet(t) \subseteq ToSet(s \o t)
    BY <1>4, <1>5, <1>7
<1> QED
    BY <1>1, <1>3, <1>4, <1>8, <1>9, <1>10

(* The first n of a list, and one more. *)
LEMMA FirstOf ==
    ASSUME NEW S, NEW s \in Seq(S), NEW n \in 0 .. Len(s)
    PROVE  /\ SubSeq(s, 1, n) \in Seq(S) /\ Len(SubSeq(s, 1, n)) = n
           /\ \A k \in 1 .. n : SubSeq(s, 1, n)[k] = s[k]
           /\ ToSet(SubSeq(s, 1, n)) = {s[k] : k \in 1 .. n}
<1>1. /\ SubSeq(s, 1, n) \in Seq(S) /\ Len(SubSeq(s, 1, n)) = n
      /\ \A k \in 1 .. n : SubSeq(s, 1, n)[k] = s[k]
    BY ElementsOf, SubSeqProperties
<1>2. ToSet(SubSeq(s, 1, n)) = {SubSeq(s, 1, n)[k] : k \in 1 .. n}
    <2> DEFINE first == SubSeq(s, 1, n)
    <2>1. first \in Seq(S) /\ Len(first) = n
        BY <1>1
    <2> HIDE DEF first
    <2>2. ToSet(first) = {first[k] : k \in 1 .. n}
        BY <2>1, ElementsOf
    <2> QED
        BY <2>2 DEF first
<1> QED
    BY <1>1, <1>2

-----------------------------------------------------------------------------
(* The invariant.                                                          *)

LineNumbers == 1 .. Len(document)
Words       == (Nat \ {0}) \X (Nat \ {0})
Texts       == [lines: Seq(LineNumbers), words: Seq(Words)]
Chunks      == [section: Nat, repeated: Seq(Words), own: Seq(Words)]

Rising(lines) == \A j, k \in 1 .. Len(lines) : j < k => lines[j] < lines[k]

LinesOf(text) == ToSet(text.lines)

(* A text has the words of its lines, in their order. *)
IsText(text) ==
    /\ text \in Texts
    /\ Rising(text.lines) /\ WordsInOrder(text.words)
    /\ ToSet(text.words) = WordsOf(LinesOf(text))

(* All lines of a set before all of another; and so for words. *)
Above(S, T)  == \A i \in S, j \in T : i < j
Before(V, W) == \A v \in V, w \in W : ComesBefore(v, w)

(* Texts that follow each other and have a word each. *)
AreTexts(list) ==
    /\ list \in Seq(Texts)
    /\ \A b \in 1 .. Len(list) :
         /\ IsText(list[b]) /\ list[b].words # << >>
         /\ \A a \in 1 .. b - 1 : Above(LinesOf(list[a]), LinesOf(list[b]))

InTexts(list) == UNION {LinesOf(list[b]) : b \in 1 .. Len(list)}

(* The texts, and what was collected after them, are the given lines but   *)
(* for some without a word.                                                *)
Collected(list, text, lines) ==
    /\ AreTexts(list) /\ IsText(text)
    /\ Above(InTexts(list), LinesOf(text))
    /\ InTexts(list) \cup LinesOf(text) \subseteq lines
    /\ \A i \in lines \ (InTexts(list) \cup LinesOf(text)) : WordCount(i) = 0

SectionTexts == [s \in 1 .. Len(sections) |-> sections[s].text]

SettingsInv ==
    /\ document \in Seq(Line) /\ chunking \in ChunkSettings
    /\ \A i \in LineNumbers : ~IsBlank(i) => document[i].size > 0
    /\ stage \in {"reading", "sectioned", "splitting", "packing"}
    /\ scan \in [at: Nat \ {0}, text: Texts, fence: Nat]

(* The headings that are not in the texts, and those that were taken out.  *)
HeadingsBeside(list) == {h \in LineNumbers : IsHeading(h) /\ h \notin InTexts(list)}

Headings ==
    IF stage = "reading"
    THEN {h \in HeadingsBeside(SectionTexts) :
            h < scan.at /\ h \notin LinesOf(scan.text)}
    ELSE HeadingsBeside(SectionTexts)

SectionsInv ==
    /\ sections \in Seq([path: Seq(LineNumbers), text: Texts])
    /\ stage = "reading" =>
         /\ scan.at <= Len(document) + 1
         /\ Collected(SectionTexts, scan.text, (1 .. scan.at - 1) \ Headings)
         /\ Above(Headings, LinesOf(scan.text))
    /\ stage # "reading" =>
         Collected(SectionTexts, NoText, LineNumbers \ Headings)

(* The headings of H that are open at line i. *)
OpenAt(H, i) ==
    {h \in H : /\ h < i
               /\ \A g \in H : h < g /\ g < i => document[g].size > document[h].size}

Unbroken(H) ==
    \A h \in H :
      \/ document[h].size = 1
      \/ \E g \in H : /\ g < h /\ document[h].size <= document[g].size + 1
                      /\ \A f \in H : ~(g < f /\ f < h)

(* A heading of each level, down to that of the last heading. *)
IsPathAt(list, H, i) ==
    /\ Rising(list) /\ ToSet(list) = OpenAt(H, i)
    /\ \A k \in 1 .. Len(list) : document[list[k]].size = k
    /\ H # {} => list # << >> /\ \A h \in H : h <= list[Len(list)]

HasItsPath(section, H) ==
    Rising(section.path) /\ ToSet(section.path) = OpenAt(H, section.text.lines[1])

PathInv ==
    /\ path \in Seq(LineNumbers)
    /\ Unbroken(Headings) =>
         /\ stage = "reading" => IsPathAt(path, Headings, scan.at)
         /\ \A s \in 1 .. Len(sections) : HasItsPath(sections[s], Headings)

BlocksInv ==
    /\ blocks \in Seq(Seq(Texts)) /\ Current <= Len(sections)
    /\ stage = "reading" => blocks = << >>
    /\ stage \in {"splitting", "packing"} => Current > 0
    /\ stage = "sectioned" => scan = Begin
    /\ stage = "splitting" =>
         /\ scan.at <= Len(SectionLines) + 1
         /\ Collected(blocks[Current], scan.text, ToSet(SubSeq(SectionLines, 1, scan.at - 1)))
    /\ stage = "packing" =>
         /\ scan.text = NoText /\ scan.fence = 0
         /\ scan.at <= Len(blocks[Current]) + 1
         /\ Collected(blocks[Current], NoText, ToSet(SectionLines))

(* The sections that are wholly in chunks, and the words that are. *)
Finished == IF stage \in {"splitting", "packing"} THEN Current - 1 ELSE Current

WordsOfTexts(list, n) == UNION {ToSet(list[b].words) : b \in 1 .. n}

Placed ==
    WordsOfTexts(SectionTexts, Finished)
      \cup IF stage = "packing" THEN WordsOfTexts(blocks[Current], scan.at - 1) ELSE {}

OwnWords(list) == UNION {ToSet(list[c].own) : c \in 1 .. Len(list)}

(* What a chunk behind the given ones may be. *)
Follows(list, chunk) ==
    /\ WordsInOrder(chunk.own) /\ Before(OwnWords(list), ToSet(chunk.own))
    /\ Len(chunk.repeated) <= chunking.overlap
    /\ chunk.repeated # << >> =>
         /\ list # << >> /\ list[Len(list)].section = chunk.section
         /\ EndsWith(TextOf(list[Len(list)]), chunk.repeated)

Follow(list) == \A c \in 1 .. Len(list) : Follows(SubSeq(list, 1, c - 1), list[c])

Fits(list, chunk) ==
    \/ Len(chunk.own) <= chunking.maxTokens
    \/ \E b \in ToSet(list) : chunk.own = b.words

ChunksInv ==
    /\ chunks \in Seq(Chunks) /\ open \in Chunks
    /\ stage # "packing" => open = Nothing
    /\ OwnWords(chunks) \cup ToSet(open.own) = Placed
    /\ Follow(chunks)
    /\ \A c \in 1 .. Len(chunks) :
         /\ chunks[c].section \in 1 .. IF stage = "splitting" THEN Current - 1 ELSE Current
         /\ Fits(blocks[chunks[c].section], chunks[c])
    /\ open # Nothing =>
         open.section = Current /\ Follows(chunks, open) /\ Fits(blocks[Current], open)

ChunkingInv ==
    SettingsInv /\ SectionsInv /\ PathInv /\ BlocksInv /\ ChunksInv

-----------------------------------------------------------------------------
(* Words and texts.                                                        *)

LEMMA WordsOfLine ==
    ASSUME SettingsInv, NEW i \in LineNumbers
    PROVE  /\ WordCount(i) \in Nat
           /\ LineWords(i) \in Seq(Words) /\ Len(LineWords(i)) = WordCount(i)
           /\ ToSet(LineWords(i)) = {<<i, k>> : k \in 1 .. WordCount(i)}
           /\ WordsInOrder(LineWords(i))
<1>1. document[i] \in Line /\ i \in Nat \ {0}
    BY ElementsOf DEF SettingsInv, LineNumbers
<1>2. WordCount(i) \in Nat
    BY <1>1 DEF WordCount, Line, Kinds
<1> DEFINE n == WordCount(i)
           words == [k \in 1 .. n |-> <<i, k>>]
<1>3. n \in Nat
    BY <1>2
<1> HIDE DEF n
<1>4. words \in [1 .. n -> Words]
    BY <1>1, <1>3 DEF Words
<1>5. words \in Seq(Words) /\ Len(words) = n
    BY <1>3, <1>4
<1>6. ToSet(words) = {words[k] : k \in 1 .. n}
    <2> HIDE DEF words
    <2> QED
        BY <1>5, ElementsOf
<1>7. \A k \in 1 .. n : words[k] = <<i, k>>
    OBVIOUS
<1>8. WordsInOrder(words)
    BY <1>1, <1>3, <1>5, <1>7 DEF WordsInOrder, ComesBefore
<1> QED
    BY <1>2, <1>5, <1>6, <1>7, <1>8 DEF LineWords, n

LEMMA WordsOfLines ==
    ASSUME SettingsInv, NEW S \in SUBSET LineNumbers
    PROVE  /\ WordsOf(S) \in SUBSET Words
           /\ \A w \in WordsOf(S) : w[1] \in S /\ w[2] \in 1 .. WordCount(w[1])
           /\ \A i \in S : \A k \in 1 .. WordCount(i) : <<i, k>> \in WordsOf(S)
           /\ WordsOf(S) = {} <=> \A i \in S : WordCount(i) = 0
<1>1. ASSUME NEW i \in S
      PROVE  /\ ToSet(LineWords(i)) = {<<i, k>> : k \in 1 .. WordCount(i)}
             /\ ToSet(LineWords(i)) \in SUBSET Words
             /\ WordCount(i) \in Nat
    BY WordsOfLine, ElementsOf
<1>2. WordsOf(S) \in SUBSET Words
    BY <1>1 DEF WordsOf
<1>3. ASSUME NEW w \in WordsOf(S) PROVE w[1] \in S /\ w[2] \in 1 .. WordCount(w[1])
    BY <1>1 DEF WordsOf
<1>4. ASSUME NEW i \in S, NEW k \in 1 .. WordCount(i) PROVE <<i, k>> \in WordsOf(S)
    BY <1>1 DEF WordsOf
<1>5. WordsOf(S) = {} => \A i \in S : WordCount(i) = 0
    <2>1. ASSUME WordsOf(S) = {}, NEW i \in S PROVE WordCount(i) = 0
        <3>1. ~(1 \in 1 .. WordCount(i))
            BY <1>4, <2>1
        <3> QED
            BY <1>1, <3>1
    <2> QED
        BY <2>1
<1>6. (\A i \in S : WordCount(i) = 0) => WordsOf(S) = {}
    BY <1>3
<1> QED
    BY <1>2, <1>3, <1>4, <1>5, <1>6

LEMMA WordsOfMore ==
    ASSUME NEW S, NEW T PROVE WordsOf(S \cup T) = WordsOf(S) \cup WordsOf(T)
    BY DEF WordsOf

LEMMA WordsOfSingle == ASSUME NEW i PROVE WordsOf({i}) = ToSet(LineWords(i))
    BY DEF WordsOf

LEMMA AboveIsBefore ==
    ASSUME SettingsInv, NEW S \in SUBSET LineNumbers, NEW T \in SUBSET LineNumbers,
           Above(S, T)
    PROVE  Before(WordsOf(S), WordsOf(T))
    BY WordsOfLines DEF Above, Before, ComesBefore

LEMMA JoinedInOrder ==
    ASSUME NEW s \in Seq(Words), NEW t \in Seq(Words),
           WordsInOrder(s), WordsInOrder(t), Before(ToSet(s), ToSet(t))
    PROVE  WordsInOrder(s \o t)
<1> DEFINE m == Len(s)  n == Len(t)
<1>1. m \in Nat /\ n \in Nat
    BY ElementsOf
<1>2. /\ Len(s \o t) = m + n
      /\ \A k \in 1 .. m : (s \o t)[k] = s[k] /\ s[k] \in ToSet(s)
      /\ \A k \in 1 .. n : (s \o t)[m + k] = t[k] /\ t[k] \in ToSet(t)
    BY Joined, ElementsOf
<1> SUFFICES ASSUME NEW j \in 1 .. m + n, NEW k \in 1 .. m + n, j < k
             PROVE  ComesBefore((s \o t)[j], (s \o t)[k])
    BY <1>2 DEF WordsInOrder
<1> HIDE DEF m, n
<1>3. CASE k <= m
    BY <1>1, <1>2, <1>3 DEF WordsInOrder, m
<1>4. CASE j <= m /\ m < k
    <2>1. k - m \in 1 .. n /\ k = m + (k - m) /\ j \in 1 .. m
        BY <1>1, <1>4
    <2>2. (s \o t)[k] \in ToSet(t) /\ (s \o t)[j] \in ToSet(s)
        BY <1>2, <2>1
    <2> QED
        BY <2>2 DEF Before
<1>5. CASE m < j
    <2>1. /\ k - m \in 1 .. n /\ k = m + (k - m)
          /\ j - m \in 1 .. n /\ j = m + (j - m) /\ j - m < k - m
        BY <1>1, <1>5
    <2>2. (s \o t)[k] = t[k - m] /\ (s \o t)[j] = t[j - m]
        BY <1>2, <2>1
    <2> QED
        BY <2>1, <2>2 DEF WordsInOrder, n
<1>6. k <= m \/ (j <= m /\ m < k) \/ m < j
    BY <1>1
<1> QED
    BY <1>3, <1>4, <1>5, <1>6

LEMMA AppendedRises ==
    ASSUME NEW s \in Seq(LineNumbers), Rising(s), NEW i \in LineNumbers,
           \A j \in ToSet(s) : j < i
    PROVE  Rising(Append(s, i))
<1>1. /\ Len(s) \in Nat /\ \A k \in 1 .. Len(s) : s[k] \in ToSet(s)
      /\ Len(Append(s, i)) = Len(s) + 1 /\ Append(s, i)[Len(s) + 1] = i
      /\ \A k \in 1 .. Len(s) : Append(s, i)[k] = s[k]
    BY Appended, ElementsOf
<1> SUFFICES ASSUME NEW j \in 1 .. Len(s) + 1, NEW k \in 1 .. Len(s) + 1, j < k
             PROVE  Append(s, i)[j] < Append(s, i)[k]
    BY <1>1 DEF Rising
<1>2. j \in 1 .. Len(s) /\ (k = Len(s) + 1 \/ k \in 1 .. Len(s))
    BY <1>1
<1> QED
    BY <1>1, <1>2 DEF Rising

LEMMA EmptyText == IsText(NoText) /\ LinesOf(NoText) = {}
<1>1. /\ << >> \in Seq(LineNumbers) /\ << >> \in Seq(Words)
      /\ ToSet(<< >>) = {} /\ Len(<< >>) = 0
    BY EmptyList
<1>2. WordsOf({}) = {}
    BY DEF WordsOf
<1>3. Rising(<< >>) /\ WordsInOrder(<< >>)
    BY <1>1 DEF Rising, WordsInOrder
<1> QED
    BY <1>1, <1>2, <1>3 DEF IsText, LinesOf, NoText, Texts

LEMMA ExtendedText ==
    ASSUME SettingsInv, NEW text, IsText(text), NEW i \in LineNumbers,
           \A j \in LinesOf(text) : j < i
    PROVE  IsText(Extended(text, i)) /\ LinesOf(Extended(text, i)) = LinesOf(text) \cup {i}
<1> DEFINE more == Extended(text, i)
<1>1. /\ text.lines \in Seq(LineNumbers) /\ Rising(text.lines)
      /\ text.words \in Seq(Words) /\ WordsInOrder(text.words)
      /\ ToSet(text.words) = WordsOf(LinesOf(text))
      /\ LinesOf(text) = ToSet(text.lines) /\ LinesOf(text) \in SUBSET LineNumbers
    BY ElementsOf DEF IsText, Texts, LinesOf
<1>2. /\ LineWords(i) \in Seq(Words) /\ WordsInOrder(LineWords(i))
      /\ ToSet(LineWords(i)) = WordsOf({i})
    BY WordsOfLine, WordsOfSingle
<1>3. Before(WordsOf(LinesOf(text)), WordsOf({i}))
    BY <1>1, AboveIsBefore DEF Above
<1>4. more.lines = Append(text.lines, i) /\ more.words = text.words \o LineWords(i)
    BY DEF Extended
<1>5. more.lines \in Seq(LineNumbers) /\ ToSet(more.lines) = LinesOf(text) \cup {i}
    BY <1>1, <1>4, Appended
<1>6. Rising(more.lines)
    BY <1>1, <1>4, AppendedRises
<1>7. more.words \in Seq(Words) /\ ToSet(more.words) = WordsOf(LinesOf(text) \cup {i})
    <2>1. /\ text.words \o LineWords(i) \in Seq(Words)
          /\ ToSet(text.words \o LineWords(i)) = ToSet(text.words) \cup ToSet(LineWords(i))
        BY <1>1, <1>2, Joined
    <2>2. WordsOf(LinesOf(text) \cup {i}) = WordsOf(LinesOf(text)) \cup WordsOf({i})
        BY WordsOfMore
    <2> QED
        BY <1>1, <1>2, <1>4, <2>1, <2>2
<1>8. WordsInOrder(more.words)
    BY <1>1, <1>2, <1>3, <1>4, JoinedInOrder
<1>9. more \in Texts
    BY <1>4, <1>5, <1>7 DEF Extended, Texts
<1> QED
    BY <1>5, <1>6, <1>7, <1>8, <1>9 DEF IsText, LinesOf

LEMMA TextWords ==
    ASSUME SettingsInv, NEW text, IsText(text)
    PROVE  /\ text \in Texts /\ LinesOf(text) \in SUBSET LineNumbers
           /\ text.words = << >> <=> \A i \in LinesOf(text) : WordCount(i) = 0
           /\ ToSet(text.words) \in SUBSET Words
           /\ text.words # << >> => text.lines # << >>
<1>1. /\ text \in Texts /\ LinesOf(text) \in SUBSET LineNumbers
      /\ text.words \in Seq(Words) /\ ToSet(text.words) = WordsOf(LinesOf(text))
      /\ text.lines \in Seq(LineNumbers)
    BY ElementsOf DEF IsText, Texts, LinesOf
<1>2. text.words = << >> <=> \A i \in LinesOf(text) : WordCount(i) = 0
    BY <1>1, ElementsOf, WordsOfLines
<1>3. text.lines = << >> => LinesOf(text) = {}
    BY <1>1, ElementsOf DEF LinesOf
<1> QED
    BY <1>1, <1>2, <1>3, ElementsOf

(* What is in a list of texts with one more. *)
LEMMA OneMoreText ==
    ASSUME NEW list \in Seq(Texts), NEW text \in Texts
    PROVE  InTexts(Append(list, text)) = InTexts(list) \cup LinesOf(text)
<1>1. /\ Len(list) \in Nat /\ Len(Append(list, text)) = Len(list) + 1
      /\ Append(list, text)[Len(list) + 1] = text
      /\ \A k \in 1 .. Len(list) : Append(list, text)[k] = list[k]
    BY ElementsOf, Appended
<1>2. 1 .. Len(list) + 1 = (1 .. Len(list)) \cup {Len(list) + 1}
    BY <1>1
<1> QED
    BY <1>1, <1>2 DEF InTexts

LEMMA NoTexts == AreTexts(<< >>) /\ InTexts(<< >>) = {}
    BY EmptyList DEF AreTexts, InTexts

LEMMA LinesInTexts ==
    ASSUME SettingsInv, NEW list, AreTexts(list)
    PROVE  /\ list \in Seq(Texts) /\ Len(list) \in Nat
           /\ InTexts(list) \in SUBSET LineNumbers
           /\ \A b \in 1 .. Len(list) : LinesOf(list[b]) \subseteq InTexts(list)
<1>1. list \in Seq(Texts) /\ Len(list) \in Nat
    BY ElementsOf DEF AreTexts
<1>2. \A b \in 1 .. Len(list) : LinesOf(list[b]) \in SUBSET LineNumbers
    BY TextWords DEF AreTexts
<1> QED
    BY <1>1, <1>2 DEF InTexts

LEMMA AppendedTexts ==
    ASSUME SettingsInv, NEW list, AreTexts(list), NEW text, IsText(text),
           text.words # << >>, Above(InTexts(list), LinesOf(text))
    PROVE  AreTexts(Append(list, text))
<1> DEFINE more == Append(list, text)
<1>1. /\ list \in Seq(Texts) /\ Len(list) \in Nat /\ text \in Texts
      /\ more \in Seq(Texts) /\ Len(more) = Len(list) + 1
      /\ more[Len(list) + 1] = text
      /\ \A k \in 1 .. Len(list) : more[k] = list[k]
    BY LinesInTexts, Appended DEF IsText
<1> HIDE DEF more
<1>2. ASSUME NEW b \in 1 .. Len(list)
      PROVE  /\ IsText(more[b]) /\ more[b].words # << >>
             /\ \A a \in 1 .. b - 1 : Above(LinesOf(more[a]), LinesOf(more[b]))
    <2>1. \A a \in 1 .. b - 1 : more[a] = list[a]
        BY <1>1
    <2> QED
        BY <1>1, <2>1 DEF AreTexts
<1>3. \A a \in 1 .. Len(list) : Above(LinesOf(more[a]), LinesOf(text))
    BY <1>1, LinesInTexts DEF Above
<1>4. \A b \in 1 .. Len(more) : b \in 1 .. Len(list) \/ b = Len(list) + 1
    BY <1>1
<1>5. Len(list) + 1 - 1 = Len(list)
    BY <1>1
<1>6. AreTexts(more)
    BY <1>1, <1>2, <1>3, <1>4, <1>5 DEF AreTexts
<1> QED
    BY <1>6 DEF more

(* flush_current, flush_paragraph and flush_code lose no word. *)
LEMMA AddedIsCollected ==
    ASSUME SettingsInv, NEW list, NEW text, NEW lines, Collected(list, text, lines)
    PROVE  Collected(Added(list, text, text), NoText, lines)
<1>1. /\ AreTexts(list) /\ IsText(text) /\ list \in Seq(Texts) /\ text \in Texts
      /\ IsText(NoText) /\ LinesOf(NoText) = {}
    BY LinesInTexts, TextWords, EmptyText DEF Collected
<1>2. CASE text.words = << >>
    <2>1. Added(list, text, text) = list
        BY <1>2 DEF Added
    <2>2. \A i \in LinesOf(text) : WordCount(i) = 0
        BY <1>1, <1>2, TextWords
    <2>3. \A i \in lines \ InTexts(list) : WordCount(i) = 0
        BY <2>2 DEF Collected
    <2> QED
        BY <1>1, <2>1, <2>3 DEF Collected, Above
<1>3. CASE text.words # << >>
    <2>1. Added(list, text, text) = Append(list, text)
        BY <1>3 DEF Added
    <2>2. InTexts(Append(list, text)) = InTexts(list) \cup LinesOf(text)
        BY <1>1, OneMoreText
    <2>3. AreTexts(Append(list, text))
        BY <1>1, <1>3, AppendedTexts DEF Collected
    <2> QED
        BY <1>1, <2>1, <2>2, <2>3 DEF Collected, Above
<1> QED
    BY <1>2, <1>3

LEMMA ExtendedIsCollected ==
    ASSUME SettingsInv, NEW list, NEW text, NEW lines, Collected(list, text, lines),
           NEW i \in LineNumbers, \A j \in lines : j < i
    PROVE  Collected(list, Extended(text, i), lines \cup {i})
<1>1. IsText(Extended(text, i)) /\ LinesOf(Extended(text, i)) = LinesOf(text) \cup {i}
    BY ExtendedText DEF Collected
<1>2. Above(InTexts(list), LinesOf(text) \cup {i})
    BY DEF Collected, Above
<1> QED
    BY <1>1, <1>2 DEF Collected

LEMMA SkippedIsCollected ==
    ASSUME SettingsInv, NEW list, NEW text, NEW lines, Collected(list, text, lines),
           NEW i \in LineNumbers, WordCount(i) = 0
    PROVE  Collected(list, text, lines \cup {i})
    BY DEF Collected

-----------------------------------------------------------------------------
(* Headings.                                                               *)

LEMMA HeadingsBesideAdded ==
    ASSUME SettingsInv, NEW list, NEW text, NEW lines, Collected(list, text, lines)
    PROVE  HeadingsBeside(Added(list, text, text)) = HeadingsBeside(list) \ LinesOf(text)
<1>1. /\ AreTexts(list) /\ IsText(text) /\ list \in Seq(Texts) /\ text \in Texts
    BY LinesInTexts, TextWords DEF Collected
<1>2. CASE text.words = << >>
    <2>1. \A i \in LinesOf(text) : ~IsHeading(i)
        BY <1>1, <1>2, TextWords DEF WordCount, IsHeading
    <2> QED
        BY <1>2, <2>1 DEF Added, HeadingsBeside
<1>3. CASE text.words # << >>
    <2>1. InTexts(Added(list, text, text)) = InTexts(list) \cup LinesOf(text)
        BY <1>1, <1>3, OneMoreText DEF Added
    <2> QED
        BY <2>1 DEF HeadingsBeside
<1> QED
    BY <1>2, <1>3

LEMMA UnbrokenBefore ==
    ASSUME SettingsInv, NEW H \in SUBSET LineNumbers, NEW i \in LineNumbers,
           \A h \in H : h < i, Unbroken(H \cup {i})
    PROVE  /\ Unbroken(H)
           /\ \/ document[i].size = 1
              \/ \E g \in H : /\ document[i].size <= document[g].size + 1
                              /\ \A f \in H : f <= g
<1>1. LineNumbers \subseteq Nat
    BY DEF LineNumbers
<1>2. ASSUME NEW h \in H
      PROVE  \/ document[h].size = 1
             \/ \E g \in H : /\ g < h /\ document[h].size <= document[g].size + 1
                             /\ \A f \in H : ~(g < f /\ f < h)
    <2>1. \/ document[h].size = 1
          \/ \E g \in H \cup {i} : /\ g < h /\ document[h].size <= document[g].size + 1
                                   /\ \A f \in H \cup {i} : ~(g < f /\ f < h)
        BY <1>2 DEF Unbroken
    <2>2. ~(i < h)
        BY <1>1, <1>2
    <2> QED
        BY <2>1, <2>2
<1>3. \/ document[i].size = 1
      \/ \E g \in H \cup {i} : /\ g < i /\ document[i].size <= document[g].size + 1
                               /\ \A f \in H \cup {i} : ~(g < f /\ f < i)
    BY DEF Unbroken
<1>4. \/ document[i].size = 1
      \/ \E g \in H : /\ document[i].size <= document[g].size + 1
                      /\ \A f \in H : f <= g
    BY <1>1, <1>3
<1> QED
    BY <1>2, <1>4 DEF Unbroken

LEMMA OpenHeadings ==
    ASSUME SettingsInv, NEW H \in SUBSET LineNumbers, NEW i \in LineNumbers,
           \A h \in H : h < i
    PROVE  /\ OpenAt(H \cup {i}, i + 1)
                = {h \in OpenAt(H, i) : document[i].size > document[h].size} \cup {i}
           /\ \A j \in 1 .. i : OpenAt(H \cup {i}, j) = OpenAt(H, j)
<1>1. LineNumbers \subseteq Nat
    BY DEF LineNumbers
<1>2. \A g \in H \cup {i}, h \in H : (h < g /\ g < i + 1) <=> (h < g)
    BY <1>1
<1>3. ASSUME NEW h \in H
      PROVE  h \in OpenAt(H \cup {i}, i + 1)
               <=> h \in OpenAt(H, i) /\ document[i].size > document[h].size
    BY <1>1, <1>3 DEF OpenAt
<1>4. i \in OpenAt(H \cup {i}, i + 1)
    BY <1>1 DEF OpenAt
<1>5. OpenAt(H \cup {i}, i + 1) \subseteq H \cup {i} /\ OpenAt(H, i) \subseteq H
    BY DEF OpenAt
<1>6. ASSUME NEW j \in 1 .. i PROVE OpenAt(H \cup {i}, j) = OpenAt(H, j)
    BY <1>1 DEF OpenAt
<1> QED
    BY <1>3, <1>4, <1>5, <1>6

LEMMA OpenBehindAll ==
    ASSUME NEW H, NEW i, NEW j, \A h \in H : h < i /\ h < j
    PROVE  OpenAt(H, i) = OpenAt(H, j)
    BY DEF OpenAt

LEMMA LevelOfHeading ==
    ASSUME SettingsInv, NEW h \in LineNumbers
    PROVE  h \in Nat /\ document[h].size \in Nat /\ (IsHeading(h) => document[h].size > 0)
<1>1. document[h] \in Line /\ h \in Nat
    BY ElementsOf DEF SettingsInv, LineNumbers
<1>2. IsHeading(h) => ~IsBlank(h)
    BY DEF IsHeading, IsBlank
<1> QED
    BY <1>1, <1>2 DEF SettingsInv, Line

LEMMA StackIsList ==
    ASSUME SettingsInv, NEW i \in LineNumbers, IsHeading(i), NEW list \in Seq(LineNumbers)
    PROVE  Stack(list, i) \in Seq(LineNumbers)
<1> DEFINE kept == document[i].size - 1
           n == IF Len(list) < kept THEN Len(list) ELSE kept
<1>1. kept \in Nat /\ Len(list) \in Nat
    BY LevelOfHeading, ElementsOf
<1>2. n \in 0 .. Len(list)
    BY <1>1
<1>3. Stack(list, i) = Append(SubSeq(list, 1, n), i)
    BY DEF Stack
<1> HIDE DEF n
<1>4. SubSeq(list, 1, n) \in Seq(LineNumbers)
    BY <1>2, FirstOf
<1> QED
    BY <1>3, <1>4, Appended

(* heading_stack: cut at the level of a heading, it has the headings above *)
(* what follows, if no level was left out.                                 *)
LEMMA StackIsPath ==
    ASSUME SettingsInv, NEW H \in SUBSET LineNumbers, NEW i \in LineNumbers,
           IsHeading(i), \A h \in H : h < i, Unbroken(H \cup {i}),
           NEW list \in Seq(LineNumbers), IsPathAt(list, H, i)
    PROVE  /\ Stack(list, i) \in Seq(LineNumbers)
           /\ IsPathAt(Stack(list, i), H \cup {i}, i + 1)
<1> DEFINE n == document[i].size - 1
           kept == SubSeq(list, 1, n)
           size == Len(list)
<1>1. /\ size \in Nat /\ LineNumbers \subseteq Nat
      /\ \A h \in LineNumbers : document[h].size \in Nat
      /\ document[i].size > 0
      /\ \A k \in 1 .. size : list[k] \in LineNumbers
      /\ ToSet(list) = {list[k] : k \in 1 .. size}
    BY LevelOfHeading, ElementsOf
<1>2. /\ Rising(list) /\ {list[k] : k \in 1 .. size} = OpenAt(H, i)
      /\ \A k \in 1 .. size : document[list[k]].size = k
      /\ H # {} => size > 0 /\ \A h \in H : h <= list[size]
    BY <1>1, ElementsOf DEF IsPathAt
<1>3. n \in 0 .. size
    <2>1. \/ n = 0
          \/ \E g \in H : n <= document[g].size /\ \A f \in H : f <= g
        <3>1. \/ document[i].size = 1
              \/ \E g \in H : /\ document[i].size <= document[g].size + 1
                              /\ \A f \in H : f <= g
            BY UnbrokenBefore
        <3> QED
            BY <1>1, <3>1
    <2>2. ASSUME NEW g \in H, \A f \in H : f <= g PROVE document[g].size = size
        <3>1. size > 0 /\ g <= list[size] /\ list[size] \in OpenAt(H, i)
            BY <1>1, <1>2, <2>2
        <3>2. list[size] \in H
            BY <3>1 DEF OpenAt
        <3>3. g = list[size]
            <4>1. list[size] <= g /\ g \in Nat /\ list[size] \in Nat
                BY <1>1, <2>2, <3>2
            <4> QED
                BY <3>1, <4>1
        <3> QED
            BY <1>1, <1>2, <3>1, <3>3
    <2> QED
        BY <1>1, <2>1, <2>2
<1>4. Stack(list, i) = Append(kept, i)
    BY <1>1, <1>3 DEF Stack
<1>5. /\ kept \in Seq(LineNumbers) /\ Len(kept) = n
      /\ \A k \in 1 .. n : kept[k] = list[k]
      /\ ToSet(kept) = {list[k] : k \in 1 .. n}
    BY <1>3, FirstOf
<1>6. /\ Append(kept, i) \in Seq(LineNumbers) /\ Len(Append(kept, i)) = n + 1
      /\ Append(kept, i)[n + 1] = i
      /\ \A k \in 1 .. n : Append(kept, i)[k] = list[k]
      /\ ToSet(Append(kept, i)) = {list[k] : k \in 1 .. n} \cup {i}
    <2> HIDE DEF kept, n
    <2>1. /\ Append(kept, i) \in Seq(LineNumbers) /\ Len(Append(kept, i)) = Len(kept) + 1
          /\ Append(kept, i)[Len(kept) + 1] = i
          /\ \A k \in 1 .. Len(kept) : Append(kept, i)[k] = kept[k]
          /\ ToSet(Append(kept, i)) = ToSet(kept) \cup {i}
        BY <1>5, Appended
    <2> QED
        BY <1>5, <2>1
<1>7. \A k \in 1 .. n : k \in 1 .. size /\ list[k] \in H /\ list[k] < i
    BY <1>1, <1>2, <1>3 DEF OpenAt
<1>8. Rising(kept)
    <2> HIDE DEF kept, n, size
    <2>1. \A k \in 1 .. n : k \in 1 .. size
        BY <1>1, <1>3
    <2>2. \A j, k \in 1 .. size : j < k => list[j] < list[k]
        BY <1>2 DEF Rising, size
    <2> QED
        BY <1>5, <2>1, <2>2 DEF Rising
<1>9. Rising(Append(kept, i))
    BY <1>5, <1>7, <1>8, AppendedRises
<1>10. {list[k] : k \in 1 .. n} = {h \in OpenAt(H, i) : document[i].size > document[h].size}
    <2>1. \A k \in 1 .. size : k \in 1 .. n <=> document[i].size > document[list[k]].size
        BY <1>1, <1>2, <1>3
    <2> QED
        BY <1>2, <1>7, <2>1
<1>11. ToSet(Append(kept, i)) = OpenAt(H \cup {i}, i + 1)
    <2>1. OpenAt(H \cup {i}, i + 1)
            = {h \in OpenAt(H, i) : document[i].size > document[h].size} \cup {i}
        BY OpenHeadings
    <2> QED
        BY <1>6, <1>10, <2>1
<1>12. \A k \in 1 .. n + 1 : document[Append(kept, i)[k]].size = k
    <2>1. \A k \in 1 .. n + 1 : k = n + 1 \/ k \in 1 .. n
        BY <1>3
    <2> QED
        BY <1>1, <1>2, <1>6, <1>7, <2>1
<1>13. Append(kept, i) # << >> /\ \A h \in H \cup {i} : h <= Append(kept, i)[n + 1]
    BY <1>1, <1>3, <1>6, EmptySeq
<1> QED
    BY <1>4, <1>6, <1>9, <1>11, <1>12, <1>13 DEF IsPathAt

-----------------------------------------------------------------------------
(* No action changes the document: what is said of it stays.               *)

LEMMA SameWords ==
    ASSUME document' = document, NEW S PROVE WordsOf(S)' = WordsOf(S)
<1>1. \A i : WordCount(i)' = WordCount(i)
    BY DEF WordCount
<1>2. \A i : LineWords(i)' = LineWords(i)
    BY <1>1 DEF LineWords
<1> QED
    BY <1>2 DEF WordsOf

LEMMA SameText ==
    ASSUME document' = document, NEW text PROVE IsText(text)' <=> IsText(text)
<1>1. Texts' = Texts
    BY DEF Texts, LineNumbers
<1> QED
    BY <1>1, SameWords DEF IsText

LEMMA SameTexts ==
    ASSUME document' = document, NEW list PROVE AreTexts(list)' <=> AreTexts(list)
<1>1. Texts' = Texts
    BY DEF Texts, LineNumbers
<1> QED
    BY <1>1, SameText DEF AreTexts

LEMMA SameCollected ==
    ASSUME document' = document, NEW list, NEW text, NEW lines
    PROVE  Collected(list, text, lines)' <=> Collected(list, text, lines)
<1>1. \A i : WordCount(i)' = WordCount(i)
    BY DEF WordCount
<1> QED
    BY <1>1, SameText, SameTexts DEF Collected

LEMMA SameHeadings ==
    ASSUME document' = document, NEW list
    PROVE  HeadingsBeside(list)' = HeadingsBeside(list)
    BY DEF HeadingsBeside, IsHeading, LineNumbers

LEMMA SameLevels ==
    ASSUME document' = document, NEW H
    PROVE  /\ \A i : OpenAt(H, i)' = OpenAt(H, i)
           /\ Unbroken(H)' <=> Unbroken(H)
           /\ \A list, i : IsPathAt(list, H, i)' <=> IsPathAt(list, H, i)
           /\ \A section : HasItsPath(section, H)' <=> HasItsPath(section, H)
<1>1. \A i : OpenAt(H, i)' = OpenAt(H, i)
    BY DEF OpenAt
<1>2. Unbroken(H)' <=> Unbroken(H)
    BY DEF Unbroken
<1>3. \A list, i : IsPathAt(list, H, i)' <=> IsPathAt(list, H, i)
    BY <1>1 DEF IsPathAt
<1>4. \A section : HasItsPath(section, H)' <=> HasItsPath(section, H)
    BY <1>1 DEF HasItsPath
<1> QED
    BY <1>1, <1>2, <1>3, <1>4

-----------------------------------------------------------------------------
(* extract_sections.                                                       *)

LEMMA FlushedSections ==
    ASSUME SettingsInv, SectionsInv, path \in Seq(LineNumbers)
    PROVE  /\ Flushed \in Seq([path: Seq(LineNumbers), text: Texts])
           /\ [s \in 1 .. Len(Flushed) |-> Flushed[s].text]
                = Added(SectionTexts, scan.text, scan.text)
           /\ \A s \in 1 .. Len(Flushed) :
                \/ s \in 1 .. Len(sections) /\ Flushed[s] = sections[s]
                \/ scan.text.words # << >> /\ Flushed[s] = [path |-> path, text |-> scan.text]
<1> DEFINE new == [path |-> path, text |-> scan.text]
           n   == Len(sections)
           S   == [path: Seq(LineNumbers), text: Texts]
<1>1. /\ n \in Nat /\ sections \in Seq(S) /\ scan.text \in Texts /\ new \in S
      /\ \A s \in 1 .. n : sections[s] \in S
    <2>1. scan.text \in Texts /\ sections \in Seq(S)
        BY DEF SettingsInv, SectionsInv
    <2>2. new \in S
        BY <2>1
    <2> HIDE DEF S, new
    <2> QED
        BY <2>1, <2>2, ElementsOf
<1> HIDE DEF n
<1>2. SectionTexts \in Seq(Texts) /\ Len(SectionTexts) = n
    <2>1. SectionTexts \in [1 .. n -> Texts]
        BY <1>1 DEF SectionTexts, n
    <2> QED
        BY <1>1, <2>1
<1>3. CASE scan.text.words = << >>
    BY <1>1, <1>3 DEF Flushed, Added, SectionTexts, n
<1>4. CASE scan.text.words # << >>
    <2> DEFINE more == Append(sections, new)
               texts == Append(SectionTexts, scan.text)
    <2>1. Flushed = more /\ Added(SectionTexts, scan.text, scan.text) = texts
        BY <1>4 DEF Flushed, Added
    <2>2. /\ more \in Seq(S) /\ Len(more) = n + 1 /\ more[n + 1] = new
          /\ \A s \in 1 .. n : more[s] = sections[s]
        <3> HIDE DEF S, new
        <3> QED
            BY <1>1, Appended DEF n
    <2>3. /\ texts \in Seq(Texts) /\ Len(texts) = n + 1 /\ texts[n + 1] = scan.text
          /\ \A s \in 1 .. n : texts[s] = SectionTexts[s]
        BY <1>1, <1>2, Appended
    <2>4. \A s \in 1 .. n + 1 : s = n + 1 \/ s \in 1 .. n
        BY <1>1
    <2>5. \A s \in 1 .. n + 1 : texts[s] = more[s].text
        BY <2>2, <2>3, <2>4 DEF SectionTexts, n
    <2>6. texts = [s \in 1 .. n + 1 |-> texts[s]]
        BY <2>3, ElementsOf
    <2> HIDE DEF more, texts
    <2>7. texts = [s \in 1 .. n + 1 |-> more[s].text]
        BY <2>5, <2>6
    <2> QED
        BY <1>4, <2>1, <2>2, <2>4, <2>7 DEF n
<1> QED
    BY <1>3, <1>4

LEMMA Flushing ==
    ASSUME SettingsInv, SectionsInv, PathInv, stage = "reading"
    PROVE  LET list == [s \in 1 .. Len(Flushed) |-> Flushed[s].text]
           IN  /\ Collected(list, NoText, (1 .. scan.at - 1) \ Headings)
               /\ HeadingsBeside(list) = HeadingsBeside(SectionTexts) \ LinesOf(scan.text)
               /\ \A s \in 1 .. Len(Flushed) : Flushed[s].text.lines[1] \in 1 .. scan.at - 1
               /\ Unbroken(Headings) =>
                    \A s \in 1 .. Len(Flushed) : HasItsPath(Flushed[s], Headings)
<1> DEFINE list == [s \in 1 .. Len(Flushed) |-> Flushed[s].text]
           lines == (1 .. scan.at - 1) \ Headings
<1>1. Collected(SectionTexts, scan.text, lines) /\ Above(Headings, LinesOf(scan.text))
    BY DEF SectionsInv
<1>2. list = Added(SectionTexts, scan.text, scan.text)
    BY FlushedSections DEF PathInv
<1>3. Collected(list, NoText, lines)
    <2> HIDE DEF list, lines
    <2> QED
        BY <1>1, <1>2, AddedIsCollected
<1>4. HeadingsBeside(list) = HeadingsBeside(SectionTexts) \ LinesOf(scan.text)
    <2> HIDE DEF list, lines
    <2> QED
        BY <1>1, <1>2, HeadingsBesideAdded
<1>5. ASSUME NEW s \in 1 .. Len(Flushed)
      PROVE  Flushed[s].text.lines[1] \in 1 .. scan.at - 1
    <2>1. /\ Len(list) = Len(Flushed) /\ list[s] = Flushed[s].text
          /\ s \in 1 .. Len(list)
        BY FlushedSections, ElementsOf DEF PathInv
    <2> HIDE DEF list
    <2>2. /\ AreTexts(list) /\ InTexts(list) \subseteq lines
          /\ IsText(list[s]) /\ list[s].words # << >>
          /\ LinesOf(list[s]) \subseteq InTexts(list)
        BY <1>3, <2>1, LinesInTexts DEF Collected, AreTexts
    <2>3. list[s].lines \in Seq(LineNumbers) /\ list[s].lines # << >>
        BY <2>2, TextWords DEF Texts
    <2>4. list[s].lines[1] \in LinesOf(list[s])
        BY <2>3, ElementsOf DEF LinesOf
    <2> QED
        BY <2>1, <2>2, <2>4
<1>6. ASSUME Unbroken(Headings), NEW s \in 1 .. Len(Flushed)
      PROVE  HasItsPath(Flushed[s], Headings)
    <2>1. CASE s \in 1 .. Len(sections) /\ Flushed[s] = sections[s]
        BY <1>6, <2>1 DEF PathInv
    <2>2. CASE /\ scan.text.words # << >>
               /\ Flushed[s] = [path |-> path, text |-> scan.text]
        <3> DEFINE first == scan.text.lines[1]
        <3>1. scan.text.lines \in Seq(LineNumbers) /\ scan.text.lines # << >>
            BY <1>1, <2>2, TextWords DEF Collected, Texts
        <3>2. first \in LinesOf(scan.text)
            BY <3>1, ElementsOf DEF LinesOf
        <3>3. \A h \in Headings : h < first /\ h < scan.at
            BY <1>1, <3>2 DEF Above, Headings
        <3>4. OpenAt(Headings, first) = OpenAt(Headings, scan.at)
            BY <3>3, OpenBehindAll
        <3>5. Rising(path) /\ ToSet(path) = OpenAt(Headings, scan.at)
            BY <1>6 DEF PathInv, IsPathAt
        <3> QED
            BY <2>2, <3>4, <3>5 DEF HasItsPath
    <2> QED
        BY <2>1, <2>2, FlushedSections DEF PathInv
<1> QED
    BY <1>3, <1>4, <1>5, <1>6

LEMMA NothingChunked ==
    ASSUME stage' \in {"reading", "sectioned"}, blocks' = << >>, chunks' = << >>,
           open' = Nothing, sections' \in Seq([path: Seq(LineNumbers), text: Texts]),
           stage' = "sectioned" => scan' = Begin
    PROVE  BlocksInv' /\ ChunksInv'
<1>1. /\ << >> \in Seq(Seq(Texts')) /\ << >> \in Seq(Chunks) /\ Len(<< >>) = 0
      /\ << >> \in Seq(Words) /\ ToSet(<< >>) = {} /\ Len(sections') \in Nat
    BY EmptyList, ElementsOf
<1>2. BlocksInv'
    BY <1>1 DEF BlocksInv, Current
<1>3. Nothing \in Chunks
    BY <1>1 DEF Nothing, Chunk, Chunks
<1>4. OwnWords(chunks') = {} /\ ToSet(open'.own) = {}
    BY <1>1 DEF OwnWords, Nothing, Chunk
<1>5. Placed' = {}
    BY <1>1 DEF Placed, Finished, Current, WordsOfTexts
<1>6. ChunksInv'
    BY <1>1, <1>3, <1>4, <1>5 DEF ChunksInv, Follow
<1> QED
    BY <1>2, <1>6

LEMMA NumberedLines == ASSUME SettingsInv PROVE Len(document) \in Nat /\ scan.at \in Nat \ {0}
    BY ElementsOf DEF SettingsInv

LEMMA InitHolds == ChunkingInit => ChunkingInv
<1> SUFFICES ASSUME ChunkingInit PROVE ChunkingInv
    OBVIOUS
<1>1. /\ stage = "reading" /\ sections = << >> /\ path = << >> /\ blocks = << >>
      /\ chunks = << >> /\ open = Nothing /\ scan = Begin
      /\ chunking \in ChunkSettings
    BY DEF ChunkingInit
<1>2. PICK n \in 0 .. MaxLines : document \in [1 .. n -> LineKinds]
    BY DEF ChunkingInit, Documents
<1>3. /\ document \in Seq(Line) /\ Len(document) = n /\ n \in Nat
      /\ \A i \in 1 .. n : document[i] \in LineKinds
    BY <1>2, ChunkingAssumption
<1>4. NoText \in Texts
    BY EmptyText DEF IsText
<1>5. scan \in [at: Nat \ {0}, text: Texts, fence: Nat]
    BY <1>1, <1>4 DEF Begin
<1>6. SettingsInv
    BY <1>1, <1>3, <1>5, ChunkingAssumption DEF SettingsInv, LineNumbers, IsBlank
<1>7. /\ << >> \in Seq([path: Seq(LineNumbers), text: Texts]) /\ Len(<< >>) = 0
      /\ << >> \in Seq(LineNumbers) /\ ToSet(<< >>) = {}
    BY EmptyList
<1>8. SectionTexts = << >> /\ AreTexts(<< >>) /\ InTexts(<< >>) = {}
    BY <1>1, <1>7, NoTexts DEF SectionTexts
<1>9. Headings = {}
    BY <1>1 DEF Headings, HeadingsBeside, LineNumbers, Begin
<1>10. Collected(<< >>, NoText, {})
    BY <1>8, EmptyText DEF Collected, Above
<1>11. (1 .. scan.at - 1) \ Headings = {} /\ scan.text = NoText /\ scan.at <= Len(document) + 1
    BY <1>1, <1>3 DEF Begin
<1>12. SectionsInv
    BY <1>1, <1>7, <1>8, <1>9, <1>10, <1>11 DEF SectionsInv, Above
<1>13. IsPathAt(<< >>, {}, 1)
    BY <1>7 DEF IsPathAt, Rising, OpenAt
<1>14. PathInv
    BY <1>1, <1>7, <1>9, <1>13 DEF PathInv, Begin
<1>15. BlocksInv /\ ChunksInv
    <2>1. /\ << >> \in Seq(Seq(Texts)) /\ << >> \in Seq(Chunks)
          /\ << >> \in Seq(Words) /\ ToSet(<< >>) = {} /\ Len(<< >>) = 0
        BY EmptyList
    <2>2. BlocksInv
        BY <1>1, <2>1 DEF BlocksInv, Current
    <2>3. Nothing \in Chunks /\ OwnWords(chunks) = {} /\ ToSet(open.own) = {}
        BY <1>1, <2>1 DEF Nothing, Chunk, Chunks, OwnWords
    <2>4. Placed = {}
        BY <1>1, <2>1 DEF Placed, Finished, Current, WordsOfTexts
    <2> QED
        BY <1>1, <2>1, <2>2, <2>3, <2>4 DEF ChunksInv, Follow
<1> QED
    BY <1>6, <1>12, <1>14, <1>15 DEF ChunkingInv

LEMMA SameTypes ==
    ASSUME document' = document
    PROVE  LineNumbers' = LineNumbers /\ Texts' = Texts
    BY DEF LineNumbers, Texts

(* While the document is read, nothing is in blocks or chunks. *)
LEMMA ReadingIsFirst ==
    ASSUME ChunkingInv, stage = "reading"
    PROVE  blocks = << >> /\ chunks = << >> /\ open = Nothing
<1>1. blocks = << >> /\ open = Nothing /\ Current = 0
    BY EmptyList DEF ChunkingInv, BlocksInv, ChunksInv, Current
<1>2. chunks \in Seq(Chunks) /\ \A c \in 1 .. Len(chunks) : chunks[c].section \in 1 .. Current
    BY DEF ChunkingInv, ChunksInv
<1>3. Len(chunks) \in Nat /\ ~(1 \in 1 .. Len(chunks))
    BY <1>1, <1>2, ElementsOf
<1> QED
    BY <1>1, <1>2, <1>3, ElementsOf

LEMMA ReadHeadingKeeps == ASSUME ChunkingInv, ReadHeading PROVE ChunkingInv'
<1> DEFINE i == scan.at
           list == [s \in 1 .. Len(Flushed) |-> Flushed[s].text]
<1>1. /\ stage = "reading" /\ stage' = stage /\ document' = document
      /\ chunking' = chunking /\ blocks' = blocks /\ chunks' = chunks /\ open' = open
      /\ sections' = Flushed /\ path' = Stack(path, i)
      /\ scan' = [scan EXCEPT !.at = i + 1, !.text = NoText]
      /\ i <= Len(document) /\ IsHeading(i)
    BY DEF ReadHeading, Reading
<1>2. SettingsInv /\ SectionsInv /\ PathInv
    BY DEF ChunkingInv
<1>3. /\ Collected(list, NoText, (1 .. i - 1) \ Headings)
      /\ HeadingsBeside(list) = HeadingsBeside(SectionTexts) \ LinesOf(scan.text)
      /\ \A s \in 1 .. Len(Flushed) : Flushed[s].text.lines[1] \in 1 .. i - 1
      /\ Unbroken(Headings) =>
           \A s \in 1 .. Len(Flushed) : HasItsPath(Flushed[s], Headings)
    BY <1>1, <1>2, Flushing
<1>4. i \in Nat \ {0} /\ i \in LineNumbers /\ LineNumbers \subseteq Nat /\ Len(document) \in Nat
    BY <1>1, <1>2, NumberedLines DEF LineNumbers
<1>5. /\ scan' \in [at: Nat \ {0}, text: Texts, fence: Nat]
      /\ scan'.at = i + 1 /\ scan'.text = NoText
    <2>1. scan \in [at: Nat \ {0}, text: Texts, fence: Nat] /\ NoText \in Texts
        BY <1>2, EmptyText DEF SettingsInv, IsText
    <2>2. scan' = [at |-> i + 1, text |-> NoText, fence |-> scan.fence]
        BY <1>1, <2>1
    <2>3. i + 1 \in Nat \ {0} /\ scan.fence \in Nat
        BY <1>4, <2>1
    <2> HIDE DEF i
    <2> QED
        BY <2>1, <2>2, <2>3
<1>6. SettingsInv'
    BY <1>1, <1>2, <1>5, SameTypes DEF SettingsInv, IsBlank
<1>7. SectionTexts' = list
    BY <1>1 DEF SectionTexts
<1>8. /\ Headings \in SUBSET LineNumbers /\ \A h \in Headings : h < i
    BY <1>1 DEF Headings, HeadingsBeside
<1>9. Headings' = Headings \cup {i}
    <2>1. InTexts(SectionTexts) \subseteq 1 .. i - 1 /\ LinesOf(scan.text) \subseteq 1 .. i - 1
        BY <1>1, <1>2 DEF SectionsInv, Collected
    <2>2. i \in HeadingsBeside(SectionTexts) \ LinesOf(scan.text)
        BY <1>1, <1>4, <2>1 DEF HeadingsBeside
    <2>3. Headings' = {h \in HeadingsBeside(list) : h < i + 1}
        <3>1. HeadingsBeside(SectionTexts)' = HeadingsBeside(list)
            BY <1>1, <1>7, SameHeadings
        <3>2. LinesOf(scan'.text) = {}
            BY <1>5, EmptyText
        <3> QED
            BY <1>1, <1>5, <3>1, <3>2 DEF Headings
    <2>4. \A h \in HeadingsBeside(list) : h < i + 1 <=> h < i \/ h = i
        BY <1>4 DEF HeadingsBeside
    <2>5. Headings = {h \in HeadingsBeside(list) : h < i}
        BY <1>1, <1>3 DEF Headings
    <2> QED
        BY <1>3, <2>2, <2>3, <2>4, <2>5
<1>10. SectionsInv'
    <2>1. sections' \in Seq([path: Seq(LineNumbers), text: Texts])
        BY <1>1, <1>2, FlushedSections DEF PathInv
    <2>2. (1 .. scan'.at - 1) \ Headings' = (1 .. i - 1) \ Headings
        BY <1>4, <1>5, <1>8, <1>9
    <2>3. Collected(SectionTexts, scan.text, (1 .. scan.at - 1) \ Headings)'
        BY <1>1, <1>3, <1>5, <1>7, <2>2, SameCollected
    <2>4. Above(Headings', LinesOf(scan'.text))
        BY <1>5, EmptyText DEF Above
    <2> QED
        BY <1>1, <1>4, <1>5, <2>1, <2>3, <2>4, SameTypes DEF SectionsInv
<1>11. PathInv'
    <2>1. path' \in Seq(LineNumbers) /\ path \in Seq(LineNumbers)
        BY <1>1, <1>2, <1>4, StackIsList DEF PathInv
    <2>2. ASSUME Unbroken(Headings)' PROVE Unbroken(Headings \cup {i}) /\ Unbroken(Headings)
        BY <1>1, <1>2, <1>4, <1>8, <1>9, <2>2, SameLevels, UnbrokenBefore
    <2>3. ASSUME Unbroken(Headings)' PROVE IsPathAt(path, Headings, scan.at)'
        <3>1. IsPathAt(path, Headings, i)
            BY <1>1, <1>2, <2>2, <2>3 DEF PathInv
        <3>2. IsPathAt(Stack(path, i), Headings \cup {i}, i + 1)
            BY <1>1, <1>2, <1>4, <1>8, <2>1, <2>2, <2>3, <3>1, StackIsPath
        <3> QED
            BY <1>1, <1>5, <1>9, <3>2, SameLevels
    <2>4. ASSUME Unbroken(Headings)', NEW s \in 1 .. Len(Flushed)
          PROVE  HasItsPath(Flushed[s], Headings \cup {i})
        <3>1. Flushed[s].text.lines[1] \in 1 .. i
            BY <1>3, <1>4
        <3>2. OpenAt(Headings \cup {i}, Flushed[s].text.lines[1])
                = OpenAt(Headings, Flushed[s].text.lines[1])
            <4> DEFINE first == Flushed[s].text.lines[1]
            <4>1. first \in 1 .. i
                BY <3>1
            <4> HIDE DEF first
            <4>2. OpenAt(Headings \cup {i}, first) = OpenAt(Headings, first)
                BY <1>1, <1>2, <1>4, <1>8, <4>1, OpenHeadings
            <4> QED
                BY <4>2 DEF first
        <3> QED
            BY <1>3, <2>2, <2>4, <3>2 DEF HasItsPath
    <2> HIDE DEF i
    <2>5. ASSUME Unbroken(Headings)', NEW s \in 1 .. Len(sections')
          PROVE  HasItsPath(sections[s], Headings)'
        BY <1>1, <1>9, <2>4, <2>5, SameLevels
    <2> QED
        BY <1>1, <2>1, <2>3, <2>5, SameTypes DEF PathInv
<1>12. BlocksInv' /\ ChunksInv'
    <2>1. sections' \in Seq([path: Seq(LineNumbers), text: Texts])
        BY <1>1, <1>2, FlushedSections DEF PathInv
    <2> QED
        BY <1>1, <2>1, ReadingIsFirst, NothingChunked
<1> QED
    BY <1>6, <1>10, <1>11, <1>12 DEF ChunkingInv

LEMMA FenceIsNumber ==
    ASSUME SettingsInv, NEW i \in LineNumbers, NEW fence \in Nat
    PROVE  OpenFence(fence, i) \in Nat
    BY LevelOfHeading DEF OpenFence

LEMMA ReadLineKeeps == ASSUME ChunkingInv, ReadLine PROVE ChunkingInv'
<1> DEFINE i == scan.at
           more == Extended(scan.text, i)
<1>1. /\ stage = "reading" /\ stage' = stage /\ document' = document
      /\ chunking' = chunking /\ blocks' = blocks /\ chunks' = chunks /\ open' = open
      /\ sections' = sections /\ path' = path
      /\ scan' = [at |-> i + 1, text |-> more, fence |-> OpenFence(scan.fence, i)]
      /\ i <= Len(document) /\ ~(IsHeading(i) /\ scan.fence = 0)
    BY DEF ReadLine, Reading
<1>2. SettingsInv /\ SectionsInv /\ PathInv
    BY DEF ChunkingInv
<1>3. /\ Collected(SectionTexts, scan.text, (1 .. i - 1) \ Headings)
      /\ Above(Headings, LinesOf(scan.text))
    BY <1>1, <1>2 DEF SectionsInv
<1>4. i \in Nat \ {0} /\ i \in LineNumbers /\ LineNumbers \subseteq Nat /\ Len(document) \in Nat
    BY <1>1, <1>2, NumberedLines DEF LineNumbers
<1>5. /\ IsText(more) /\ LinesOf(more) = LinesOf(scan.text) \cup {i}
      /\ Collected(SectionTexts, more, ((1 .. i - 1) \ Headings) \cup {i})
    <2> DEFINE lines == (1 .. i - 1) \ Headings
    <2>1. \A j \in lines : j < i
        BY <1>4
    <2>2. IsText(scan.text) /\ LinesOf(scan.text) \subseteq lines
        BY <1>3 DEF Collected
    <2> HIDE DEF lines
    <2>3. Collected(SectionTexts, scan.text, lines)
        BY <1>3 DEF lines
    <2>4. IsText(more) /\ LinesOf(more) = LinesOf(scan.text) \cup {i}
        BY <1>2, <1>4, <2>1, <2>2, ExtendedText
    <2>5. Collected(SectionTexts, more, lines \cup {i})
        BY <1>2, <1>4, <2>1, <2>3, ExtendedIsCollected
    <2> QED
        BY <2>4, <2>5 DEF lines
<1> HIDE DEF more
<1>6. scan' \in [at: Nat \ {0}, text: Texts, fence: Nat] /\ scan'.at = i + 1 /\ scan'.text = more
    <2>1. scan.fence \in Nat /\ more \in Texts
        BY <1>2, <1>5 DEF SettingsInv, IsText
    <2> HIDE DEF i
    <2>2. OpenFence(scan.fence, i) \in Nat
        BY <1>2, <1>4, <2>1, FenceIsNumber
    <2>3. i + 1 \in Nat \ {0}
        BY <1>4
    <2> QED
        BY <1>1, <2>1, <2>2, <2>3
<1>7. SettingsInv'
    BY <1>1, <1>2, <1>6, SameTypes DEF SettingsInv, IsBlank
<1>8. SectionTexts' = SectionTexts
    BY <1>1 DEF SectionTexts
<1>9. Headings' = Headings /\ \A h \in Headings : h < i
    <2>1. HeadingsBeside(SectionTexts)' = HeadingsBeside(SectionTexts)
        BY <1>1, <1>8, SameHeadings
    <2>2. \A h \in HeadingsBeside(SectionTexts) : (h < i + 1 /\ h # i) <=> h < i
        BY <1>4 DEF HeadingsBeside
    <2>3. Headings' = {h \in HeadingsBeside(SectionTexts) : h < i + 1 /\ h \notin LinesOf(more)}
        BY <1>1, <1>6, <2>1 DEF Headings
    <2>4. Headings = {h \in HeadingsBeside(SectionTexts) : h < i /\ h \notin LinesOf(scan.text)}
        BY <1>1 DEF Headings
    <2> QED
        BY <1>5, <2>2, <2>3, <2>4
<1>10. SectionsInv'
    <2>1. (1 .. scan'.at - 1) \ Headings' = ((1 .. i - 1) \ Headings) \cup {i}
        BY <1>4, <1>6, <1>9
    <2>2. Collected(SectionTexts, scan.text, (1 .. scan.at - 1) \ Headings)'
        BY <1>1, <1>5, <1>6, <1>8, <2>1, SameCollected
    <2>3. Above(Headings', LinesOf(scan'.text))
        BY <1>3, <1>5, <1>6, <1>9 DEF Above
    <2> QED
        BY <1>1, <1>2, <1>4, <1>6, <2>2, <2>3, SameTypes DEF SectionsInv
<1>11. PathInv'
    <2>1. ASSUME Unbroken(Headings)'
          PROVE  /\ IsPathAt(path, Headings, scan.at)'
                 /\ \A s \in 1 .. Len(sections) : HasItsPath(sections[s], Headings)'
        <3>1. Unbroken(Headings)
            BY <1>1, <1>9, <2>1, SameLevels
        <3>2. /\ IsPathAt(path, Headings, i)
              /\ \A s \in 1 .. Len(sections) : HasItsPath(sections[s], Headings)
            BY <1>1, <1>2, <3>1 DEF PathInv
        <3>3. \A h \in Headings : h < i /\ h < i + 1
            BY <1>4, <1>9 DEF Headings, HeadingsBeside
        <3>4. OpenAt(Headings, i) = OpenAt(Headings, i + 1)
            BY <3>3, OpenBehindAll
        <3>5. IsPathAt(path, Headings, i + 1)
            BY <3>2, <3>4 DEF IsPathAt
        <3> QED
            BY <1>1, <1>6, <1>9, <3>2, <3>5, SameLevels
    <2> QED
        BY <1>1, <1>2, <2>1, SameTypes DEF PathInv
<1>12. BlocksInv' /\ ChunksInv'
    <2>1. sections' \in Seq([path: Seq(LineNumbers), text: Texts])
        BY <1>1, <1>2 DEF SectionsInv
    <2> QED
        BY <1>1, <2>1, ReadingIsFirst, NothingChunked
<1> QED
    BY <1>7, <1>10, <1>11, <1>12 DEF ChunkingInv

LEMMA EndOfDocumentKeeps == ASSUME ChunkingInv, EndOfDocument PROVE ChunkingInv'
<1> DEFINE list == [s \in 1 .. Len(Flushed) |-> Flushed[s].text]
<1>1. /\ stage = "reading" /\ stage' = "sectioned" /\ document' = document
      /\ chunking' = chunking /\ blocks' = blocks /\ chunks' = chunks /\ open' = open
      /\ sections' = Flushed /\ path' = path /\ scan' = Begin
      /\ scan.at > Len(document)
    BY DEF EndOfDocument, Reading
<1>2. SettingsInv /\ SectionsInv /\ PathInv
    BY DEF ChunkingInv
<1>3. /\ Collected(list, NoText, (1 .. scan.at - 1) \ Headings)
      /\ HeadingsBeside(list) = HeadingsBeside(SectionTexts) \ LinesOf(scan.text)
      /\ Unbroken(Headings) =>
           \A s \in 1 .. Len(Flushed) : HasItsPath(Flushed[s], Headings)
    BY <1>1, <1>2, Flushing
<1>4. scan.at = Len(document) + 1 /\ Len(document) \in Nat
    BY <1>1, <1>2, NumberedLines DEF SectionsInv
<1>5. SettingsInv'
    <2>1. scan' \in [at: Nat \ {0}, text: Texts, fence: Nat]
        BY <1>1, EmptyText DEF Begin, IsText
    <2> QED
        BY <1>1, <1>2, <2>1, SameTypes DEF SettingsInv, IsBlank
<1>6. SectionTexts' = list
    BY <1>1 DEF SectionTexts
<1>7. Headings' = Headings
    <2>1. HeadingsBeside(SectionTexts)' = HeadingsBeside(list)
        BY <1>1, <1>6, SameHeadings
    <2>2. \A h \in HeadingsBeside(list) : h < scan.at
        BY <1>4 DEF HeadingsBeside, LineNumbers
    <2> QED
        BY <1>1, <1>3, <2>1, <2>2 DEF Headings
<1>8. SectionsInv'
    <2>1. sections' \in Seq([path: Seq(LineNumbers), text: Texts])
        BY <1>1, <1>2, FlushedSections DEF PathInv
    <2>2. (1 .. scan.at - 1) \ Headings = LineNumbers \ Headings
        BY <1>4 DEF LineNumbers
    <2>3. Collected(SectionTexts, NoText, LineNumbers \ Headings)'
        BY <1>1, <1>3, <1>6, <1>7, <2>2, SameTypes, SameCollected
    <2> QED
        BY <1>1, <2>1, <2>3, SameTypes DEF SectionsInv
<1>9. PathInv'
    <2>1. ASSUME Unbroken(Headings)', NEW s \in 1 .. Len(sections')
          PROVE  HasItsPath(sections[s], Headings)'
        BY <1>1, <1>3, <1>7, <2>1, SameLevels
    <2> QED
        BY <1>1, <1>2, <2>1, SameTypes DEF PathInv
<1>10. BlocksInv' /\ ChunksInv'
    <2>1. sections' \in Seq([path: Seq(LineNumbers), text: Texts])
        BY <1>1, <1>2, FlushedSections DEF PathInv
    <2> QED
        BY <1>1, <2>1, ReadingIsFirst, NothingChunked
<1> QED
    BY <1>5, <1>8, <1>9, <1>10 DEF ChunkingInv

-----------------------------------------------------------------------------
(* chunk_markdown_sections: the words of texts.                            *)

LEMMA SectionsStay ==
    ASSUME ChunkingInv, stage # "reading", stage' # "reading",
           UNCHANGED <<document, sections, path>>
    PROVE  SectionsInv' /\ PathInv' /\ SectionTexts' = SectionTexts
<1>1. SectionTexts' = SectionTexts
    BY DEF SectionTexts
<1>2. Headings' = Headings
    BY <1>1, SameHeadings DEF Headings
<1>3. SectionsInv'
    BY <1>1, <1>2, SameTypes, SameCollected DEF ChunkingInv, SectionsInv
<1>4. PathInv'
    BY <1>2, SameTypes, SameLevels DEF ChunkingInv, PathInv
<1> QED
    BY <1>1, <1>3, <1>4

LEMMA WordsOfNext ==
    ASSUME NEW list, NEW n \in Nat
    PROVE  WordsOfTexts(list, n + 1) = WordsOfTexts(list, n) \cup ToSet(list[n + 1].words)
<1>1. 1 .. n + 1 = (1 .. n) \cup {n + 1}
    OBVIOUS
<1> QED
    BY <1>1 DEF WordsOfTexts

LEMMA WordsOfNone == ASSUME NEW list PROVE WordsOfTexts(list, 0) = {}
    BY DEF WordsOfTexts

LEMMA WordsOfAll ==
    ASSUME SettingsInv, NEW list, NEW lines \in SUBSET LineNumbers,
           Collected(list, NoText, lines)
    PROVE  WordsOfTexts(list, Len(list)) = WordsOf(lines)
<1>1. /\ AreTexts(list) /\ InTexts(list) \subseteq lines
      /\ \A i \in lines \ InTexts(list) : WordCount(i) = 0
    BY EmptyText DEF Collected
<1>2. WordsOfTexts(list, Len(list)) = WordsOf(InTexts(list))
    <2>1. \A b \in 1 .. Len(list) : ToSet(list[b].words) = WordsOf(LinesOf(list[b]))
        BY <1>1 DEF AreTexts, IsText
    <2> QED
        BY <2>1 DEF WordsOfTexts, InTexts, WordsOf
<1>3. lines = InTexts(list) \cup (lines \ InTexts(list))
    BY <1>1
<1>4. WordsOf(lines \ InTexts(list)) = {}
    BY <1>1, WordsOfLines
<1>5. WordsOf(InTexts(list) \cup (lines \ InTexts(list)))
        = WordsOf(InTexts(list)) \cup WordsOf(lines \ InTexts(list))
    BY WordsOfMore
<1> QED
    BY <1>2, <1>3, <1>4, <1>5

LEMMA TextsFollow ==
    ASSUME SettingsInv, NEW list, AreTexts(list), NEW n \in Nat, n + 1 <= Len(list)
    PROVE  Before(WordsOfTexts(list, n), ToSet(list[n + 1].words))
<1>1. \A b \in 1 .. Len(list) : IsText(list[b]) /\ ToSet(list[b].words) = WordsOf(LinesOf(list[b]))
    BY DEF AreTexts, IsText
<1>2. n + 1 \in 1 .. Len(list)
    BY LinesInTexts
<1>3. ASSUME NEW b \in 1 .. n
      PROVE  Before(ToSet(list[b].words), ToSet(list[n + 1].words))
    <2>1. b \in 1 .. Len(list) /\ b \in 1 .. (n + 1) - 1
        BY <1>2, LinesInTexts
    <2>2. Above(LinesOf(list[b]), LinesOf(list[n + 1]))
        BY <1>2, <2>1 DEF AreTexts
    <2>3. LinesOf(list[b]) \in SUBSET LineNumbers /\ LinesOf(list[n + 1]) \in SUBSET LineNumbers
        BY <1>1, <1>2, <2>1, TextWords
    <2> QED
        BY <1>1, <1>2, <2>1, <2>2, <2>3, AboveIsBefore
<1> QED
    BY <1>3 DEF Before, WordsOfTexts

(* What the sections and blocks are, in short. *)
LEMMA SectionFacts ==
    ASSUME ChunkingInv, stage # "reading", NEW s \in 1 .. Len(sections)
    PROVE  /\ Len(sections) \in Nat /\ Len(SectionTexts) = Len(sections)
           /\ AreTexts(SectionTexts) /\ SectionTexts[s] = sections[s].text
           /\ IsText(sections[s].text) /\ sections[s].text.words # << >>
           /\ sections[s].text.words \in Seq(Words)
           /\ sections[s].text.lines \in Seq(LineNumbers)
           /\ Rising(sections[s].text.lines)
<1>1. Len(sections) \in Nat /\ AreTexts(SectionTexts)
    BY ElementsOf DEF ChunkingInv, SectionsInv, Collected
<1>2. SectionTexts \in Seq(Texts) /\ Len(SectionTexts) = Len(sections)
    <2>1. SectionTexts \in Seq(Texts) /\ DOMAIN SectionTexts = 1 .. Len(sections)
        BY <1>1 DEF AreTexts, SectionTexts
    <2>2. 1 .. Len(SectionTexts) = 1 .. Len(sections) /\ Len(SectionTexts) \in Nat
        BY <2>1, ElementsOf
    <2> QED
        BY <1>1, <2>1, <2>2
<1>3. SectionTexts[s] = sections[s].text
    BY DEF SectionTexts
<1>4. IsText(sections[s].text) /\ sections[s].text.words # << >>
    BY <1>1, <1>2, <1>3 DEF AreTexts
<1> QED
    BY <1>1, <1>2, <1>3, <1>4 DEF IsText, Texts

-----------------------------------------------------------------------------
(* chunk_markdown_sections: the chunks.                                    *)

LEMMA SameFollows ==
    ASSUME chunking' = chunking
    PROVE  /\ \A list, chunk : Follows(list, chunk)' <=> Follows(list, chunk)
           /\ \A list : Follow(list)' <=> Follow(list)
           /\ \A list, chunk : Fits(list, chunk)' <=> Fits(list, chunk)
<1>1. \A list, chunk : Follows(list, chunk)' <=> Follows(list, chunk)
    BY DEF Follows
<1> QED
    BY <1>1 DEF Follow, Fits

LEMMA OneMoreChunk ==
    ASSUME NEW list \in Seq(Chunks), Follow(list), NEW chunk \in Chunks, Follows(list, chunk)
    PROVE  /\ Append(list, chunk) \in Seq(Chunks) /\ Follow(Append(list, chunk))
           /\ Append(list, chunk) # << >>
           /\ Len(Append(list, chunk)) = Len(list) + 1 /\ Len(list) \in Nat
           /\ Append(list, chunk)[Len(list) + 1] = chunk
           /\ \A c \in 1 .. Len(list) : Append(list, chunk)[c] = list[c]
           /\ OwnWords(Append(list, chunk)) = OwnWords(list) \cup ToSet(chunk.own)
<1> DEFINE more == Append(list, chunk)
           n == Len(list)
<1>1. /\ more \in Seq(Chunks) /\ Len(more) = n + 1 /\ n \in Nat
      /\ more[n + 1] = chunk
      /\ \A c \in 1 .. n : more[c] = list[c]
    BY ElementsOf, Appended
<1> HIDE DEF more
<1>2. more # << >>
    BY <1>1, ElementsOf
<1>3. ASSUME NEW c \in 0 .. n PROVE SubSeq(more, 1, c) = SubSeq(list, 1, c)
    <2>1. /\ c \in 0 .. Len(more) /\ c \in 0 .. Len(list)
        BY <1>1
    <2>2. /\ SubSeq(more, 1, c) \in Seq(Chunks) /\ Len(SubSeq(more, 1, c)) = c
          /\ SubSeq(list, 1, c) \in Seq(Chunks) /\ Len(SubSeq(list, 1, c)) = c
          /\ \A k \in 1 .. c : SubSeq(more, 1, c)[k] = more[k] /\ SubSeq(list, 1, c)[k] = list[k]
        BY <1>1, <2>1, FirstOf
    <2>3. \A k \in 1 .. c : SubSeq(more, 1, c)[k] = SubSeq(list, 1, c)[k]
        BY <1>1, <2>1, <2>2
    <2> QED
        BY <2>2, <2>3, SeqEqual
<1>4. SubSeq(list, 1, n) = list
    <2>1. /\ SubSeq(list, 1, n) \in Seq(Chunks) /\ Len(SubSeq(list, 1, n)) = n
          /\ \A k \in 1 .. n : SubSeq(list, 1, n)[k] = list[k]
        BY <1>1, FirstOf
    <2> QED
        BY <2>1, SeqEqual
<1>5. ASSUME NEW c \in 1 .. n + 1 PROVE Follows(SubSeq(more, 1, c - 1), more[c])
    <2>1. CASE c = n + 1
        <3>1. c - 1 = n /\ n \in 0 .. n
            BY <1>1, <2>1
        <3>2. SubSeq(more, 1, c - 1) = list
            BY <1>3, <1>4, <3>1
        <3> QED
            BY <1>1, <2>1, <3>2
    <2>2. CASE c # n + 1
        <3>1. c \in 1 .. n /\ c - 1 \in 0 .. n
            BY <1>1, <2>2
        <3>2. SubSeq(more, 1, c - 1) = SubSeq(list, 1, c - 1)
            BY <1>3, <3>1
        <3> QED
            BY <1>1, <3>1, <3>2 DEF Follow
    <2> QED
        BY <2>1, <2>2
<1>6. Follow(more)
    BY <1>1, <1>5 DEF Follow
<1>7. OwnWords(more) = OwnWords(list) \cup ToSet(chunk.own)
    <2>1. 1 .. n + 1 = (1 .. n) \cup {n + 1}
        BY <1>1
    <2> QED
        BY <1>1, <2>1 DEF OwnWords
<1> QED
    BY <1>1, <1>2, <1>6, <1>7 DEF more

LEMMA ChunkType ==
    ASSUME NEW s \in Nat, NEW repeated \in Seq(Words), NEW own \in Seq(Words)
    PROVE  /\ Chunk(s, repeated, own) \in Chunks
           /\ Chunk(s, repeated, own).section = s
           /\ Chunk(s, repeated, own).repeated = repeated
           /\ Chunk(s, repeated, own).own = own
    BY DEF Chunk, Chunks

LEMMA SettingsOfChunking ==
    ASSUME SettingsInv PROVE chunking.overlap \in Nat /\ chunking.maxTokens \in Nat \ {0}
    BY ChunkingAssumption DEF SettingsInv

(* A chunk of new words that repeats nothing. *)
LEMMA FreshFollows ==
    ASSUME SettingsInv, NEW list, NEW s \in Nat, NEW own \in Seq(Words),
           WordsInOrder(own), Before(OwnWords(list), ToSet(own))
    PROVE  Follows(list, Chunk(s, << >>, own))
<1>1. << >> \in Seq(Words) /\ Len(<< >>) = 0
    BY EmptyList
<1> QED
    BY <1>1, SettingsOfChunking DEF Follows, Chunk

LEMMA NextSectionKeeps == ASSUME ChunkingInv, NextSection PROVE ChunkingInv'
<1> DEFINE s == Current + 1
           words == sections[s].text.words
           chunk == Chunk(s, << >>, words)
<1>1. /\ stage = "sectioned" /\ Current < Len(sections)
      /\ IF Len(words) <= chunking.maxTokens
         THEN chunks' = Append(chunks, chunk) /\ stage' = stage
         ELSE stage' = "splitting" /\ chunks' = chunks
      /\ blocks' = Append(blocks, << >>)
      /\ document' = document /\ chunking' = chunking /\ sections' = sections
      /\ path' = path /\ open' = open /\ scan' = scan
    BY DEF NextSection
<1>2. SettingsInv /\ SectionsInv /\ PathInv /\ BlocksInv /\ ChunksInv
    BY DEF ChunkingInv
<1>3. SettingsInv'
    BY <1>1, <1>2, SameTypes DEF SettingsInv, IsBlank
<1>4. SectionsInv' /\ PathInv' /\ SectionTexts' = SectionTexts
    BY <1>1, SectionsStay
<1>5. /\ Current \in Nat /\ Len(sections) \in Nat /\ s \in 1 .. Len(sections)
      /\ blocks \in Seq(Seq(Texts)) /\ scan = Begin
    <2>1. blocks \in Seq(Seq(Texts)) /\ Len(sections) \in Nat
        BY <1>2, ElementsOf DEF BlocksInv, SectionsInv
    <2>2. Current \in Nat
        BY <2>1, ElementsOf DEF Current
    <2> QED
        BY <1>1, <1>2, <2>1, <2>2 DEF BlocksInv
<1>6. /\ << >> \in Seq(Texts) /\ blocks' \in Seq(Seq(Texts)) /\ Current' = s
      /\ blocks'[s] = << >> /\ \A k \in 1 .. Current : blocks'[k] = blocks[k]
    <2>1. << >> \in Seq(Texts)
        BY EmptyList
    <2> QED
        BY <1>1, <1>5, <2>1, Appended DEF Current
<1>7. /\ words \in Seq(Words) /\ WordsInOrder(words)
      /\ Len(SectionTexts) = Len(sections) /\ AreTexts(SectionTexts)
      /\ SectionTexts[s].words = words /\ IsText(sections[s].text)
    BY <1>1, <1>5, SectionFacts DEF IsText
<1>8. /\ open = Nothing /\ chunks \in Seq(Chunks) /\ Follow(chunks) /\ Nothing \in Chunks
      /\ OwnWords(chunks) = WordsOfTexts(SectionTexts, Current)
      /\ \A c \in 1 .. Len(chunks) :
           /\ chunks[c].section \in 1 .. Current
           /\ Fits(blocks[chunks[c].section], chunks[c])
    <2>1. ToSet(Nothing.own) = {}
        BY EmptyList DEF Nothing, Chunk
    <2> QED
        BY <1>1, <1>2, <2>1 DEF ChunksInv, Placed, Finished
<1> HIDE DEF s
<1>9. BlocksInv'
    <2>1. CASE stage' = "sectioned"
        BY <1>1, <1>5, <1>6, <2>1, SameTypes DEF BlocksInv
    <2>2. CASE stage' = "splitting"
        <3>1. scan'.at = 1 /\ scan'.at - 1 = 0 /\ scan'.text = NoText
            BY <1>1, <1>5 DEF Begin
        <3>2. SectionLines' = sections[s].text.lines
            BY <1>1, <1>6 DEF SectionLines
        <3>3. sections[s].text.lines \in Seq(LineNumbers)
            BY <1>7 DEF IsText, Texts
        <3>4. ToSet(SubSeq(SectionLines', 1, 0)) = {} /\ Len(SectionLines') \in Nat
            BY <3>2, <3>3, ElementsOf, FirstOf
        <3>5. Collected(<< >>, NoText, {})
            BY NoTexts, EmptyText DEF Collected, Above
        <3>6. Collected(blocks[Current], scan.text, ToSet(SubSeq(SectionLines, 1, scan.at - 1)))'
            BY <1>1, <1>6, <3>1, <3>4, <3>5, SameCollected
        <3>7. scan'.at <= Len(SectionLines') + 1
            BY <3>1, <3>4
        <3>8. Current' <= Len(sections') /\ Current' > 0
            BY <1>1, <1>5, <1>6
        <3> QED
            BY <1>6, <2>2, <3>6, <3>7, <3>8, SameTypes, <1>1 DEF BlocksInv
    <2> QED
        BY <1>1, <2>1, <2>2
<1>10. ASSUME NEW c \in 1 .. Len(chunks)
       PROVE  chunks[c].section \in 1 .. Current /\ Fits(blocks'[chunks[c].section], chunks[c])
    <2>1. blocks'[chunks[c].section] = blocks[chunks[c].section]
        BY <1>6, <1>8
    <2> QED
        BY <1>8, <2>1
<1>11. ChunksInv'
    <2>1. CASE stage' = "sectioned"
        <3>1. chunks' = Append(chunks, chunk) /\ Len(words) <= chunking.maxTokens
            BY <1>1, <2>1
        <3>2. /\ chunk \in Chunks /\ chunk.section = s /\ chunk.own = words
            <4>1. s \in Nat /\ << >> \in Seq(Words)
                BY <1>5, EmptyList
            <4> HIDE DEF words
            <4> QED
                BY <1>7, <4>1 DEF Chunk, Chunks
        <3>3. Before(OwnWords(chunks), ToSet(words))
            BY <1>2, <1>5, <1>7, <1>8, TextsFollow DEF s
        <3>4. Follows(chunks, chunk)
            BY <1>2, <1>5, <1>7, <3>3, FreshFollows
        <3> HIDE DEF chunk, words
        <3>5. /\ chunks' \in Seq(Chunks) /\ Follow(chunks') /\ Len(chunks') = Len(chunks) + 1
              /\ Len(chunks) \in Nat
              /\ chunks'[Len(chunks) + 1] = chunk
              /\ \A c \in 1 .. Len(chunks) : chunks'[c] = chunks[c]
              /\ OwnWords(chunks') = OwnWords(chunks) \cup ToSet(words)
            BY <1>8, <3>1, <3>2, <3>4, OneMoreChunk
        <3>6. Placed' = WordsOfTexts(SectionTexts, s)
            BY <1>4, <1>6, <2>1 DEF Placed, Finished
        <3>7. Placed' = OwnWords(chunks')
            BY <1>5, <1>7, <1>8, <3>5, <3>6, WordsOfNext DEF s
        <3>8. ToSet(open'.own) = {}
            BY <1>1, <1>8, EmptyList DEF Nothing, Chunk
        <3>9. Fits(blocks'[s], chunk)
            BY <3>1, <3>2 DEF Fits
        <3>10. ASSUME NEW c \in 1 .. Len(chunks')
               PROVE  /\ chunks'[c].section \in 1 .. s
                      /\ Fits(blocks'[chunks'[c].section], chunks'[c])
            <4>1. c \in 1 .. Len(chunks) \/ c = Len(chunks) + 1
                BY <3>5
            <4>2. 1 .. Current \subseteq 1 .. s /\ s \in 1 .. s
                BY <1>5 DEF s
            <4> QED
                BY <1>10, <3>2, <3>5, <3>9, <4>1, <4>2
        <3> QED
            BY <1>1, <1>6, <1>8, <2>1, <3>5, <3>7, <3>8, <3>10, SameFollows DEF ChunksInv
    <2>2. CASE stage' = "splitting"
        <3>1. chunks' = chunks /\ Current' - 1 = Current
            BY <1>1, <1>5, <1>6, <2>2 DEF s
        <3>2. Placed' = Placed
            BY <1>1, <1>4, <2>2, <3>1 DEF Placed, Finished
        <3> QED
            BY <1>1, <1>2, <1>8, <1>10, <2>2, <3>1, <3>2, SameFollows DEF ChunksInv
    <2> QED
        BY <1>1, <2>1, <2>2
<1> QED
    BY <1>3, <1>4, <1>9, <1>11 DEF ChunkingInv

-----------------------------------------------------------------------------
(* _split_blocks.                                                          *)

LEMMA ListReplaced ==
    ASSUME BlocksInv, Current > 0, NEW list \in Seq(Texts),
           blocks' = [blocks EXCEPT ![Current] = list]
    PROVE  /\ blocks' \in Seq(Seq(Texts)) /\ Current' = Current /\ Current \in Nat
           /\ blocks'[Current] = list
           /\ \A k \in 1 .. Current - 1 : blocks'[k] = blocks[k]
<1> DEFINE n == Current  S == Seq(Texts)
<1>1. blocks \in Seq(S) /\ n \in Nat /\ n = Len(blocks) /\ n \in 1 .. n
    BY ElementsOf DEF BlocksInv, Current
<1> HIDE DEF n, S
<1>2. blocks \in [1 .. n -> S] /\ list \in S
    BY <1>1, ElementsOf DEF S
<1>3. blocks' = [blocks EXCEPT ![n] = list]
    BY DEF n
<1>4. /\ blocks' \in [1 .. n -> S] /\ blocks'[n] = list
      /\ \A k \in 1 .. n - 1 : blocks'[k] = blocks[k]
    <2>1. \A k \in 1 .. n - 1 : k \in 1 .. n /\ k # n
        BY <1>1
    <2>2. DOMAIN blocks = 1 .. n /\ \A k \in 1 .. n : blocks[k] \in S
        BY <1>2
    <2>3. blocks' = [k \in 1 .. n |-> IF k = n THEN list ELSE blocks[k]]
        BY <1>3, <2>2
    <2> QED
        BY <1>1, <1>2, <2>1, <2>2, <2>3
<1>5. blocks' \in Seq(S) /\ Len(blocks') = n
    BY <1>1, <1>4
<1> QED
    BY <1>1, <1>4, <1>5 DEF n, S, Current

LEMMA ChunksStay ==
    ASSUME ChunkingInv, stage = "splitting",
           \/ stage' = "splitting"
           \/ stage' = "packing" /\ scan'.at = 1,
           UNCHANGED <<document, chunking, sections, path, chunks, open>>,
           Current' = Current, \A k \in 1 .. Current - 1 : blocks'[k] = blocks[k]
    PROVE  ChunksInv'
<1>1. ChunksInv /\ Current \in Nat /\ SectionTexts' = SectionTexts
    BY SectionsStay, ElementsOf DEF ChunkingInv, BlocksInv, Current
<1>2. Placed' = Placed
    <2>1. CASE stage' = "splitting"
        BY <1>1, <2>1 DEF Placed, Finished
    <2>2. CASE stage' = "packing" /\ scan'.at = 1
        <3>1. WordsOfTexts(blocks'[Current'], scan'.at - 1) = {}
            BY <2>2, WordsOfNone
        <3> QED
            BY <1>1, <2>2, <3>1 DEF Placed, Finished
    <2> QED
        BY <2>1, <2>2
<1>3. ASSUME NEW c \in 1 .. Len(chunks)
      PROVE  /\ chunks[c].section \in 1 .. Current - 1 /\ chunks[c].section \in 1 .. Current
             /\ Fits(blocks[chunks[c].section], chunks[c])'
    <2>1. chunks[c].section \in 1 .. Current - 1 /\ Fits(blocks[chunks[c].section], chunks[c])
        BY <1>1 DEF ChunksInv
    <2>2. blocks'[chunks'[c].section] = blocks[chunks[c].section]
        BY <2>1
    <2> QED
        BY <1>1, <2>1, <2>2, SameFollows
<1>4. open = Nothing
    BY <1>1 DEF ChunksInv
<1> QED
    BY <1>1, <1>2, <1>3, <1>4, SameFollows DEF ChunksInv

LEMMA SplitLineCollects ==
    ASSUME ChunkingInv, SplitLine
    PROVE  /\ blocks' \in Seq(Seq(Texts)) /\ Current' = Current
           /\ \A k \in 1 .. Current - 1 : blocks'[k] = blocks[k]
           /\ scan' \in [at: Nat \ {0}, text: Texts, fence: Nat] /\ scan'.at = scan.at + 1
           /\ Collected(blocks'[Current], scan'.text, ToSet(SubSeq(SectionLines, 1, scan.at)))
<1> DEFINE i     == SectionLines[scan.at]
           lines == ToSet(SubSeq(SectionLines, 1, scan.at - 1))
           list  == blocks[Current]
<1>1. /\ stage = "splitting" /\ scan.at <= Len(SectionLines)
      /\ BeginCode(i) \/ EndCode(i) \/ EndParagraph(i) \/ CollectLine(i)
    BY DEF SplitLine, Splitting
<1>2. SettingsInv /\ BlocksInv
    BY DEF ChunkingInv
<1>3. /\ Current \in 1 .. Len(sections) /\ Len(sections) \in Nat /\ Current \in Nat
      /\ blocks \in Seq(Seq(Texts)) /\ Current > 0
    <2>1. Len(sections) \in Nat /\ Current \in Nat
        BY ElementsOf DEF ChunkingInv, SectionsInv, BlocksInv, Current
    <2> QED
        BY <1>1, <1>2, <2>1 DEF BlocksInv
<1>4. /\ SectionLines \in Seq(LineNumbers) /\ Rising(SectionLines)
      /\ Len(SectionLines) \in Nat
    BY <1>1, <1>3, SectionFacts, ElementsOf DEF SectionLines
<1>5. /\ scan.at \in Nat \ {0} /\ scan.fence \in Nat /\ scan.text \in Texts
      /\ i \in LineNumbers /\ lines \in SUBSET LineNumbers
      /\ \A j \in lines : j < i
      /\ ToSet(SubSeq(SectionLines, 1, scan.at)) = lines \cup {i}
    <2>1. scan.at \in Nat \ {0} /\ scan.fence \in Nat /\ scan.text \in Texts
        BY <1>2 DEF SettingsInv
    <2>2. scan.at - 1 \in 0 .. Len(SectionLines) /\ scan.at \in 0 .. Len(SectionLines)
        BY <1>1, <1>4, <2>1
    <2>3. /\ lines = {SectionLines[k] : k \in 1 .. scan.at - 1}
          /\ ToSet(SubSeq(SectionLines, 1, scan.at)) = {SectionLines[k] : k \in 1 .. scan.at}
        BY <1>4, <2>2, FirstOf
    <2>4. /\ 1 .. scan.at = (1 .. scan.at - 1) \cup {scan.at}
          /\ scan.at \in 1 .. Len(SectionLines)
          /\ \A k \in 1 .. scan.at - 1 : k \in 1 .. Len(SectionLines) /\ k < scan.at
        BY <1>1, <1>4, <2>1
    <2>5. \A k \in 1 .. Len(SectionLines) : SectionLines[k] \in LineNumbers
        BY <1>4, ElementsOf
    <2> HIDE DEF lines
    <2>6. lines \in SUBSET LineNumbers /\ \A j \in lines : j < i
        BY <1>4, <2>3, <2>4, <2>5 DEF Rising
    <2>7. ToSet(SubSeq(SectionLines, 1, scan.at)) = lines \cup {i}
        BY <2>3, <2>4
    <2> QED
        BY <2>1, <2>4, <2>5, <2>6, <2>7
<1>6. /\ Collected(list, scan.text, lines)
      /\ Collected(Added(list, scan.text, scan.text), NoText, lines)
    <2>1. Collected(list, scan.text, lines)
        BY <1>1, <1>2 DEF BlocksInv
    <2> HIDE DEF list, lines
    <2> QED
        BY <1>2, <2>1, AddedIsCollected
<1> HIDE DEF lines
<1>7. /\ Collected(list, Extended(scan.text, i), lines \cup {i})
      /\ Collected(Added(list, scan.text, scan.text), Extended(NoText, i), lines \cup {i})
    <2> HIDE DEF list, i
    <2> QED
        BY <1>2, <1>5, <1>6, ExtendedIsCollected
<1>8. \A text, fence : SplitNext(text, fence) /\ text \in Texts /\ fence \in Nat =>
         /\ scan' \in [at: Nat \ {0}, text: Texts, fence: Nat] /\ scan'.at = scan.at + 1
         /\ scan'.text = text
    BY <1>5 DEF SplitNext
<1>9. \A text, other : Collected(text, other, lines \cup {i}) => other \in Texts /\ text \in Seq(Texts)
    BY DEF Collected, IsText, AreTexts
<1>10. OpenFence(scan.fence, i) \in Nat /\ document[i].size \in Nat /\ 0 \in Nat
    BY <1>2, <1>5, FenceIsNumber, LevelOfHeading
<1>11. CASE BeginCode(i)
    <2>1. blocks' = [blocks EXCEPT ![Current] = Added(list, scan.text, scan.text)]
        BY <1>11 DEF BeginCode, FlushBlock
    <2>2. SplitNext(Extended(NoText, i), document[i].size)
        BY <1>11 DEF BeginCode
    <2> HIDE DEF i, list
    <2>3. /\ Added(list, scan.text, scan.text) \in Seq(Texts) /\ Extended(NoText, i) \in Texts
        BY <1>7, <1>9
    <2> QED
        BY <1>2, <1>3, <1>5, <1>7, <1>8, <1>10, <2>1, <2>2, <2>3, ListReplaced
<1>12. CASE EndCode(i)
    <2>1. blocks' = [blocks EXCEPT ![Current] =
                       Added(list, Extended(scan.text, i), Extended(scan.text, i))]
        BY <1>12 DEF EndCode, FlushBlock
    <2>2. SplitNext(NoText, 0)
        BY <1>12 DEF EndCode
    <2> HIDE DEF i, list
    <2>3. Collected(Added(list, Extended(scan.text, i), Extended(scan.text, i)), NoText,
                    lines \cup {i})
        BY <1>2, <1>7, AddedIsCollected
    <2>4. /\ Added(list, Extended(scan.text, i), Extended(scan.text, i)) \in Seq(Texts)
          /\ NoText \in Texts
        BY <1>9, <2>3
    <2> QED
        BY <1>2, <1>3, <1>5, <1>8, <1>10, <2>1, <2>2, <2>3, <2>4, ListReplaced
<1>13. CASE EndParagraph(i)
    <2>1. blocks' = [blocks EXCEPT ![Current] = Added(list, scan.text, scan.text)]
        BY <1>13 DEF EndParagraph, FlushBlock
    <2>2. SplitNext(NoText, 0) /\ WordCount(i) = 0
        BY <1>13 DEF EndParagraph, WordCount, IsBlank
    <2> HIDE DEF i, list
    <2>3. Collected(Added(list, scan.text, scan.text), NoText, lines \cup {i})
        BY <1>2, <1>5, <1>6, <2>2, SkippedIsCollected
    <2>4. Added(list, scan.text, scan.text) \in Seq(Texts) /\ NoText \in Texts
        BY <1>9, <2>3
    <2> QED
        BY <1>2, <1>3, <1>5, <1>8, <1>10, <2>1, <2>2, <2>3, <2>4, ListReplaced
<1>14. CASE CollectLine(i)
    <2>1. blocks' = blocks /\ SplitNext(Extended(scan.text, i), scan.fence)
        BY <1>14 DEF CollectLine
    <2>2. Current' = Current /\ blocks'[Current] = list
        BY <2>1 DEF Current
    <2> HIDE DEF i, list
    <2>3. Extended(scan.text, i) \in Texts
        BY <1>7, <1>9
    <2> QED
        BY <1>3, <1>5, <1>7, <1>8, <2>1, <2>2, <2>3
<1> QED
    BY <1>1, <1>11, <1>12, <1>13, <1>14

LEMMA SplitLineKeeps == ASSUME ChunkingInv, SplitLine PROVE ChunkingInv'
<1>1. /\ stage = "splitting" /\ stage' = stage /\ scan.at <= Len(SectionLines)
      /\ document' = document /\ chunking' = chunking /\ sections' = sections
      /\ path' = path /\ chunks' = chunks /\ open' = open
    BY DEF SplitLine, Splitting
<1>2. /\ blocks' \in Seq(Seq(Texts)) /\ Current' = Current
      /\ \A k \in 1 .. Current - 1 : blocks'[k] = blocks[k]
      /\ scan' \in [at: Nat \ {0}, text: Texts, fence: Nat] /\ scan'.at = scan.at + 1
      /\ Collected(blocks'[Current], scan'.text, ToSet(SubSeq(SectionLines, 1, scan.at)))
    BY SplitLineCollects
<1>3. SettingsInv'
    BY <1>1, <1>2, SameTypes DEF ChunkingInv, SettingsInv, IsBlank
<1>4. SectionsInv' /\ PathInv'
    BY <1>1, SectionsStay
<1>5. BlocksInv'
    <2>1. SectionLines' = SectionLines
        BY <1>1, <1>2 DEF SectionLines
    <2>2. Current <= Len(sections) /\ Current > 0 /\ Len(SectionLines) \in Nat /\ scan.at \in Nat
        <3>1. Current <= Len(sections) /\ Current > 0 /\ scan.at \in Nat
            BY <1>1 DEF ChunkingInv, BlocksInv, SettingsInv
        <3>2. Current \in 1 .. Len(sections)
            BY <3>1, ElementsOf DEF ChunkingInv, BlocksInv, SectionsInv, Current
        <3> QED
            BY <1>1, <3>1, <3>2, SectionFacts, ElementsOf DEF SectionLines
    <2>3. scan'.at - 1 = scan.at /\ scan'.at <= Len(SectionLines) + 1
        BY <1>1, <1>2, <2>2
    <2>4. Collected(blocks[Current], scan.text, ToSet(SubSeq(SectionLines, 1, scan.at - 1)))'
        BY <1>1, <1>2, <2>1, <2>3, SameCollected
    <2> QED
        BY <1>1, <1>2, <2>1, <2>2, <2>3, <2>4, SameTypes DEF BlocksInv
<1>6. ChunksInv'
    BY <1>1, <1>2, ChunksStay
<1> QED
    BY <1>3, <1>4, <1>5, <1>6 DEF ChunkingInv

LEMMA WholeList ==
    ASSUME NEW S, NEW s \in Seq(S) PROVE ToSet(SubSeq(s, 1, Len(s))) = ToSet(s)
<1>1. Len(s) \in 0 .. Len(s)
    BY ElementsOf
<1>2. ToSet(SubSeq(s, 1, Len(s))) = {s[k] : k \in 1 .. Len(s)}
    BY <1>1, FirstOf
<1> QED
    BY <1>2, ElementsOf

LEMMA EndSplittingKeeps == ASSUME ChunkingInv, EndSplitting PROVE ChunkingInv'
<1> DEFINE list == Added(blocks[Current], scan.text, scan.text)
<1>1. /\ stage = "splitting" /\ stage' = "packing" /\ scan.at > Len(SectionLines)
      /\ document' = document /\ chunking' = chunking /\ sections' = sections
      /\ path' = path /\ chunks' = chunks /\ open' = open /\ scan' = Begin
      /\ blocks' = [blocks EXCEPT ![Current] = list]
    BY DEF EndSplitting, Splitting, FlushBlock
<1>2. /\ SettingsInv /\ BlocksInv /\ Current > 0 /\ Current <= Len(sections)
      /\ scan.at <= Len(SectionLines) + 1 /\ scan.at \in Nat
      /\ Collected(blocks[Current], scan.text, ToSet(SubSeq(SectionLines, 1, scan.at - 1)))
    BY <1>1 DEF ChunkingInv, BlocksInv, SettingsInv
<1>3. SectionLines \in Seq(LineNumbers) /\ Len(SectionLines) \in Nat
    <2>1. Current \in 1 .. Len(sections)
        BY <1>2, ElementsOf DEF ChunkingInv, BlocksInv, SectionsInv, Current
    <2> QED
        BY <1>1, <2>1, SectionFacts, ElementsOf DEF SectionLines
<1>4. Collected(list, NoText, ToSet(SectionLines))
    <2>1. scan.at - 1 = Len(SectionLines)
        BY <1>1, <1>2, <1>3
    <2>2. ToSet(SubSeq(SectionLines, 1, scan.at - 1)) = ToSet(SectionLines)
        BY <1>3, <2>1, WholeList
    <2> QED
        BY <1>2, <2>2, AddedIsCollected
<1>5. list \in Seq(Texts)
    BY <1>4 DEF Collected, AreTexts
<1> HIDE DEF list
<1>6. /\ blocks' \in Seq(Seq(Texts)) /\ Current' = Current /\ blocks'[Current] = list
      /\ \A k \in 1 .. Current - 1 : blocks'[k] = blocks[k]
    BY <1>1, <1>2, <1>5, ListReplaced
<1>7. scan'.at = 1 /\ scan'.text = NoText /\ scan'.fence = 0
    BY <1>1 DEF Begin
<1>8. SettingsInv'
    <2>1. scan' \in [at: Nat \ {0}, text: Texts, fence: Nat]
        BY <1>1, EmptyText DEF Begin, IsText
    <2> QED
        BY <1>1, <1>2, <2>1, SameTypes DEF SettingsInv, IsBlank
<1>9. SectionsInv' /\ PathInv'
    BY <1>1, SectionsStay
<1>10. BlocksInv'
    <2>1. Collected(blocks[Current], NoText, ToSet(SectionLines))'
        <3>1. SectionLines' = SectionLines
            BY <1>1, <1>6 DEF SectionLines
        <3> QED
            BY <1>1, <1>4, <1>6, <3>1, SameCollected
    <2>2. Len(list) \in Nat
        BY <1>5, ElementsOf
    <2>3. scan'.at <= Len(blocks'[Current']) + 1
        BY <1>6, <1>7, <2>2
    <2> QED
        BY <1>1, <1>2, <1>6, <1>7, <2>1, <2>3, SameTypes DEF BlocksInv
<1>11. ChunksInv'
    BY <1>1, <1>6, <1>7, ChunksStay
<1> QED
    BY <1>8, <1>9, <1>10, <1>11 DEF ChunkingInv

-----------------------------------------------------------------------------
(* _chunk_section_text: the loop over the blocks.                          *)

(* What the next chunk repeats ends the one before it. *)
LEMMA TailIsEnd ==
    ASSUME SettingsInv, NEW words \in Seq(Words)
    PROVE  /\ TailTokens(words) \in Seq(Words)
           /\ Len(TailTokens(words)) <= chunking.overlap
           /\ EndsWith(words, TailTokens(words))
<1> DEFINE n == Len(words)  m == chunking.overlap
<1>1. n \in Nat /\ m \in Nat
    BY SettingsOfChunking, ElementsOf
<1>2. CASE n <= m
    <2>1. TailTokens(words) = words
        BY <1>2 DEF TailTokens
    <2>2. EndsWith(words, words)
        BY <1>1 DEF EndsWith
    <2> QED
        BY <1>2, <2>1, <2>2
<1>3. CASE n > m
    <2> DEFINE tail == SubSeq(words, n - m + 1, n)
    <2>1. TailTokens(words) = tail
        BY <1>1, <1>3 DEF TailTokens
    <2> HIDE DEF n, m
    <2>2. n - m + 1 \in 1 .. n + 1 /\ n \in (n - m + 1) - 1 .. n
        BY <1>1, <1>3, SMTT(30)
    <2>3. /\ tail \in Seq(Words)
          /\ Len(tail) = m
          /\ \A k \in 1 .. m : tail[k] = words[(n - m + 1) + k - 1]
        <3>1. words \in Seq(Words) /\ n = Len(words)
            BY DEF n
        <3>2. /\ Len(tail) = IF n - m + 1 <= n THEN n - (n - m + 1) + 1 ELSE 0
              /\ tail \in Seq(Words)
              /\ \A k \in 1 .. n - (n - m + 1) + 1 : tail[k] = words[(n - m + 1) + k - 1]
            BY <2>2, <3>1, SubSeqProperties
        <3>3. n - (n - m + 1) + 1 = m /\ (~(n - m + 1 <= n) => m = 0)
            BY <1>1, <1>3
        <3> QED
            BY <3>2, <3>3
    <2>4. \A k \in 1 .. m : (n - m + 1) + k - 1 = n - m + k
        BY <1>1
    <2>5. EndsWith(words, tail)
        BY <1>1, <1>3, <2>3, <2>4 DEF EndsWith, n
    <2> QED
        BY <1>1, <2>1, <2>3, <2>5 DEF m
<1> QED
    BY <1>1, <1>2, <1>3

LEMMA NoChunk ==
    Nothing \in Chunks /\ Nothing.own = << >> /\ Nothing.repeated = << >> /\ ToSet(<< >>) = {}
    BY EmptyList DEF Nothing, Chunk, Chunks

(* What the lemmas below say of the section under way. *)
LEMMA PackingFacts ==
    ASSUME ChunkingInv, stage = "packing"
    PROVE  /\ SettingsInv /\ BlocksInv /\ ChunksInv
           /\ Current \in 1 .. Len(sections) /\ Current \in Nat /\ Len(sections) \in Nat
           /\ scan.at \in Nat \ {0} /\ scan.text = NoText /\ scan.fence = 0
           /\ Collected(blocks[Current], NoText, ToSet(SectionLines))
           /\ AreTexts(blocks[Current]) /\ Len(blocks[Current]) \in Nat
           /\ SectionLines = sections[Current].text.lines
           /\ ToSet(SectionLines) \in SUBSET LineNumbers
<1>1. SettingsInv /\ BlocksInv /\ ChunksInv /\ scan.at \in Nat \ {0}
    BY DEF ChunkingInv, SettingsInv
<1>2. /\ Collected(blocks[Current], NoText, ToSet(SectionLines))
      /\ AreTexts(blocks[Current]) /\ scan.text = NoText /\ scan.fence = 0
    BY <1>1 DEF BlocksInv, Collected
<1>3. Current \in 1 .. Len(sections) /\ Current \in Nat /\ Len(sections) \in Nat
    <2>1. Current \in Nat /\ Len(sections) \in Nat
        BY ElementsOf DEF ChunkingInv, BlocksInv, SectionsInv, Current
    <2> QED
        BY <1>1, <2>1 DEF BlocksInv
<1>4. Len(blocks[Current]) \in Nat
    BY <1>1, <1>2, LinesInTexts
<1>5. sections[Current].text.lines \in Seq(LineNumbers)
    BY <1>3, SectionFacts
<1>6. SectionLines = sections[Current].text.lines
    BY DEF SectionLines
<1>7. ToSet(SectionLines) \in SUBSET LineNumbers
    BY <1>5, <1>6, ElementsOf
<1> QED
    BY <1>1, <1>2, <1>3, <1>4, <1>6, <1>7

(* _finalize: the chunk that was being filled joins the others. *)
LEMMA FinalizedChunks ==
    ASSUME ChunkingInv, stage = "packing"
    PROVE  /\ Finalized \in Seq(Chunks) /\ Follow(Finalized) /\ OwnWords(Finalized) = Placed
           /\ \A c \in 1 .. Len(Finalized) :
                /\ Finalized[c].section \in 1 .. Current
                /\ Fits(blocks[Finalized[c].section], Finalized[c])
<1>1. /\ chunks \in Seq(Chunks) /\ open \in Chunks /\ Follow(chunks)
      /\ OwnWords(chunks) \cup ToSet(open.own) = Placed
      /\ \A c \in 1 .. Len(chunks) :
           /\ chunks[c].section \in 1 .. Current
           /\ Fits(blocks[chunks[c].section], chunks[c])
      /\ open # Nothing =>
           open.section = Current /\ Follows(chunks, open) /\ Fits(blocks[Current], open)
    BY DEF ChunkingInv, ChunksInv
<1>2. CASE open.own = << >>
    <2>1. OwnWords(chunks) = Placed
        BY <1>1, <1>2, NoChunk
    <2> QED
        BY <1>1, <1>2, <2>1 DEF Finalized
<1>3. CASE open.own # << >>
    <2>1. /\ Finalized = Append(chunks, open) /\ open.section = Current
          /\ Follows(chunks, open) /\ Fits(blocks[Current], open)
        BY <1>1, <1>3, NoChunk DEF Finalized
    <2>2. /\ Finalized \in Seq(Chunks) /\ Follow(Finalized)
          /\ Len(Finalized) = Len(chunks) + 1 /\ Len(chunks) \in Nat
          /\ Finalized[Len(chunks) + 1] = open
          /\ \A c \in 1 .. Len(chunks) : Finalized[c] = chunks[c]
          /\ OwnWords(Finalized) = OwnWords(chunks) \cup ToSet(open.own)
        BY <1>1, <2>1, OneMoreChunk
    <2>3. \A c \in 1 .. Len(Finalized) : c \in 1 .. Len(chunks) \/ c = Len(chunks) + 1
        BY <2>2
    <2>4. Current \in 1 .. Current
        BY PackingFacts
    <2> QED
        BY <1>1, <2>1, <2>2, <2>3, <2>4
<1> QED
    BY <1>2, <1>3

LEMMA NextBlock ==
    ASSUME ChunkingInv, stage = "packing", scan.at <= Len(blocks[Current]),
           NEW block, block = blocks[Current][scan.at]
    PROVE  /\ block \in ToSet(blocks[Current])
           /\ block.words \in Seq(Words) /\ WordsInOrder(block.words)
           /\ Before(Placed, ToSet(block.words))
<1> DEFINE n == Current - 1  m == scan.at - 1
<1>1. /\ n \in Nat /\ n + 1 = Current /\ m \in Nat /\ m + 1 = scan.at
      /\ scan.at \in 1 .. Len(blocks[Current]) /\ Current <= Len(sections)
    BY PackingFacts
<1>2. AreTexts(blocks[Current]) /\ blocks[Current] \in Seq(Texts) /\ SettingsInv
    BY PackingFacts, LinesInTexts
<1>3. /\ IsText(block) /\ block.words \in Seq(Words) /\ WordsInOrder(block.words)
      /\ ToSet(block.words) = WordsOf(LinesOf(block))
    BY <1>1, <1>2 DEF AreTexts, IsText, Texts
<1>4. block \in ToSet(blocks[Current])
    BY <1>1, <1>2, ElementsOf
<1>5. LinesOf(block) \subseteq ToSet(SectionLines)
    <2>1. LinesOf(block) \subseteq InTexts(blocks[Current])
        BY <1>1, <1>2, LinesInTexts
    <2>2. InTexts(blocks[Current]) \subseteq ToSet(SectionLines)
        BY PackingFacts DEF Collected
    <2> QED
        BY <2>1, <2>2
<1>6. /\ AreTexts(SectionTexts) /\ Len(SectionTexts) = Len(sections)
      /\ ToSet(SectionTexts[Current].words) = WordsOf(ToSet(SectionLines))
    BY PackingFacts, SectionFacts DEF IsText, LinesOf
<1>7. ToSet(block.words) \subseteq ToSet(SectionTexts[Current].words)
    BY <1>3, <1>5, <1>6 DEF WordsOf
<1>8. Before(WordsOfTexts(SectionTexts, n), ToSet(SectionTexts[Current].words))
    <2> HIDE DEF n
    <2>1. Before(WordsOfTexts(SectionTexts, n), ToSet(SectionTexts[n + 1].words))
        BY <1>1, <1>2, <1>6, TextsFollow
    <2> QED
        BY <1>1, <2>1
<1>9. Before(WordsOfTexts(blocks[Current], m), ToSet(block.words))
    <2> HIDE DEF m
    <2>1. Before(WordsOfTexts(blocks[Current], m), ToSet(blocks[Current][m + 1].words))
        BY <1>1, <1>2, TextsFollow
    <2> QED
        BY <1>1, <2>1
<1>10. Placed = WordsOfTexts(SectionTexts, n) \cup WordsOfTexts(blocks[Current], m)
    BY DEF Placed, Finished
<1> QED
    BY <1>3, <1>4, <1>7, <1>8, <1>9, <1>10 DEF Before

(* The chunk that is being filled takes a block more. *)
LEMMA BlockAdded ==
    ASSUME ChunkingInv, stage = "packing", scan.at <= Len(blocks[Current]),
           NEW block, block = blocks[Current][scan.at],
           ~(open.own # << >> /\ OverBudget(block.words)),
           NEW more, more = Chunk(Current, open.repeated, open.own \o block.words)
    PROVE  /\ more \in Chunks /\ more.section = Current
           /\ ToSet(more.own) = ToSet(open.own) \cup ToSet(block.words)
           /\ Follows(chunks, more) /\ Fits(blocks[Current], more)
<1>1. /\ block \in ToSet(blocks[Current])
      /\ block.words \in Seq(Words) /\ WordsInOrder(block.words)
      /\ Before(Placed, ToSet(block.words))
    BY NextBlock
<1>2. /\ open \in Chunks /\ open.own \in Seq(Words) /\ open.repeated \in Seq(Words)
      /\ OwnWords(chunks) \cup ToSet(open.own) = Placed
      /\ open # Nothing =>
           open.section = Current /\ Follows(chunks, open) /\ Fits(blocks[Current], open)
    BY DEF ChunkingInv, ChunksInv, Chunks
<1>3. /\ open.own \o block.words \in Seq(Words)
      /\ ToSet(open.own \o block.words) = ToSet(open.own) \cup ToSet(block.words)
      /\ Len(open.own \o block.words) = Len(open.own) + Len(block.words)
      /\ Len(open.own) \in Nat /\ Len(block.words) \in Nat
    BY <1>1, <1>2, Joined, ElementsOf
<1>4. /\ more \in Chunks /\ more.section = Current /\ more.repeated = open.repeated
      /\ more.own = open.own \o block.words
    <2> DEFINE repeated == open.repeated  own == open.own \o block.words
    <2>1. own \in Seq(Words) /\ repeated \in Seq(Words) /\ Current \in Nat
        BY <1>2, <1>3, PackingFacts
    <2> HIDE DEF repeated, own
    <2>2. /\ Chunk(Current, repeated, own) \in Chunks
          /\ Chunk(Current, repeated, own).section = Current
          /\ Chunk(Current, repeated, own).repeated = repeated
          /\ Chunk(Current, repeated, own).own = own
        BY <2>1, ChunkType
    <2>3. more = Chunk(Current, repeated, own)
        BY DEF repeated, own
    <2> QED
        BY <2>2, <2>3 DEF repeated, own
<1>5. chunking.overlap \in Nat /\ chunking.maxTokens \in Nat
    BY PackingFacts, SettingsOfChunking
<1>6. /\ WordsInOrder(open.own) /\ Before(OwnWords(chunks), ToSet(open.own))
      /\ Len(open.repeated) <= chunking.overlap
      /\ open.repeated # << >> =>
           /\ chunks # << >> /\ chunks[Len(chunks)].section = Current
           /\ EndsWith(TextOf(chunks[Len(chunks)]), open.repeated)
    <2>1. CASE open = Nothing
        <3>1. open.own = << >> /\ open.repeated = << >> /\ Len(<< >>) = 0 /\ ToSet(<< >>) = {}
            BY <2>1, NoChunk, EmptyList
        <3> QED
            BY <1>5, <3>1 DEF WordsInOrder, Before
    <2>2. CASE open # Nothing
        BY <1>2, <2>2 DEF Follows
    <2> QED
        BY <2>1, <2>2
<1>7. WordsInOrder(more.own)
    <2>1. Before(ToSet(open.own), ToSet(block.words))
        BY <1>1, <1>2 DEF Before
    <2> QED
        BY <1>1, <1>2, <1>4, <1>6, <2>1, JoinedInOrder
<1>8. Before(OwnWords(chunks), ToSet(more.own))
    BY <1>1, <1>2, <1>3, <1>4, <1>6 DEF Before
<1>9. Follows(chunks, more)
    BY <1>4, <1>6, <1>7, <1>8 DEF Follows
<1>10. Fits(blocks[Current], more)
    <2>1. CASE open.own = << >>
        <3>1. more.own = block.words
            BY <1>1, <1>4, <2>1
        <3> QED
            BY <1>1, <3>1 DEF Fits
    <2>2. CASE open.own # << >>
        <3>1. Len(TextOf(open)) = Len(open.repeated) + Len(open.own) /\ Len(open.repeated) \in Nat
            BY <1>2, Joined, ElementsOf DEF TextOf
        <3>2. ~(Len(TextOf(open)) + Len(block.words) > chunking.maxTokens)
            BY <2>2 DEF OverBudget
        <3>3. Len(more.own) <= chunking.maxTokens
            <4>1. Len(more.own) = Len(open.own) + Len(block.words)
                BY <1>3, <1>4
            <4>2. \A r, o, b, m \in Nat : ~(r + o + b > m) => o + b <= m
                OBVIOUS
            <4> QED
                BY <1>3, <1>5, <3>1, <3>2, <4>1, <4>2
        <3> QED
            BY <3>3 DEF Fits
    <2> QED
        BY <2>1, <2>2
<1> QED
    BY <1>3, <1>4, <1>9, <1>10

LEMMA PackBlockKeeps == ASSUME ChunkingInv, PackBlock PROVE ChunkingInv'
<1> DEFINE block == blocks[Current][scan.at]
           over  == open.own # << >> /\ OverBudget(block.words)
<1>1. /\ stage = "packing" /\ stage' = stage /\ scan.at <= Len(blocks[Current])
      /\ document' = document /\ chunking' = chunking /\ sections' = sections
      /\ path' = path /\ blocks' = blocks
      /\ scan' = [scan EXCEPT !.at = scan.at + 1]
      /\ \/ /\ chunks' = Append(Finalized, Chunk(Current, << >>, block.words))
            /\ open' = Nothing
         \/ /\ over
            /\ chunks' = Append(chunks, open)
            /\ open' = Chunk(Current, TailTokens(TextOf(open)), block.words)
         \/ /\ ~over
            /\ open' = Chunk(Current, open.repeated, open.own \o block.words)
            /\ chunks' = chunks
    BY DEF PackBlock, Packing
<1>2. /\ SettingsInv /\ BlocksInv /\ ChunksInv /\ Current \in Nat /\ Current \in 1 .. Current
      /\ scan.at \in Nat \ {0} /\ Len(blocks[Current]) \in Nat
      /\ Collected(blocks[Current], NoText, ToSet(SectionLines))
    BY <1>1, PackingFacts
<1>3. /\ block \in ToSet(blocks[Current])
      /\ block.words \in Seq(Words) /\ WordsInOrder(block.words)
      /\ Before(Placed, ToSet(block.words))
    BY <1>1, NextBlock
<1>4. /\ scan' \in [at: Nat \ {0}, text: Texts, fence: Nat]
      /\ scan'.at = scan.at + 1 /\ scan'.text = scan.text /\ scan'.fence = scan.fence
      /\ scan'.at <= Len(blocks[Current]) + 1
    <2>1. scan \in [at: Nat \ {0}, text: Texts, fence: Nat]
        BY <1>2 DEF SettingsInv
    <2>2. scan' = [at |-> scan.at + 1, text |-> scan.text, fence |-> scan.fence]
        BY <1>1, <2>1
    <2>3. scan.at + 1 \in Nat \ {0} /\ scan.at + 1 <= Len(blocks[Current]) + 1
        BY <1>1, <1>2
    <2> QED
        BY <2>1, <2>2, <2>3
<1>5. SettingsInv'
    BY <1>1, <1>2, <1>4, SameTypes DEF SettingsInv, IsBlank
<1>6. SectionsInv' /\ PathInv' /\ SectionTexts' = SectionTexts
    BY <1>1, SectionsStay
<1>7. Current' = Current /\ SectionLines' = SectionLines
    BY <1>1 DEF Current, SectionLines
<1>8. BlocksInv'
    <2>1. Collected(blocks[Current], NoText, ToSet(SectionLines))'
        BY <1>1, <1>2, <1>7, SameCollected
    <2> QED
        BY <1>1, <1>2, <1>4, <1>7, <2>1, SameTypes DEF BlocksInv
<1>9. Placed' = Placed \cup ToSet(block.words)
    <2> DEFINE m == scan.at - 1
    <2>1. m \in Nat /\ m + 1 = scan.at /\ scan'.at - 1 = scan.at
        BY <1>2, <1>4
    <2>2. WordsOfTexts(blocks[Current], m + 1)
            = WordsOfTexts(blocks[Current], m) \cup ToSet(blocks[Current][m + 1].words)
        BY <2>1, WordsOfNext
    <2>3. Placed = WordsOfTexts(SectionTexts, Current - 1) \cup WordsOfTexts(blocks[Current], m)
        BY <1>1 DEF Placed, Finished
    <2>4. Placed' = WordsOfTexts(SectionTexts, Current - 1)
                      \cup WordsOfTexts(blocks[Current], scan.at)
        BY <1>1, <1>6, <1>7, <2>1 DEF Placed, Finished
    <2> QED
        BY <2>1, <2>2, <2>3, <2>4
<1>10. /\ Finalized \in Seq(Chunks) /\ Follow(Finalized) /\ OwnWords(Finalized) = Placed
       /\ \A c \in 1 .. Len(Finalized) :
            /\ Finalized[c].section \in 1 .. Current
            /\ Fits(blocks[Finalized[c].section], Finalized[c])
    BY <1>1, FinalizedChunks
<1>11. /\ chunks \in Seq(Chunks) /\ open \in Chunks /\ Follow(chunks)
       /\ OwnWords(chunks) \cup ToSet(open.own) = Placed
       /\ \A c \in 1 .. Len(chunks) :
            /\ chunks[c].section \in 1 .. Current
            /\ Fits(blocks[chunks[c].section], chunks[c])
       /\ open # Nothing =>
            open.section = Current /\ Follows(chunks, open) /\ Fits(blocks[Current], open)
    BY <1>1, <1>2 DEF ChunksInv
<1> HIDE DEF block
(* It is enough that the chunks and the open one are as they should be. *)
<1>12. ASSUME chunks' \in Seq(Chunks), Follow(chunks'), open' \in Chunks,
              OwnWords(chunks') \cup ToSet(open'.own) = Placed \cup ToSet(block.words),
              \A c \in 1 .. Len(chunks') :
                /\ chunks'[c].section \in 1 .. Current
                /\ Fits(blocks[chunks'[c].section], chunks'[c]),
              open' # Nothing =>
                open'.section = Current /\ Follows(chunks', open') /\ Fits(blocks[Current], open')
       PROVE  ChunksInv'
    <2>1. \A c \in 1 .. Len(chunks') : Fits(blocks[chunks[c].section], chunks[c])'
        BY <1>1, <1>12, SameFollows
    <2>2. open' # Nothing => Follows(chunks, open)' /\ Fits(blocks[Current], open)'
        BY <1>1, <1>7, <1>12, SameFollows
    <2>3. Follow(chunks)'
        BY <1>1, <1>12, SameFollows
    <2> QED
        BY <1>1, <1>7, <1>9, <1>12, <2>1, <2>2, <2>3 DEF ChunksInv
<1>13. ASSUME chunks' = Append(Finalized, Chunk(Current, << >>, block.words)),
              open' = Nothing
       PROVE  ChunksInv'
    <2> DEFINE chunk == Chunk(Current, << >>, block.words)
    <2>1. chunk \in Chunks /\ chunk.section = Current /\ chunk.own = block.words
        <3>1. << >> \in Seq(Words)
            BY EmptyList
        <3> DEFINE words == block.words
        <3>2. words \in Seq(Words) /\ Current \in Nat
            BY <1>2, <1>3
        <3> HIDE DEF words
        <3>3. /\ Chunk(Current, << >>, words) \in Chunks
              /\ Chunk(Current, << >>, words).section = Current
              /\ Chunk(Current, << >>, words).own = words
            BY <3>1, <3>2 DEF Chunk, Chunks
        <3> QED
            BY <3>3 DEF words
    <2>2. Follows(Finalized, chunk)
        BY <1>2, <1>3, <1>10, FreshFollows
    <2>3. Fits(blocks[Current], chunk)
        BY <1>3, <2>1 DEF Fits
    <2> HIDE DEF chunk
    <2>4. chunks' = Append(Finalized, chunk)
        BY <1>13 DEF chunk
    <2>5. /\ chunks' \in Seq(Chunks) /\ Follow(chunks')
          /\ Len(chunks') = Len(Finalized) + 1 /\ Len(Finalized) \in Nat
          /\ chunks'[Len(Finalized) + 1] = chunk
          /\ \A c \in 1 .. Len(Finalized) : chunks'[c] = Finalized[c]
          /\ OwnWords(chunks') = Placed \cup ToSet(block.words)
        BY <1>10, <2>1, <2>2, <2>4, OneMoreChunk
    <2>6. \A c \in 1 .. Len(chunks') : c \in 1 .. Len(Finalized) \/ c = Len(Finalized) + 1
        BY <2>5
    <2>7. \A c \in 1 .. Len(chunks') :
            /\ chunks'[c].section \in 1 .. Current
            /\ Fits(blocks[chunks'[c].section], chunks'[c])
        BY <1>2, <1>10, <2>1, <2>3, <2>5, <2>6
    <2>8. open' \in Chunks /\ ToSet(open'.own) = {}
        BY <1>13, NoChunk
    <2> QED
        BY <1>12, <1>13, <2>5, <2>7, <2>8
<1>14. ASSUME over, chunks' = Append(chunks, open),
              open' = Chunk(Current, TailTokens(TextOf(open)), block.words)
       PROVE  ChunksInv'
    <2>1. /\ open # Nothing /\ chunks' = Finalized /\ open.section = Current
          /\ Follows(chunks, open)
        BY <1>11, <1>14, NoChunk DEF Finalized
    <2>2. chunks' # << >> /\ chunks'[Len(chunks')] = open
        <3>1. /\ chunks' # << >> /\ Len(chunks') = Len(chunks) + 1
              /\ chunks'[Len(chunks) + 1] = open
            <4>1. /\ Append(chunks, open) # << >>
                  /\ Len(Append(chunks, open)) = Len(chunks) + 1
                  /\ Append(chunks, open)[Len(chunks) + 1] = open
                BY <1>11, <2>1, OneMoreChunk
            <4> QED
                BY <1>14, <4>1
        <3> QED
            BY <3>1
    <2>3. TextOf(open) \in Seq(Words)
        BY <1>11, Joined DEF TextOf, Chunks
    <2>4. /\ TailTokens(TextOf(open)) \in Seq(Words)
          /\ Len(TailTokens(TextOf(open))) <= chunking.overlap
          /\ EndsWith(TextOf(open), TailTokens(TextOf(open)))
        BY <1>2, <2>3, TailIsEnd
    <2>5. /\ open' \in Chunks /\ open'.section = Current /\ open'.own = block.words
          /\ open'.repeated = TailTokens(TextOf(open))
        BY <1>2, <1>3, <1>14, <2>4, ChunkType
    <2>6. Follows(chunks', open')
        BY <1>3, <1>10, <2>1, <2>2, <2>4, <2>5 DEF Follows
    <2>7. Fits(blocks[Current], open')
        BY <1>3, <2>5 DEF Fits
    <2>8. OwnWords(chunks') \cup ToSet(open'.own) = Placed \cup ToSet(block.words)
        BY <1>10, <2>1, <2>5
    <2> QED
        BY <1>10, <1>12, <2>1, <2>5, <2>6, <2>7, <2>8
<1>15. ASSUME ~over, chunks' = chunks,
              open' = Chunk(Current, open.repeated, open.own \o block.words)
       PROVE  ChunksInv'
    <2>1. /\ open' \in Chunks /\ open'.section = Current
          /\ ToSet(open'.own) = ToSet(open.own) \cup ToSet(block.words)
          /\ Follows(chunks, open') /\ Fits(blocks[Current], open')
        BY <1>1, <1>15, BlockAdded DEF block
    <2> QED
        BY <1>11, <1>12, <1>15, <2>1
<1>16. ChunksInv'
    BY <1>1, <1>13, <1>14, <1>15 DEF block
<1> QED
    BY <1>5, <1>6, <1>8, <1>16 DEF ChunkingInv

LEMMA EndSectionKeeps == ASSUME ChunkingInv, EndSection PROVE ChunkingInv'
<1>1. /\ stage = "packing" /\ stage' = "sectioned" /\ scan.at > Len(blocks[Current])
      /\ document' = document /\ chunking' = chunking /\ sections' = sections
      /\ path' = path /\ blocks' = blocks /\ chunks' = Finalized /\ open' = Nothing
      /\ scan' = Begin
    BY DEF EndSection, Packing
<1>2. /\ SettingsInv /\ BlocksInv /\ Current \in 1 .. Len(sections) /\ Current \in Nat
      /\ scan.at \in Nat \ {0} /\ Len(blocks[Current]) \in Nat
      /\ Collected(blocks[Current], NoText, ToSet(SectionLines))
      /\ ToSet(SectionLines) \in SUBSET LineNumbers
      /\ SectionLines = sections[Current].text.lines
    BY <1>1, PackingFacts
<1>3. SettingsInv'
    <2>1. scan' \in [at: Nat \ {0}, text: Texts, fence: Nat]
        BY <1>1, EmptyText DEF Begin, IsText
    <2> QED
        BY <1>1, <1>2, <2>1, SameTypes DEF SettingsInv, IsBlank
<1>4. SectionsInv' /\ PathInv' /\ SectionTexts' = SectionTexts
    BY <1>1, SectionsStay
<1>5. Current' = Current
    BY <1>1 DEF Current
<1>6. BlocksInv'
    BY <1>1, <1>2, <1>5, SameTypes DEF BlocksInv
<1>7. Placed' = Placed
    <2> DEFINE n == Current - 1
    <2>1. n \in Nat /\ n + 1 = Current
        BY <1>2
    <2>2. scan.at - 1 = Len(blocks[Current])
        <3>1. scan.at <= Len(blocks[Current]) + 1
            BY <1>1, <1>2 DEF BlocksInv
        <3> QED
            BY <1>1, <1>2, <3>1
    <2>3. WordsOfTexts(blocks[Current], Len(blocks[Current])) = WordsOf(ToSet(SectionLines))
        BY <1>2, WordsOfAll
    <2>4. ToSet(SectionTexts[Current].words) = WordsOf(ToSet(SectionLines))
        BY <1>1, <1>2, SectionFacts DEF IsText, LinesOf
    <2>5. Placed = WordsOfTexts(SectionTexts, n) \cup WordsOf(ToSet(SectionLines))
        BY <1>1, <2>2, <2>3 DEF Placed, Finished
    <2>6. Placed' = WordsOfTexts(SectionTexts, Current)
        BY <1>1, <1>4, <1>5 DEF Placed, Finished
    <2> HIDE DEF n
    <2>7. WordsOfTexts(SectionTexts, n + 1)
            = WordsOfTexts(SectionTexts, n) \cup ToSet(SectionTexts[n + 1].words)
        BY <2>1, WordsOfNext
    <2> QED
        BY <2>1, <2>4, <2>5, <2>6, <2>7
<1>8. /\ Finalized \in Seq(Chunks) /\ Follow(Finalized) /\ OwnWords(Finalized) = Placed
      /\ \A c \in 1 .. Len(Finalized) :
           /\ Finalized[c].section \in 1 .. Current
           /\ Fits(blocks[Finalized[c].section], Finalized[c])
    BY <1>1, FinalizedChunks
<1>9. open' \in Chunks /\ ToSet(open'.own) = {}
    BY <1>1, NoChunk
<1>10. ChunksInv'
    <2>1. Follow(chunks)'
        BY <1>1, <1>8, SameFollows
    <2>2. \A c \in 1 .. Len(chunks') : Fits(blocks[chunks[c].section], chunks[c])'
        BY <1>1, <1>8, SameFollows
    <2> QED
        BY <1>1, <1>5, <1>7, <1>8, <1>9, <2>1, <2>2 DEF ChunksInv
<1> QED
    BY <1>3, <1>4, <1>6, <1>10 DEF ChunkingInv

-----------------------------------------------------------------------------
(* The whole of it.                                                        *)

LEMMA IngestAgainKeeps == ASSUME ChunkingInv, IngestAgain PROVE ChunkingInv'
<1>1. /\ stage = "sectioned" /\ stage' = "reading" /\ sections' = << >> /\ path' = << >>
      /\ blocks' = << >> /\ chunks' = << >> /\ document' = document
      /\ chunking' = chunking /\ open' = open /\ scan' = scan
    BY DEF IngestAgain, AllChunked
<1>2. SettingsInv /\ scan = Begin /\ open = Nothing
    BY <1>1 DEF ChunkingInv, BlocksInv, ChunksInv
<1>3. scan'.at = 1 /\ scan'.text = NoText
    BY <1>1, <1>2 DEF Begin
<1>4. SettingsInv'
    BY <1>1, <1>2, SameTypes DEF SettingsInv, IsBlank
<1>5. /\ << >> \in Seq([path: Seq(LineNumbers), text: Texts]) /\ Len(<< >>) = 0
      /\ << >> \in Seq(LineNumbers) /\ ToSet(<< >>) = {}
    BY EmptyList
<1>6. SectionTexts' = << >>
    BY <1>1, <1>5 DEF SectionTexts
<1>7. Headings' = {}
    BY <1>1, <1>3 DEF Headings, HeadingsBeside, LineNumbers
<1>8. SectionsInv'
    <2>1. (1 .. scan'.at - 1) \ Headings' = {} /\ Len(document) \in Nat
        BY <1>2, <1>3, NumberedLines
    <2>2. Collected(<< >>, NoText, {})
        BY NoTexts, EmptyText DEF Collected, Above
    <2>3. Collected(SectionTexts, scan.text, (1 .. scan.at - 1) \ Headings)'
        BY <1>1, <1>3, <1>6, <2>1, <2>2, SameCollected
    <2> QED
        BY <1>1, <1>3, <1>5, <1>7, <2>1, <2>3, SameTypes DEF SectionsInv, Above
<1>9. PathInv'
    <2>1. IsPathAt(<< >>, {}, 1)
        BY <1>5 DEF IsPathAt, Rising, OpenAt
    <2>2. IsPathAt(path, Headings, scan.at)'
        BY <1>1, <1>3, <1>7, <2>1, SameLevels
    <2> QED
        BY <1>1, <1>5, <2>2, SameTypes DEF PathInv
<1>10. BlocksInv' /\ ChunksInv'
    BY <1>1, <1>2, <1>5, SameTypes, NothingChunked
<1> QED
    BY <1>4, <1>8, <1>9, <1>10 DEF ChunkingInv

LEMMA StutterKeeps == ASSUME ChunkingInv, UNCHANGED chunkVars PROVE ChunkingInv'
<1>1. /\ document' = document /\ chunking' = chunking /\ sections' = sections /\ path' = path
      /\ blocks' = blocks /\ chunks' = chunks /\ open' = open /\ scan' = scan /\ stage' = stage
    BY DEF chunkVars
<1>2. /\ SettingsInv' /\ Current' = Current /\ SectionTexts' = SectionTexts
      /\ SectionLines' = SectionLines
    BY <1>1, SameTypes
    DEF ChunkingInv, SettingsInv, IsBlank, Current, SectionTexts, SectionLines
<1>3. Headings' = Headings
    BY <1>1, <1>2, SameHeadings DEF Headings
<1>4. SectionsInv'
    BY <1>1, <1>2, <1>3, SameTypes, SameCollected DEF ChunkingInv, SectionsInv
<1>5. PathInv'
    BY <1>1, <1>3, SameTypes, SameLevels DEF ChunkingInv, PathInv
<1>6. BlocksInv'
    BY <1>1, <1>2, SameTypes, SameCollected DEF ChunkingInv, BlocksInv
<1>7. Placed' = Placed
    BY <1>1, <1>2 DEF Placed, Finished
<1>8. ChunksInv'
    BY <1>1, <1>2, <1>7, SameFollows DEF ChunkingInv, ChunksInv
<1> QED
    BY <1>2, <1>4, <1>5, <1>6, <1>8 DEF ChunkingInv

(* What was read, split and chunked so far is what the code must have by   *)
(* then, in each of its three loops.                                       *)
THEOREM ChunkingInvariance == ChunkingSpec => []ChunkingInv
<1>1. ChunkingInit => ChunkingInv
    BY InitHolds
<1>2. ChunkingInv /\ [ChunkingNext]_chunkVars => ChunkingInv'
    <2> SUFFICES ASSUME ChunkingInv, [ChunkingNext]_chunkVars PROVE ChunkingInv'
        OBVIOUS
    <2> QED
        BY ReadHeadingKeeps, ReadLineKeeps, EndOfDocumentKeeps, NextSectionKeeps,
           SplitLineKeeps, EndSplittingKeeps, PackBlockKeeps, EndSectionKeeps,
           IngestAgainKeeps, StutterKeeps DEF ChunkingNext
<1> QED
    BY <1>1, <1>2, PTL DEF ChunkingSpec

LEMMA AsManyTexts ==
    ASSUME ChunkingInv, stage # "reading" PROVE Len(SectionTexts) = Len(sections)
<1>1. Len(sections) \in Nat /\ SectionTexts \in Seq(Texts)
    BY ElementsOf DEF ChunkingInv, SectionsInv, Collected, AreTexts
<1>2. Len(sections) = 0 => SectionTexts = << >>
    BY DEF SectionTexts
<1>3. Len(sections) > 0 => Len(SectionTexts) = Len(sections)
    BY <1>1, SectionFacts
<1> QED
    BY <1>1, <1>2, <1>3, EmptyList

(* At the end, the headings above are those that the texts leave out.      *)
LEMMA HeadingsAtEnd ==
    ASSUME ChunkingInv, stage # "reading"
    PROVE  /\ SectionHeadings = Headings
           /\ LevelsAreUnbroken <=> Unbroken(Headings)
           /\ \A i : Ancestors(i) = OpenAt(Headings, i)
<1>1. Headings = HeadingsBeside(SectionTexts)
    BY DEF Headings
<1>2. \A s \in 1 .. Len(sections) : LinesOf(SectionTexts[s]) = ToSet(sections[s].text.lines)
    BY DEF SectionTexts, LinesOf
<1>3. InTexts(SectionTexts) = UNION {ToSet(sections[s].text.lines) : s \in 1 .. Len(sections)}
    BY <1>2, AsManyTexts DEF InTexts
<1>4. SectionHeadings = Headings
    BY <1>1, <1>3 DEF SectionHeadings, IsSectionHeading, HeadingsBeside, LineNumbers
<1> QED
    BY <1>4 DEF LevelsAreUnbroken, Unbroken, Ancestors, OpenAt

(* The heading path of a section is the headings above it: what a stack    *)
(* cut at each heading's level comes to, where no level is left out.       *)
THEOREM PathsAreAbove == ChunkingSpec => []PathsAreAncestors
<1>1. ChunkingInv => PathsAreAncestors
    <2> SUFFICES ASSUME ChunkingInv, stage = "sectioned", LevelsAreUnbroken,
                        NEW s \in 1 .. Len(sections)
                 PROVE  /\ ToSet(sections[s].path) = Ancestors(sections[s].text.lines[1])
                        /\ \A k \in 1 .. Len(sections[s].path) - 1 :
                             sections[s].path[k] < sections[s].path[k + 1]
        BY DEF PathsAreAncestors
    <2>1. HasItsPath(sections[s], Headings)
        BY HeadingsAtEnd DEF ChunkingInv, PathInv
    <2>2. Len(sections[s].path) \in Nat
        <3> DEFINE S == [path: Seq(LineNumbers), text: Texts]
        <3>1. sections \in Seq(S)
            BY DEF ChunkingInv, SectionsInv
        <3>2. sections[s] \in S
            <4> HIDE DEF S
            <4> QED
                BY <3>1, ElementsOf
        <3>3. sections[s].path \in Seq(LineNumbers)
            BY <3>2
        <3> QED
            BY <3>3, ElementsOf
    <2>3. \A k \in 1 .. Len(sections[s].path) - 1 :
            /\ k \in 1 .. Len(sections[s].path) /\ k + 1 \in 1 .. Len(sections[s].path)
            /\ k < k + 1
        BY <2>2
    <2> QED
        BY <2>1, <2>3, HeadingsAtEnd DEF HasItsPath, Rising
<1> QED
    BY <1>1, ChunkingInvariance, PTL

(* A chunk is within the budget but for what it repeats, which is within   *)
(* the overlap, or is one block that is never split.                       *)
THEOREM BudgetIsKept == ChunkingSpec => []ChunksAreBounded
<1>1. ChunkingInv => ChunksAreBounded
    <2> SUFFICES ASSUME ChunkingInv, AllChunked, NEW c \in 1 .. Len(chunks)
                 PROVE  /\ Len(chunks[c].repeated) <= chunking.overlap
                        /\ \/ Len(chunks[c].own) <= chunking.maxTokens
                           \/ \E b \in ToSet(blocks[chunks[c].section]) :
                                chunks[c].own = b.words
        BY DEF ChunksAreBounded
    <2>1. /\ Follows(SubSeq(chunks, 1, c - 1), chunks[c])
          /\ Fits(blocks[chunks[c].section], chunks[c])
        BY DEF ChunkingInv, ChunksInv, Follow
    <2> QED
        BY <2>1 DEF Follows, Fits
<1> QED
    BY <1>1, ChunkingInvariance, PTL

(* The chunks, without what they repeat, are the words of the document,    *)
(* each once and in order, and what a chunk repeats ends the one before.   *)
THEOREM TextIsKept == ChunkingSpec => []NothingIsLost
<1>1. ChunkingInv => NothingIsLost
    <2> SUFFICES ASSUME ChunkingInv, AllChunked PROVE NothingIsLost
        BY DEF NothingIsLost
    <2>1. /\ stage = "sectioned" /\ Current = Len(sections) /\ SettingsInv
          /\ chunks \in Seq(Chunks) /\ Follow(chunks) /\ open = Nothing
          /\ OwnWords(chunks) \cup ToSet(open.own) = Placed
          /\ Collected(SectionTexts, NoText, LineNumbers \ Headings)
        BY DEF AllChunked, ChunkingInv, SectionsInv, ChunksInv
    <2>2. OwnWords(chunks) = WordsOf(LineNumbers \ Headings)
        <3>1. OwnWords(chunks) = WordsOfTexts(SectionTexts, Len(sections))
            BY <2>1, NoChunk DEF Placed, Finished
        <3>2. WordsOfTexts(SectionTexts, Len(SectionTexts)) = WordsOf(LineNumbers \ Headings)
            BY <2>1, WordsOfAll
        <3>3. Len(SectionTexts) = Len(sections)
            BY <2>1, AsManyTexts
        <3> QED
            BY <3>1, <3>2, <3>3
    <2>3. ASSUME NEW c \in 1 .. Len(chunks)
          PROVE  /\ WordsInOrder(chunks[c].own)
                 /\ \A d \in 1 .. c - 1 :
                      \A v \in ToSet(chunks[d].own), w \in ToSet(chunks[c].own) :
                        ComesBefore(v, w)
                 /\ chunks[c].repeated # << >> =>
                      /\ c > 1 /\ chunks[c - 1].section = chunks[c].section
                      /\ EndsWith(TextOf(chunks[c - 1]), chunks[c].repeated)
        <3> DEFINE earlier == SubSeq(chunks, 1, c - 1)
        <3>1. Follows(earlier, chunks[c])
            BY <2>1 DEF Follow
        <3>2. c - 1 \in 0 .. Len(chunks) /\ Len(chunks) \in Nat /\ c \in Nat
            BY <2>1, ElementsOf
        <3>3. /\ earlier \in Seq(Chunks) /\ Len(earlier) = c - 1
              /\ \A d \in 1 .. c - 1 : earlier[d] = chunks[d]
            BY <2>1, <3>2, FirstOf
        <3> HIDE DEF earlier
        <3>4. \A d \in 1 .. c - 1 : ToSet(chunks[d].own) \subseteq OwnWords(earlier)
            BY <3>3 DEF OwnWords
        <3>5. earlier # << >> => c > 1 /\ earlier[Len(earlier)] = chunks[c - 1]
            <4>1. earlier # << >> => c - 1 # 0
                BY <3>3, ElementsOf
            <4> QED
                BY <3>2, <3>3, <4>1
        <3> QED
            BY <3>1, <3>4, <3>5 DEF Follows, Before
    <2> QED
        BY <2>2, <2>3, HeadingsAtEnd, <2>1 DEF NothingIsLost, OwnWords, LineNumbers
<1> QED
    BY <1>1, ChunkingInvariance, PTL
=============================================================================
