------------------------------ MODULE TextSplit ------------------------------
(***************************************************************************)
(* How a long message is cut into chunks that a channel accepts            *)
(* (internal/channels/text.go).  A text is a sequence of characters of the *)
(* kinds the code tells apart; positions count the characters before the   *)
(* cut, as the code's byte offsets do, and 0 is no cut.                    *)
(***************************************************************************)
EXTENDS Integers, Sequences, SequencesExt, FiniteSetsExt

CharKind == {"word", "#", ".", ")", "space", "line"}
Blank == {"space", "line"}

Greatest(S) == IF S = {} THEN 0 ELSE Max(S)
Prefix(t, n) == SubSeq(t, 1, n)
Rest(t, n) == SubSeq(t, n + 1, Len(t))

InkOf(t) == {i \in DOMAIN t : t[i] \notin Blank}
TrimRight(t) == Prefix(t, Greatest(InkOf(t)))
Trim(t) == IF InkOf(t) = {} THEN <<>> ELSE Rest(TrimRight(t), Min(InkOf(t)) - 1)

\* Where a text may be cut, best kinds first: after an empty line, a line, a
\* sentence, a word.
lastMultiLineBoundary(t) ==
  Greatest({i \in 3 .. Len(t) : t[i] = "line" /\ t[i - 1] = "line"})

lastLineBoundary(t) == Greatest({i \in 2 .. Len(t) : t[i] = "line"})

\* The end of the closing punctuation after position i
ClosingEnd(t, i, cut) == CHOOSE e \in i .. cut :
  /\ \A j \in i + 1 .. e : t[j] = ")"
  /\ e < cut => t[e + 1] # ")"

\* A dot ends a sentence when a blank follows, which may be past the cut.
lastDotBoundary(t, cut) ==
  LET ends == {i \in 1 .. cut : t[i] = "." /\
                 LET e == ClosingEnd(t, i, cut) IN e < Len(t) /\ t[e + 1] \in Blank}
  IN IF ends = {} THEN 0 ELSE ClosingEnd(t, Max(ends), cut)

lastWhitespaceBoundary(t) == Greatest({i \in 2 .. Len(t) : t[i] \in Blank})

isMarkdownHeading(line) ==
  LET marks == {n \in 1 .. Len(line) : \A i \in 1 .. n : line[i] = "#"} IN
  /\ Greatest(marks) \in 1 .. 6
  /\ Greatest(marks) = Len(line) \/ line[Greatest(marks) + 1] = "space"

LineStart(t) == Greatest({i \in DOMAIN t : t[i] = "line"})
LastLine(t) == Trim(Rest(t, LineStart(t)))

\* A cut after a heading moves before it; one that leaves nothing but a
\* heading is refused.
avoidTrailingMarkdownHeading(t, at) ==
  LET candidate == TrimRight(Prefix(t, at)) IN
  IF LineStart(candidate) > 0 /\ isMarkdownHeading(LastLine(candidate))
    THEN LineStart(candidate) ELSE at

leavesOnlyMarkdownHeading(t, at) ==
  LET candidate == Trim(Prefix(t, at)) IN
  "line" \notin Range(candidate) /\ isMarkdownHeading(candidate)

AsIs(t, at) == at
markdownHeadingSafeSplit(t, at) ==
  LET moved == avoidTrailingMarkdownHeading(t, at) IN
  IF leavesOnlyMarkdownHeading(t, moved) THEN 0 ELSE moved

bestTextSplit(t, limit) ==
  LET prefix == Prefix(t, limit)
      boundaries == <<lastMultiLineBoundary(prefix), lastLineBoundary(prefix),
                      lastDotBoundary(t, limit), lastWhitespaceBoundary(prefix)>>
      safe == {k \in 1 .. 4 : /\ boundaries[k] > 0
                              /\ markdownHeadingSafeSplit(t, boundaries[k]) > 0}
  IN IF safe = {} THEN 0 ELSE markdownHeadingSafeSplit(t, boundaries[Min(safe)])

\* SplitText, one chunk at a time: where the next chunk of a trimmed rest
\* ends, the chunk, and what is left for the others.
CutBeyond(t, limit) ==
  IF limit <= 0 \/ Len(t) <= limit THEN Len(t)
  ELSE LET best == bestTextSplit(t, limit) IN IF best > 0 THEN best ELSE limit + 1
CutAt(t, limit) ==
  IF limit <= 0 \/ Len(t) <= limit THEN Len(t)
  ELSE LET best == bestTextSplit(t, limit) IN IF best > 0 THEN best ELSE limit

ChunkOf(t, limit) == Trim(Prefix(t, CutAt(t, limit)))
RestDroppingOne(t, limit) == Trim(Rest(t, CutAt(t, limit) + 1))
RestOf(t, limit) == Trim(Rest(t, CutAt(t, limit)))
=============================================================================
