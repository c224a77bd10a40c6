---------------------------- MODULE SplitMessage ----------------------------
(***************************************************************************)
(* internal/discordbot/adapter.go splitMessage: an answer is cut into      *)
(* chunks of at most limit runes, at a paragraph, line, sentence or word   *)
(* if possible, and a code fence that is open at a cut is closed in the    *)
(* chunk and opened again in the next.  One step is one iteration of the   *)
(* loop.  A text is a sequence of symbols, one per kind of rune that the   *)
(* code tells apart.                                                       *)
(***************************************************************************)
EXTENDS Integers, SequencesExt

CONSTANTS Texts,        \* bound: the answers, without blanks at either end
          Limits        \* bound: the values of Config.ReplyMaxChars

NL == "n"       \* newline
TAB == "h"      \* indents a line; unlike a space it is no place to cut
Indent == {" ", TAB}
Blank == Indent \cup {NL}
FenceChars == {"b", "t"}
SentenceEnd == {"."}
Symbols == Blank \cup FenceChars \cup SentenceEnd \cup {"x"}    \* "x": every other rune

ASSUME SplitAssumption ==
    /\ Limits \subseteq Nat \ {0}
    /\ \A t \in Texts : t \in Seq(Symbols) /\ t # <<>>

VARIABLES
    text,       \* the answer
    limit,      \* Adapter.maxChars
    offset,     \* how much of the answer is in chunks
    prefix,     \* what reopens the fence in the next chunk
    chunks      \* the chunks made so far (out)

splitVars == <<text, limit, offset, prefix, chunks>>

-----------------------------------------------------------------------------
(* The first place of the best kind, from the end: after a blank line, a newline, a
   sentence, a space; or just at the capacity. *)
ChooseSplitCut(s, capacity) ==
    LET places  == 2..capacity
        kinds   == << {p \in places : s[p] = NL /\ s[p-1] = NL},
                      {p \in places : s[p] = NL},
                      {p \in places : s[p] \in SentenceEnd},
                      {p \in places : s[p] = " "} >>
        kind    == SelectInSeq(kinds, LAMBDA k : k # {})
    IN  IF Len(s) <= capacity THEN Len(s)
        ELSE IF kind = 0 THEN capacity
        ELSE Max(kinds[kind])

CutLength(s, capacity) ==
    LET end == ChooseSplitCut(s, capacity)
    IN  IF end < 1 THEN Min({Len(s), capacity}) ELSE end

-----------------------------------------------------------------------------
NoFence == [char |-> "", len |-> 0, opening |-> <<>>]

(* length of the run of equal symbols at the beginning of a line *)
RunLength(line) ==
    LET other == SelectInSeq(line, LAMBDA c : c # line[1])
    IN  IF other = 0 THEN Len(line) ELSE other - 1

TrimLeft(line) ==
    LET first == SelectInSeq(line, LAMBDA c : c \notin Indent)
    IN  IF first = 0 THEN <<>> ELSE SubSeq(line, first, Len(line))

(* the line, without its indentation, is a marker: three fence characters or more *)
IsMarker(line) == Len(line) >= 3 /\ line[1] \in FenceChars /\ RunLength(line) >= 3

Closes(fence, line) ==
    /\ line[1] = fence.char /\ RunLength(line) >= fence.len
    /\ \A i \in RunLength(line) + 1 .. Len(line) : line[i] \in Blank

AfterTrimmed(fence, line) ==
    IF ~IsMarker(line) THEN fence
    ELSE IF fence = NoFence THEN [char |-> line[1], len |-> RunLength(line), opening |-> line]
    ELSE IF Closes(fence, line) THEN NoFence ELSE fence

(* what a complete line makes of the open fence *)
AfterLine(fence, line) == AfterTrimmed(fence, TrimLeft(line))

(* the line that ends before position i *)
LineBefore(s, i) ==
    SubSeq(s, 1 + SelectLastInSubSeq(s, 1, i - 1, LAMBDA c : c = NL), i - 1)

(* the fences open after the lines that end by a position *)
Fences(s) ==
    LET after[i \in 0 .. Len(s)] ==
            IF i = 0 THEN NoFence
            ELSE IF s[i] = NL THEN AfterLine(after[i-1], LineBefore(s, i)) ELSE after[i-1]
    IN  after

(* the fence open after s; an incomplete last line counts only if final *)
MarkdownFenceAt(s, final) ==
    LET open == Fences(s)[Len(s)]
    IN  IF final THEN AfterLine(open, LineBefore(s, Len(s) + 1)) ELSE open

Closing(fence) == <<NL>> \o [i \in 1 .. fence.len |-> fence.char]

-----------------------------------------------------------------------------
SplitInit ==
    /\ text \in Texts
    /\ limit \in Limits
    /\ offset = 0
    /\ prefix = <<>>
    /\ chunks = <<>>

Before(end) == SubSeq(text, 1, end)

(* Mutant of Capacity: a prefix as long as the limit is kept. *)
CapacityUnchecked == limit - Len(prefix)

(* the room a chunk has for the text; a prefix that leaves none is dropped *)
PrefixFits == Len(prefix) < limit
Capacity == IF PrefixFits THEN limit - Len(prefix) ELSE limit

(* Mutant of Room: the line of the marker is forgotten. *)
RoomWithoutLine(fence) == Capacity - fence.len

(* what is left of it if a fence has to be closed in the chunk *)
Room(fence) == Capacity - Len(Closing(fence))

(* Mutant of Reopening: after a chunk that needs none, the prefix stays. *)
ReopeningStale(fence) == IF fence = NoFence THEN prefix ELSE fence.opening \o <<NL>>

(* what the next chunk begins with *)
Reopening(fence) == IF fence = NoFence THEN <<>> ELSE fence.opening \o <<NL>>

(* the text up to a cut for the given room, and the fence open there *)
PieceUpTo(end) == [end |-> end, open |-> MarkdownFenceAt(Before(end), FALSE)]
Piece(room) == PieceUpTo(offset + CutLength(SubSeq(text, offset + 1, Len(text)), room))

(* if a fence is open at the cut, another cut is made that leaves room for its marker *)
WithRoomForClosing(piece) ==
    IF piece.end = Len(text) \/ piece.open = NoFence \/ Room(piece.open) <= 0
    THEN [piece EXCEPT !.open = NoFence]
    ELSE Piece(Room(piece.open))

NextCut == WithRoomForClosing(Piece(Capacity))

ClosingIfRoom(body, fence) ==
    IF fence # NoFence /\ Len(body \o Closing(fence)) <= limit THEN Closing(fence) ELSE <<>>

(* the last chunk closes the fence only if there is room for it *)
Suffix(piece, body) ==
    IF piece.end = Len(text) THEN ClosingIfRoom(body, MarkdownFenceAt(text, TRUE))
    ELSE IF piece.open = NoFence THEN <<>> ELSE Closing(piece.open)

Body(end) == (IF PrefixFits THEN prefix ELSE <<>>) \o SubSeq(text, offset + 1, end)

(* a chunk of blanks only is dropped *)
WithChunk(chunk) ==
    IF \A i \in DOMAIN chunk : chunk[i] \in Blank THEN chunks ELSE Append(chunks, chunk)

CutAt(piece) ==
    /\ chunks' = WithChunk(Body(piece.end) \o Suffix(piece, Body(piece.end)))
    /\ offset' = piece.end
    /\ prefix' = Reopening(piece.open)

Cut ==
    /\ offset < Len(text)
    /\ CutAt(NextCut)
    /\ UNCHANGED <<text, limit>>

SplitNext == Cut
SplitSpec == SplitInit /\ [][SplitNext]_splitVars

-----------------------------------------------------------------------------
(* No chunk exceeds the limit of Discord.  The cut is shortened by the marker of the
   fence that is open at the first cut, but the marker that is added is that of the
   fence open at the second, which may be another and longer one. *)
ChunksFit == \A i \in DOMAIN chunks : Len(chunks[i]) <= limit

LinesOf(s) == {LineBefore(s, i) : i \in {k \in DOMAIN s : s[k] = NL} \cup {Len(s) + 1}}
FenceLines == {l \in LinesOf(text) : AfterLine(NoFence, l) # NoFence}

(* A reopened fence, a newline left over from the last chunk, one more fence line and the
   closing marker go into one chunk, and a run of fence characters begins its line: a cut
   is then never in such a line. *)
OrdinaryFences ==
    /\ \A l, m \in FenceLines : Len(l) + Len(m) + 3 + Len(Closing(AfterLine(NoFence, l))) <= limit
    /\ \A l \in LinesOf(text) \ FenceLines : \A i \in DOMAIN l : l[i] \notin FenceChars

(* What is code in the answer is code in its chunks and nothing else is: every chunk
   but the last closes what it opened, and the next one begins inside the fence that
   the answer has open there. *)
CodeStaysCode ==
    OrdinaryFences =>
        /\ \A i \in DOMAIN chunks :
              i < Len(chunks) \/ offset < Len(text) => MarkdownFenceAt(chunks[i], TRUE) = NoFence
        /\ offset < Len(text) =>
              MarkdownFenceAt(prefix, TRUE) = MarkdownFenceAt(Before(offset), FALSE)

(* Every iteration takes some of the answer, so that the loop ends. *)
CutsProgress == [][offset' > offset]_splitVars
=============================================================================
