------------------------------ MODULE Chunking ------------------------------
(***************************************************************************)
(* CodeChunker.chunk (chunking.py): how one file is cut into chunks.  The  *)
(* pieces of a file are the symbols tree-sitter finds, in order of their   *)
(* lines, or the whole file when it finds none.  A symbol that fits        *)
(* chunk_max_lines is one chunk; everything else is cut into windows of    *)
(* fallback_chunk_lines that overlap.  None of the three settings is       *)
(* validated (config.py:20-22), so any integers must at least terminate.   *)
(* The text of a line, the names of symbols and the imports are left out;  *)
(* within one file a chunk's id is a function of its line range.           *)
(***************************************************************************)
EXTENDS Integers, Sequences

CONSTANTS
  Settings,     \* combinations of chunk_max_lines, fallback_chunk_lines, fallback_overlap_lines
  MaxLines,     \* bound: lines of the file
  MaxSymbols    \* bound: symbols in the file

ASSUME SettingsAssumption == Settings \subseteq [max : Int, size : Int, overlap : Int]
ASSUME BoundsAssumption == MaxLines \in Nat /\ MaxSymbols \in Nat

VARIABLES
  settings,
  lines,     \* lines of the file
  pieces,    \* what is cut: the symbols, or the file
  taken,     \* how many pieces were begun
  start,     \* first line of the next window
  chunks,    \* the result so far
  pc         \* "parse", "symbols", "windows" or "done"

vars == <<settings, lines, pieces, taken, start, chunks, pc>>

Ranges(n) == {r \in [first : 1..n, last : 1..n] : r.first <= r.last}

Length(r) == r.last - r.first + 1

Chunk(first, last, piece) == [first |-> first, last |-> last, piece |-> piece]

Init ==
  /\ settings \in Settings
  /\ lines \in 0..MaxLines
  /\ pieces = <<>> /\ taken = 0 /\ start = 1 /\ chunks = <<>>
  /\ pc = "parse"

\* Symbols are nodes of one syntax tree: nested, apart, or meeting on one line, and
\* several may lie on one line.  They are sorted by first and last line.
Within(r, s) == s.first <= r.first /\ r.last <= s.last

Tree(s) ==
  \A i, j \in DOMAIN s : i < j =>
    /\ s[i].first < s[j].first \/ (s[i].first = s[j].first /\ s[i].last <= s[j].last)
    /\ Within(s[i], s[j]) \/ Within(s[j], s[i]) \/ s[i].last <= s[j].first

SymbolsFound(s) ==
  /\ pc = "parse"
  /\ Tree(s)
  /\ pieces' = s
  /\ pc' = "symbols"
  /\ UNCHANGED <<settings, lines, taken, start, chunks>>

\* Mutant: an empty file is a range of no lines.
FallbackUnguarded ==
  /\ pc = "parse"
  /\ pieces' = <<[first |-> 1, last |-> lines]>>
  /\ taken' = 1 /\ start' = 1
  /\ pc' = "windows"
  /\ UNCHANGED <<settings, lines, chunks>>

\* An unsupported language, an exception or no symbol: the whole file is cut, an empty
\* one counting as one line.
Fallback ==
  /\ pc = "parse"
  /\ pieces' = <<[first |-> 1, last |-> IF lines = 0 THEN 1 ELSE lines]>>
  /\ taken' = 1 /\ start' = 1
  /\ pc' = "windows"
  /\ UNCHANGED <<settings, lines, chunks>>

Upcoming == pieces[taken + 1]

TakeSymbol ==
  /\ pc = "symbols" /\ taken < Len(pieces)
  /\ Length(Upcoming) <= settings.max
  /\ chunks' = Append(chunks, Chunk(Upcoming.first, Upcoming.last, taken + 1))
  /\ taken' = taken + 1
  /\ UNCHANGED <<settings, lines, pieces, start, pc>>

\* Mutant: the windows of a symbol go on where those of the last one stopped.
SplitSymbolResuming ==
  /\ pc = "symbols" /\ taken < Len(pieces)
  /\ Length(Upcoming) > settings.max
  /\ taken' = taken + 1
  /\ pc' = "windows"
  /\ UNCHANGED <<settings, lines, pieces, start, chunks>>

SplitSymbol ==
  /\ pc = "symbols" /\ taken < Len(pieces)
  /\ Length(Upcoming) > settings.max
  /\ taken' = taken + 1
  /\ start' = Upcoming.first
  /\ pc' = "windows"
  /\ UNCHANGED <<settings, lines, pieces, chunks>>

\* Mutant: one line of the overlap is lost.
StepOffByOne ==
  IF settings.size - settings.overlap > 1 THEN settings.size - settings.overlap + 1 ELSE 1

Step == IF settings.size - settings.overlap > 1 THEN settings.size - settings.overlap ELSE 1

\* Mutant: the last window is as long as the others.
WindowEndUnclipped == start + settings.size - 1

WindowEnd ==
  IF start + settings.size - 1 < pieces[taken].last
  THEN start + settings.size - 1 ELSE pieces[taken].last

\* Mutant: the loop has no break.
WindowNoBreak ==
  /\ pc = "windows" /\ start <= pieces[taken].last
  /\ chunks' = Append(chunks, Chunk(start, WindowEnd, taken))
  /\ start' = start + Step
  /\ UNCHANGED <<settings, lines, pieces, taken, pc>>

\* One turn of the loop; it is left by its break or by its condition.
Window ==
  /\ pc = "windows" /\ start <= pieces[taken].last
  /\ chunks' = Append(chunks, Chunk(start, WindowEnd, taken))
  /\ IF WindowEnd = pieces[taken].last
     THEN pc' = "symbols" /\ UNCHANGED start
     ELSE start' = start + Step /\ UNCHANGED pc
  /\ UNCHANGED <<settings, lines, pieces, taken>>

\* Mutant: the loop condition is an inequality.
WindowsEndExact ==
  /\ pc = "windows" /\ start = pieces[taken].last + 1
  /\ pc' = "symbols"
  /\ UNCHANGED <<settings, lines, pieces, taken, start, chunks>>

WindowsEnd ==
  /\ pc = "windows" /\ start > pieces[taken].last
  /\ pc' = "symbols"
  /\ UNCHANGED <<settings, lines, pieces, taken, start, chunks>>

Finish ==
  /\ pc = "symbols" /\ taken = Len(pieces)
  /\ pc' = "done"
  /\ UNCHANGED <<settings, lines, pieces, taken, start, chunks>>

Parse ==
  \/ \E n \in 1..MaxSymbols : \E s \in [1..n -> Ranges(lines)] : SymbolsFound(s)
  \/ Fallback

Next == Parse \/ TakeSymbol \/ SplitSymbol \/ Window \/ WindowsEnd \/ Finish

Spec == Init /\ [][Next]_vars

FairSpec == Spec /\ WF_vars(Next)

-----------------------------------------------------------------------------

ChunkTypeOK ==
  /\ settings \in Settings
  /\ lines \in Nat
  /\ pieces \in Seq([first : Nat \ {0}, last : Nat \ {0}])
  /\ taken \in 0..Len(pieces)
  /\ start \in Int
  /\ chunks \in Seq([first : Int, last : Int, piece : 1..taken])
  /\ pc \in {"parse", "symbols", "windows", "done"}

\* Settings under which windows cannot leave lines out.
Sensible == settings.size >= 1 /\ settings.overlap >= 0

Covered(k, l) ==
  \E i \in DOMAIN chunks : chunks[i].piece = k /\ chunks[i].first <= l /\ l <= chunks[i].last

\* No line of a symbol, or of a file without symbols, is missing from its chunks, whatever
\* the relation of window, overlap and length: what leaves the loop of _line_windows early,
\* or steps too far, loses code that no search then finds.
EveryLineKept ==
  Sensible /\ pc = "done" =>
    \A k \in DOMAIN pieces : \A l \in pieces[k].first..pieces[k].last : Covered(k, l)

\* Windows of one piece advance at both ends, under any settings: no window repeats another
\* or lies inside it, so they never share a chunk id (the text before the id is their lines).
WindowsAdvance ==
  \A i, j \in DOMAIN chunks :
    i < j /\ chunks[i].piece = chunks[j].piece =>
      chunks[i].first < chunks[j].first /\ chunks[i].last < chunks[j].last

\* Neighbouring windows share exactly the overlap asked for, the last pair included.
NeighboursOverlap ==
  settings.overlap \in 0..settings.size - 1 =>
    \A i \in 1..Len(chunks) - 1 :
      chunks[i].piece = chunks[i + 1].piece =>
        chunks[i].last - chunks[i + 1].first + 1 = settings.overlap

\* A chunk stays inside its piece and is either a whole symbol of at most chunk_max_lines
\* or a window of at most fallback_chunk_lines.
ChunksFit ==
  \A i \in DOMAIN chunks :
    LET c == chunks[i]  p == pieces[c.piece] IN
      /\ p.first <= c.first /\ c.last <= p.last
      /\ \/ Length(c) <= settings.size
         \/ c.first = p.first /\ c.last = p.last /\ Length(c) <= settings.max

\* Chunking ends, under any settings: the window loop always makes progress.
ChunkingEnds == <>(pc = "done")

\* The chunks of a file have different ids.  The id is made of repository, path, line range
\* and text, so two symbols on the same lines get the same one (README.md:62).
DistinctIds ==
  \A i, j \in DOMAIN chunks :
    chunks[i].first = chunks[j].first /\ chunks[i].last = chunks[j].last => i = j
=============================================================================
