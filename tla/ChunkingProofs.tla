--------------------------- MODULE ChunkingProofs ---------------------------
(***************************************************************************)
(* What Chunking guarantees for all settings, lengths of files and symbols. *)
(***************************************************************************)
EXTENDS Chunking, SequenceTheorems, TLAPS

Records == [first : Int, last : Int, piece : Nat]

\* Where the algorithm is, and that pieces have lines.
Shape ==
  /\ ChunkTypeOK
  /\ \A k \in 1..Len(pieces) : pieces[k].first <= pieces[k].last
  /\ pc = "parse" => taken = 0 /\ chunks = <<>> /\ pieces = <<>>
  /\ pc = "windows" => taken >= 1 /\ pieces[taken].first <= start
  /\ pc = "done" => taken = Len(pieces)

\* The windows made so far of the piece being cut begin before the next and end before its end.
Behind ==
  pc = "windows" =>
    \A i \in 1..Len(chunks) : chunks[i].piece = taken =>
      /\ chunks[i].first < start
      /\ chunks[i].last < pieces[taken].last
      /\ chunks[i].last = chunks[i].first + settings.size - 1

\* The latest of them begins one step before the next; without one, the piece begins there.
Latest ==
  pc = "windows" =>
    /\ Len(chunks) > 0 /\ chunks[Len(chunks)].piece = taken =>
         chunks[Len(chunks)].first + Step = start
    /\ ~(Len(chunks) > 0 /\ chunks[Len(chunks)].piece = taken) =>
         start = pieces[taken].first

InOrder ==
  \A i, j \in 1..Len(chunks) : i < j => chunks[i].piece <= chunks[j].piece

\* Lines before the next window, and all lines of finished pieces, are covered.
Handled(k) == IF pc = "windows" /\ k = taken THEN start - 1 ELSE pieces[k].last

CoveredSoFar ==
  Sensible =>
    \A k \in 1..taken : \A l \in Int :
      pieces[k].first <= l /\ l <= Handled(k) /\ l <= pieces[k].last => Covered(k, l)

CInv ==
  /\ Shape /\ Behind /\ Latest /\ InOrder
  /\ CoveredSoFar /\ WindowsAdvance /\ NeighboursOverlap /\ ChunksFit

-----------------------------------------------------------------------------

\* What the types and Shape say about positions in the two sequences.
Facts ==
  /\ Len(chunks) \in Nat /\ DOMAIN chunks = 1..Len(chunks)
  /\ Len(pieces) \in Nat /\ DOMAIN pieces = 1..Len(pieces)
  /\ \A i \in 1..Len(chunks) : chunks[i] \in Records /\ chunks[i].piece \in 1..taken
  /\ \A k \in 1..Len(pieces) :
       /\ pieces[k].first \in Nat \ {0} /\ pieces[k].last \in Nat \ {0}
       /\ pieces[k].first <= pieces[k].last
  /\ settings.max \in Int /\ settings.size \in Int /\ settings.overlap \in Int
  /\ taken \in Nat /\ taken <= Len(pieces) /\ start \in Int
  /\ Step \in Nat \ {0}

LEMMA ShapeFacts ==
  ASSUME Shape
  PROVE  Facts
<1> DEFINE C == [first : Int, last : Int, piece : 1..taken]
           P == [first : Nat \ {0}, last : Nat \ {0}]
<1>1. chunks \in Seq(C) /\ pieces \in Seq(P)
  BY DEF Shape, ChunkTypeOK
<1>2. /\ Len(chunks) \in Nat /\ DOMAIN chunks = 1..Len(chunks)
      /\ \A i \in 1..Len(chunks) : chunks[i] \in C
  BY <1>1, LenProperties, ElementOfSeq, Zenon
<1>3. /\ Len(pieces) \in Nat /\ DOMAIN pieces = 1..Len(pieces)
      /\ \A k \in 1..Len(pieces) : pieces[k] \in P
  BY <1>1, LenProperties, ElementOfSeq, Zenon
<1>4. settings \in [max : Int, size : Int, overlap : Int]
  BY SettingsAssumption DEF Shape, ChunkTypeOK
<1>5. taken \in 0..Len(pieces) /\ start \in Int
  BY DEF Shape, ChunkTypeOK
<1>6. C \subseteq Records
  BY <1>3, <1>5 DEF Records
<1>7. \A k \in 1..Len(pieces) : pieces[k].first <= pieces[k].last
  BY DEF Shape
<1> QED
  BY <1>2, <1>3, <1>4, <1>5, <1>6, <1>7 DEF Facts, Step, Records

\* The chunks after one was added.
Added(f, l, k) ==
  /\ Len(chunks) \in Nat /\ Len(chunks') = Len(chunks) + 1
  /\ DOMAIN chunks = 1..Len(chunks) /\ DOMAIN chunks' = 1..Len(chunks) + 1
  /\ \A i \in 1..Len(chunks) : chunks'[i] = chunks[i]
  /\ chunks'[Len(chunks) + 1].first = f
  /\ chunks'[Len(chunks) + 1].last = l
  /\ chunks'[Len(chunks) + 1].piece = k

LEMMA Appended ==
  ASSUME Shape, NEW f \in Int, NEW l \in Int, NEW k \in Nat \ {0},
         taken <= k, chunks' = Append(chunks, Chunk(f, l, k))
  PROVE  /\ Added(f, l, k)
         /\ chunks' \in Seq([first : Int, last : Int, piece : 1..k])
<1> DEFINE C == [first : Int, last : Int, piece : 1..taken]
           D == [first : Int, last : Int, piece : 1..k]
<1>1. chunks \in Seq(C) /\ taken \in Nat
  BY ShapeFacts DEF Facts, Shape, ChunkTypeOK
<1>2. C \subseteq D
  BY <1>1
<1>3. chunks \in Seq(D)
  <2> HIDE DEF C, D
  <2> QED BY <1>1, <1>2, SeqMonotonic
<1>4. Chunk(f, l, k) \in D
  BY DEF Chunk
<1>5. /\ chunks' \in Seq(D)
      /\ Len(chunks') = Len(chunks) + 1
      /\ \A i \in 1..Len(chunks) : chunks'[i] = chunks[i]
      /\ chunks'[Len(chunks) + 1] = Chunk(f, l, k)
  <2> HIDE DEF D
  <2> QED BY <1>3, <1>4, AppendProperties
<1>6. DOMAIN chunks' = 1..Len(chunks')
  BY <1>5, LenProperties, Zenon
<1> QED
  BY <1>5, <1>6, ShapeFacts DEF Chunk, Added, Facts

\* A chunk of the latest piece that begins and ends after those before keeps the order.
LEMMA OrderKept ==
  ASSUME Facts, InOrder, WindowsAdvance, NEW f \in Int, NEW l \in Int, NEW k \in Nat, Added(f, l, k),
         \A i \in 1..Len(chunks) :
           /\ chunks[i].piece <= k
           /\ chunks[i].piece = k => chunks[i].first < f /\ chunks[i].last < l
  PROVE  InOrder' /\ WindowsAdvance'
<1>n. Len(chunks) \in Nat
  BY DEF Added
<1>1. InOrder'
  <2> SUFFICES ASSUME NEW i \in 1..Len(chunks) + 1, NEW j \in 1..Len(chunks) + 1, i < j
               PROVE  chunks'[i].piece <= chunks'[j].piece
    BY DEF InOrder, Added
  <2>1. i \in 1..Len(chunks) /\ (j \in 1..Len(chunks) \/ j = Len(chunks) + 1)
    BY <1>n
  <2> QED
    BY <2>1 DEF InOrder, Added
<1>2. WindowsAdvance'
  <2> SUFFICES ASSUME NEW i \in 1..Len(chunks) + 1, NEW j \in 1..Len(chunks) + 1, i < j,
                      chunks'[i].piece = chunks'[j].piece
               PROVE  chunks'[i].first < chunks'[j].first /\ chunks'[i].last < chunks'[j].last
    BY DEF WindowsAdvance, Added
  <2>1. i \in 1..Len(chunks) /\ (j \in 1..Len(chunks) \/ j = Len(chunks) + 1)
    BY <1>n
  <2> QED
    BY <2>1 DEF WindowsAdvance, Added
<1> QED
  BY <1>1, <1>2

\* If the new chunk overlaps its predecessor of the same piece as asked, all neighbours do.
LEMMA OverlapKept ==
  ASSUME Facts, NeighboursOverlap, NEW f, NEW l, NEW k, Added(f, l, k),
         settings' = settings,
         settings.overlap \in 0..settings.size - 1 =>
           (Len(chunks) > 0 /\ chunks[Len(chunks)].piece = k =>
             chunks[Len(chunks)].last - f + 1 = settings.overlap)
  PROVE  NeighboursOverlap'
<1> SUFFICES ASSUME settings.overlap \in 0..settings.size - 1, NEW i \in 1..Len(chunks),
                    chunks'[i].piece = chunks'[i + 1].piece
             PROVE  chunks'[i].last - chunks'[i + 1].first + 1 = settings.overlap
  BY DEF NeighboursOverlap, Added
<1>1. CASE i = Len(chunks)
  BY <1>1 DEF Added
<1>2. CASE i # Len(chunks)
  <2>1. i \in 1..Len(chunks) - 1 /\ i + 1 \in 1..Len(chunks)
    BY <1>2 DEF Facts
  <2> QED
    BY <2>1 DEF NeighboursOverlap, Added
<1> QED
  BY <1>1, <1>2

\* If the new chunk fits its piece, all chunks do.
LEMMA FitKept ==
  ASSUME Facts, ChunksFit, NEW f, NEW l, NEW k, Added(f, l, k),
         settings' = settings, pieces' = pieces,
         pieces[k].first <= f, l <= pieces[k].last,
         \/ l - f + 1 <= settings.size
         \/ f = pieces[k].first /\ l = pieces[k].last /\ l - f + 1 <= settings.max
  PROVE  ChunksFit'
<1> SUFFICES ASSUME NEW i \in 1..Len(chunks) + 1
             PROVE  LET c == chunks'[i]  p == pieces[c.piece] IN
                      /\ p.first <= c.first /\ c.last <= p.last
                      /\ \/ c.last - c.first + 1 <= settings.size
                         \/ /\ c.first = p.first /\ c.last = p.last
                            /\ c.last - c.first + 1 <= settings.max
  BY DEF ChunksFit, Added, Length
<1>1. CASE i = Len(chunks) + 1
  BY <1>1 DEF Added
<1>2. CASE i # Len(chunks) + 1
  <2>0. Len(chunks) \in Nat
    BY DEF Added
  <2>1. i \in 1..Len(chunks)
    BY <1>2, <2>0
  <2> QED
    BY <2>1 DEF ChunksFit, Added, Facts, Length
<1> QED
  BY <1>1, <1>2

\* A line stays covered, and the lines of the new chunk are.
LEMMA CoverKept ==
  ASSUME NEW f, NEW l, NEW k, Added(f, l, k), NEW m, NEW x,
         Covered(m, x) \/ (m = k /\ f <= x /\ x <= l)
  PROVE  Covered(m, x)'
<1>1. CASE Covered(m, x)
  <2>1. PICK i \in DOMAIN chunks : chunks[i].piece = m /\ chunks[i].first <= x /\ x <= chunks[i].last
    BY <1>1 DEF Covered
  <2>2. i \in DOMAIN chunks' /\ chunks'[i] = chunks[i]
    BY DEF Added
  <2> QED
    BY <2>1, <2>2 DEF Covered
<1>2. CASE m = k /\ f <= x /\ x <= l
  <2>1. Len(chunks) + 1 \in DOMAIN chunks'
    BY DEF Added
  <2> QED
    BY <1>2, <2>1 DEF Covered, Added
<1> QED
  BY <1>1, <1>2

LEMMA ChunkInit == Init => CInv
<1> SUFFICES ASSUME Init PROVE CInv
  OBVIOUS
<1>1. Len(chunks) = 0 /\ Len(pieces) = 0 /\ chunks = <<>> /\ pieces = <<>> /\ taken = 0
  BY DEF Init
<1>2. Shape
  BY <1>1, EmptySeq, BoundsAssumption DEF Init, Shape, ChunkTypeOK
<1> QED
  BY <1>1, <1>2, ShapeFacts DEF Facts, Init, CInv, Behind, Latest, InOrder, CoveredSoFar, WindowsAdvance,
     NeighboursOverlap, ChunksFit

\* Parsing leaves no chunks and one or more pieces with lines.
LEMMA ParsePreserves ==
  ASSUME CInv, Parse
  PROVE  CInv'
<1>1. pc = "parse" /\ taken = 0 /\ chunks = <<>> /\ Len(chunks) = 0 /\ lines \in Nat
      /\ chunks' = <<>> /\ Len(chunks') = 0 /\ DOMAIN chunks' = {}
      /\ settings' = settings /\ lines' = lines
  BY DEF Parse, SymbolsFound, Fallback, CInv, Shape, ChunkTypeOK
<1>2. CASE Fallback
  <2> DEFINE r == [first |-> 1, last |-> IF lines = 0 THEN 1 ELSE lines]
  <2>1. pieces' = <<r>> /\ Len(pieces') = 1 /\ pieces'[1] = r /\ taken' = 1 /\ start' = 1
        /\ pc' = "windows"
    BY <1>2 DEF Fallback
  <2>2. r \in [first : Nat \ {0}, last : Nat \ {0}] /\ r.first = 1 /\ r.first <= r.last
    BY <1>1
  <2>3. Shape'
    BY <1>1, <2>1, <2>2, EmptySeq DEF CInv, Shape, ChunkTypeOK
  <2> QED
    BY <1>1, <2>1, <2>2, <2>3 DEF CInv, Behind, Latest, InOrder, CoveredSoFar, Handled,
       WindowsAdvance, NeighboursOverlap, ChunksFit
<1>3. ASSUME NEW n \in 1..MaxSymbols, NEW s \in [1..n -> Ranges(lines)], SymbolsFound(s)
      PROVE  CInv'
  <2>1. pieces' = s /\ taken' = 0 /\ start' = start /\ pc' = "symbols"
    BY <1>1, <1>3 DEF SymbolsFound
  <2>2. n \in Nat /\ Len(s) = n
    BY BoundsAssumption
  <2>3. s \in Seq([first : Nat \ {0}, last : Nat \ {0}])
        /\ \A k \in 1..Len(s) : s[k].first <= s[k].last
    <3>1. s \in [1..Len(s) -> [first : Nat \ {0}, last : Nat \ {0}]]
      BY <1>1, <2>2 DEF Ranges
    <3>2. s \in Seq([first : Nat \ {0}, last : Nat \ {0}])
      BY <2>2, <3>1, SeqDef, Zenon
    <3> QED
      BY <1>1, <2>2, <3>2 DEF Ranges
  <2>4. Shape'
    BY <1>1, <2>1, <2>2, <2>3, EmptySeq DEF CInv, Shape, ChunkTypeOK
  <2> QED
    BY <1>1, <2>1, <2>4 DEF CInv, Behind, Latest, InOrder, CoveredSoFar, Handled,
       WindowsAdvance, NeighboursOverlap, ChunksFit
<1> QED
  BY <1>2, <1>3 DEF Parse

\* A symbol that fits is covered by its one chunk.
LEMMA TakePreserves ==
  ASSUME CInv, TakeSymbol
  PROVE  CInv'
<1> DEFINE f == pieces[taken + 1].first
           l == pieces[taken + 1].last
<1>1. /\ pc = "symbols" /\ pc' = "symbols" /\ taken < Len(pieces) /\ taken' = taken + 1
      /\ l - f + 1 <= settings.max
      /\ UNCHANGED <<settings, lines, pieces, start>>
      /\ chunks' = Append(chunks, Chunk(f, l, taken + 1))
  BY DEF TakeSymbol, Upcoming, Length
<1>2. Shape /\ Facts
  BY ShapeFacts DEF CInv
<1>3. f \in Int /\ l \in Int /\ taken + 1 \in Nat \ {0} /\ taken <= taken + 1
  BY <1>1, <1>2 DEF Facts
<1>4. Added(f, l, taken + 1) /\ chunks' \in Seq([first : Int, last : Int, piece : 1..taken + 1])
  <2> HIDE DEF f, l
  <2> QED BY <1>1, <1>2, <1>3, Appended
<1>5. Shape'
  BY <1>1, <1>2, <1>4 DEF Shape, ChunkTypeOK, Facts
<1>6. \A i \in 1..Len(chunks) : chunks[i].piece < taken + 1
  BY <1>2 DEF Facts
<1>7. InOrder' /\ WindowsAdvance' /\ NeighboursOverlap' /\ ChunksFit'
  <2>1. \A i \in 1..Len(chunks) : chunks[i].piece <= taken + 1 /\ chunks[i].piece # taken + 1
    BY <1>2, <1>6 DEF Facts, Records
  <2>2. InOrder' /\ WindowsAdvance'
    <3> HIDE DEF f, l
    <3> QED BY <1>2, <1>3, <1>4, <2>1, OrderKept DEF CInv
  <2>3. Len(chunks) > 0 => Len(chunks) \in 1..Len(chunks)
    BY <1>2 DEF Facts
  <2>4. NeighboursOverlap'
    <3> HIDE DEF f, l
    <3> QED BY <1>1, <1>2, <1>4, <2>1, <2>3, OverlapKept DEF CInv
  <2>5. /\ pieces[taken + 1].first = f /\ pieces[taken + 1].last = l
        /\ pieces[taken + 1].first <= f /\ l <= pieces[taken + 1].last
    BY <1>3
  <2>6. ChunksFit'
    <3> HIDE DEF f, l
    <3> QED BY <1>1, <1>2, <1>4, <2>5, FitKept DEF CInv
  <2> QED
    BY <2>2, <2>4, <2>6
<1>8. CoveredSoFar'
  <2> SUFFICES ASSUME Sensible, NEW k \in 1..taken + 1, NEW x \in Int,
                      pieces[k].first <= x, x <= pieces[k].last
               PROVE  Covered(k, x)'
    BY <1>1 DEF CoveredSoFar, Sensible, Handled
  <2>1. k \in 1..taken => Covered(k, x)
    BY <1>1 DEF CInv, CoveredSoFar, Handled
  <2>2. Covered(k, x) \/ (k = taken + 1 /\ f <= x /\ x <= l)
    BY <1>2, <2>1 DEF Facts
  <2> HIDE DEF f, l
  <2> QED
    BY <1>4, <2>2, CoverKept
<1> QED
  BY <1>1, <1>5, <1>7, <1>8 DEF CInv, Behind, Latest

\* Cutting a symbol begins with its first line, no window of it made.
LEMMA SplitPreserves ==
  ASSUME CInv, SplitSymbol
  PROVE  CInv'
<1>1. /\ pc = "symbols" /\ pc' = "windows" /\ taken < Len(pieces) /\ taken' = taken + 1
      /\ start' = pieces[taken + 1].first
      /\ UNCHANGED <<settings, lines, pieces, chunks>>
  BY DEF SplitSymbol, Upcoming
<1>2. Shape /\ Facts
  BY ShapeFacts DEF CInv
<1>3. \A i \in 1..Len(chunks) : chunks[i].piece # taken + 1
  BY <1>2 DEF Facts
<1>4. chunks \in Seq([first : Int, last : Int, piece : 1..taken + 1])
  <2> DEFINE C == [first : Int, last : Int, piece : 1..taken]
             D == [first : Int, last : Int, piece : 1..taken + 1]
  <2>1. C \subseteq D
    BY <1>2 DEF Facts
  <2>3. chunks \in Seq(C)
    BY <1>2 DEF Shape, ChunkTypeOK
  <2> HIDE DEF C, D
  <2>2. chunks \in Seq(D)
    BY <2>1, <2>3, SeqMonotonic
  <2> QED
    BY <2>2 DEF D
<1>5. Shape'
  BY <1>1, <1>2, <1>4 DEF Shape, ChunkTypeOK, Facts
<1>6. Behind' /\ Latest'
  BY <1>1, <1>2, <1>3 DEF Behind, Latest, Facts
<1>7. InOrder' /\ WindowsAdvance' /\ NeighboursOverlap' /\ ChunksFit'
  BY <1>1 DEF CInv, InOrder, WindowsAdvance, NeighboursOverlap, ChunksFit
<1>8. CoveredSoFar'
  <2> SUFFICES ASSUME Sensible, NEW k \in 1..taken + 1, NEW x \in Int,
                      pieces[k].first <= x, x <= Handled(k)', x <= pieces[k].last
               PROVE  Covered(k, x)
    BY <1>1 DEF CoveredSoFar, Sensible, Covered
  <2>1. k # taken + 1
    BY <1>1, <1>2 DEF Handled, Facts
  <2>2. k \in 1..taken
    BY <1>2, <2>1 DEF Facts
  <2> QED
    BY <1>1, <2>2 DEF CInv, CoveredSoFar, Handled
<1> QED
  BY <1>5, <1>6, <1>7, <1>8 DEF CInv

\* A window covers what lies between the window before it and the next.
LEMMA WindowPreserves ==
  ASSUME CInv, Window
  PROVE  CInv'
<1> DEFINE e == WindowEnd
           last == pieces[taken].last
<1>1. /\ pc = "windows" /\ start <= last
      /\ UNCHANGED <<settings, lines, pieces, taken>>
      /\ chunks' = Append(chunks, Chunk(start, e, taken))
      /\ \/ e = last /\ pc' = "symbols" /\ start' = start
         \/ e # last /\ pc' = "windows" /\ start' = start + Step
  BY DEF Window
<1>2. Shape /\ Facts
  BY ShapeFacts DEF CInv
<1>3. /\ taken \in 1..Len(pieces) /\ taken \in Nat \ {0} /\ start \in Int /\ last \in Int
      /\ pieces[taken].first <= start /\ pieces[taken].first \in Int
      /\ settings.size \in Int /\ Step \in Nat \ {0}
  BY <1>1, <1>2 DEF Facts, Shape
<1>4. /\ e \in Int /\ e <= last /\ e <= start + settings.size - 1
      /\ e # last => e = start + settings.size - 1
      /\ \A x \in Int : x < last /\ x < start + settings.size - 1 => x < e
      /\ settings.size >= 1 => start <= e
  BY <1>1, <1>3 DEF WindowEnd
<1> HIDE DEF e, last
<1>a. taken <= taken
  BY <1>3
<1>b. Added(start, e, taken) /\ chunks' \in Seq([first : Int, last : Int, piece : 1..taken])
  BY <1>1, <1>2, <1>3, <1>4, <1>a, Appended
<1>5. Added(start, e, taken) /\ Len(chunks) \in Nat
  BY <1>b DEF Added
<1>6. Shape'
  <2>1. start' \in Int /\ pieces[taken].first <= start'
    BY <1>1, <1>3
  <2> QED
    BY <1>1, <1>2, <1>3, <1>b, <2>1 DEF Shape, ChunkTypeOK
<1>7. \A i \in 1..Len(chunks) :
        /\ chunks[i].piece <= taken
        /\ chunks[i].piece = taken => chunks[i].first < start /\ chunks[i].last < e
  <2> SUFFICES ASSUME NEW i \in 1..Len(chunks)
               PROVE  /\ chunks[i].piece <= taken
                      /\ chunks[i].piece = taken => chunks[i].first < start /\ chunks[i].last < e
    OBVIOUS
  <2>1. chunks[i].first \in Int /\ chunks[i].last \in Int /\ chunks[i].piece \in 1..taken
    BY <1>2 DEF Facts, Records
  <2>2. chunks[i].piece = taken =>
          /\ chunks[i].first < start /\ chunks[i].last < last
          /\ chunks[i].last = chunks[i].first + settings.size - 1
    BY <1>1 DEF CInv, Behind, last
  <2> QED
    BY <1>3, <1>4, <2>1, <2>2
<1>8. InOrder' /\ WindowsAdvance'
  BY <1>2, <1>3, <1>4, <1>5, <1>7, OrderKept DEF CInv
<1>9. NeighboursOverlap'
  <2> DEFINE n == Len(chunks)
  <2>1. ASSUME settings.overlap \in 0..settings.size - 1, n > 0, chunks[n].piece = taken
        PROVE  chunks[n].last - start + 1 = settings.overlap
    <3>1. n \in 1..n /\ chunks[n].first \in Int
      BY <1>2, <2>1 DEF Facts, Records
    <3>2. chunks[n].first + Step = start
      BY <1>1, <2>1 DEF CInv, Latest
    <3>3. chunks[n].last = chunks[n].first + settings.size - 1
      BY <1>1, <2>1, <3>1 DEF CInv, Behind
    <3>4. Step = settings.size - settings.overlap
      BY <1>2, <2>1 DEF Facts, Step
    <3>5. settings.size \in Int /\ settings.overlap \in Int
      BY <1>2 DEF Facts
    <3> HIDE DEF n
    <3> QED
      BY <3>1, <3>2, <3>3, <3>4, <3>5
  <2> QED
    BY <1>1, <1>2, <1>5, <2>1, OverlapKept DEF CInv
<1>10. ChunksFit'
  <2>1. e <= pieces[taken].last /\ e - start + 1 <= settings.size
    BY <1>3, <1>4 DEF last
  <2> QED
    BY <1>1, <1>2, <1>3, <1>5, <2>1, FitKept DEF CInv
<1>11. Behind' /\ Latest'
  <2> SUFFICES ASSUME pc' = "windows"
               PROVE  Behind' /\ Latest'
    BY DEF Behind, Latest
  <2>1. e # last /\ start' = start + Step /\ e = start + settings.size - 1 /\ e < last
    BY <1>1, <1>3, <1>4
  <2>2. ASSUME NEW i \in 1..Len(chunks) + 1, chunks'[i].piece = taken
        PROVE  /\ chunks'[i].first < start' /\ chunks'[i].last < last
               /\ chunks'[i].last = chunks'[i].first + settings.size - 1
    <3>1. CASE i = Len(chunks) + 1
      BY <1>3, <1>5, <2>1, <3>1 DEF Added
    <3>2. CASE i # Len(chunks) + 1
      <4>0. i \in 1..Len(chunks)
        BY <1>5, <3>2
      <4>1. i \in 1..Len(chunks) /\ chunks'[i] = chunks[i]
        BY <1>5, <4>0 DEF Added
      <4>2. chunks[i].first \in Int
        BY <1>2, <4>1 DEF Facts, Records
      <4>3. /\ chunks[i].first < start /\ chunks[i].last < last
            /\ chunks[i].last = chunks[i].first + settings.size - 1
        BY <1>1, <2>2, <4>1 DEF CInv, Behind, last
      <4> QED
        BY <1>3, <2>1, <4>1, <4>2, <4>3
    <3> QED
      BY <3>1, <3>2
  <2>3. Behind'
    BY <1>1, <1>5, <2>2 DEF Behind, Added, last
  <2>4. Step' = Step
    BY <1>1 DEF Step
  <2>5. Latest'
    BY <1>1, <1>5, <2>1, <2>4 DEF Latest, Added
  <2> QED
    BY <2>3, <2>5
<1>12. CoveredSoFar'
  <2> SUFFICES ASSUME Sensible, NEW k \in 1..taken, NEW x \in Int,
                      pieces[k].first <= x, x <= Handled(k)', x <= pieces[k].last
               PROVE  Covered(k, x)'
    BY <1>1 DEF CoveredSoFar, Sensible
  <2>1. CASE k # taken
    BY <1>1, <1>5, <2>1, CoverKept DEF CInv, CoveredSoFar, Handled
  <2>2. CASE k = taken
    <3>1. x <= start - 1 => Covered(k, x)
      BY <1>1, <2>2 DEF CInv, CoveredSoFar, Handled
    <3>2. x <= e
      <4>1. CASE e = last
        BY <2>2, <4>1 DEF last
      <4>2. CASE e # last
        <5>1. x <= start + Step - 1
          BY <1>1, <1>3, <2>2, <4>2 DEF Handled
        <5>2. Step <= settings.size
          BY <1>2 DEF Facts, Step, Sensible
        <5> QED
          BY <1>3, <1>4, <4>2, <5>1, <5>2
      <4> QED
        BY <4>1, <4>2
    <3>3. x <= start - 1 \/ start <= x
      BY <1>3
    <3> QED
      BY <1>5, <2>2, <3>1, <3>2, <3>3, CoverKept
  <2> QED
    BY <2>1, <2>2
<1> QED
  BY <1>6, <1>8, <1>9, <1>10, <1>11, <1>12 DEF CInv

\* When the windows are past the end of their piece, it is handled as a whole.
LEMMA LeavePreserves ==
  ASSUME CInv, WindowsEnd \/ Finish \/ UNCHANGED vars
  PROVE  CInv'
<1>1. UNCHANGED <<settings, lines, pieces, taken, start, chunks>>
  BY DEF WindowsEnd, Finish, vars
<1>2. Shape /\ Facts
  BY ShapeFacts DEF CInv
<1>3. Shape'
  BY <1>1, <1>2 DEF WindowsEnd, Finish, vars, Shape, ChunkTypeOK
<1>4. Behind' /\ Latest'
  BY <1>1 DEF WindowsEnd, Finish, vars, CInv, Behind, Latest, Step
<1>5. InOrder' /\ WindowsAdvance' /\ NeighboursOverlap' /\ ChunksFit'
  BY <1>1 DEF CInv, InOrder, WindowsAdvance, NeighboursOverlap, ChunksFit
<1>6. CoveredSoFar'
  <2> SUFFICES ASSUME Sensible, NEW k \in 1..taken, NEW x \in Int,
                      pieces[k].first <= x, x <= Handled(k)', x <= pieces[k].last
               PROVE  Covered(k, x)
    BY <1>1 DEF CoveredSoFar, Sensible, Covered
  <2>1. pc = "windows" /\ k = taken /\ pc' # "windows" => pieces[k].last <= start - 1
    BY <1>2 DEF WindowsEnd, Finish, vars, Facts
  <2>2. x <= Handled(k)
    <3>1. pieces[k].last \in Int /\ start \in Int
      BY <1>2 DEF Facts
    <3>2. CASE pc = "windows" /\ k = taken /\ pc' # "windows"
      BY <2>1, <3>1, <3>2 DEF Handled
    <3>3. CASE pc = "windows" /\ k = taken /\ pc' = "windows"
      BY <1>1, <3>3 DEF Handled
    <3>4. CASE ~(pc = "windows" /\ k = taken)
      BY <3>4 DEF Handled
    <3> QED
      BY <3>2, <3>3, <3>4
  <2> QED
    BY <2>2 DEF CInv, CoveredSoFar
<1> QED
  BY <1>3, <1>4, <1>5, <1>6 DEF CInv

LEMMA ChunkInvariant == Spec => []CInv
<1>1. CInv /\ [Next]_vars => CInv'
  BY ParsePreserves, TakePreserves, SplitPreserves, WindowPreserves, LeavePreserves DEF Next
<1> QED
  BY <1>1, ChunkInit, PTL DEF Spec

-----------------------------------------------------------------------------

\* Under any settings the chunker stays within its pieces and never cuts a range of no lines.
THEOREM ChunkTypeCorrect == Spec => []ChunkTypeOK
<1>1. CInv => ChunkTypeOK
  BY DEF CInv, Shape
<1> QED
  BY <1>1, ChunkInvariant, PTL

\* No line of a piece is lost by any window of at least one line and overlap of at least none.
THEOREM NoLineIsLost == Spec => []EveryLineKept
<1>1. CInv => EveryLineKept
  <2> SUFFICES ASSUME CInv, Sensible, pc = "done", NEW k \in DOMAIN pieces,
                      NEW l \in pieces[k].first..pieces[k].last
               PROVE  Covered(k, l)
    BY DEF EveryLineKept
  <2>1. Facts /\ taken = Len(pieces)
    BY ShapeFacts DEF CInv, Shape
  <2>2. k \in 1..taken /\ pieces[k].first \in Int /\ pieces[k].last \in Int
    BY <2>1 DEF Facts
  <2>3. l \in Int /\ pieces[k].first <= l /\ l <= pieces[k].last /\ Handled(k) = pieces[k].last
    BY <2>2 DEF Handled
  <2> QED
    BY <2>2, <2>3 DEF CInv, CoveredSoFar
<1> QED
  BY <1>1, ChunkInvariant, PTL

\* Windows of one piece advance at both ends under any settings, so their ids differ.
THEOREM WindowsDiffer == Spec => []WindowsAdvance
<1>1. CInv => WindowsAdvance
  BY DEF CInv
<1> QED
  BY <1>1, ChunkInvariant, PTL

\* Neighbours share the overlap asked for, whenever it is shorter than a window.
THEOREM OverlapAsAsked == Spec => []NeighboursOverlap
<1>1. CInv => NeighboursOverlap
  BY DEF CInv
<1> QED
  BY <1>1, ChunkInvariant, PTL

\* No chunk leaves its piece or exceeds the setting it was cut by.
THEOREM ChunksStayInBounds == Spec => []ChunksFit
<1>1. CInv => ChunksFit
  BY DEF CInv
<1> QED
  BY <1>1, ChunkInvariant, PTL
=============================================================================
