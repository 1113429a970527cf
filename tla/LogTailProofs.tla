--------------------------- MODULE LogTailProofs ----------------------------
(***************************************************************************)
(* Proofs about LogTail, for any line limit, number of lines of a poll,    *)
(* rotations, failures and crashes.                                        *)
(***************************************************************************)
EXTENDS LogTail, NumberLemmas, SequenceTheorems

-----------------------------------------------------------------------------
(* The inductive invariant.                                                *)

Cell == (1..MaxGenerations) \X (1..MaxBytes)
EventType == [text : Seq(Cell), end : Cell, truncated : BOOLEAN]
FileType == [inode : 1..MaxGenerations, bytes : Seq({"x", "newline"})]

\* Only the newest generation is ever at the path.
SourceOK ==
    /\ kind \in {"file", "journald"}
    /\ files \in Seq(FileType) /\ Len(files) \in 1..MaxGenerations
    /\ path \in {0, Len(files)}
    /\ written \in 0..MaxBytes
    /\ \A g \in 1..Len(files) : Size(g) <= written
    /\ kind = "journald" => path = 1

StateOK ==
    /\ pc \in {"idle", "found", "read", "appended", "dead", "down"}
    /\ known \in BOOLEAN /\ torn \in BOOLEAN
    /\ failures \in Nat /\ crashes \in Nat
    /\ \A c \in {cursor, pending, saved} : c \in CursorType /\ Len(c.partial) <= MaxLineBytes
    /\ found \in [gen : 0..Len(files), size : 0..MaxBytes]
    /\ lines \in Seq(EventType) /\ Len(lines) <= MaxLines
    /\ spool \in Seq(EventType)
    /\ pc = "found" => found.gen # 0 /\ found.size <= Size(found.gen)
    /\ pc \in {"idle", "found"} /\ failures = 0 => pending = NoCursor
    /\ pc = "dead" => failures > 0
    /\ pc = "down" => pending = NoCursor
    /\ pc = "appended" => saved = pending

\* The line that position n of generation g belongs to starts after ls.
StartsLine(g, ls, n) ==
    /\ ls \in 0..(n - 1)
    /\ ls = 0 \/ IsNewline(<<g, ls>>)
    /\ \A m \in (ls + 1)..(n - 1) : ~IsNewline(<<g, m>>)

Rest(g, n) == Cells(g, LineStart(g, n + 1) + 1, n)
Line(cell) == Cells(cell[1], LineStart(cell[1], cell[2]) + 1, cell[2] - 1)

\* A cursor describes a place of its generation: the partial line is what
\* stands before the offset since the last newline.
Exact(c) ==
    /\ c.gen \in 1..Len(files)
    /\ c.inode = files[c.gen].inode
    /\ c.offset <= Size(c.gen)
    /\ c.partial = CutTo(Rest(c.gen, c.offset))
    /\ c.cut = (Len(Rest(c.gen, c.offset)) > MaxLineBytes)

PlacesOK == \A c \in {cursor, pending, saved} : c = NoCursor \/ Exact(c)

InLines(cell) == \E k \in DOMAIN lines : lines[k].end = cell

\* Of the file at the path: what the cursors pass over is spooled, or among
\* the lines that are about to be.  What was pending when a poll failed may
\* be saved later without its lines, when the file has gone from the path.
CoverOK ==
    path # 0 =>
    /\ \A c \in {cursor, saved} : c.gen = path =>
          \A n \in 1..c.offset : IsNewline(<<path, n>>) => Spooled(<<path, n>>)
    /\ pc = "read" /\ pending.gen = path =>
          \A n \in 1..pending.offset : IsNewline(<<path, n>>) => Spooled(<<path, n>>) \/ InLines(<<path, n>>)

Whole(e) ==
    /\ e.end[1] \in 1..Len(files) /\ e.end[2] \in 1..Size(e.end[1])
    /\ e.text = CutTo(Line(e.end))
    /\ e.truncated = (Len(Line(e.end)) > MaxLineBytes)

WholeOK == \A e \in Range(spool) \cup Range(lines) : Whole(e)

UpTo(cell, c) == cell[1] < c.gen \/ (cell[1] = c.gen /\ cell[2] <= c.offset)

DistinctEnds(s) == \A j, k \in DOMAIN s : s[j].end = s[k].end => j = k

\* Nothing failed: memory and spool agree, and a poll's lines lie after the
\* saved cursor and before the pending one.
OnceOK ==
    /\ pc \in {"idle", "found", "read"} => cursor = saved
    /\ pc = "found" /\ found.gen = cursor.gen => cursor.offset <= found.size
    /\ \A k \in DOMAIN spool : UpTo(spool[k].end, saved)
    /\ DistinctEnds(spool)
    /\ pc = "read" =>
          /\ saved.gen < pending.gen \/ (saved.gen = pending.gen /\ saved.offset <= pending.offset)
          /\ \A k \in DOMAIN lines : UpTo(lines[k].end, pending) /\ ~UpTo(lines[k].end, saved)
          /\ DistinctEnds(lines)

FileOK == kind = "file" /\ ~torn => /\ PlacesOK /\ CoverOK /\ WholeOK
                                    /\ failures = 0 => OnceOK

\* A poll of the journal ends at the pending cursor and, unless entries were
\* passed over, starts at the saved one.
JournalPoll ==
    /\ saved.offset + Len(lines) <= pending.offset
    /\ \A k \in DOMAIN lines : lines[k].end = <<1, pending.offset - Len(lines) + k>>
    /\ ~torn /\ saved # NoCursor => saved.offset + Len(lines) = pending.offset

JournalPlaces ==
    /\ saved.offset <= Size(1) /\ pending.offset <= Size(1)
    /\ pending # NoCursor => saved.offset <= pending.offset

\* No entry between the first one collected and the cursor is missing.
JournalSpool ==
    /\ saved = NoCursor => spool = <<>>
    /\ \A k \in DOMAIN spool : spool[k].end[1] = 1 /\ spool[k].end[2] <= saved.offset
    /\ DistinctEnds(spool)
    /\ ~torn => \A n, m \in 1..saved.offset : n <= m /\ Spooled(<<1, n>>) => Spooled(<<1, m>>)

JournalOK ==
    kind = "journald" =>
    /\ JournalPlaces /\ JournalSpool
    /\ pc \in {"read", "appended"} => pending # NoCursor
    /\ pc = "read" => JournalPoll

TailInv == SourceOK /\ StateOK /\ FileOK /\ JournalOK

-----------------------------------------------------------------------------
(* The operators on cells and lines.                                       *)

\* A part of a sequence.
LEMMA PartFacts ==
    ASSUME NEW X, NEW s \in Seq(X), NEW a \in Nat, NEW b \in Nat, a <= b, b <= Len(s)
    PROVE  /\ SubSeq(s, a + 1, b) \in Seq(X)
           /\ Len(SubSeq(s, a + 1, b)) = b - a
           /\ \A i \in 1..(b - a) : SubSeq(s, a + 1, b)[i] = s[a + i]
<1>1. Len(s) \in Nat /\ \A i \in 1..Len(s) : s[i] \in X
  BY ElementOfSeq, LenProperties
<1>2. \A i \in (a + 1)..b : s[i] \in X
  BY <1>1
<1>3. /\ SubSeq(s, a + 1, b) \in Seq(X)
      /\ Len(SubSeq(s, a + 1, b)) = IF a + 1 <= b THEN b - (a + 1) + 1 ELSE 0
      /\ \A i \in 1..(b - (a + 1) + 1) : SubSeq(s, a + 1, b)[i] = s[a + 1 + i - 1]
  BY <1>2, SubSeqProperties
<1>4. b - (a + 1) + 1 = b - a /\ (~(a + 1 <= b) => b - a = 0) /\ \A i \in 1..(b - a) : a + 1 + i - 1 = a + i
  OBVIOUS
<1> QED BY <1>3, <1>4

\* [:max_line_bytes]
LEMMA CutFacts ==
    ASSUME NEW X, NEW s \in Seq(X)
    PROVE  LET n == IF Len(s) <= MaxLineBytes THEN Len(s) ELSE MaxLineBytes
           IN  /\ n \in Nat /\ n <= MaxLineBytes
               /\ CutTo(s) \in Seq(X) /\ Len(CutTo(s)) = n
               /\ \A i \in 1..n : CutTo(s)[i] = s[i]
<1> DEFINE n == IF Len(s) <= MaxLineBytes THEN Len(s) ELSE MaxLineBytes
<1>1. Len(s) \in Nat /\ MaxLineBytes \in Nat /\ Len(s) \in Int /\ MaxLineBytes \in Int
  BY LenProperties, LogTailAssumption
<1>2. Min({Len(s), MaxLineBytes}) = n /\ n \in Nat /\ n <= MaxLineBytes /\ n <= Len(s)
  BY <1>1, MinOfTwo
<1> HIDE DEF n
<1>3. CutTo(s) = SubSeq(s, 0 + 1, n)
  <2>1. CutTo(s) = SubSeq(s, 1, n)
    BY <1>2, Zenon DEF CutTo
  <2>2. 0 + 1 = 1
    OBVIOUS
  <2> QED BY <2>1, <2>2, Zenon
<1>4. /\ SubSeq(s, 0 + 1, n) \in Seq(X) /\ Len(SubSeq(s, 0 + 1, n)) = n - 0
      /\ \A i \in 1..(n - 0) : SubSeq(s, 0 + 1, n)[i] = s[0 + i]
  BY <1>2, PartFacts
<1>5. n - 0 = n /\ \A i \in 1..n : 0 + i = i
  BY <1>2
<1>6. Len(CutTo(s)) = n /\ \A i \in 1..n : CutTo(s)[i] = s[i]
  BY <1>3, <1>4, <1>5
<1>7. n \in Nat /\ n <= MaxLineBytes /\ CutTo(s) \in Seq(X) /\ Len(CutTo(s)) = n
      /\ \A i \in 1..n : CutTo(s)[i] = s[i]
  BY <1>2, <1>3, <1>4, <1>6
<1> QED BY <1>7 DEF n

LEMMA CellsFacts ==
    ASSUME NEW g, NEW first \in Nat, NEW last \in Nat, first <= last
    PROVE  /\ Cells(g, first + 1, last) \in Seq({g} \X Int)
           /\ Len(Cells(g, first + 1, last)) = last - first
           /\ \A i \in 1..(last - first) : Cells(g, first + 1, last)[i] = <<g, first + i>>
<1> DEFINE n == last - first
<1>1. n \in Nat /\ last - (first + 1) + 1 = n /\ 0 \in Int
  OBVIOUS
<1>2. Max({0, n}) = n
  <2> HIDE DEF n
  <2>1. n \in Int /\ n >= 0
    BY <1>1
  <2> QED BY <2>1, MaxOfTwo
<1>3. Cells(g, first + 1, last) = [i \in 1..n |-> <<g, first + 1 + i - 1>>]
  BY <1>1, <1>2 DEF Cells
<1>4. \A i \in 1..n : first + 1 + i - 1 = first + i
  OBVIOUS
<1> HIDE DEF n
<1>5. [i \in 1..n |-> <<g, first + 1 + i - 1>>] = [i \in 1..n |-> <<g, first + i>>]
  BY <1>4
<1>6. \A i \in 1..n : first + i \in Int
  OBVIOUS
<1>7. [i \in 1..n |-> <<g, first + i>>] \in Seq({g} \X Int)
  BY <1>1, <1>6
<1>8. Len([i \in 1..n |-> <<g, first + i>>]) = n
  BY <1>1
<1>9. \A i \in 1..n : [j \in 1..n |-> <<g, first + j>>][i] = <<g, first + i>>
  OBVIOUS
<1> QED BY <1>3, <1>5, <1>7, <1>8, <1>9 DEF n

\* LineStart finds the only start of a line.
LEMMA LineStartFacts ==
    ASSUME NEW g, NEW n \in Nat \ {0}
    PROVE  /\ StartsLine(g, LineStart(g, n), n)
           /\ \A ls : StartsLine(g, ls, n) => ls = LineStart(g, n)
<1> DEFINE T == {0} \cup {m \in 1..(n - 1) : IsNewline(<<g, m>>)}
<1>1. n - 1 \in Nat /\ T \in SUBSET (0..(n - 1)) /\ T # {} /\ 0 \in T
  OBVIOUS
<1>2. LineStart(g, n) = Max(T)
  BY DEF LineStart
<1>3. Max(T) \in T /\ \A m \in T : m <= Max(T)
  <2> HIDE DEF T
  <2> QED BY <1>1, GreatestNumber
<1>4. StartsLine(g, LineStart(g, n), n)
  <2> DEFINE x == LineStart(g, n)
  <2>1. x \in T /\ \A m \in T : m <= x
    BY <1>2, <1>3
  <2> HIDE DEF x
  <2>2. x \in 0..(n - 1) /\ (x = 0 \/ IsNewline(<<g, x>>))
    BY <2>1
  <2>3. ASSUME NEW m \in (x + 1)..(n - 1) PROVE ~IsNewline(<<g, m>>)
    <3>1. m \in 1..(n - 1) /\ ~(m <= x)
      BY <2>2
    <3>2. m \notin T
      BY <2>1, <3>1
    <3> QED BY <3>1, <3>2
  <2>4. StartsLine(g, x, n)
    BY <2>2, <2>3 DEF StartsLine
  <2> QED BY <2>4 DEF x
<1>5. ASSUME NEW ls, NEW x, StartsLine(g, ls, n), StartsLine(g, x, n) PROVE ls = x
  <2>1. ls \in 0..(n - 1) /\ x \in 0..(n - 1)
    BY <1>5 DEF StartsLine
  <2>2. ls < x => x \in (ls + 1)..(n - 1) /\ x # 0
    BY <2>1
  <2>3. x < ls => ls \in (x + 1)..(n - 1) /\ ls # 0
    BY <2>1
  <2>4. ~(ls < x)
    BY <1>5, <2>2 DEF StartsLine
  <2>5. ~(x < ls)
    BY <1>5, <2>3 DEF StartsLine
  <2> QED BY <2>1, <2>4, <2>5
<1> QED BY <1>4, <1>5

-----------------------------------------------------------------------------
(* The lines of a sequence of cells.                                       *)

Marks(cells) == {n \in DOMAIN cells : IsNewline(cells[n])}

LEMMA NewlinesFacts ==
    ASSUME NEW X, NEW cells \in Seq(X)
    PROVE  /\ Len(cells) \in Nat /\ Marks(cells) \in SUBSET (1..Len(cells))
           /\ Newlines(cells) = Cardinality(Marks(cells)) /\ Newlines(cells) \in Nat
           /\ Newlines(cells) = Count(Marks(cells), Len(cells))
           /\ \A n \in 0..Len(cells) : Newlines(SubSeq(cells, 1, n)) = Count(Marks(cells), n)
<1>1. Len(cells) \in Nat /\ DOMAIN cells = 1..Len(cells)
  BY LenProperties
<1>2. Marks(cells) \in SUBSET (1..Len(cells))
  BY <1>1 DEF Marks
<1>3. Newlines(cells) = Cardinality(Marks(cells))
  BY DEF Newlines, Marks
<1>4. Count(Marks(cells), Len(cells)) = Cardinality(Marks(cells))
  BY <1>1, <1>2, CountAll
<1>5. Count(Marks(cells), Len(cells)) \in Nat
  BY <1>1, <1>2, CountStep
<1>6. ASSUME NEW n \in 0..Len(cells) PROVE Newlines(SubSeq(cells, 1, n)) = Count(Marks(cells), n)
  <2> DEFINE t == SubSeq(cells, 0 + 1, n)
  <2>1. n \in Nat /\ 0 <= n /\ n <= Len(cells) /\ n - 0 = n /\ 0 + 1 = 1 /\ \A i \in 1..n : 0 + i = i
    BY <1>1
  <2>2. t \in Seq(X) /\ Len(t) = n - 0 /\ \A i \in 1..(n - 0) : t[i] = cells[0 + i]
    BY <2>1, PartFacts
  <2>3. t = SubSeq(cells, 1, n)
    BY <2>1
  <2> HIDE DEF t
  <2>4. DOMAIN t = 1..n /\ \A i \in 1..n : t[i] = cells[i]
    BY <2>1, <2>2, LenProperties
  <2>5. \A i : i \in 1..n <=> i \in 1..Len(cells) /\ i <= n
    BY <1>1, <2>1
  <2>6. {i \in DOMAIN t : IsNewline(t[i])} = {m \in Marks(cells) : m <= n}
    BY <1>1, <2>4, <2>5 DEF Marks
  <2> QED BY <2>3, <2>6 DEF Newlines, Count
<1> QED BY <1>1, <1>2, <1>3, <1>4, <1>5, <1>6

\* LineEnd is the k-th newline.
LEMMA LineEndFacts ==
    ASSUME NEW X, NEW cells \in Seq(X), NEW k \in 0..Newlines(cells)
    PROVE  /\ LineEnd(cells, k) \in 0..Len(cells)
           /\ Count(Marks(cells), LineEnd(cells, k)) = k
           /\ k = 0 => LineEnd(cells, k) = 0
           /\ k # 0 => LineEnd(cells, k) \in Marks(cells)
<1> DEFINE L == Len(cells)
           M == Marks(cells)
<1>1. /\ L \in Nat /\ M \in SUBSET (1..L) /\ k \in 0..Cardinality(M)
      /\ \A n \in 0..L : Newlines(SubSeq(cells, 1, n)) = Count(M, n)
      /\ \A n \in 1..L : IsNewline(cells[n]) <=> n \in M
  <2>1. DOMAIN cells = 1..L
    BY LenProperties
  <2> QED BY NewlinesFacts, <2>1 DEF Marks
<1> HIDE DEF L, M
<1>2. \E n \in 0..L : Count(M, n) = k /\ (n = 0 \/ n \in M)
  BY <1>1, KthMember
<1>3. ASSUME NEW n \in 0..L PROVE (n = 0 \/ IsNewline(cells[n])) <=> (n = 0 \/ n \in M)
  <2>1. n = 0 \/ n \in 1..L
    BY <1>1
  <2> QED BY <1>1, <2>1
<1> DEFINE Is(n) == Newlines(SubSeq(cells, 1, n)) = k /\ (n = 0 \/ IsNewline(cells[n]))
<1>4. \A n \in 0..L : Is(n) <=> Count(M, n) = k /\ (n = 0 \/ n \in M)
  BY <1>1, <1>3
<1>5. LineEnd(cells, k) = CHOOSE n \in 0..L : Is(n)
  BY Zenon DEF LineEnd, L
<1> HIDE DEF Is
<1>6. \E n \in 0..L : Is(n)
  BY <1>2, <1>4
<1> DEFINE e == LineEnd(cells, k)
<1>7. e \in 0..L /\ Is(e)
  BY <1>5, <1>6, Zenon
<1> HIDE DEF e
<1>8. e \in 0..L /\ Count(M, e) = k /\ (e = 0 \/ e \in M)
  BY <1>4, <1>7
<1>9. k = 0 => e = 0
  <2> SUFFICES ASSUME k = 0, e # 0 PROVE FALSE
    OBVIOUS
  <2>1. e \in M /\ 0 < e /\ e \in Nat /\ 0 <= e
    BY <1>1, <1>8
  <2>2. Count(M, 0) = 0
    BY <1>1, CountStep
  <2>3. Count(M, 0) < Count(M, e)
    BY <1>1, <2>1, CountGrows
  <2> QED BY <1>8, <2>2, <2>3
<1>10. k # 0 => e \in M
  <2>1. Count(M, 0) = 0
    BY <1>1, CountStep
  <2> QED BY <1>8, <2>1
<1> QED BY <1>8, <1>9, <1>10 DEF L, M, e

\* Newlines are in order, and each is the end of one line.
LEMMA LineEndOrder ==
    ASSUME NEW X, NEW cells \in Seq(X),
           NEW j \in 0..Newlines(cells), NEW k \in 0..Newlines(cells), j < k
    PROVE  LineEnd(cells, j) < LineEnd(cells, k)
<1> DEFINE a == LineEnd(cells, j)
           b == LineEnd(cells, k)
           M == Marks(cells)
           L == Len(cells)
<1>1. L \in Nat /\ M \in SUBSET (1..L)
  BY NewlinesFacts
<1>2. a \in 0..L /\ b \in 0..L /\ Count(M, a) = j /\ Count(M, b) = k
  BY LineEndFacts
<1>3. j \in Nat /\ k \in Nat
  BY NewlinesFacts
<1> HIDE DEF a, b, M, L
<1>4. b <= a => Count(M, b) <= Count(M, a)
  <2>1. a \in Nat /\ b \in Nat
    BY <1>1, <1>2
  <2> QED BY <1>1, <2>1, CountGrows
<1>5. a < b
  BY <1>1, <1>2, <1>3, <1>4
<1> QED BY <1>5 DEF a, b

LEMMA LineGap ==
    ASSUME NEW X, NEW cells \in Seq(X), NEW k \in 0..Newlines(cells), NEW m \in Marks(cells),
           LineEnd(cells, k) < m
    PROVE  k < Newlines(cells) /\ LineEnd(cells, k + 1) <= m
<1> DEFINE a == LineEnd(cells, k)
           M == Marks(cells)
           L == Len(cells)
           N == Newlines(cells)
<1>1. L \in Nat /\ M \in SUBSET (1..L) /\ N \in Nat /\ N = Count(M, L)
  BY NewlinesFacts
<1>2. a \in 0..L /\ Count(M, a) = k /\ k \in Nat /\ k <= N
  BY <1>1, LineEndFacts
<1>3. m \in 1..L /\ m \in M /\ a < m
  BY <1>1
<1>4. \A n \in 0..L : Count(M, n) \in Nat
  <2> SUFFICES ASSUME NEW n \in 0..L PROVE Count(M, n) \in Nat
    OBVIOUS
  <2>1. n \in Nat
    BY <1>1
  <2> HIDE DEF M, L
  <2> QED BY <1>1, <2>1, CountStep
<1>5. \A n, p \in 0..L : n <= p => Count(M, n) <= Count(M, p)
  <2> SUFFICES ASSUME NEW n \in 0..L, NEW p \in 0..L, n <= p PROVE Count(M, n) <= Count(M, p)
    OBVIOUS
  <2>1. n \in Nat /\ p \in Nat
    BY <1>1
  <2> HIDE DEF M, L
  <2> QED BY <1>1, <2>1, CountGrows
<1>6. \A n, p \in 0..L : n < p /\ p \in M => Count(M, n) < Count(M, p)
  <2> SUFFICES ASSUME NEW n \in 0..L, NEW p \in 0..L, n < p, p \in M PROVE Count(M, n) < Count(M, p)
    OBVIOUS
  <2>1. n \in Nat /\ p \in Nat /\ n <= p
    BY <1>1
  <2> HIDE DEF M, L
  <2> QED BY <1>1, <2>1, CountGrows
<1>7. k + 1 \in Nat /\ (k < N => k + 1 \in 0..N)
  BY <1>1, <1>2
<1>8. k < N =>
         /\ LineEnd(cells, k + 1) \in 0..L /\ LineEnd(cells, k + 1) \in M
         /\ Count(M, LineEnd(cells, k + 1)) = k + 1
  <2> SUFFICES ASSUME k < N
               PROVE  /\ LineEnd(cells, k + 1) \in 0..L /\ LineEnd(cells, k + 1) \in M
                      /\ Count(M, LineEnd(cells, k + 1)) = k + 1
    OBVIOUS
  <2>1. k + 1 \in 0..N /\ k + 1 # 0
    BY <1>2, <1>7
  <2> QED BY <2>1, LineEndFacts
<1> DEFINE b == LineEnd(cells, k + 1)
<1> HIDE DEF a, M, L, N, b
<1>9. Count(M, a) < Count(M, m)
  BY <1>1, <1>2, <1>3, <1>6
<1>10. Count(M, m) <= Count(M, L)
  BY <1>1, <1>3, <1>5
<1>11. Count(M, m) \in Nat
  BY <1>1, <1>3, <1>4
<1>12. k < N
  BY <1>1, <1>2, <1>9, <1>10, <1>11
<1>13. b \in 0..L /\ b \in M /\ Count(M, b) = k + 1
  BY <1>8, <1>12 DEF b
<1>14. m < b => Count(M, m) < Count(M, b)
  BY <1>1, <1>3, <1>6, <1>13
<1>15. b <= m
  BY <1>1, <1>2, <1>3, <1>9, <1>11, <1>13, <1>14
<1> QED BY <1>12, <1>15 DEF b, N

LEMMA EveryNewline ==
    ASSUME NEW X, NEW cells \in Seq(X), NEW m \in Marks(cells),
           NEW k \in 0..Newlines(cells), m <= LineEnd(cells, k)
    PROVE  \E j \in 1..k : LineEnd(cells, j) = m
<1> DEFINE M == Marks(cells)
           L == Len(cells)
           N == Newlines(cells)
           j == Count(M, m)
<1>1. L \in Nat /\ M \in SUBSET (1..L) /\ N \in Nat /\ N = Count(M, L)
  BY NewlinesFacts
<1>2. LineEnd(cells, k) \in 0..L /\ Count(M, LineEnd(cells, k)) = k /\ k \in Nat /\ k <= N
  BY <1>1, LineEndFacts
<1>3. m \in 1..L /\ m \in M /\ m \in Nat /\ 0 < m /\ 0 <= m
  BY <1>1
<1>4. Count(M, 0) = 0 /\ j \in Nat
  BY <1>1, <1>3, CountStep
<1>5. Count(M, 0) < j
  <2> HIDE DEF M, L
  <2> QED BY <1>1, <1>3, CountGrows
<1>6. j <= k
  <2> DEFINE e == LineEnd(cells, k)
  <2>1. e \in Nat /\ m <= e
    BY <1>1, <1>2
  <2> HIDE DEF M, L, e
  <2>2. Count(M, m) <= Count(M, e)
    BY <1>1, <1>3, <2>1, CountGrows
  <2> QED BY <1>2, <2>2 DEF e
<1>7. j \in 1..k /\ j \in 0..N /\ j # 0
  BY <1>1, <1>2, <1>4, <1>5, <1>6
<1> DEFINE f == LineEnd(cells, j)
<1>8. f \in 0..L /\ Count(M, f) = j /\ f \in M
  <2> HIDE DEF j
  <2> QED BY <1>7, LineEndFacts
<1>9. f \in Nat
  BY <1>1, <1>8
<1> HIDE DEF M, L, N, f
<1>10. ~(m < f)
  <2> SUFFICES ASSUME m < f PROVE FALSE
    OBVIOUS
  <2>0. m <= f
    BY <1>3, <1>9
  <2>1. Count(M, m) < Count(M, f)
    BY <1>1, <1>3, <1>8, <1>9, <2>0, CountGrows
  <2> QED BY <1>4, <1>8, <2>1
<1>11. ~(f < m)
  <2> SUFFICES ASSUME f < m PROVE FALSE
    OBVIOUS
  <2>0. f <= m
    BY <1>3, <1>9
  <2>1. Count(M, f) < Count(M, m)
    BY <1>1, <1>3, <1>8, <1>9, <2>0, CountGrows
  <2> QED BY <1>4, <1>8, <2>1
<1>12. f = m
  BY <1>3, <1>9, <1>10, <1>11
<1> QED BY <1>7, <1>12 DEF f

-----------------------------------------------------------------------------
(* One read of the file.                                                   *)

LEMMA ChunkFacts ==
    ASSUME NEW start, start.offset \in Nat, Size(path) \in Nat
    PROVE  LET m == Len(Chunk(start))
           IN  /\ m \in Nat
               /\ start.offset <= Size(path) => start.offset + m <= Size(path)
               /\ m # 0 => start.offset + m <= Size(path)
               /\ Chunk(start) \in Seq({path} \X (1..Size(path)))
               /\ \A i \in 1..m : Chunk(start)[i] = <<path, start.offset + i>>
<1> DEFINE o == start.offset
           z == Size(path)
           r == MaxLineBytes * MaxLines + 1
           d == Max({0, z - o})
           n == Min({r, d})
<1>1. r \in Nat
  <2>1. MaxLineBytes \in Nat /\ MaxLines \in Nat
    BY LogTailAssumption
  <2>2. MaxLineBytes * MaxLines \in Nat
    BY <2>1
  <2> QED BY <2>2
<1>2. o \in Nat /\ z \in Nat /\ z - o \in Int /\ 0 \in Int
  OBVIOUS
<1> HIDE DEF r, o, z
<1>3. d = (IF 0 >= z - o THEN 0 ELSE z - o)
  BY <1>2, MaxOfTwo
<1>4. d \in Nat /\ (d # 0 => d = z - o) /\ (o <= z => d = z - o)
  BY <1>2, <1>3
<1> HIDE DEF d
<1>5. n = IF r <= d THEN r ELSE d
  <2>1. r \in Int /\ d \in Int
    BY <1>1, <1>4
  <2> QED BY <2>1, MinOfTwo
<1>6. n \in Nat /\ (n # 0 => o + n <= z) /\ (o <= z => o + n <= z)
  BY <1>1, <1>2, <1>4, <1>5
<1>7. Chunk(start) = [i \in 1..n |-> <<path, o + i>>]
  BY Zenon DEF Chunk, n, r, d, o, z
<1> HIDE DEF n
<1>8. \A i \in 1..n : o + i \in 1..z
  BY <1>2, <1>6
<1>9. /\ [i \in 1..n |-> <<path, o + i>>] \in Seq({path} \X (1..z))
      /\ Len([i \in 1..n |-> <<path, o + i>>]) = n
      /\ \A i \in 1..n : [j \in 1..n |-> <<path, o + j>>][i] = <<path, o + i>>
  BY <1>6, <1>8
<1>10. Chunk(start) \in Seq({path} \X (1..z)) /\ Len(Chunk(start)) = n
       /\ \A i \in 1..n : Chunk(start)[i] = <<path, o + i>>
  BY <1>7, <1>9
<1> QED BY <1>6, <1>10 DEF o, z

\* The k-th event is about the cells between two newlines.
LEMMA EventFacts ==
    ASSUME NEW X, NEW cells \in Seq(X), NEW k \in 1..Newlines(cells), NEW wasCut
    PROVE  LET a == LineEnd(cells, k - 1)
               e == LineEnd(cells, k)
               line == SubSeq(cells, a + 1, e - 1)
           IN  /\ a \in Nat /\ e \in 1..Len(cells) /\ a < e /\ e \in Marks(cells)
               /\ k # 1 => a \in Marks(cells)
               /\ k = 1 => a = 0
               /\ \A i \in (a + 1)..(e - 1) : i \notin Marks(cells)
               /\ line \in Seq(X) /\ Len(line) = e - 1 - a
               /\ Event(cells, k, wasCut) =
                     [text |-> CutTo(line), end |-> cells[e],
                      truncated |-> (k = 1 /\ wasCut) \/ e - 1 - a > MaxLineBytes]
<1> DEFINE N == Newlines(cells)
           L == Len(cells)
           M == Marks(cells)
           a == LineEnd(cells, k - 1)
           e == LineEnd(cells, k)
<1>1. L \in Nat /\ M \in SUBSET (1..L) /\ N \in Nat
  BY NewlinesFacts
<1>2. k \in 0..N /\ k - 1 \in 0..N /\ k - 1 < k /\ (k - 1) + 1 = k /\ k # 0
  BY <1>1
<1>3. e \in 0..L /\ e \in M
  BY <1>2, LineEndFacts
<1>4. a \in 0..L /\ (k - 1 = 0 => a = 0) /\ (k - 1 # 0 => a \in M)
  BY <1>2, LineEndFacts
<1>5. a < e
  BY <1>2, LineEndOrder
<1>6. ASSUME NEW i \in (a + 1)..(e - 1), i \in M PROVE FALSE
  <2>1. a < i /\ i < e /\ i \in Int
    BY <1>1, <1>3, <1>4
  <2> DEFINE j == k - 1
  <2>2. j \in 0..N /\ j + 1 = k /\ LineEnd(cells, j) < i
    BY <1>2, <2>1
  <2> HIDE DEF j
  <2>3. LineEnd(cells, j + 1) <= i
    BY <1>6, <2>2, LineGap
  <2>4. e <= i
    BY <2>2, <2>3
  <2> QED BY <1>1, <1>3, <2>1, <2>4
<1> DEFINE b == e - 1
<1>7. a \in Nat /\ b \in Nat /\ a <= b /\ b <= L /\ e \in 1..L
  BY <1>1, <1>3, <1>4, <1>5
<1>8. SubSeq(cells, a + 1, b) \in Seq(X) /\ Len(SubSeq(cells, a + 1, b)) = b - a
  <2> HIDE DEF a, b
  <2> QED BY <1>7, PartFacts
<1>9. Event(cells, k, wasCut) =
        [text |-> CutTo(SubSeq(cells, a + 1, b)), end |-> cells[e],
         truncated |-> (k = 1 /\ wasCut) \/ Len(SubSeq(cells, a + 1, b)) > MaxLineBytes]
  BY Zenon DEF Event
<1>10. Event(cells, k, wasCut) =
        [text |-> CutTo(SubSeq(cells, a + 1, b)), end |-> cells[e],
         truncated |-> (k = 1 /\ wasCut) \/ b - a > MaxLineBytes]
  BY <1>8, <1>9, Zenon
<1>11. (k # 1 => a \in M) /\ (k = 1 => a = 0)
  BY <1>2, <1>4
<1> HIDE DEF N, L, M, a, e
<1> QED BY <1>3, <1>5, <1>6, <1>7, <1>8, <1>10, <1>11 DEF N, L, M, a, e

\* Where the new cursor's partial line is cut from the cells.
LastEnd(cells) == LineEnd(cells, IF Newlines(cells) > MaxLines THEN MaxLines ELSE Newlines(cells))
Stop(cells) == IF Newlines(cells) > MaxLines THEN LastEnd(cells) ELSE Len(cells)

LEMMA AfterFacts ==
    ASSUME NEW X, NEW cells \in Seq(X), NEW start, NEW end
    PROVE  LET a == LastEnd(cells)
               b == Stop(cells)
               n == Newlines(cells)
               rest == SubSeq(cells, a + 1, b)
           IN  /\ a \in 0..Len(cells) /\ b \in a..Len(cells)
               /\ n = 0 <=> a = 0
               /\ a # 0 => a \in Marks(cells)
               /\ \A i \in (a + 1)..b : i \notin Marks(cells)
               /\ rest \in Seq(X) /\ Len(rest) = b - a
               /\ CursorAfter(start, cells, end) =
                     [inode |-> start.inode, gen |-> path, partial |-> CutTo(rest),
                      offset |-> IF n > MaxLines THEN start.offset + Max({0, a - Len(start.partial)}) ELSE end,
                      cut |-> (start.cut /\ n = 0) \/ b - a > MaxLineBytes]
<1> DEFINE N == Newlines(cells)
           L == Len(cells)
           M == Marks(cells)
           a == LastEnd(cells)
           b == Stop(cells)
           k == IF N > MaxLines THEN MaxLines ELSE N
<1>1. L \in Nat /\ M \in SUBSET (1..L) /\ N \in Nat /\ MaxLines \in Nat \ {0}
  BY NewlinesFacts, LogTailAssumption
<1>2. k \in 0..N /\ (k = 0 <=> N = 0) /\ a = LineEnd(cells, k)
  BY <1>1 DEF LastEnd
<1>3. a \in 0..L /\ (k = 0 => a = 0) /\ (k # 0 => a \in M)
  <2> HIDE DEF k
  <2> QED BY <1>2, LineEndFacts
<1>4. a = 0 => a \notin M
  BY <1>1
<1>5. (N = 0 <=> a = 0) /\ (a # 0 => a \in M)
  BY <1>2, <1>3, <1>4
<1>6. (N > MaxLines => b = a) /\ (~(N > MaxLines) => b = L)
  BY DEF Stop
<1>7. b \in a..L /\ a \in Nat /\ b \in Nat /\ a <= b /\ b <= L
  BY <1>1, <1>3, <1>6
<1>8. ASSUME NEW i \in (a + 1)..b, i \in M PROVE FALSE
  <2>1. ~(N > MaxLines) /\ a < i
    BY <1>3, <1>6, <1>7
  <2>2. k = N
    BY <2>1
  <2>3. N \in 0..N /\ LineEnd(cells, N) < i
    BY <1>1, <1>2, <2>1, <2>2
  <2>4. N < N
    BY <1>8, <2>3, LineGap
  <2> QED BY <1>1, <2>4
<1>9. SubSeq(cells, a + 1, b) \in Seq(X) /\ Len(SubSeq(cells, a + 1, b)) = b - a
  <2> HIDE DEF a, b
  <2> QED BY <1>7, PartFacts
<1>10. N > MaxLines => SubSeq(cells, a + 1, b) = <<>>
  <2>1. b < a + 1 => SubSeq(cells, a + 1, b) = <<>>
    <3> HIDE DEF a, b
    <3> QED BY <1>7, SubSeqEmpty
  <2> QED BY <1>6, <1>7, <2>1
<1> DEFINE rest == IF N > MaxLines THEN <<>> ELSE SubSeq(cells, LineEnd(cells, N) + 1, Len(cells))
<1>11. rest = SubSeq(cells, a + 1, b)
  <2>1. CASE N > MaxLines
    BY <1>10, <2>1
  <2>2. CASE ~(N > MaxLines)
    BY <1>2, <1>6, <2>2
  <2> QED BY <2>1, <2>2
<1>12. N > MaxLines => LineEnd(cells, MaxLines) = a
  BY <1>2
<1>13. CursorAfter(start, cells, end) =
        [inode |-> start.inode, gen |-> path, partial |-> CutTo(rest),
         offset |-> IF N > MaxLines THEN start.offset + Max({0, LineEnd(cells, MaxLines) - Len(start.partial)})
                    ELSE end,
         cut |-> (start.cut /\ N = 0) \/ Len(rest) > MaxLineBytes]
  BY Zenon DEF CursorAfter
<1> HIDE DEF N, L, M, a, b, k, rest
<1>14. (IF N > MaxLines THEN start.offset + Max({0, LineEnd(cells, MaxLines) - Len(start.partial)}) ELSE end)
        = (IF N > MaxLines THEN start.offset + Max({0, a - Len(start.partial)}) ELSE end)
  BY <1>12, Zenon
<1>15. Len(rest) = b - a
  BY <1>9, <1>11
<1>16. CursorAfter(start, cells, end) =
        [inode |-> start.inode, gen |-> path, partial |-> CutTo(SubSeq(cells, a + 1, b)),
         offset |-> IF N > MaxLines THEN start.offset + Max({0, a - Len(start.partial)}) ELSE end,
         cut |-> (start.cut /\ N = 0) \/ b - a > MaxLineBytes]
  BY <1>11, <1>13, <1>14, <1>15, Zenon
<1> QED BY <1>3, <1>5, <1>7, <1>8, <1>9, <1>16, Zenon DEF N, L, M, a, b

LEMMA SourceFacts ==
    ASSUME SourceOK
    PROVE  /\ Len(files) \in Nat \ {0} /\ Len(files) <= MaxGenerations
           /\ \A g \in 1..Len(files) : /\ files[g] \in FileType /\ files[g].inode \in 1..MaxGenerations
                                       /\ Size(g) \in 0..MaxBytes /\ g \in 1..MaxGenerations
           /\ path # 0 => path \in 1..Len(files)
           /\ MaxBytes \in Nat /\ MaxGenerations \in Nat
<1>1. MaxBytes \in Nat /\ MaxGenerations \in Nat
  BY LogTailAssumption
<1>2. Len(files) \in Nat \ {0} /\ Len(files) <= MaxGenerations /\ files \in Seq(FileType)
  BY <1>1 DEF SourceOK
<1>3. path # 0 => path \in 1..Len(files)
  BY <1>2 DEF SourceOK
<1>4. ASSUME NEW g \in 1..Len(files)
      PROVE  /\ files[g] \in FileType /\ files[g].inode \in 1..MaxGenerations
             /\ Size(g) \in 0..MaxBytes /\ g \in 1..MaxGenerations
  <2>1. files[g] \in FileType
    BY <1>2, ElementOfSeq
  <2>2. files[g].inode \in 1..MaxGenerations /\ files[g].bytes \in Seq({"x", "newline"})
    BY <2>1 DEF FileType
  <2>3. Size(g) \in Nat
    BY <2>2 DEF Size
  <2>4. Size(g) <= written /\ written \in 0..MaxBytes
    BY DEF SourceOK
  <2> QED BY <1>1, <1>2, <2>1, <2>2, <2>3, <2>4
<1> QED BY <1>1, <1>2, <1>3, <1>4

CellsRead(start) == start.partial \o Chunk(start)
EndRead(start) == start.offset + Len(Chunk(start))

\* The bytes read make typed cells.
LEMMA CellsType ==
    ASSUME SourceOK, path # 0, NEW start \in CursorType
    PROVE  /\ CellsRead(start) \in Seq(Cell)
           /\ Len(CellsRead(start)) = Len(start.partial) + Len(Chunk(start))
           /\ \A i \in 1..Len(start.partial) : CellsRead(start)[i] = start.partial[i]
           /\ \A i \in 1..Len(Chunk(start)) : CellsRead(start)[Len(start.partial) + i] = <<path, start.offset + i>>
           /\ EndRead(start) \in start.offset..MaxBytes /\ start.offset \in Nat
           /\ start.partial \in Seq(Cell) /\ Len(start.partial) \in Nat /\ Len(Chunk(start)) \in Nat
<1> DEFINE c == Chunk(start)
           p == start.partial
           m == Len(c)
<1>1. start.offset \in 0..MaxBytes /\ p \in Seq(Cell)
  BY DEF CursorType, Cell
<1>2. path \in 1..Len(files) /\ Size(path) \in 0..MaxBytes /\ path \in 1..MaxGenerations /\ MaxBytes \in Nat
  BY SourceFacts
<1>3. start.offset \in Nat /\ Size(path) \in Nat
  BY <1>1, <1>2
<1>4. /\ m \in Nat /\ (m # 0 => start.offset + m <= Size(path))
      /\ c \in Seq({path} \X (1..Size(path)))
      /\ \A i \in 1..m : c[i] = <<path, start.offset + i>>
  BY <1>3, ChunkFacts
<1>5. {path} \X (1..Size(path)) \subseteq Cell
  BY <1>2 DEF Cell
<1>6. c \in Seq(Cell)
  BY <1>4, <1>5, SeqMonotonic
<1> HIDE DEF c, p
<1>7. /\ p \o c \in Seq(Cell) /\ Len(p \o c) = Len(p) + Len(c)
      /\ \A i \in 1..(Len(p) + Len(c)) : (p \o c)[i] = IF i <= Len(p) THEN p[i] ELSE c[i - Len(p)]
  BY <1>1, <1>6, ConcatProperties
<1>8. Len(p) \in Nat
  BY <1>1, LenProperties
<1>9. ASSUME NEW i \in 1..Len(p) PROVE (p \o c)[i] = p[i]
  <2>1. i \in 1..(Len(p) + Len(c)) /\ i <= Len(p)
    BY <1>4, <1>8
  <2> QED BY <1>7, <2>1
<1>10. ASSUME NEW i \in 1..m PROVE (p \o c)[Len(p) + i] = <<path, start.offset + i>>
  <2>1. Len(p) + i \in 1..(Len(p) + Len(c)) /\ ~(Len(p) + i <= Len(p)) /\ (Len(p) + i) - Len(p) = i
    BY <1>4, <1>8
  <2>2. (p \o c)[Len(p) + i] = c[(Len(p) + i) - Len(p)]
    BY <1>7, <2>1
  <2> QED BY <1>4, <2>1, <2>2
<1>11. start.offset + m \in start.offset..MaxBytes
  BY <1>1, <1>2, <1>3, <1>4
<1> QED BY <1>1, <1>3, <1>4, <1>7, <1>8, <1>9, <1>10, <1>11 DEF CellsRead, EndRead, c, p

\* What a read returns is typed, whatever content it found.
LEMMA ReadTypes ==
    ASSUME SourceOK, path # 0, NEW start \in CursorType
    PROVE  LET cells == CellsRead(start)
               new == CursorAfter(start, cells, EndRead(start))
           IN  /\ EventsOf(start, cells) \in Seq(EventType) /\ Len(EventsOf(start, cells)) <= MaxLines
               /\ DOMAIN EventsOf(start, cells) = 1..(IF Newlines(cells) > MaxLines THEN MaxLines ELSE Newlines(cells))
               /\ \A k \in DOMAIN EventsOf(start, cells) : EventsOf(start, cells)[k] = Event(cells, k, start.cut)
               /\ new \in CursorType /\ Len(new.partial) <= MaxLineBytes
               /\ new # NoCursor
<1> DEFINE cells == CellsRead(start)
           N == Newlines(cells)
           K == IF N > MaxLines THEN MaxLines ELSE N
           new == CursorAfter(start, cells, EndRead(start))
<1>1. cells \in Seq(Cell) /\ start.cut \in BOOLEAN /\ start.inode \in 0..MaxGenerations /\ start.offset \in 0..MaxBytes
  BY CellsType DEF CursorType
<1>2. N \in Nat /\ MaxLines \in Nat /\ K \in 0..N /\ K <= MaxLines
  <2>1. N \in Nat /\ MaxLines \in Nat
    BY <1>1, NewlinesFacts, LogTailAssumption
  <2> QED BY <2>1
<1>3. Min({MaxLines, N}) = K
  <2>1. MaxLines \in Int /\ N \in Int
    BY <1>2
  <2>2. Min({MaxLines, N}) = IF MaxLines <= N THEN MaxLines ELSE N
    <3> HIDE DEF N
    <3> QED BY <2>1, MinOfTwo
  <2> QED BY <1>2, <2>2
<1>4. EventsOf(start, cells) = [k \in 1..K |-> Event(cells, k, start.cut)]
  <2> HIDE DEF K
  <2> QED BY <1>3, Zenon DEF EventsOf
<1> HIDE DEF cells, K
<1>5. ASSUME NEW k \in 1..K PROVE Event(cells, k, start.cut) \in EventType
  <2>1. k \in 1..N
    BY <1>2
  <2> DEFINE a == LineEnd(cells, k - 1)
             e == LineEnd(cells, k)
             line == SubSeq(cells, a + 1, e - 1)
  <2>2. /\ e \in 1..Len(cells) /\ line \in Seq(Cell)
        /\ Event(cells, k, start.cut) = [text |-> CutTo(line), end |-> cells[e],
                      truncated |-> (k = 1 /\ start.cut) \/ e - 1 - a > MaxLineBytes]
    BY <1>1, <2>1, EventFacts
  <2> HIDE DEF a, e, line
  <2>3. cells[e] \in Cell
    BY <1>1, <2>2, ElementOfSeq
  <2>4. CutTo(line) \in Seq(Cell)
    BY <2>2, CutFacts
  <2>5. ((k = 1 /\ start.cut) \/ e - 1 - a > MaxLineBytes) \in BOOLEAN
    OBVIOUS
  <2> QED BY <2>2, <2>3, <2>4, <2>5 DEF EventType
<1>6. /\ EventsOf(start, cells) \in Seq(EventType) /\ Len(EventsOf(start, cells)) = K
      /\ DOMAIN EventsOf(start, cells) = 1..K
      /\ \A k \in 1..K : EventsOf(start, cells)[k] = Event(cells, k, start.cut)
  <2>1. K \in Nat
    BY <1>2
  <2> DEFINE ev == [k \in 1..K |-> Event(cells, k, start.cut)]
  <2>2. ev \in [1..K -> EventType] /\ DOMAIN ev = 1..K /\ \A k \in 1..K : ev[k] = Event(cells, k, start.cut)
    BY <1>5
  <2>3. EventsOf(start, cells) = ev
    BY <1>4
  <2> HIDE DEF ev
  <2>4. ev \in Seq(EventType) /\ Len(ev) = K
    BY <2>1, <2>2
  <2> QED BY <2>2, <2>3, <2>4
<1>7. new \in CursorType /\ Len(new.partial) <= MaxLineBytes /\ new # NoCursor
  <2> DEFINE a == LastEnd(cells)
             b == Stop(cells)
             rest == SubSeq(cells, a + 1, b)
             P == Len(start.partial)
             off == IF N > MaxLines THEN start.offset + Max({0, a - P}) ELSE EndRead(start)
             cut == (start.cut /\ N = 0) \/ b - a > MaxLineBytes
  <2>1. /\ a \in 0..Len(cells) /\ rest \in Seq(Cell)
        /\ new = [inode |-> start.inode, gen |-> path, partial |-> CutTo(rest), offset |-> off, cut |-> cut]
    BY <1>1, AfterFacts
  <2>2. /\ Len(cells) = P + Len(Chunk(start)) /\ P \in Nat /\ Len(Chunk(start)) \in Nat
        /\ EndRead(start) \in start.offset..MaxBytes /\ start.offset \in Nat
    BY CellsType DEF cells
  <2>3. CutTo(rest) \in Seq(Cell) /\ Len(CutTo(rest)) <= MaxLineBytes
    <3> HIDE DEF rest
    <3> QED BY <2>1, CutFacts
  <2> HIDE DEF a, rest, P
  <2>4. Max({0, a - P}) = IF 0 >= a - P THEN 0 ELSE a - P
    <3>1. 0 \in Int /\ a - P \in Int
      BY <2>1, <2>2
    <3> QED BY <3>1, MaxOfTwo
  <2>5. MaxBytes \in Nat /\ path \in 1..MaxGenerations
    BY SourceFacts
  <2>6. start.offset + Max({0, a - P}) \in 0..MaxBytes
    <3> DEFINE m == Len(Chunk(start))
               o == start.offset
    <3>1. EndRead(start) = o + m
      BY DEF EndRead
    <3>2. o \in Nat /\ m \in Nat /\ o + m <= MaxBytes /\ a \in 0..(P + m)
      BY <2>1, <2>2, <2>5, <3>1
    <3> HIDE DEF m, o
    <3>3. o + Max({0, a - P}) \in 0..MaxBytes
      BY <2>2, <2>4, <2>5, <3>2
    <3> QED BY <3>3 DEF o
  <2>7. off \in 0..MaxBytes
    BY <2>2, <2>5, <2>6
  <2>8. cut \in BOOLEAN /\ path # 0
    BY <2>5
  <2> HIDE DEF off, cut, N
  <2>9. new \in CursorType /\ new.partial = CutTo(rest) /\ new.gen = path
    BY <1>1, <2>1, <2>3, <2>5, <2>7, <2>8 DEF CursorType, Cell
  <2>10. NoCursor.gen = 0
    BY DEF NoCursor
  <2> QED BY <2>3, <2>5, <2>8, <2>9, <2>10
<1> QED BY <1>2, <1>6, <1>7 DEF K, cells

\* Reading starts at a place of the file at the path.
Describes(start) ==
    /\ start.offset <= Size(path)
    /\ start.partial = CutTo(Rest(path, start.offset))
    /\ start.cut = (Len(Rest(path, start.offset)) > MaxLineBytes)

\* The rest of a line, as cells.
LEMMA RestFacts ==
    ASSUME NEW g, NEW n \in Nat
    PROVE  LET ls == LineStart(g, n + 1)
           IN  /\ ls \in 0..n /\ StartsLine(g, ls, n + 1)
               /\ Rest(g, n) \in Seq({g} \X Int) /\ Len(Rest(g, n)) = n - ls
               /\ \A i \in 1..(n - ls) : Rest(g, n)[i] = <<g, ls + i>>
<1> DEFINE ls == LineStart(g, n + 1)
<1>1. n + 1 \in Nat \ {0}
  OBVIOUS
<1>2. StartsLine(g, ls, n + 1)
  BY <1>1, LineStartFacts
<1>3. ls \in 0..n /\ ls \in Nat /\ ls <= n
  BY <1>2 DEF StartsLine
<1>4. Rest(g, n) = Cells(g, ls + 1, n)
  BY DEF Rest
<1> HIDE DEF ls
<1>5. /\ Cells(g, ls + 1, n) \in Seq({g} \X Int) /\ Len(Cells(g, ls + 1, n)) = n - ls
      /\ \A i \in 1..(n - ls) : Cells(g, ls + 1, n)[i] = <<g, ls + i>>
  BY <1>3, CellsFacts
<1> QED BY <1>2, <1>3, <1>4, <1>5 DEF ls

\* Which byte of the file each cell is: the partial line's first, then the
\* chunk's.  Only the chunk has newlines.
LEMMA PlaceFacts ==
    ASSUME SourceOK, path # 0, NEW start \in CursorType, Describes(start)
    PROVE  LET cells == CellsRead(start)
               o == start.offset
               P == Len(start.partial)
               m == Len(Chunk(start))
               ls == LineStart(path, o + 1)
           IN  /\ o \in Nat /\ P \in Nat /\ m \in Nat /\ ls \in 0..o
               /\ cells \in Seq(Cell) /\ Len(cells) = P + m
               /\ o + m <= Size(path) /\ EndRead(start) = o + m
               /\ P = IF o - ls <= MaxLineBytes THEN o - ls ELSE MaxLineBytes
               /\ start.cut = (o - ls > MaxLineBytes)
               /\ StartsLine(path, ls, o + 1)
               /\ \A i \in 1..P : cells[i] = <<path, ls + i>>
               /\ \A i \in 1..m : /\ cells[P + i] = <<path, o + i>>
                                  /\ P + i \in Marks(cells) <=> IsNewline(<<path, o + i>>)
               /\ \A i \in Marks(cells) : P < i /\ i <= P + m
<1> DEFINE cells == CellsRead(start)
           o == start.offset
           P == Len(start.partial)
           m == Len(Chunk(start))
           ls == LineStart(path, o + 1)
           rest == Rest(path, o)
<1>1. /\ cells \in Seq(Cell) /\ Len(cells) = P + m /\ o \in Nat /\ P \in Nat /\ m \in Nat
      /\ \A i \in 1..P : cells[i] = start.partial[i]
      /\ \A i \in 1..m : cells[P + i] = <<path, o + i>>
  BY CellsType
<1>2. Size(path) \in Nat
  BY SourceFacts
<1>3. o + m <= Size(path) /\ EndRead(start) = o + m
  BY <1>1, <1>2, ChunkFacts DEF Describes, EndRead
<1>4. /\ ls \in 0..o /\ StartsLine(path, ls, o + 1)
      /\ rest \in Seq({path} \X Int) /\ Len(rest) = o - ls
      /\ \A i \in 1..(o - ls) : rest[i] = <<path, ls + i>>
  BY <1>1, RestFacts
<1>5. start.partial = CutTo(rest) /\ start.cut = (Len(rest) > MaxLineBytes)
  BY DEF Describes
<1> HIDE DEF cells, ls, rest, m
<1>6. LET n == IF Len(rest) <= MaxLineBytes THEN Len(rest) ELSE MaxLineBytes
      IN  Len(CutTo(rest)) = n /\ \A i \in 1..n : CutTo(rest)[i] = rest[i]
  BY <1>4, CutFacts
<1>7. /\ P = (IF o - ls <= MaxLineBytes THEN o - ls ELSE MaxLineBytes)
      /\ \A i \in 1..P : start.partial[i] = rest[i]
  BY <1>4, <1>5, <1>6
<1>8. P <= o - ls
  <2>1. MaxLineBytes \in Nat
    BY LogTailAssumption
  <2> QED BY <1>1, <1>4, <1>7, <2>1
<1>9. ASSUME NEW i \in 1..P PROVE cells[i] = <<path, ls + i>> /\ ~IsNewline(cells[i])
  <2>1. i \in 1..(o - ls) /\ ls + i \in (ls + 1)..((o + 1) - 1)
    BY <1>1, <1>4, <1>8
  <2>2. cells[i] = <<path, ls + i>>
    BY <1>1, <1>4, <1>7, <2>1
  <2>3. ~IsNewline(<<path, ls + i>>)
    BY <1>4, <2>1 DEF StartsLine
  <2> QED BY <2>2, <2>3
<1>10. DOMAIN cells = 1..(P + m)
  BY <1>1, LenProperties
<1>11. ASSUME NEW i \in 1..m PROVE P + i \in Marks(cells) <=> IsNewline(<<path, o + i>>)
  <2>1. P + i \in 1..(P + m)
    BY <1>1
  <2> QED BY <1>1, <1>10, <2>1 DEF Marks
<1>12. ASSUME NEW i \in Marks(cells) PROVE P < i /\ i <= P + m
  <2>1. i \in 1..(P + m) /\ IsNewline(cells[i])
    BY <1>10 DEF Marks
  <2>2. i \notin 1..P
    BY <1>9, <2>1
  <2> QED BY <1>1, <2>1, <2>2
<1> QED BY <1>1, <1>3, <1>4, <1>5, <1>7, <1>9, <1>11, <1>12 DEF cells, ls, rest, m

\* Pieces of a line read in several polls are joined right: cells without a
\* newline up to b, from the start or from after a newline at a, have the
\* text and the flag of the line at that place of the file.
LEMMA Joined ==
    ASSUME SourceOK, path # 0, NEW start \in CursorType, Describes(start),
           NEW a \in Nat, NEW b \in Nat, a <= b,
           Len(start.partial) <= b, b <= Len(CellsRead(start)),
           a = 0 \/ a \in Marks(CellsRead(start)),
           \A i \in (a + 1)..b : i \notin Marks(CellsRead(start))
    PROVE  LET q == start.offset + b - Len(start.partial)
               line == SubSeq(CellsRead(start), a + 1, b)
           IN  /\ q \in start.offset..Size(path)
               /\ CutTo(line) = CutTo(Rest(path, q))
               /\ ((a = 0 /\ start.cut) \/ b - a > MaxLineBytes) = (Len(Rest(path, q)) > MaxLineBytes)
<1> DEFINE cells == CellsRead(start)
           o == start.offset
           P == Len(start.partial)
           m == Len(Chunk(start))
           ls == LineStart(path, o + 1)
           q == o + b - P
           line == SubSeq(cells, a + 1, b)
<1>1. /\ o \in Nat /\ P \in Nat /\ m \in Nat /\ ls \in 0..o
      /\ cells \in Seq(Cell) /\ Len(cells) = P + m
      /\ o + m <= Size(path)
      /\ P = IF o - ls <= MaxLineBytes THEN o - ls ELSE MaxLineBytes
      /\ start.cut = (o - ls > MaxLineBytes)
      /\ StartsLine(path, ls, o + 1)
      /\ \A i \in 1..P : cells[i] = <<path, ls + i>>
      /\ \A i \in 1..m : /\ cells[P + i] = <<path, o + i>>
                         /\ P + i \in Marks(cells) <=> IsNewline(<<path, o + i>>)
      /\ \A i \in Marks(cells) : P < i /\ i <= P + m
  BY PlaceFacts
<1>2. P <= b /\ b <= P + m /\ (a = 0 \/ a \in Marks(cells)) /\ \A i \in (a + 1)..b : i \notin Marks(cells)
  BY <1>1
<1>3. line \in Seq(Cell) /\ Len(line) = b - a /\ \A i \in 1..(b - a) : line[i] = cells[a + i]
  BY <1>1, PartFacts
<1>4. MaxLineBytes \in Nat \ {0}
  BY LogTailAssumption
<1>5. Size(path) \in Nat
  BY SourceFacts
<1>6. o \in Nat
  BY <1>1
<1> DEFINE z == Size(path)
<1>20. /\ o \in Nat /\ P \in Nat /\ m \in Nat /\ ls \in Nat /\ ls <= o /\ z \in Nat
      /\ P <= b /\ b <= P + m /\ o + m <= z
  BY <1>1, <1>2, <1>5
<1>21. P = IF o - ls <= MaxLineBytes THEN o - ls ELSE MaxLineBytes
  BY <1>1
<1>22. \A i \in Marks(cells) : i \in (P + 1)..(P + m)
  BY <1>1, NewlinesFacts
<1> HIDE DEF cells, o, P, m, ls, line, z
<1>7. q \in o..z /\ q \in Nat /\ q + 1 \in Nat \ {0} /\ (q + 1) - 1 = q
  BY <1>20
\* Cells after the partial line, by their place.
<1>8. ASSUME NEW i \in (P + 1)..(P + m)
      PROVE  /\ cells[i] = <<path, o + i - P>>
             /\ i \in Marks(cells) <=> IsNewline(<<path, o + i - P>>)
  <2> DEFINE j == i - P
  <2>1. j \in 1..m /\ P + j = i /\ o + j = o + i - P
    BY <1>20
  <2> HIDE DEF j
  <2>2. cells[P + j] = <<path, o + j>> /\ (P + j \in Marks(cells) <=> IsNewline(<<path, o + j>>))
    BY <1>1, <2>1
  <2> QED BY <2>1, <2>2
<1>9. ASSUME NEW n \in (o + 1)..q, a < n - o + P PROVE ~IsNewline(<<path, n>>)
  <2> DEFINE i == n - o + P
  <2>1. i \in (P + 1)..(P + m) /\ i \in (a + 1)..b /\ o + i - P = n
    BY <1>20, <1>9
  <2> HIDE DEF i
  <2> QED BY <1>2, <1>8, <2>1
<1> DEFINE st == IF a = 0 THEN ls ELSE o + a - P
<1>10. StartsLine(path, st, q + 1)
  <2>1. CASE a = 0
    <3>1. st = ls
      BY <2>1
    <3>2. ls \in 0..((q + 1) - 1)
      BY <1>20, <1>7
    <3>3. ls = 0 \/ IsNewline(<<path, ls>>)
      BY <1>1 DEF StartsLine
    <3>4. ASSUME NEW n \in (ls + 1)..((q + 1) - 1) PROVE ~IsNewline(<<path, n>>)
      <4>1. CASE n <= o
        <5>1. n \in (ls + 1)..((o + 1) - 1)
          BY <1>20, <1>7, <4>1
        <5> QED BY <1>1, <5>1 DEF StartsLine
      <4>2. CASE ~(n <= o)
        <5>1. n \in (o + 1)..q /\ a < n - o + P
          BY <1>20, <1>7, <2>1, <4>2
        <5> QED BY <1>9, <5>1
      <4> QED BY <4>1, <4>2
    <3> QED BY <3>1, <3>2, <3>3, <3>4 DEF StartsLine
  <2>2. CASE a # 0
    <3>1. a \in Marks(cells) /\ a \in (P + 1)..(P + m)
      BY <1>2, <1>22, <2>2
    <3>2. st = o + a - P /\ IsNewline(<<path, st>>)
      BY <1>8, <2>2, <3>1
    <3>3. st \in 0..((q + 1) - 1)
      BY <1>20, <3>1, <3>2
    <3>4. ASSUME NEW n \in (st + 1)..((q + 1) - 1) PROVE ~IsNewline(<<path, n>>)
      <4>1. n \in (o + 1)..q /\ a < n - o + P
        BY <1>20, <1>7, <3>1, <3>2
      <4> QED BY <1>9, <4>1
    <3> QED BY <3>2, <3>3, <3>4 DEF StartsLine
  <2> QED BY <2>1, <2>2
<1>11. st = LineStart(path, q + 1)
  BY <1>7, <1>10, LineStartFacts
<1> DEFINE rest == Rest(path, q)
<1>12. st \in 0..q /\ rest \in Seq({path} \X Int) /\ Len(rest) = q - st /\ \A i \in 1..(q - st) : rest[i] = <<path, st + i>>
  <2> HIDE DEF q, st
  <2> QED BY <1>7, <1>11, RestFacts
<1> HIDE DEF rest
\* Both are as long up to the limit, and have the same bytes.
<1> DEFINE n == IF b - a <= MaxLineBytes THEN b - a ELSE MaxLineBytes
<1>13. n = (IF q - st <= MaxLineBytes THEN q - st ELSE MaxLineBytes) /\ n \in Nat /\ n <= b - a /\ n <= q - st
  <2>1. CASE a = 0
    <3>1. st = ls
      BY <2>1
    <3>2. n = (IF q - ls <= MaxLineBytes THEN q - ls ELSE MaxLineBytes) /\ n \in Nat /\ n <= b - a /\ n <= q - ls
      BY <1>20, <1>21, <1>4, <2>1
    <3> HIDE DEF n, q, st
    <3> QED BY <3>1, <3>2
  <2>2. CASE a # 0
    <3>1. q - st = b - a /\ b - a \in Nat
      BY <1>20, <2>2
    <3> HIDE DEF q, st
    <3> QED BY <1>4, <3>1
  <2> QED BY <2>1, <2>2
<1>17. ((a = 0 /\ start.cut) \/ b - a > MaxLineBytes) = (q - st > MaxLineBytes)
  <2>1. start.cut <=> o - ls > MaxLineBytes
    BY <1>1
  <2>2. CASE a = 0
    <3>1. (o - ls > MaxLineBytes \/ b - a > MaxLineBytes) <=> (q - ls > MaxLineBytes)
      BY <1>20, <1>21, <1>4, <2>2
    <3>2. st = ls
      BY <2>2
    <3> DEFINE A == (a = 0 /\ start.cut) \/ b - a > MaxLineBytes
               B == q - st > MaxLineBytes
    <3>3. A \in BOOLEAN /\ B \in BOOLEAN
      OBVIOUS
    <3>4. A <=> B
      <4> HIDE DEF q, st
      <4> QED BY <2>1, <2>2, <3>1, <3>2
    <3> HIDE DEF A, B
    <3>5. A = B
      BY <3>3, <3>4
    <3> QED BY <3>5 DEF A, B
  <2>3. CASE a # 0
    <3>1. q - st = b - a
      BY <1>20, <2>3
    <3> DEFINE A == (a = 0 /\ start.cut) \/ b - a > MaxLineBytes
               B == q - st > MaxLineBytes
    <3>3. A \in BOOLEAN /\ B \in BOOLEAN
      OBVIOUS
    <3>4. A <=> B
      <4> HIDE DEF q, st
      <4> QED BY <2>3, <3>1
    <3> HIDE DEF A, B
    <3>5. A = B
      BY <3>3, <3>4
    <3> QED BY <3>5 DEF A, B
  <2> QED BY <2>2, <2>3
<1>14. ASSUME NEW i \in 1..n PROVE line[i] = rest[i]
  <2>1. i \in 1..(b - a) /\ i \in 1..(q - st)
    <3> HIDE DEF n, q, st
    <3>1. q \in Nat /\ n \in Nat /\ n <= b - a /\ n <= q - st
      BY <1>7, <1>13
    <3>2. st \in 0..q
      BY <1>12
    <3> QED BY <3>1, <3>2
  <2>2. line[i] = cells[a + i] /\ rest[i] = <<path, st + i>>
    BY <1>3, <1>12, <2>1
  <2>3. cells[a + i] = <<path, st + i>>
    <3>1. CASE a = 0 /\ i <= P
      <4>1. st = ls /\ a + i = i /\ i \in 1..P
        BY <1>20, <2>1, <3>1
      <4> QED BY <1>1, <4>1
    <3>2. CASE a = 0 /\ ~(i <= P)
      <4>1. a + i = i /\ i \in (P + 1)..(P + m) /\ st = ls
        BY <1>20, <2>1, <3>2
      <4>2. o + i - P = ls + i
        BY <1>20, <1>21, <1>4, <1>13, <3>2, <4>1
      <4> QED BY <1>8, <4>1, <4>2
    <3>3. CASE a # 0
      <4>1. a \in (P + 1)..(P + m) /\ st = o + a - P
        BY <1>2, <1>22, <3>3
      <4> DEFINE j == a + i
      <4>2. j \in (P + 1)..(P + m) /\ o + j - P = st + i
        BY <1>20, <2>1, <4>1
      <4> HIDE DEF j
      <4>3. cells[j] = <<path, st + i>>
        BY <1>8, <4>2
      <4> QED BY <4>3 DEF j
    <3> QED BY <3>1, <3>2, <3>3
  <2> QED BY <2>2, <2>3
<1>15. CutTo(line) = CutTo(rest)
  <2> DEFINE cl == CutTo(line)
             cr == CutTo(rest)
  <2>1. cl \in Seq(Cell) /\ Len(cl) = n /\ \A i \in 1..n : cl[i] = line[i]
    BY <1>3, CutFacts
  <2>2. cr \in Seq({path} \X Int) /\ Len(cr) = n /\ \A i \in 1..n : cr[i] = rest[i]
    BY <1>12, <1>13, CutFacts
  <2> HIDE DEF cl, cr, n
  <2>3. \A i \in 1..Len(cl) : cl[i] = cr[i]
    BY <1>14, <2>1, <2>2
  <2> DEFINE X == Cell \cup ({path} \X Int)
  <2>4. cl \in Seq(X) /\ cr \in Seq(X)
    BY <2>1, <2>2, SeqMonotonic
  <2>5. Len(cl) = Len(cr)
    BY <2>1, <2>2
  <2> HIDE DEF X
  <2>6. cl = cr
    BY <2>3, <2>4, <2>5, SeqEqual
  <2> QED BY <2>6 DEF cl, cr
<1> HIDE DEF n, st
<1>16. q \in o..z /\ CutTo(line) = CutTo(rest)
       /\ ((a = 0 /\ start.cut) \/ b - a > MaxLineBytes) = (Len(rest) > MaxLineBytes)
  BY <1>7, <1>12, <1>15, <1>17
<1> QED BY <1>16 DEF o, P, cells, line, rest, z

\* What one read of a described place returns: whole lines, each newline of
\* the bytes it passes over once, and a cursor that describes its place.
LEMMA ReadFacts ==
    ASSUME SourceOK, path # 0, NEW start \in CursorType, Describes(start)
    PROVE  LET cells == CellsRead(start)
               new == CursorAfter(start, cells, EndRead(start))
               evs == EventsOf(start, cells)
           IN  /\ new.gen = path /\ new.inode = start.inode /\ new.offset \in start.offset..Size(path)
               /\ new.partial = CutTo(Rest(path, new.offset))
               /\ new.cut = (Len(Rest(path, new.offset)) > MaxLineBytes)
               /\ \A k \in DOMAIN evs : /\ Whole(evs[k]) /\ evs[k].end[1] = path
                                        /\ evs[k].end[2] \in (start.offset + 1)..new.offset
               /\ DistinctEnds(evs)
               /\ \A n \in (start.offset + 1)..new.offset :
                     IsNewline(<<path, n>>) => \E k \in DOMAIN evs : evs[k].end = <<path, n>>
<1> DEFINE cells == CellsRead(start)
           o == start.offset
           P == Len(start.partial)
           m == Len(Chunk(start))
           N == Newlines(cells)
           K == IF N > MaxLines THEN MaxLines ELSE N
           a == LastEnd(cells)
           b == Stop(cells)
           q == o + b - P
           z == Size(path)
           new == CursorAfter(start, cells, EndRead(start))
           evs == EventsOf(start, cells)
           M == Marks(cells)
<1>1. /\ o \in Nat /\ P \in Nat /\ m \in Nat /\ cells \in Seq(Cell) /\ Len(cells) = P + m
      /\ o + m <= z /\ EndRead(start) = o + m
      /\ \A i \in 1..m : /\ cells[P + i] = <<path, o + i>>
                         /\ P + i \in M <=> IsNewline(<<path, o + i>>)
      /\ \A i \in M : P < i /\ i <= P + m
  BY PlaceFacts
<1>2. N \in Nat /\ M \in SUBSET (1..Len(cells))
  BY <1>1, NewlinesFacts
<1>3. /\ a \in 0..Len(cells) /\ b \in a..Len(cells) /\ (N = 0 <=> a = 0) /\ (a # 0 => a \in M)
      /\ \A i \in (a + 1)..b : i \notin M
      /\ new = [inode |-> start.inode, gen |-> path, partial |-> CutTo(SubSeq(cells, a + 1, b)),
                offset |-> IF N > MaxLines THEN o + Max({0, a - P}) ELSE EndRead(start),
                cut |-> (start.cut /\ N = 0) \/ b - a > MaxLineBytes]
  BY <1>1, AfterFacts
<1>4. /\ DOMAIN evs = 1..K
      /\ \A k \in DOMAIN evs : evs[k] = Event(cells, k, start.cut)
  BY ReadTypes
<1>5. /\ (N > MaxLines => b = a) /\ (~(N > MaxLines) => b = P + m) /\ a = LineEnd(cells, K)
      /\ MaxLines \in Nat \ {0} /\ z \in Nat
  <2>1. MaxLines \in Nat \ {0}
    BY LogTailAssumption
  <2>2. z \in Nat
    BY SourceFacts
  <2>3. (N > MaxLines => b = a) /\ (~(N > MaxLines) => b = Len(cells))
    BY DEF Stop
  <2>4. a = LineEnd(cells, K)
    BY Zenon DEF LastEnd
  <2> QED BY <1>1, <2>1, <2>2, <2>3, <2>4
<1>6. K \in 0..N /\ K \in Nat
  BY <1>2, <1>5
<1> HIDE DEF cells, o, P, m, N, K, a, b, z, new, evs, M
<1>7. P <= b /\ b <= P + m /\ a \in Nat /\ b \in Nat /\ a <= b /\ (N > MaxLines => P < a)
  <2>1. a \in Nat /\ b \in Nat /\ a <= b /\ b <= P + m
    BY <1>1, <1>3
  <2>2. N > MaxLines => N # 0
    BY <1>2, <1>5
  <2>3. N > MaxLines => a \in M
    BY <1>3, <2>2
  <2>4. N > MaxLines => P < a
    BY <1>1, <2>3
  <2> QED BY <1>1, <1>5, <2>1, <2>4
<1>8. new.offset = q
  <2>1. CASE N > MaxLines
    <3>1. Max({0, a - P}) = a - P
      <4>1. 0 \in Int /\ a - P \in Int /\ ~(0 >= a - P)
        BY <1>1, <1>7, <2>1
      <4> QED BY <4>1, MaxOfTwo
    <3>2. new.offset = o + Max({0, a - P})
      BY <1>3, <2>1
    <3> QED BY <1>1, <1>5, <1>7, <2>1, <3>1, <3>2
  <2>2. CASE ~(N > MaxLines)
    <3>1. new.offset = o + m /\ b = P + m
      BY <1>1, <1>3, <1>5, <2>2
    <3> QED BY <1>1, <3>1
  <2> QED BY <2>1, <2>2
<1>9. /\ q \in o..z
      /\ CutTo(SubSeq(cells, a + 1, b)) = CutTo(Rest(path, q))
      /\ ((a = 0 /\ start.cut) \/ b - a > MaxLineBytes) = (Len(Rest(path, q)) > MaxLineBytes)
  <2>1. Len(start.partial) <= b /\ b <= Len(CellsRead(start)) /\ (a = 0 \/ a \in Marks(CellsRead(start)))
        /\ \A i \in (a + 1)..b : i \notin Marks(CellsRead(start))
    BY <1>1, <1>3, <1>7 DEF P, cells, M
  <2> QED BY <1>7, <2>1, Joined DEF P, cells, o, z
<1>10. /\ new.gen = path /\ new.inode = start.inode /\ new.offset \in o..z
       /\ new.partial = CutTo(Rest(path, new.offset))
  BY <1>3, <1>8, <1>9
<1>11. new.cut = (Len(Rest(path, new.offset)) > MaxLineBytes)
  <2> DEFINE A == (start.cut /\ N = 0) \/ b - a > MaxLineBytes
             B == (a = 0 /\ start.cut) \/ b - a > MaxLineBytes
  <2>1. A \in BOOLEAN /\ B \in BOOLEAN
    OBVIOUS
  <2>2. A <=> B
    BY <1>3
  <2>3. new.cut = A
    BY <1>3
  <2>4. B = (Len(Rest(path, q)) > MaxLineBytes)
    BY <1>9
  <2> HIDE DEF A, B
  <2>5. A = B
    BY <2>1, <2>2
  <2> QED BY <1>8, <2>3, <2>4, <2>5
\* Each event.
<1>12. ASSUME NEW k \in 1..K
       PROVE  LET e == LineEnd(cells, k)
              IN  /\ e \in (P + 1)..a /\ evs[k].end = <<path, o + e - P>> /\ Whole(evs[k])
  <2> DEFINE e == LineEnd(cells, k)
             f == LineEnd(cells, k - 1)
             line == SubSeq(cells, f + 1, e - 1)
             r == o + (e - 1) - P
  <2>1. k \in 1..N
    BY <1>2, <1>6
  <2>2. /\ f \in Nat /\ e \in 1..Len(cells) /\ f < e /\ e \in M
        /\ (k # 1 => f \in M) /\ (k = 1 => f = 0)
        /\ (\A i \in (f + 1)..(e - 1) : i \notin M)
        /\ Event(cells, k, start.cut) =
              [text |-> CutTo(line), end |-> cells[e],
               truncated |-> (k = 1 /\ start.cut) \/ e - 1 - f > MaxLineBytes]
    BY <1>1, <2>1, EventFacts DEF M, N
  <2>3. P < e /\ e <= P + m /\ e \in Nat
    BY <1>1, <2>2
  <2>4. e <= a
    <3>1. CASE k = K
      BY <1>5, <2>3, <3>1
    <3>2. CASE k # K
      <4>1. k < K /\ k \in 0..N
        BY <1>6, <2>1, <3>2
      <4>2. LineEnd(cells, k) < LineEnd(cells, K)
        BY <1>1, <1>6, <4>1, LineEndOrder DEF N
      <4> QED BY <1>5, <1>7, <2>3, <4>2
    <3> QED BY <3>1, <3>2
  <2>5. cells[e] = <<path, o + e - P>>
    <3> DEFINE j == e - P
    <3>1. j \in 1..m /\ P + j = e /\ o + j = o + e - P
      BY <1>1, <2>3
    <3> HIDE DEF j, e
    <3>2. cells[P + j] = <<path, o + j>>
      BY <1>1, <3>1
    <3> QED BY <3>1, <3>2
  <2>6. evs[k] = Event(cells, k, start.cut)
    BY <1>4
  <2> DEFINE g == e - 1
  <2>7. /\ f \in Nat /\ g \in Nat /\ f <= g /\ P <= g /\ g <= Len(cells) /\ (f = 0 \/ f \in M)
        /\ \A i \in (f + 1)..g : i \notin M
    BY <1>1, <2>2, <2>3
  <2>8. /\ o + g - P \in o..z
        /\ CutTo(SubSeq(cells, f + 1, g)) = CutTo(Rest(path, o + g - P))
        /\ ((f = 0 /\ start.cut) \/ g - f > MaxLineBytes) = (Len(Rest(path, o + g - P)) > MaxLineBytes)
    <3> HIDE DEF f, g
    <3> QED BY <2>7, Joined DEF P, cells, o, z, M
  <2> DEFINE cell == <<path, o + e - P>>
  <2>9. Line(cell) = Rest(path, r)
    <3>1. cell[1] = path /\ cell[2] = o + e - P
      OBVIOUS
    <3>2. r + 1 = o + e - P /\ (o + e - P) - 1 = r
      BY <1>1, <2>3
    <3> HIDE DEF r, e, cell
    <3> QED BY <3>1, <3>2 DEF Line, Rest
  <2>10. evs[k].end = cell /\ evs[k].text = CutTo(Rest(path, r))
    BY <2>2, <2>5, <2>6, <2>8
  <2>11. evs[k].truncated = (Len(Rest(path, r)) > MaxLineBytes)
    <3> DEFINE A == (k = 1 /\ start.cut) \/ e - 1 - f > MaxLineBytes
               B == (f = 0 /\ start.cut) \/ e - 1 - f > MaxLineBytes
    <3>1. A \in BOOLEAN /\ B \in BOOLEAN
      OBVIOUS
    <3>2. k = 1 <=> f = 0
      <4>1. f \in M => f # 0
        BY <1>1
      <4> QED BY <2>2, <4>1
    <3>3. A <=> B
      <4> HIDE DEF e, f
      <4> QED BY <3>2
    <3>4. evs[k].truncated = A
      BY <2>2, <2>6
    <3>5. B = (Len(Rest(path, r)) > MaxLineBytes)
      BY <2>8
    <3> HIDE DEF A, B, r
    <3>6. A = B
      BY <3>1, <3>3
    <3> QED BY <3>4, <3>5, <3>6
  <2>12. path \in 1..Len(files) /\ o + e - P \in 1..z
    <3>1. path \in 1..Len(files)
      BY SourceFacts
    <3> QED BY <1>1, <1>5, <2>3, <3>1
  <2>13. Whole(evs[k])
    <3>1. cell[1] = path /\ cell[2] = o + e - P
      OBVIOUS
    <3> HIDE DEF r, e, cell
    <3> QED BY <2>9, <2>10, <2>11, <2>12, <3>1 DEF Whole, z
  <2>14. e \in (P + 1)..a
    BY <1>1, <1>7, <2>3, <2>4
  <2> QED BY <2>10, <2>13, <2>14
<1>13. ASSUME NEW k \in DOMAIN evs
       PROVE  /\ Whole(evs[k]) /\ evs[k].end[1] = path
              /\ evs[k].end[2] \in (o + 1)..new.offset
  <2>1. k \in 1..K
    BY <1>4
  <2> DEFINE e == LineEnd(cells, k)
  <2>2. e \in (P + 1)..a /\ evs[k].end = <<path, o + e - P>> /\ Whole(evs[k])
    BY <1>12, <2>1
  <2> HIDE DEF e
  <2>3. o + e - P \in (o + 1)..q
    BY <1>1, <1>7, <2>2
  <2> QED BY <1>8, <2>2, <2>3
<1>14. DistinctEnds(evs)
  <2> SUFFICES ASSUME NEW j \in DOMAIN evs, NEW k \in DOMAIN evs, evs[j].end = evs[k].end, j # k PROVE FALSE
    BY DEF DistinctEnds
  <2>1. j \in 1..K /\ k \in 1..K
    BY <1>4
  <2> DEFINE d == LineEnd(cells, j)
             e == LineEnd(cells, k)
  <2>2. d \in (P + 1)..a /\ evs[j].end = <<path, o + d - P>>
    BY <1>12, <2>1
  <2>3. e \in (P + 1)..a /\ evs[k].end = <<path, o + e - P>>
    BY <1>12, <2>1
  <2>4. d = e
    <3> HIDE DEF d, e
    <3>1. <<path, o + d - P>> = <<path, o + e - P>>
      BY <2>2, <2>3
    <3>2. o + d - P = o + e - P
      BY <3>1
    <3> QED BY <1>1, <1>7, <2>2, <2>3, <3>2
  <2>5. j \in 0..N /\ k \in 0..N /\ (j < k \/ k < j)
    BY <1>2, <1>6, <2>1
  <2>6. j < k => d < e
    BY <1>1, <2>5, LineEndOrder DEF N
  <2>7. k < j => e < d
    BY <1>1, <2>5, LineEndOrder DEF N
  <2> HIDE DEF d, e
  <2> QED BY <1>1, <1>7, <2>2, <2>3, <2>4, <2>5, <2>6, <2>7
<1>15. ASSUME NEW n \in (o + 1)..new.offset, IsNewline(<<path, n>>)
       PROVE  \E k \in DOMAIN evs : evs[k].end = <<path, n>>
  <2> DEFINE i == n - o + P
             j == n - o
  <2>1. j \in 1..m /\ P + j = i /\ o + j = n /\ i \in 1..b /\ o + i - P = n
    BY <1>1, <1>7, <1>8
  <2> HIDE DEF j
  <2>2. i \in M
    <3>1. P + j \in M
      BY <1>1, <1>15, <2>1
    <3> QED BY <2>1, <3>1
  <2> HIDE DEF i
  <2>3. i \notin (a + 1)..b
    BY <1>3, <2>2
  <2>4. i <= LineEnd(cells, K)
    BY <1>5, <1>7, <2>1, <2>3
  <2>5. PICK k \in 1..K : LineEnd(cells, k) = i
    BY <1>1, <1>6, <2>2, <2>4, EveryNewline DEF N, M
  <2>6. evs[k].end = <<path, n>>
    BY <1>12, <2>1, <2>5
  <2> QED BY <1>4, <2>5, <2>6
<1> QED BY <1>10, <1>11, <1>13, <1>14, <1>15 DEF o, z, new, evs, cells

-----------------------------------------------------------------------------
(* The source only grows.                                                  *)

Grown ==
    /\ Len(files') \in Nat /\ Len(files) <= Len(files')
    /\ \A g \in 1..Len(files) :
          /\ files'[g].inode = files[g].inode
          /\ Len(files'[g].bytes) \in Nat /\ Size(g) <= Len(files'[g].bytes)
          /\ \A n \in 1..Size(g) : files'[g].bytes[n] = files[g].bytes[n]

LEMMA UnchangedGrown == SourceOK /\ files' = files => Grown
<1> SUFFICES ASSUME SourceOK, files' = files PROVE Grown
  OBVIOUS
<1>1. Len(files) \in Nat /\ \A g \in 1..Len(files) : Size(g) \in 0..MaxBytes
  BY SourceFacts
<1>2. MaxBytes \in Nat
  BY LogTailAssumption
<1>3. \A g \in 1..Len(files) : Len(files[g].bytes) \in Nat
  BY <1>1, <1>2 DEF Size
<1> QED BY <1>1, <1>3 DEF Grown, Size

LEMMA SourceStep == SourceOK /\ [Next]_vars => SourceOK' /\ Grown
<1> SUFFICES ASSUME SourceOK, [Next]_vars PROVE SourceOK' /\ Grown
  OBVIOUS
<1>1. /\ Len(files) \in Nat \ {0} /\ Len(files) <= MaxGenerations /\ MaxBytes \in Nat /\ MaxGenerations \in Nat
      /\ \A g \in 1..Len(files) : /\ files[g] \in FileType /\ files[g].inode \in 1..MaxGenerations
                                  /\ Size(g) \in 0..MaxBytes
      /\ path # 0 => path \in 1..Len(files)
  BY SourceFacts
<1>2. files \in Seq(FileType) /\ DOMAIN files = 1..Len(files)
  BY LenProperties DEF SourceOK
<1>3. CASE Write
  <2>1. PICK b \in {"x", "newline"} : files' = [files EXCEPT ![path].bytes = Append(@, b)]
    BY <1>3 DEF Write
  <2>2. /\ path \in 1..Len(files) /\ written' = written + 1 /\ written < MaxBytes
        /\ UNCHANGED <<kind, path>>
    BY <1>1, <1>3 DEF Write
  <2> DEFINE t == files[path].bytes
             e == [files[path] EXCEPT !.bytes = Append(t, b)]
  <2>3. t \in Seq({"x", "newline"}) /\ files[path] \in FileType /\ files[path].inode \in 1..MaxGenerations
    BY <1>1, <2>2 DEF FileType
  <2>4. /\ Append(t, b) \in Seq({"x", "newline"}) /\ Len(Append(t, b)) = Len(t) + 1
        /\ \A i \in 1..Len(t) : Append(t, b)[i] = t[i]
    BY <2>3, AppendProperties
  <2>5. e \in FileType /\ e.bytes = Append(t, b) /\ e.inode = files[path].inode
    BY <2>3, <2>4 DEF FileType
  <2>6. files' = [files EXCEPT ![path] = e]
    BY <2>1
  <2> HIDE DEF e
  <2>7. /\ files' \in Seq(FileType) /\ Len(files') = Len(files)
        /\ \A j \in 1..Len(files) : files'[j] = IF j = path THEN e ELSE files[j]
    BY <1>2, <2>2, <2>5, <2>6, ExceptSeq
  <2>8. \A g \in 1..Len(files) : Size(g) \in Nat /\ Size(g) <= written /\ Size(g) = Len(files[g].bytes)
    BY <1>1 DEF SourceOK, Size
  <2>9. ASSUME NEW g \in 1..Len(files)
        PROVE  /\ files'[g].inode = files[g].inode /\ Len(files'[g].bytes) \in Nat
               /\ Size(g) <= Len(files'[g].bytes) /\ Len(files'[g].bytes) <= written + 1
               /\ \A n \in 1..Size(g) : files'[g].bytes[n] = files[g].bytes[n]
    <3>0. written \in Nat
      BY <1>1 DEF SourceOK
    <3>1. CASE g = path
      <4>1. files'[g] = e /\ Size(g) = Len(t)
        BY <2>7, <3>1 DEF Size
      <4>2. Len(t) \in Nat /\ Len(t) <= written
        BY <2>8, <4>1
      <4>3. Len(e.bytes) = Len(t) + 1 /\ e.inode = files[g].inode
        BY <2>4, <2>5, <3>1
      <4>4. \A n \in 1..Len(t) : e.bytes[n] = files[g].bytes[n]
        BY <2>4, <2>5, <3>1
      <4> HIDE DEF t
      <4> QED BY <3>0, <4>1, <4>2, <4>3, <4>4
    <3>2. CASE g # path
      <4>1. files'[g] = files[g]
        BY <2>7, <3>2
      <4> QED BY <2>8, <3>0, <4>1
    <3> QED BY <3>1, <3>2
  <2>10. Grown
    BY <1>1, <2>7, <2>9 DEF Grown
  <2>11. written' \in 0..MaxBytes
    BY <1>1, <2>2 DEF SourceOK
  <2>12. \A g \in 1..Len(files') : Size(g)' <= written'
    BY <2>2, <2>7, <2>9 DEF Size
  <2> QED BY <2>2, <2>7, <2>10, <2>11, <2>12 DEF SourceOK
<1>4. CASE ReplaceFile
  <2> DEFINE New == /\ Len(files) < MaxGenerations
                    /\ path' = Len(files) + 1
                    /\ \E i \in IF path = 0 THEN {Len(files) + 1} ELSE {files[path].inode} :
                          files' = Append(files, [inode |-> i, bytes |-> <<>>])
  <2>0. kind' = kind /\ kind = "file" /\ written' = written /\ (New \/ (files' = files /\ path' \in {0, Len(files)}))
    BY <1>4 DEF ReplaceFile
  <2>1. CASE files' = files /\ path' \in {0, Len(files)}
    <3>1. path' \in {0, Len(files)} /\ kind' = kind /\ kind # "journald" /\ written' = written
      BY <2>0, <2>1
    <3>2. Grown
      BY <2>1, UnchangedGrown
    <3> QED BY <2>1, <3>1, <3>2 DEF SourceOK, Size
  <2>2. CASE New
    <3>1. /\ Len(files) < MaxGenerations /\ path' = Len(files) + 1 /\ kind' = kind /\ kind = "file"
          /\ written' = written
      BY <2>0, <2>2
    <3>2. PICK i \in IF path = 0 THEN {Len(files) + 1} ELSE {files[path].inode} :
             files' = Append(files, [inode |-> i, bytes |-> <<>>])
      BY <2>2
    <3>3. i \in 1..MaxGenerations
      BY <1>1, <3>1, <3>2
    <3> DEFINE e == [inode |-> i, bytes |-> <<>>]
    <3>4. e \in FileType /\ e.bytes = <<>>
      BY <3>3 DEF FileType
    <3>5. files' = Append(files, e)
      BY <3>2
    <3> HIDE DEF e
    <3>6. /\ files' \in Seq(FileType) /\ Len(files') = Len(files) + 1
          /\ \A j \in 1..Len(files) : files'[j] = files[j]
          /\ files'[Len(files) + 1] = e
      BY <1>2, <3>4, <3>5, AppendProperties
    <3>7. \A g \in 1..Len(files) : Size(g) \in Nat /\ Size(g) <= written /\ Size(g) = Len(files[g].bytes)
      BY <1>1 DEF SourceOK, Size
    <3>8. Grown
      BY <1>1, <3>6, <3>7 DEF Grown
    <3>9. ASSUME NEW g \in 1..Len(files') PROVE Size(g)' <= written'
      <4>1. CASE g \in 1..Len(files)
        BY <3>1, <3>6, <3>7, <4>1 DEF Size
      <4>2. CASE g \notin 1..Len(files)
        <5>1. g = Len(files) + 1
          BY <1>1, <3>6, <4>2
        <5>2. Size(g)' = 0
          BY <3>4, <3>6, <5>1 DEF Size
        <5> QED BY <1>1, <3>1, <5>2 DEF SourceOK
      <4> QED BY <4>1, <4>2
    <3> QED BY <1>1, <3>1, <3>6, <3>8, <3>9 DEF SourceOK
  <2> QED BY <2>0, <2>1, <2>2
<1>5. CASE UNCHANGED <<sourceVars, written>>
  <2>1. UNCHANGED <<kind, files, path, written>>
    BY <1>5 DEF sourceVars
  <2> QED BY <2>1, UnchangedGrown DEF SourceOK, Size
<1>6. Next => Write \/ ReplaceFile \/ UNCHANGED <<sourceVars, written>>
  BY DEF Next, LearnService, Stat, ReadFile, ReadJournal, AppendLines, CommitState, Fail, OpenFails,
         Crash, Restart
<1>7. UNCHANGED vars => UNCHANGED <<sourceVars, written>>
  BY DEF vars
<1> QED BY <1>3, <1>4, <1>5, <1>6, <1>7

\* What is known of bytes that are there stays true.
LEMMA GrowthKeeps ==
    ASSUME SourceOK, Grown, NEW g \in 1..Len(files)
    PROVE  /\ Size(g) \in Nat /\ Size(g)' \in Nat /\ Size(g) <= Size(g)' /\ g \in 1..Len(files')
           /\ files'[g].inode = files[g].inode
           /\ \A n \in 1..Size(g) : IsNewline(<<g, n>>)' <=> IsNewline(<<g, n>>)
           /\ \A n \in 0..Size(g) : Rest(g, n)' = Rest(g, n)
           /\ \A n \in 1..Size(g) : Line(<<g, n>>)' = Line(<<g, n>>)
<1>1. Size(g) \in Nat
  BY SourceFacts
<1>2. /\ Size(g)' \in Nat /\ Size(g) <= Size(g)' /\ g \in 1..Len(files')
      /\ files'[g].inode = files[g].inode
  <2>1. Len(files) \in Nat
    BY SourceFacts
  <2> QED BY <2>1 DEF Grown, Size
<1>3. \A n \in 1..Size(g) : IsNewline(<<g, n>>)' <=> IsNewline(<<g, n>>)
  BY DEF Grown, IsNewline
<1>4. ASSUME NEW n \in 1..(Size(g) + 1) PROVE LineStart(g, n)' = LineStart(g, n)
  <2>1. \A m \in 1..(n - 1) : m \in 1..Size(g)
    BY <1>1
  <2>2. \A m \in 1..(n - 1) : IsNewline(<<g, m>>)' <=> IsNewline(<<g, m>>)
    BY <1>3, <2>1
  <2>3. {m \in 1..(n - 1) : IsNewline(<<g, m>>)'} = {m \in 1..(n - 1) : IsNewline(<<g, m>>)}
    BY <2>2
  <2> QED BY <2>3 DEF LineStart
<1>5. ASSUME NEW n \in 0..Size(g) PROVE Rest(g, n)' = Rest(g, n)
  <2>1. n + 1 \in 1..(Size(g) + 1)
    BY <1>1
  <2>2. LineStart(g, n + 1)' = LineStart(g, n + 1)
    BY <1>4, <2>1
  <2> QED BY <2>2 DEF Rest, Cells
<1>6. ASSUME NEW n \in 1..Size(g) PROVE Line(<<g, n>>)' = Line(<<g, n>>)
  <2>1. n \in 1..(Size(g) + 1)
    BY <1>1
  <2>2. LineStart(g, n)' = LineStart(g, n)
    BY <1>4, <2>1
  <2> QED BY <2>2 DEF Line, Cells
<1> QED BY <1>1, <1>2, <1>3, <1>5, <1>6

-----------------------------------------------------------------------------
(* The shape of the state.                                                 *)

LEMMA CursorTypes ==
    ASSUME StateOK
    PROVE  \A c \in {cursor, pending, saved, NoCursor} :
              /\ c \in CursorType /\ Len(c.partial) <= MaxLineBytes
              /\ c.offset \in 0..MaxBytes /\ c.gen \in 0..MaxGenerations
<1>1. MaxBytes \in Nat /\ MaxGenerations \in Nat /\ MaxLineBytes \in Nat
  BY LogTailAssumption
<1>2. NoCursor \in CursorType /\ Len(NoCursor.partial) <= MaxLineBytes
  BY <1>1 DEF NoCursor, CursorType
<1>3. \A c \in {cursor, pending, saved} : c \in CursorType /\ Len(c.partial) <= MaxLineBytes
  BY DEF StateOK
<1>4. \A c \in CursorType : c.offset \in 0..MaxBytes /\ c.gen \in 0..MaxGenerations
  BY DEF CursorType
<1> QED BY <1>2, <1>3, <1>4

LEMMA StartFacts ==
    ASSUME SourceOK, StateOK, pc = "found"
    PROVE  /\ Start \in CursorType
           /\ found.gen \in 1..Len(files)
           /\ Rotated \/ Truncated => Start = [NoCursor EXCEPT !.inode = files[found.gen].inode]
           /\ ~(Rotated \/ Truncated) => Start = cursor
<1>1. found.gen \in 1..Len(files)
  <2>1. Len(files) \in Nat
    BY SourceFacts
  <2> QED BY <2>1 DEF StateOK
<1>2. files[found.gen].inode \in 0..MaxGenerations
  <2>1. files[found.gen].inode \in 1..MaxGenerations /\ MaxGenerations \in Nat
    BY <1>1, SourceFacts
  <2> QED BY <2>1
<1>3. NoCursor \in CursorType /\ cursor \in CursorType
  BY CursorTypes
<1>4. [NoCursor EXCEPT !.inode = files[found.gen].inode] \in CursorType
  BY <1>2, <1>3 DEF CursorType
<1> QED BY <1>1, <1>3, <1>4 DEF Start

LEMMA ReadFileIs ==
    ASSUME ReadFile
    PROVE  /\ pc = "found" /\ kind = "file" /\ path # 0 /\ pc' = "read"
           /\ lines' = EventsOf(Start, CellsRead(Start))
           /\ pending' = CursorAfter(Start, CellsRead(Start), EndRead(Start))
           /\ torn' = (torn \/ found.gen # path \/ (Start.offset > 0 /\ Start.gen # path))
           /\ UNCHANGED <<kind, files, path, known, cursor, found, saved, spool, written, failures, crashes>>
  BY DEF ReadFile, CellsRead, EndRead, sourceVars, spoolVars

\* What journalctl prints.
LEMMA ReadJournalIs ==
    ASSUME TailInv, ReadJournal
    PROVE  LET after == IF saved = NoCursor THEN found.size ELSE saved.offset
               from == Max({after, Size(1) - MaxLines})
           IN  /\ Size(1) \in 0..MaxBytes /\ after \in 0..Size(1) /\ from \in after..Size(1)
               /\ Size(1) - from <= MaxLines
               /\ lines' \in Seq(EventType) /\ Len(lines') = Size(1) - from
               /\ \A k \in 1..(Size(1) - from) : lines'[k].end = <<1, from + k>>
               /\ from < Size(1) => pending' \in CursorType /\ pending'.partial = <<>> /\ pending'.offset = Size(1)
                                    /\ pending' # NoCursor
               /\ ~(from < Size(1)) => pending' = pending /\ after = Size(1)
               /\ torn' = (torn \/ after < from)
<1> DEFINE z == Size(1)
           after == IF saved = NoCursor THEN found.size ELSE saved.offset
           from == Max({after, z - MaxLines})
<1>1. kind = "journald" /\ pc = "found" /\ path = 1 /\ 1 \in 1..Len(files)
  <2>1. kind = "journald" /\ pc = "found" /\ path = 1
    BY DEF ReadJournal, TailInv, SourceOK
  <2> QED BY <2>1, SourceFacts DEF TailInv
<1>2. z \in 0..MaxBytes /\ MaxBytes \in Nat /\ MaxGenerations \in Nat \ {0} /\ MaxLines \in Nat \ {0}
  BY <1>1, SourceFacts, LogTailAssumption DEF TailInv
<1>3. found.size \in 0..z
  <2>1. found.gen = 1
    <3>1. Len(files) = 1
      BY <1>1 DEF TailInv, SourceOK
    <3> QED BY <1>1, <3>1 DEF TailInv, StateOK
  <2>2. found.size <= z /\ found.size \in 0..MaxBytes
    BY <1>1, <2>1 DEF TailInv, StateOK
  <2> QED BY <1>2, <2>2
<1>4. saved.offset \in 0..z
  <2>1. saved.offset \in 0..MaxBytes
    BY CursorTypes DEF TailInv
  <2>2. saved.offset <= z
    BY <1>1 DEF TailInv, JournalOK, JournalPlaces
  <2> QED BY <1>2, <2>1, <2>2
<1>5. after \in 0..z
  BY <1>3, <1>4
<1> HIDE DEF after, z
<1>6. from = IF after >= z - MaxLines THEN after ELSE z - MaxLines
  <2>1. after \in Int /\ z - MaxLines \in Int
    BY <1>2, <1>5
  <2> QED BY <2>1, MaxOfTwo
<1>7. from \in after..z /\ z - from <= MaxLines /\ z - from \in Nat /\ from \in Nat /\ (~(from < z) => after = z)
  BY <1>2, <1>5, <1>6
<1> DEFINE ev == [k \in 1..(z - from) |-> [text |-> <<>>, end |-> <<1, from + k>>, truncated |-> FALSE]]
<1>8. /\ lines' = ev
      /\ pending' = IF from < z THEN [NoCursor EXCEPT !.inode = 1, !.gen = 1, !.offset = z] ELSE pending
      /\ torn' = (torn \/ after < from)
  BY DEF ReadJournal, z, after
<1> HIDE DEF from
<1>9. ASSUME NEW k \in 1..(z - from) PROVE ev[k] \in EventType /\ ev[k].end = <<1, from + k>>
  <2>1. 1 \in 1..MaxGenerations /\ from + k \in 1..MaxBytes
    BY <1>2, <1>7
  <2>2. <<1, from + k>> \in Cell /\ <<>> \in Seq(Cell)
    BY <2>1 DEF Cell
  <2> QED BY <2>2 DEF EventType
<1>10. ev \in Seq(EventType) /\ Len(ev) = z - from
  <2>1. ev \in [1..(z - from) -> EventType]
    BY <1>9
  <2> HIDE DEF ev
  <2> QED BY <1>7, <2>1
<1>11. from < z => /\ pending' \in CursorType /\ pending'.partial = <<>> /\ pending'.offset = z
                   /\ pending' # NoCursor
  <2> SUFFICES ASSUME from < z
               PROVE  /\ pending' \in CursorType /\ pending'.partial = <<>> /\ pending'.offset = z
                      /\ pending' # NoCursor
    OBVIOUS
  <2>1. pending' = [inode |-> 1, offset |-> z, partial |-> <<>>, cut |-> FALSE, gen |-> 1]
    BY <1>8 DEF NoCursor
  <2>2. 1 \in 0..MaxGenerations
    BY <1>2
  <2>3. pending' \in CursorType
    BY <1>2, <2>1, <2>2 DEF CursorType
  <2>4. NoCursor.gen = 0 /\ pending'.gen = 1
    BY <2>1 DEF NoCursor
  <2> QED BY <2>1, <2>3, <2>4
<1>12. \A k \in 1..(z - from) : lines'[k].end = <<1, from + k>>
  BY <1>8, <1>9
<1> HIDE DEF ev
<1> QED BY <1>2, <1>5, <1>7, <1>8, <1>10, <1>11, <1>12 DEF after, from, z

\* StateOK with the parts an action leaves alone.
LEMMA StateStep == TailInv /\ [Next]_vars => StateOK'
<1> SUFFICES ASSUME SourceOK, StateOK, JournalOK, TailInv, [Next]_vars PROVE StateOK'
  BY DEF TailInv
<1>1. SourceOK' /\ Grown
  BY SourceStep
<1>2. Len(files) \in Nat /\ Len(files') \in Nat /\ Len(files) <= Len(files') /\ MaxBytes \in Nat /\ MaxLines \in Nat
  BY <1>1, SourceFacts, LogTailAssumption DEF Grown
<1>3. NoCursor \in CursorType /\ Len(NoCursor.partial) <= MaxLineBytes
  BY CursorTypes
<1>4. <<>> \in Seq(EventType) /\ Len(<<>>) <= MaxLines /\ NotFound \in [gen : 0..Len(files'), size : 0..MaxBytes]
  BY <1>2 DEF NotFound
<1>5. CASE UNCHANGED <<pc, known, cursor, pending, found, lines, saved, spool, torn, failures, crashes>>
  <2>1. found \in [gen : 0..Len(files'), size : 0..MaxBytes]
    BY <1>2 DEF StateOK
  <2>2. pc = "found" => found.gen # 0 /\ found.size <= Size(found.gen)'
    <3> SUFFICES ASSUME pc = "found" PROVE found.gen # 0 /\ found.size <= Size(found.gen)'
      OBVIOUS
    <3>1. found.gen # 0 /\ found.size <= Size(found.gen) /\ found.gen \in 1..Len(files) /\ found.size \in Nat
      BY StartFacts, <1>2 DEF StateOK
    <3>2. /\ Size(found.gen) \in Nat /\ Len(files'[found.gen].bytes) \in Nat
          /\ Size(found.gen) <= Len(files'[found.gen].bytes)
      BY <1>1, <3>1, SourceFacts DEF Grown
    <3>3. found.size <= Len(files'[found.gen].bytes)
      BY <3>1, <3>2
    <3> QED BY <1>5, <3>1, <3>3 DEF Size
  <2> QED BY <1>5, <2>1, <2>2 DEF StateOK, Size
<1>6. CASE LearnService
  BY <1>6 DEF LearnService, StateOK, Size, sourceVars, spoolVars
<1>7. CASE Stat
  <2>1. CASE path = 0
    BY <1>4, <1>7, <2>1 DEF Stat, StateOK, Size, sourceVars, spoolVars
  <2>2. CASE path # 0
    <3>1. /\ found' = [gen |-> path, size |-> Size(path)] /\ pc' = "found" /\ pc = "idle"
          /\ UNCHANGED <<files, path, known, cursor, pending, lines, saved, spool, torn, failures, crashes>>
      BY <1>7, <2>2 DEF Stat, sourceVars, spoolVars
    <3>2. path \in 1..Len(files) /\ Size(path) \in 0..MaxBytes
      BY <2>2, SourceFacts
    <3>3. found' \in [gen : 0..Len(files'), size : 0..MaxBytes] /\ found'.gen # 0 /\ found'.gen = path /\ found'.size = Size(path)
      BY <1>2, <3>1, <3>2
    <3>4. found'.size <= Size(found'.gen)
      BY <1>2, <3>2, <3>3
    <3>5. (Size(found.gen))' = Size(found'.gen)
      BY <3>1 DEF Size
    <3> QED BY <3>1, <3>3, <3>4, <3>5 DEF StateOK
  <2> QED BY <2>1, <2>2
<1>8. CASE ReadFile
  <2>1. /\ pc = "found" /\ path # 0 /\ pc' = "read"
        /\ lines' = EventsOf(Start, CellsRead(Start))
        /\ pending' = CursorAfter(Start, CellsRead(Start), EndRead(Start))
        /\ torn' = (torn \/ found.gen # path \/ (Start.offset > 0 /\ Start.gen # path))
        /\ UNCHANGED <<files, known, cursor, found, saved, spool, failures, crashes>>
    BY <1>8, ReadFileIs
  <2>2. Start \in CursorType
    BY <2>1, StartFacts
  <2>3. lines' \in Seq(EventType) /\ Len(lines') <= MaxLines /\ pending' \in CursorType /\ Len(pending'.partial) <= MaxLineBytes
    BY <2>1, <2>2, ReadTypes
  <2>4. torn' \in BOOLEAN
    BY <2>1
  <2> QED BY <2>1, <2>3, <2>4 DEF StateOK
<1>9. CASE ReadJournal
  <2>1. /\ pc = "found" /\ kind = "journald" /\ pc' \in {"idle", "read"} /\ (pc' = "idle" => pending' = NoCursor)
        /\ UNCHANGED <<files, known, cursor, found, saved, spool, failures, crashes>>
    BY <1>9 DEF ReadJournal, sourceVars, spoolVars
  <2> DEFINE after == IF saved = NoCursor THEN found.size ELSE saved.offset
             from == Max({after, Size(1) - MaxLines})
  <2>2. /\ Size(1) - from <= MaxLines
        /\ lines' \in Seq(EventType) /\ Len(lines') = Size(1) - from
        /\ from < Size(1) => pending' \in CursorType /\ pending'.partial = <<>>
        /\ ~(from < Size(1)) => pending' = pending
        /\ torn' = (torn \/ after < from)
    BY <1>9, ReadJournalIs
  <2> HIDE DEF from, after
  <2>3. pending' \in CursorType /\ Len(pending'.partial) <= MaxLineBytes
    BY <2>2, LogTailAssumption DEF StateOK
  <2>4. torn' \in BOOLEAN /\ Len(lines') <= MaxLines
    BY <2>2
  <2> QED BY <2>1, <2>2, <2>3, <2>4 DEF StateOK
<1>10. CASE AppendLines
  <2>1. spool' = spool \o lines /\ spool' \in Seq(EventType)
    BY <1>10, ConcatProperties DEF AppendLines, StateOK
  <2> QED BY <1>10, <2>1 DEF AppendLines, StateOK, sourceVars
<1>11. CASE CommitState
  BY <1>3, <1>4, <1>11 DEF CommitState, StateOK, sourceVars, spoolVars
<1>12. CASE Fail
  <2>1. failures \in Nat /\ failures' \in Nat /\ failures' # 0 /\ failures' > 0
    BY <1>12 DEF Fail, StateOK
  <2> QED BY <1>4, <1>12, <2>1 DEF Fail, StateOK, sourceVars, spoolVars
<1>13. CASE OpenFails
  BY <1>4, <1>13 DEF OpenFails, StateOK, sourceVars, spoolVars
<1>14. CASE Crash
  <2>1. crashes' \in Nat
    BY <1>14 DEF Crash, StateOK
  <2> QED BY <1>3, <1>4, <1>14, <2>1 DEF Crash, StateOK, sourceVars, spoolVars
<1>15. CASE Restart
  BY <1>3, <1>15 DEF Restart, StateOK, sourceVars, spoolVars
<1>16. Write \/ ReplaceFile \/ UNCHANGED vars =>
          UNCHANGED <<pc, known, cursor, pending, found, lines, saved, spool, torn, failures, crashes>>
  BY DEF Write, ReplaceFile, vars, spoolVars
<1> QED BY <1>5, <1>6, <1>7, <1>8, <1>9, <1>10, <1>11, <1>12, <1>13, <1>14, <1>15, <1>16 DEF Next

\* append() adds the lines of the poll to what is spooled.
LEMMA Appended ==
    ASSUME NEW s \in Seq(EventType), NEW t \in Seq(EventType)
    PROVE  /\ \A j \in DOMAIN (s \o t) : \/ j \in DOMAIN s /\ (s \o t)[j] = s[j]
                                         \/ \E k \in DOMAIN t : j = Len(s) + k /\ (s \o t)[j] = t[k]
           /\ \A j \in DOMAIN s : j \in DOMAIN (s \o t) /\ (s \o t)[j] = s[j]
           /\ \A k \in DOMAIN t : Len(s) + k \in DOMAIN (s \o t) /\ (s \o t)[Len(s) + k] = t[k]
           /\ (/\ DistinctEnds(s) /\ DistinctEnds(t)
               /\ \A j \in DOMAIN s, k \in DOMAIN t : s[j].end # t[k].end) => DistinctEnds(s \o t)
<1> DEFINE u == s \o t
           m == Len(s)
           n == Len(t)
<1>1. /\ m \in Nat /\ n \in Nat /\ DOMAIN s = 1..m /\ DOMAIN t = 1..n
      /\ u \in Seq(EventType) /\ Len(u) = m + n
      /\ \A i \in 1..(m + n) : u[i] = IF i <= m THEN s[i] ELSE t[i - m]
  BY LenProperties, ConcatProperties
<1>2. DOMAIN u = 1..(m + n)
  BY <1>1, LenProperties
<1> HIDE DEF u, m, n
<1>3. ASSUME NEW j \in DOMAIN u
      PROVE  \/ j \in DOMAIN s /\ u[j] = s[j]
             \/ \E k \in DOMAIN t : j = m + k /\ u[j] = t[k]
  <2>1. j \in 1..(m + n) /\ u[j] = IF j <= m THEN s[j] ELSE t[j - m]
    BY <1>1, <1>2
  <2>2. CASE j <= m
    BY <1>1, <2>1, <2>2
  <2>3. CASE ~(j <= m)
    <3>1. j - m \in 1..n /\ j = m + (j - m)
      BY <1>1, <2>1, <2>3
    <3> QED BY <1>1, <2>1, <2>3, <3>1
  <2> QED BY <2>2, <2>3
<1>4. ASSUME NEW j \in DOMAIN s PROVE j \in DOMAIN u /\ u[j] = s[j]
  <2>1. j \in 1..(m + n) /\ j <= m
    BY <1>1
  <2> QED BY <1>1, <1>2, <2>1
<1>5. ASSUME NEW k \in DOMAIN t PROVE m + k \in DOMAIN u /\ u[m + k] = t[k]
  <2>1. m + k \in 1..(m + n) /\ ~(m + k <= m) /\ m + k - m = k
    BY <1>1
  <2> QED BY <1>1, <1>2, <2>1
<1>6. ASSUME DistinctEnds(s), DistinctEnds(t), \A j \in DOMAIN s, k \in DOMAIN t : s[j].end # t[k].end
      PROVE  DistinctEnds(u)
  <2> SUFFICES ASSUME NEW i \in DOMAIN u, NEW j \in DOMAIN u, u[i].end = u[j].end PROVE i = j
    BY DEF DistinctEnds
  <2>1. /\ (i \in DOMAIN s /\ u[i] = s[i]) \/ \E k \in DOMAIN t : i = m + k /\ u[i] = t[k]
        /\ (j \in DOMAIN s /\ u[j] = s[j]) \/ \E k \in DOMAIN t : j = m + k /\ u[j] = t[k]
    BY <1>3
  <2>2. CASE i \in DOMAIN s /\ u[i] = s[i] /\ j \in DOMAIN s /\ u[j] = s[j]
    BY <1>6, <2>2 DEF DistinctEnds
  <2>3. CASE /\ \E k \in DOMAIN t : i = m + k /\ u[i] = t[k]
             /\ \E k \in DOMAIN t : j = m + k /\ u[j] = t[k]
    BY <1>6, <2>3 DEF DistinctEnds
  <2> QED BY <1>6, <2>1, <2>2, <2>3
<1> QED BY <1>3, <1>4, <1>5, <1>6 DEF u, m, n

-----------------------------------------------------------------------------
(* The journal.                                                            *)

LEMMA JournalStep == TailInv /\ [Next]_vars => JournalOK'
<1> SUFFICES ASSUME SourceOK, StateOK, JournalOK, TailInv, [Next]_vars, kind' = "journald" PROVE JournalOK'
  BY DEF TailInv, JournalOK
<1>1. SourceOK' /\ Grown
  BY SourceStep
<1>2. kind = "journald" /\ path = 1
  <2>1. kind' = kind
    BY DEF Next, vars, sourceVars, Write, ReplaceFile, LearnService, Stat, ReadFile, ReadJournal,
           AppendLines, CommitState, Fail, OpenFails, Crash, Restart
  <2> QED BY <2>1 DEF SourceOK
<1>3. Size(1) \in Nat /\ Size(1)' \in Nat /\ Size(1) <= Size(1)'
  <2>1. 1 \in 1..Len(files)
    BY <1>2, SourceFacts
  <2> QED BY <1>1, <2>1, GrowthKeeps
<1>4. saved.offset \in Nat /\ pending.offset \in Nat /\ NoCursor.offset = 0
  BY CursorTypes DEF NoCursor
<1>5. saved.offset <= Size(1) /\ pending.offset <= Size(1) /\ saved.offset <= Size(1)' /\ pending.offset <= Size(1)'
  <2>1. saved.offset <= Size(1) /\ pending.offset <= Size(1)
    BY <1>2 DEF JournalOK, JournalPlaces
  <2> QED BY <1>3, <1>4, <2>1
<1>6. CASE UNCHANGED <<pc, pending, lines, saved, spool, torn>>
  <2>1. /\ UNCHANGED <<saved.offset, pending.offset>>
        /\ saved'.offset <= Size(1)' /\ pending'.offset <= Size(1)'
    BY <1>5, <1>6
  <2>2. JournalPlaces'
    BY <1>2, <1>6, <2>1 DEF JournalOK, JournalPlaces
  <2>3. JournalSpool'
    BY <1>2, <1>6 DEF JournalOK, JournalSpool, Spooled, DistinctEnds
  <2>4. pc = "read" => JournalPoll'
    BY <1>2, <1>6 DEF JournalOK, JournalPoll
  <2> QED BY <1>2, <1>6, <2>2, <2>3, <2>4 DEF JournalOK
<1>7. CASE /\ pc' \notin {"read", "appended"} /\ pending' \in {pending, NoCursor}
           /\ UNCHANGED <<files, saved, spool, torn>>
  <2>1. saved'.offset <= Size(1)' /\ pending'.offset <= Size(1)'
    BY <1>3, <1>4, <1>5, <1>7
  <2>2. pending' # NoCursor => saved'.offset <= pending'.offset
    BY <1>2, <1>7 DEF JournalOK, JournalPlaces
  <2>3. JournalSpool'
    BY <1>2, <1>7 DEF JournalOK, JournalSpool, Spooled, DistinctEnds
  <2> QED BY <1>7, <2>1, <2>2, <2>3 DEF JournalOK, JournalPlaces
<1>8. CASE ReadJournal
  <2> DEFINE z == Size(1)
             after == IF saved = NoCursor THEN found.size ELSE saved.offset
             from == Max({after, Size(1) - MaxLines})
  <2>1. /\ after \in 0..z /\ from \in after..z
        /\ lines' \in Seq(EventType) /\ Len(lines') = z - from
        /\ \A k \in 1..(z - from) : lines'[k].end = <<1, from + k>>
        /\ from < z => pending'.offset = z /\ pending' # NoCursor
        /\ ~(from < z) => pending' = pending /\ after = z
        /\ torn' = (torn \/ after < from)
    BY <1>8, ReadJournalIs
  <2>2. /\ pc' = IF lines' = <<>> /\ pending' = NoCursor THEN "idle" ELSE "read"
        /\ UNCHANGED <<files, saved, spool>>
    BY <1>8 DEF ReadJournal, sourceVars, spoolVars
  <2>11. ~torn' => ~torn /\ ~(after < from)
    <3>1. torn' = (torn \/ after < from)
      BY <2>1
    <3> QED BY <3>1, Zenon
  <2>3. saved = NoCursor \/ saved.offset = after
    OBVIOUS
  <2>4. saved.offset <= after
    BY <1>4, <2>1, <2>3
  <2> HIDE DEF after, from
  <2>5. Size(1)' = z
    BY <2>2 DEF Size
  <2>6. saved'.offset <= Size(1)' /\ pending'.offset <= Size(1)'
    <3>1. pending'.offset <= z
      BY <1>3, <1>5, <2>1
    <3> QED BY <1>5, <2>2, <2>5, <3>1
  <2>7. pending' # NoCursor => saved'.offset <= pending'.offset
    <3>1. CASE from < z
      BY <1>5, <2>1, <2>2, <3>1
    <3>2. CASE ~(from < z)
      BY <1>2, <2>1, <2>2, <3>2 DEF JournalOK, JournalPlaces
    <3> QED BY <3>1, <3>2
  <2>8. pc' = "read" => pending' # NoCursor
    <3>1. CASE from < z
      BY <2>1, <3>1
    <3>2. CASE ~(from < z)
      <4>1. Len(lines') = 0
        BY <1>3, <2>1, <3>2
      <4>2. lines' = <<>>
        BY <2>1, <4>1, EmptySeq
      <4> QED BY <2>2, <4>2
    <3> QED BY <3>1, <3>2
  <2>9. pc' # "appended"
    BY <2>2
  <2>10. ASSUME pc' = "read"
         PROVE  /\ saved'.offset + Len(lines') <= pending'.offset
                /\ \A k \in DOMAIN lines' : lines'[k].end = <<1, pending'.offset - Len(lines') + k>>
                /\ ~torn' /\ saved' # NoCursor => saved'.offset + Len(lines') = pending'.offset
    <3>0. DOMAIN lines' = 1..(z - from)
      BY <2>1, LenProperties
    <3>1. CASE from < z
      <4>1. pending'.offset = z /\ Len(lines') = z - from
        BY <2>1, <3>1
      <4>2. saved.offset + Len(lines') <= pending'.offset
        BY <1>3, <1>4, <2>1, <2>4, <4>1
      <4>3. ASSUME NEW k \in DOMAIN lines' PROVE lines'[k].end = <<1, pending'.offset - Len(lines') + k>>
        <5>1. pending'.offset - Len(lines') + k = from + k
          BY <1>3, <2>1, <3>0, <4>1
        <5> QED BY <2>1, <3>0, <5>1
      <4>4. ~torn' /\ saved # NoCursor => saved.offset = from
        <5> SUFFICES ASSUME ~torn', saved # NoCursor PROVE saved.offset = from
          OBVIOUS
        <5>1. ~(after < from) /\ saved.offset = after
          BY <2>3, <2>11
        <5> QED BY <1>3, <2>1, <5>1
      <4>5. saved.offset = from => saved.offset + Len(lines') = pending'.offset
        BY <1>3, <1>4, <2>1, <4>1
      <4> QED BY <2>2, <4>2, <4>3, <4>4, <4>5
    <3>2. CASE ~(from < z)
      <4>1. Len(lines') = 0 /\ pending' = pending /\ after = z /\ DOMAIN lines' = {}
        BY <1>3, <2>1, <3>0, <3>2
      <4>2. saved.offset <= pending.offset
        BY <1>2, <2>8, <2>10, <4>1 DEF JournalOK, JournalPlaces
      <4>3. saved # NoCursor => saved.offset = pending.offset
        BY <1>3, <1>4, <1>5, <2>3, <4>1, <4>2
      <4>4. saved.offset + 0 = saved.offset
        BY <1>4
      <4> QED BY <2>2, <4>1, <4>2, <4>3, <4>4
    <3> QED BY <3>1, <3>2
  <2>12. JournalSpool'
    BY <1>2, <2>2, <2>11 DEF JournalOK, JournalSpool, Spooled, DistinctEnds
  <2>13. pc' = "read" => JournalPoll'
    BY <2>10 DEF JournalPoll
  <2> QED BY <2>6, <2>7, <2>8, <2>9, <2>12, <2>13 DEF JournalOK, JournalPlaces
<1>9. CASE AppendLines
  <2> DEFINE p == pending.offset
             L == Len(lines)
             a == saved.offset
  <2>1. /\ pc = "read" /\ spool' = spool \o lines /\ saved' = pending /\ pending' = pending /\ pc' = "appended"
        /\ UNCHANGED <<files, lines, torn>>
    BY <1>9 DEF AppendLines, sourceVars
  <2>2. /\ pending # NoCursor /\ a + L <= p
        /\ \A k \in DOMAIN lines : lines[k].end = <<1, p - L + k>>
        /\ ~torn /\ saved # NoCursor => a + L = p
        /\ \A k \in DOMAIN spool : spool[k].end[1] = 1 /\ spool[k].end[2] <= a
        /\ DistinctEnds(spool) /\ (saved = NoCursor => spool = <<>>)
    BY <1>2, <2>1 DEF JournalOK, JournalPoll, JournalSpool
  <2>3. /\ spool \in Seq(EventType) /\ lines \in Seq(EventType) /\ L \in Nat
        /\ DOMAIN lines = 1..L /\ a \in Nat /\ p \in Nat
    BY <1>4, LenProperties DEF StateOK
  <2> DEFINE u == spool \o lines
  <2>4. /\ \A j \in DOMAIN u : \/ j \in DOMAIN spool /\ u[j] = spool[j]
                               \/ \E k \in DOMAIN lines : j = Len(spool) + k /\ u[j] = lines[k]
        /\ \A j \in DOMAIN spool : j \in DOMAIN u /\ u[j] = spool[j]
        /\ \A k \in DOMAIN lines : Len(spool) + k \in DOMAIN u /\ u[Len(spool) + k] = lines[k]
        /\ (/\ DistinctEnds(spool) /\ DistinctEnds(lines)
            /\ \A j \in DOMAIN spool, k \in DOMAIN lines : spool[j].end # lines[k].end) => DistinctEnds(u)
    BY <2>3, Appended
  <2>5. \A k \in 1..L : p - L + k \in Nat /\ a < p - L + k /\ p - L + k <= p
    BY <2>2, <2>3
  <2> HIDE DEF u, p, L, a
  <2>6. \A k \in DOMAIN lines : lines[k].end[1] = 1 /\ lines[k].end[2] = p - L + k
    BY <2>2
  <2>7. ASSUME NEW k \in DOMAIN u PROVE u[k].end[1] = 1 /\ u[k].end[2] <= p
    <3>1. CASE k \in DOMAIN spool /\ u[k] = spool[k]
      <4>1. spool[k].end[1] = 1 /\ spool[k].end[2] <= a /\ spool[k] \in EventType
        BY <2>2, <2>3, <3>1, ElementOfSeq
      <4>2. spool[k].end[2] \in Int
        BY <4>1 DEF EventType, Cell
      <4>3. a <= p
        BY <2>2, <2>3
      <4> QED BY <2>3, <3>1, <4>1, <4>2, <4>3
    <3>2. CASE \E i \in DOMAIN lines : k = Len(spool) + i /\ u[k] = lines[i]
      BY <2>3, <2>5, <2>6, <3>2
    <3> QED BY <2>4, <3>1, <3>2
  <2>8. DistinctEnds(u)
    <3>1. DistinctEnds(lines)
      <4> SUFFICES ASSUME NEW i \in DOMAIN lines, NEW j \in DOMAIN lines, lines[i].end = lines[j].end PROVE i = j
        BY DEF DistinctEnds
      <4>1. p - L + i = p - L + j
        BY <2>6
      <4> QED BY <2>3, <4>1
    <3>2. ASSUME NEW j \in DOMAIN spool, NEW k \in DOMAIN lines PROVE spool[j].end # lines[k].end
      <4>1. spool[j].end[2] <= a /\ lines[k].end[2] = p - L + k /\ a < p - L + k /\ p - L + k \in Nat
        BY <2>2, <2>3, <2>5, <2>6
      <4>2. ~(p - L + k <= a)
        BY <2>3, <4>1
      <4> QED BY <4>1, <4>2
    <3> QED BY <2>2, <2>4, <3>1, <3>2
  <2>9. ASSUME ~torn, NEW n \in 1..p, NEW m \in 1..p, n <= m, \E k \in DOMAIN u : u[k].end = <<1, n>>
        PROVE  \E k \in DOMAIN u : u[k].end = <<1, m>>
    <3>1. CASE m > p - L
      <4>1. m - (p - L) \in 1..L /\ p - L + (m - (p - L)) = m
        BY <2>3, <3>1
      <4>2. lines[m - (p - L)].end = <<1, m>> /\ m - (p - L) \in DOMAIN lines
        BY <2>2, <2>3, <4>1
      <4> QED BY <2>4, <4>2
    <3>2. CASE ~(m > p - L)
      <4>1. PICK k \in DOMAIN u : u[k].end = <<1, n>>
        BY <2>9
      <4>2. ~ \E i \in DOMAIN lines : u[k] = lines[i]
        <5> SUFFICES ASSUME NEW i \in DOMAIN lines, u[k] = lines[i] PROVE FALSE
          OBVIOUS
        <5>1. n = p - L + i
          BY <2>6, <4>1
        <5> QED BY <2>3, <2>9, <3>2, <5>1
      <4>3. k \in DOMAIN spool /\ spool[k].end = <<1, n>>
        BY <2>4, <4>1, <4>2
      <4>4. spool # <<>>
        BY <4>3
      <4>5. a + L = p
        BY <2>2, <2>9, <4>4
      <4>6. n \in 1..a /\ m \in 1..a
        BY <2>3, <2>9, <3>2, <4>5
      <4>7. \E i \in DOMAIN spool : spool[i].end = <<1, m>>
        BY <1>2, <2>9, <4>3, <4>6 DEF JournalOK, JournalSpool, Spooled, a
      <4> QED BY <2>4, <4>7
    <3> QED BY <3>1, <3>2
  <2>10. p <= Size(1)' /\ p <= p
    BY <1>5, <2>3 DEF p
  <2>11. spool' = u /\ saved'.offset = p /\ pending'.offset = p /\ saved' # NoCursor /\ pending' # NoCursor
    BY <2>1, <2>2 DEF u, p
  <2>13. DistinctEnds(spool)'
    BY <2>8, <2>11 DEF DistinctEnds
  <2>14. ~torn' => \A n, m \in 1..p : n <= m /\ Spooled(<<1, n>>)' => Spooled(<<1, m>>)'
    BY <2>1, <2>9, <2>11 DEF Spooled
  <2>12. JournalSpool'
    BY <2>7, <2>11, <2>13, <2>14 DEF JournalSpool
  <2> QED BY <2>1, <2>10, <2>11, <2>12 DEF JournalOK, JournalPlaces
<1>10. CASE Stat
  BY <1>2, <1>7, <1>10 DEF Stat, sourceVars, spoolVars
<1>11. LearnService \/ Write \/ ReplaceFile \/ UNCHANGED vars => UNCHANGED <<pc, pending, lines, saved, spool, torn>>
  BY DEF LearnService, Write, ReplaceFile, vars, sourceVars, spoolVars
<1>12. CommitState \/ Fail \/ OpenFails \/ Crash \/ Restart =>
          /\ pc' \notin {"read", "appended"} /\ pending' \in {pending, NoCursor}
          /\ UNCHANGED <<files, saved, spool, torn>>
  BY DEF CommitState, Fail, OpenFails, Crash, Restart, sourceVars, spoolVars
<1>13. ~ReadFile
  BY <1>2 DEF ReadFile
<1> QED BY <1>6, <1>7, <1>8, <1>9, <1>10, <1>11, <1>12, <1>13 DEF Next

-----------------------------------------------------------------------------
(* The file.                                                               *)

\* What a cursor says of its generation stays true.
LEMMA ExactStable ==
    ASSUME SourceOK, Grown, NEW c \in CursorType, Exact(c)
    PROVE  Exact(c)'
<1>1. c.gen \in 1..Len(files) /\ c.offset \in Nat /\ c.offset <= Size(c.gen)
  BY DEF Exact, CursorType
<1> DEFINE g == c.gen
           o == c.offset
<1> HIDE DEF g, o
<1>2. /\ Size(g) \in Nat /\ Size(g)' \in Nat /\ Size(g) <= Size(g)' /\ g \in 1..Len(files')
      /\ files'[g].inode = files[g].inode
      /\ \A n \in 0..Size(g) : Rest(g, n)' = Rest(g, n)
  BY <1>1, GrowthKeeps DEF g
<1>3. o \in 0..Size(g) /\ o <= Size(g)'
  BY <1>1, <1>2 DEF g, o
<1>4. Rest(g, o)' = Rest(g, o)
  BY <1>2, <1>3
<1>5. /\ g \in 1..Len(files') /\ c.inode = files'[g].inode /\ o <= Size(g)'
      /\ c.partial = CutTo(Rest(g, o)') /\ c.cut = (Len(Rest(g, o)') > MaxLineBytes)
  <2>1. /\ c.inode = files[g].inode
        /\ c.partial = CutTo(Rest(g, o)) /\ c.cut = (Len(Rest(g, o)) > MaxLineBytes)
    BY DEF Exact, g, o
  <2> QED BY <1>2, <1>3, <1>4, <2>1
<1> QED BY <1>5 DEF Exact, CutTo, g, o

\* So does what an event says of its line.
LEMMA WholeStable ==
    ASSUME SourceOK, Grown, NEW e \in EventType, Whole(e)
    PROVE  Whole(e)'
<1> DEFINE g == e.end[1]
           n == e.end[2]
<1>1. e.end = <<g, n>> /\ g \in 1..Len(files) /\ n \in 1..Size(g)
  BY DEF Whole, EventType, Cell
<1> HIDE DEF g, n
<1>2. /\ Size(g) \in Nat /\ Size(g)' \in Nat /\ Size(g) <= Size(g)' /\ g \in 1..Len(files')
      /\ Line(<<g, n>>)' = Line(<<g, n>>)
  BY <1>1, GrowthKeeps
<1>3. n \in 1..Size(g)'
  BY <1>1, <1>2
<1>4. Line(e.end)' = Line(e.end)
  BY <1>1, <1>2
<1>5. e.text = CutTo(Line(e.end)') /\ e.truncated = (Len(Line(e.end)') > MaxLineBytes)
  BY <1>4 DEF Whole
<1> QED BY <1>2, <1>3, <1>5 DEF Whole, CutTo, g, n

LEMMA KindStays == [Next]_vars => kind' = kind /\ (~torn' => ~torn) /\ (ReadJournal => kind = "journald")
<1>1. ReadFile \/ ReadJournal => kind' = kind /\ (~torn' => ~torn) /\ (ReadJournal => kind = "journald")
  BY DEF ReadFile, ReadJournal, sourceVars
<1>2. Next \/ UNCHANGED vars => (kind' = kind /\ torn' = torn) \/ ReadFile \/ ReadJournal
  BY DEF Next, vars, sourceVars, Write, ReplaceFile, LearnService, Stat,
         AppendLines, CommitState, Fail, OpenFails, Crash, Restart
<1>3. ReadJournal => kind = "journald"
  BY DEF ReadJournal
<1> QED BY <1>1, <1>2, <1>3

\* A read that is not torn starts at a place of the file at the path.
LEMMA FileRead ==
    ASSUME SourceOK, StateOK, PlacesOK, ReadFile, ~torn'
    PROVE  /\ path \in 1..Len(files) /\ found.gen = path /\ Start \in CursorType
           /\ Describes(Start) /\ Start.inode = files[path].inode
           /\ Start.offset = 0 \/ (Start = cursor /\ cursor.gen = path)
<1>1. /\ pc = "found" /\ path # 0
      /\ torn' = (torn \/ found.gen # path \/ (Start.offset > 0 /\ Start.gen # path))
  BY ReadFileIs
<1>2. found.gen = path /\ ~(Start.offset > 0 /\ Start.gen # path)
  BY <1>1, Zenon
<1>3. path \in 1..Len(files) /\ Size(path) \in Nat
  BY <1>1, SourceFacts
<1>4. /\ Start \in CursorType
      /\ Rotated \/ Truncated => Start = [NoCursor EXCEPT !.inode = files[path].inode]
      /\ ~(Rotated \/ Truncated) => Start = cursor
  BY <1>1, <1>2, StartFacts
<1>5. Start.offset \in Nat
  BY <1>4 DEF CursorType
<1>6. \A g : Rest(g, 0) = <<>> /\ CutTo(Rest(g, 0)) = <<>> /\ ~(Len(Rest(g, 0)) > MaxLineBytes)
  <2> SUFFICES ASSUME NEW g PROVE Rest(g, 0) = <<>> /\ CutTo(Rest(g, 0)) = <<>> /\ ~(Len(Rest(g, 0)) > MaxLineBytes)
    OBVIOUS
  <2>1. LineStart(g, 0 + 1) \in 0..0 /\ Rest(g, 0) \in Seq({g} \X Int) /\ Len(Rest(g, 0)) = 0 - LineStart(g, 0 + 1)
    BY RestFacts
  <2>2. Len(Rest(g, 0)) = 0 /\ MaxLineBytes \in Nat
    BY <2>1, LogTailAssumption
  <2>3. Rest(g, 0) = <<>>
    BY <2>1, <2>2, EmptySeq
  <2>4. Len(CutTo(Rest(g, 0))) = 0 /\ CutTo(Rest(g, 0)) \in Seq({g} \X Int)
    BY <2>1, <2>2, CutFacts
  <2>5. CutTo(Rest(g, 0)) = <<>>
    BY <2>4, EmptySeq
  <2> QED BY <2>2, <2>3, <2>5
<1>7. CASE Rotated \/ Truncated
  <2>1. /\ Start.offset = 0 /\ Start.partial = <<>> /\ Start.cut = FALSE /\ Start.inode = files[path].inode
    BY <1>4, <1>7 DEF NoCursor
  <2>2. Start.partial = CutTo(Rest(path, 0)) /\ Start.cut = (Len(Rest(path, 0)) > MaxLineBytes)
    <3>1. CutTo(Rest(path, 0)) = <<>> /\ ~(Len(Rest(path, 0)) > MaxLineBytes)
      BY <1>6
    <3>2. (Len(Rest(path, 0)) > MaxLineBytes) = FALSE
      BY <3>1
    <3> QED BY <2>1, <3>1, <3>2, Zenon
  <2>3. Describes(Start)
    BY <1>3, <2>1, <2>2 DEF Describes
  <2> QED BY <1>2, <1>3, <1>4, <2>1, <2>3
<1>8. CASE ~(Rotated \/ Truncated)
  <2>1. Start = cursor /\ cursor # NoCursor /\ cursor.inode = files[path].inode
    BY <1>2, <1>4, <1>8 DEF Rotated
  <2>2. Exact(cursor)
    BY <2>1 DEF PlacesOK
  <2>3. CASE Start.offset = 0
    <3>1. /\ Start.partial = CutTo(Rest(path, 0)) /\ Start.cut = (Len(Rest(path, 0)) > MaxLineBytes)
      BY <1>6, <2>1, <2>2, <2>3 DEF Exact
    <3>2. Describes(Start)
      BY <1>3, <2>3, <3>1 DEF Describes
    <3> QED BY <1>2, <1>3, <1>4, <2>1, <2>3, <3>2
  <2>4. CASE Start.offset # 0
    <3>1. cursor.gen = path
      BY <1>2, <1>5, <2>1, <2>4
    <3>2. Describes(Start)
      BY <2>1, <2>2, <3>1 DEF Exact, Describes
    <3> QED BY <1>2, <1>3, <1>4, <2>1, <3>1, <3>2
  <2> QED BY <2>3, <2>4
<1> QED BY <1>7, <1>8

\* What it returns.
LEMMA FileReadGives ==
    ASSUME SourceOK, StateOK, PlacesOK, ReadFile, ~torn'
    PROVE  /\ pending' \in CursorType /\ pending' # NoCursor /\ Exact(pending')
           /\ pending'.gen = path /\ pending'.offset \in Nat /\ Start.offset \in Nat /\ Start.offset <= pending'.offset
           /\ lines' \in Seq(EventType) /\ DistinctEnds(lines')
           /\ \A k \in DOMAIN lines' : /\ Whole(lines'[k]) /\ lines'[k].end[1] = path
                                       /\ lines'[k].end[2] \in (Start.offset + 1)..pending'.offset
           /\ \A n \in (Start.offset + 1)..pending'.offset :
                 IsNewline(<<path, n>>) => \E k \in DOMAIN lines' : lines'[k].end = <<path, n>>
<1>1. /\ path \in 1..Len(files) /\ Start \in CursorType /\ Describes(Start) /\ Start.inode = files[path].inode
  BY FileRead
<1>2. /\ path # 0
      /\ lines' = EventsOf(Start, CellsRead(Start))
      /\ pending' = CursorAfter(Start, CellsRead(Start), EndRead(Start))
  BY ReadFileIs
<1>3. lines' \in Seq(EventType) /\ pending' \in CursorType /\ pending' # NoCursor
  BY <1>1, <1>2, ReadTypes
<1>4. /\ pending'.gen = path /\ pending'.inode = Start.inode /\ pending'.offset \in Start.offset..Size(path)
      /\ pending'.partial = CutTo(Rest(path, pending'.offset))
      /\ pending'.cut = (Len(Rest(path, pending'.offset)) > MaxLineBytes)
      /\ \A k \in DOMAIN lines' : /\ Whole(lines'[k]) /\ lines'[k].end[1] = path
                                  /\ lines'[k].end[2] \in (Start.offset + 1)..pending'.offset
      /\ DistinctEnds(lines')
      /\ \A n \in (Start.offset + 1)..pending'.offset :
            IsNewline(<<path, n>>) => \E k \in DOMAIN lines' : lines'[k].end = <<path, n>>
  BY <1>1, <1>2, ReadFacts
<1>5. Start.offset \in Nat /\ Size(path) \in Nat /\ MaxBytes \in Nat
  BY <1>1, SourceFacts DEF CursorType
<1>6. pending'.offset \in Nat /\ Start.offset <= pending'.offset /\ pending'.offset <= Size(path)
  BY <1>4, <1>5
<1>7. Exact(pending')
  BY <1>1, <1>4, <1>6 DEF Exact
<1> QED BY <1>3, <1>4, <1>5, <1>6, <1>7

LEMMA PlacesStep ==
    ASSUME SourceOK, StateOK, PlacesOK, [Next]_vars, kind = "file", ~torn'
    PROVE  PlacesOK'
<1>1. Grown
  BY SourceStep
<1> SUFFICES ASSUME NEW c \in {cursor', pending', saved'}, c # NoCursor PROVE Exact(c)'
  BY DEF PlacesOK
<1>2. CASE ReadFile /\ c = pending'
  <2>1. c \in CursorType /\ Exact(c)
    BY <1>2, FileReadGives DEF Exact
  <2> QED BY <1>1, <2>1, ExactStable
<1>3. CASE c \in {cursor, pending, saved}
  <2>1. c \in CursorType /\ Exact(c)
    BY <1>3, CursorTypes DEF PlacesOK
  <2> QED BY <1>1, <2>1, ExactStable
<1>4. (ReadFile /\ c = pending') \/ c \in {cursor, pending, saved}
  <2>1. ReadFile => cursor' = cursor /\ saved' = saved
    BY ReadFileIs
  <2>2. ~ReadJournal
    BY KindStays
  <2>3. Next \/ UNCHANGED vars => {cursor', pending', saved'} \subseteq {cursor, pending, saved, NoCursor} \/ ReadFile
    BY <2>2 DEF Next, vars, spoolVars, Write, ReplaceFile, LearnService, Stat,
           AppendLines, CommitState, Fail, OpenFails, Crash, Restart
  <2> QED BY <2>1, <2>3
<1> QED BY <1>2, <1>3, <1>4

LEMMA WholeStep ==
    ASSUME SourceOK, StateOK, PlacesOK, WholeOK, [Next]_vars, kind = "file", ~torn'
    PROVE  WholeOK'
<1>1. Grown
  BY SourceStep
<1>2. spool \in Seq(EventType) /\ lines \in Seq(EventType)
  BY DEF StateOK
<1> SUFFICES ASSUME NEW e \in Range(spool') \cup Range(lines') PROVE Whole(e)'
  BY DEF WholeOK, Range
<1>3. CASE e \in Range(spool) \cup Range(lines)
  <2>1. e \in EventType
    BY <1>2, <1>3, ElementOfSeq, LenProperties DEF Range
  <2>2. Whole(e)
    BY <1>3 DEF WholeOK
  <2> QED BY <1>1, <2>1, <2>2, WholeStable
<1>4. CASE ReadFile /\ e \in Range(lines')
  <2>1. /\ lines' \in Seq(EventType) /\ \A k \in DOMAIN lines' : Whole(lines'[k])
    BY <1>4, FileReadGives
  <2>2. PICK k \in DOMAIN lines' : e = lines'[k]
    BY <1>4 DEF Range
  <2>3. e \in EventType
    BY <2>1, <2>2, ElementOfSeq, LenProperties
  <2>4. Whole(e)
    BY <2>1, <2>2 DEF Whole
  <2> QED BY <1>1, <2>3, <2>4, WholeStable
<1>5. e \in Range(spool) \cup Range(lines) \/ (ReadFile /\ e \in Range(lines'))
  <2>1. ReadFile => spool' = spool
    BY ReadFileIs
  <2>2. AppendLines => Range(spool') \subseteq Range(spool) \cup Range(lines) /\ lines' = lines
    <3> SUFFICES ASSUME AppendLines, NEW d \in Range(spool') PROVE d \in Range(spool) \cup Range(lines)
      BY DEF AppendLines
    <3>1. spool' = spool \o lines
      BY DEF AppendLines
    <3>2. PICK j \in DOMAIN (spool \o lines) : d = (spool \o lines)[j]
      BY <3>1 DEF Range
    <3>3. \/ j \in DOMAIN spool /\ d = spool[j]
          \/ \E k \in DOMAIN lines : d = lines[k]
      BY <1>2, <3>2, Appended
    <3> QED BY <3>3 DEF Range
  <2>3. ~ReadJournal
    BY KindStays
  <2>4. Next \/ UNCHANGED vars => (spool' = spool /\ lines' \in {lines, <<>>}) \/ ReadFile \/ AppendLines
    BY <2>3 DEF Next, vars, spoolVars, Write, ReplaceFile, LearnService, Stat,
           CommitState, Fail, OpenFails, Crash, Restart
  <2>5. Range(<<>>) = {}
    BY DEF Range
  <2> QED BY <2>1, <2>2, <2>4, <2>5
<1> QED BY <1>3, <1>4, <1>5

\* Spooled lines stay.
LEMMA SpoolGrows ==
    ASSUME StateOK, [Next]_vars
    PROVE  /\ \A k \in DOMAIN spool : k \in DOMAIN spool' /\ spool'[k] = spool[k]
           /\ AppendLines => \A k \in DOMAIN lines : \E j \in DOMAIN spool' : spool'[j] = lines[k]
<1>1. CASE AppendLines
  <2>1. spool' = spool \o lines /\ spool \in Seq(EventType) /\ lines \in Seq(EventType)
    BY <1>1 DEF AppendLines, StateOK
  <2>2. /\ \A j \in DOMAIN spool : j \in DOMAIN (spool \o lines) /\ (spool \o lines)[j] = spool[j]
        /\ \A k \in DOMAIN lines : Len(spool) + k \in DOMAIN (spool \o lines) /\ (spool \o lines)[Len(spool) + k] = lines[k]
    BY <2>1, Appended
  <2> QED BY <2>1, <2>2
<1>2. CASE ~AppendLines
  <2>1. spool' = spool
    BY <1>2 DEF Next, vars, spoolVars, Write, ReplaceFile, LearnService, Stat, ReadFile, ReadJournal,
           CommitState, Fail, OpenFails, Crash, Restart
  <2> QED BY <1>2, <2>1
<1> QED BY <1>1, <1>2

LEMMA CoverStep ==
    ASSUME SourceOK, StateOK, PlacesOK, CoverOK, [Next]_vars, kind = "file", ~torn'
    PROVE  CoverOK'
<1> DEFINE In(s, n) == \E k \in DOMAIN s : s[k].end = <<path', n>>
           Ends(n) == files'[path'].bytes[n] = "newline"
<1> SUFFICES ASSUME path' # 0
             PROVE  /\ \A c \in {cursor', saved'} : c.gen = path' => \A n \in 1..c.offset : Ends(n) => In(spool', n)
                    /\ pc' = "read" /\ pending'.gen = path' =>
                          \A n \in 1..pending'.offset : Ends(n) => In(spool', n) \/ In(lines', n)
  BY DEF CoverOK, IsNewline, Spooled, InLines
<1>1. Grown /\ SourceOK'
  BY SourceStep
<1>2. \A c \in {cursor, pending, saved} : /\ c.offset \in Nat /\ c.gen \in Nat
                                          /\ c = NoCursor => c.gen = 0
                                          /\ c # NoCursor => c.gen \in 1..Len(files) /\ c.offset <= Size(c.gen)
  <2>1. MaxGenerations \in Nat /\ MaxBytes \in Nat
    BY LogTailAssumption
  <2> QED BY <2>1, CursorTypes DEF PlacesOK, Exact, NoCursor
<1>3. ~ReadJournal
  BY KindStays
<1>4. CASE path' # path
  <2>1. /\ ReplaceFile /\ cursor' = cursor /\ saved' = saved /\ pending' = pending
        /\ \/ path' = Len(files) /\ Size(Len(files)) = 0
           \/ path' = Len(files) + 1
    <3>1. ReplaceFile
      BY <1>3, <1>4 DEF Next, vars, sourceVars, Write, LearnService, Stat, ReadFile,
             AppendLines, CommitState, Fail, OpenFails, Crash, Restart
    <3>2. cursor' = cursor /\ saved' = saved /\ pending' = pending
      BY <3>1 DEF ReplaceFile, spoolVars
    <3>3. path' = 0 \/ (path' = Len(files) /\ Size(Len(files)) = 0) \/ path' = Len(files) + 1
      BY <3>1, Zenon DEF ReplaceFile
    <3> QED BY <3>1, <3>2, <3>3
  <2>2. Len(files) \in Nat
    BY SourceFacts
  <2>3. ASSUME NEW c \in {cursor, pending, saved}, c.gen = path' PROVE c.offset = 0
    <3>1. c # NoCursor
      BY <1>2, <2>3
    <3>2. c.gen \in 1..Len(files) /\ c.offset <= Size(c.gen) /\ c.offset \in Nat
      BY <1>2, <3>1
    <3>3. path' = Len(files) /\ Size(path') = 0
      BY <2>1, <2>2, <2>3, <3>2
    <3> QED BY <2>3, <3>2, <3>3
  <2> QED BY <2>1, <2>3
<1>5. CASE path' = path
  <2>1. path # 0 /\ path \in 1..Len(files)
    BY <1>5, SourceFacts
  <2>2. \A n \in 1..Size(path) : Ends(n) <=> IsNewline(<<path, n>>)
    <3>1. \A n \in 1..Size(path) : files'[path].bytes[n] = files[path].bytes[n]
      BY <1>1, <2>1 DEF Grown
    <3> QED BY <1>5, <3>1 DEF IsNewline
  <2>3. Size(path) \in Nat
    BY <2>1, SourceFacts
  <2>4. ASSUME NEW c \in {cursor, pending, saved}, c.gen = path, NEW n \in 1..c.offset, Ends(n)
        PROVE  IsNewline(<<path, n>>)
    <3>1. c.offset \in Nat /\ c.offset <= Size(path)
      BY <1>2, <2>1, <2>4
    <3>2. n \in 1..Size(path)
      BY <2>3, <3>1
    <3> QED BY <2>2, <2>4, <3>2
  <2>5. ASSUME NEW n, Spooled(<<path, n>>) PROVE In(spool', n)
    BY <1>5, <2>5, SpoolGrows DEF Spooled
  <2>6. ASSUME NEW c \in {cursor, saved}, c.gen = path, NEW n \in 1..c.offset, Ends(n)
        PROVE  In(spool', n)
    <3>1. IsNewline(<<path, n>>)
      BY <2>4, <2>6
    <3>2. Spooled(<<path, n>>)
      BY <2>1, <2>6, <3>1 DEF CoverOK
    <3> QED BY <2>5, <3>2
  <2>7. ASSUME NEW n \in 1..pending.offset, pc = "read", pending.gen = path, Ends(n)
        PROVE  Spooled(<<path, n>>) \/ InLines(<<path, n>>)
    <3>1. IsNewline(<<path, n>>)
      BY <2>4, <2>7
    <3> QED BY <2>1, <2>7, <3>1 DEF CoverOK
  <2>8. CASE ReadFile
    <3>1. /\ UNCHANGED <<files, cursor, saved, spool>>
      BY <2>8, ReadFileIs
    <3>2. \A c \in {cursor', saved'} : c.gen = path' => \A n \in 1..c.offset : Ends(n) => In(spool', n)
      BY <1>5, <2>6, <3>1
    <3>3. /\ pending'.offset \in Nat /\ Start.offset \in Nat /\ Start.offset <= pending'.offset
          /\ \A n \in (Start.offset + 1)..pending'.offset :
                IsNewline(<<path, n>>) => \E k \in DOMAIN lines' : lines'[k].end = <<path, n>>
      BY <2>8, FileReadGives
    <3>4. Start.offset = 0 \/ (Start = cursor /\ cursor.gen = path)
      BY <2>8, FileRead
    <3>5. ASSUME NEW n \in 1..pending'.offset, Ends(n) PROVE In(spool', n) \/ In(lines', n)
      <4>1. CASE n <= Start.offset
        <5>1. n \in 1..cursor.offset /\ cursor.gen = path
          BY <3>3, <3>4, <4>1
        <5> QED BY <2>6, <3>5, <5>1
      <4>2. CASE ~(n <= Start.offset)
        <5>1. n \in (Start.offset + 1)..pending'.offset
          BY <3>3, <4>2
        <5>2. IsNewline(<<path, n>>)
          BY <1>5, <3>1, <3>5 DEF IsNewline
        <5>3. \E k \in DOMAIN lines' : lines'[k].end = <<path, n>>
          BY <3>3, <5>1, <5>2
        <5> QED BY <1>5, <5>3
      <4> QED BY <4>1, <4>2
    <3> QED BY <3>2, <3>5
  <2>9. CASE AppendLines
    <3>1. pc = "read" /\ cursor' = cursor /\ saved' = pending /\ pc' = "appended"
      BY <2>9 DEF AppendLines
    <3>2. ASSUME NEW n, InLines(<<path, n>>) PROVE In(spool', n)
      <4>1. PICK k \in DOMAIN lines : lines[k].end = <<path, n>>
        BY <3>2 DEF InLines
      <4>2. \E j \in DOMAIN spool' : spool'[j] = lines[k]
        BY <2>9, SpoolGrows
      <4> QED BY <1>5, <4>1, <4>2
    <3>3. ASSUME pending.gen = path, NEW n \in 1..pending.offset, Ends(n) PROVE In(spool', n)
      BY <2>5, <2>7, <3>1, <3>2, <3>3
    <3> QED BY <1>5, <2>6, <3>1, <3>3
  <2>10. CASE ~ReadFile /\ ~AppendLines
    <3>1. /\ cursor' \in {cursor, saved, NoCursor} /\ saved' = saved
          /\ pc' = "read" => pc = "read" /\ pending' = pending /\ lines' = lines
      BY <1>3, <2>1, <2>10 DEF Next, vars, sourceVars, spoolVars, Write, ReplaceFile, LearnService, Stat,
           CommitState, Fail, OpenFails, Crash, Restart, StateOK
    <3>2. NoCursor.gen # path
      BY <2>1 DEF NoCursor
    <3>3. \A c \in {cursor', saved'} : c.gen = path' => \A n \in 1..c.offset : Ends(n) => In(spool', n)
      BY <1>5, <2>6, <3>1, <3>2
    <3>4. ASSUME pc' = "read", pending'.gen = path', NEW n \in 1..pending'.offset, Ends(n)
          PROVE  In(spool', n) \/ In(lines', n)
      <4>1. pc = "read" /\ pending.gen = path /\ n \in 1..pending.offset /\ lines' = lines
        BY <1>5, <3>1, <3>4
      <4>2. Spooled(<<path, n>>) \/ InLines(<<path, n>>)
        BY <2>7, <3>4, <4>1
      <4>3. InLines(<<path, n>>) => In(lines', n)
        BY <1>5, <4>1 DEF InLines
      <4> QED BY <2>5, <4>2, <4>3
    <3> QED BY <3>3, <3>4
  <2> QED BY <2>8, <2>9, <2>10
<1> QED BY <1>4, <1>5

LEMMA OnceStep ==
    ASSUME SourceOK, StateOK, PlacesOK, OnceOK, failures = 0, [Next]_vars, kind = "file", ~torn', failures' = 0
    PROVE  OnceOK'
<1>2. \A c \in {cursor, pending, saved} : /\ c.offset \in Nat /\ c.gen \in Nat
                                          /\ c = NoCursor => c.gen = 0
                                          /\ c # NoCursor => c.gen \in 1..Len(files) /\ c.offset <= Size(c.gen)
                                                             /\ c.inode = files[c.gen].inode
  <2>1. MaxGenerations \in Nat /\ MaxBytes \in Nat
    BY LogTailAssumption
  <2> QED BY <2>1, CursorTypes DEF PlacesOK, Exact, NoCursor
<1>3. ~ReadJournal
  BY KindStays
<1>4. ~Fail
  BY DEF Fail
<1>5. CASE UNCHANGED <<pc, cursor, pending, found, lines, saved, spool>>
  BY <1>5 DEF OnceOK, DistinctEnds
<1>6. CASE UNCHANGED <<saved, spool>> /\ pc' \notin {"found", "read"} /\ (pc' = "idle" => cursor' = saved')
  BY <1>6 DEF OnceOK, DistinctEnds
<1>7. CASE Stat
  <2>1. pc = "idle" /\ pending = NoCursor /\ cursor = saved /\ UNCHANGED <<cursor, saved, spool>>
    BY <1>7 DEF Stat, StateOK, OnceOK, spoolVars
  <2>2. CASE path = 0
    BY <1>6, <1>7, <2>1, <2>2 DEF Stat
  <2>3. CASE path # 0
    <3>1. found' = [gen |-> path, size |-> Size(path)] /\ pc' = "found"
      BY <1>7, <2>3 DEF Stat
    <3>2. found'.gen = cursor.gen => cursor.offset <= found'.size
      BY <1>2, <2>3, <3>1
    <3> QED BY <2>1, <3>1, <3>2 DEF OnceOK, DistinctEnds
  <2> QED BY <2>2, <2>3
<1>8. CASE ReadFile
  <2>1. pc = "found" /\ pc' = "read" /\ path # 0 /\ UNCHANGED <<cursor, saved, spool>>
    BY <1>8, ReadFileIs
  <2>2. /\ path \in 1..Len(files) /\ found.gen = path
    BY <1>8, FileRead
  <2>3. /\ pending'.gen = path /\ pending'.offset \in Nat /\ Start.offset \in Nat /\ Start.offset <= pending'.offset
        /\ lines' \in Seq(EventType) /\ DistinctEnds(lines')
        /\ \A k \in DOMAIN lines' : /\ lines'[k].end[1] = path
                                    /\ lines'[k].end[2] \in (Start.offset + 1)..pending'.offset
    BY <1>8, FileReadGives
  <2>4. cursor = saved /\ (found.gen = cursor.gen => cursor.offset <= found.size)
    BY <2>1 DEF OnceOK
  <2>5. saved.gen <= path /\ saved.gen \in Nat /\ saved.offset \in Nat /\ path \in Nat
    <3>1. path = Len(files) /\ Len(files) \in Nat
      BY <2>1, SourceFacts DEF SourceOK
    <3> QED BY <1>2, <3>1
  <2>6. saved.gen = path => Start = cursor
    <3> SUFFICES ASSUME saved.gen = path PROVE Start = cursor
      OBVIOUS
    <3>1. cursor # NoCursor /\ cursor.inode = files[path].inode /\ cursor.offset <= found.size
      BY <1>2, <2>1, <2>2, <2>4
    <3>2. found.size \in Nat /\ cursor.offset \in Nat
      BY <1>2, LogTailAssumption DEF StateOK
    <3>3. ~Rotated /\ ~Truncated
      BY <2>2, <3>1, <3>2 DEF Rotated, Truncated
    <3> QED BY <3>3 DEF Start
  <2>7. saved.gen < pending'.gen \/ (saved.gen = pending'.gen /\ saved.offset <= pending'.offset)
    BY <2>3, <2>4, <2>5, <2>6
  <2>8. ASSUME NEW k \in DOMAIN lines' PROVE UpTo(lines'[k].end, pending') /\ ~UpTo(lines'[k].end, saved)
    <3> DEFINE g == lines'[k].end[1]
               n == lines'[k].end[2]
    <3>1. g = path /\ n \in Nat /\ n <= pending'.offset /\ Start.offset < n
      BY <2>3
    <3> HIDE DEF g, n
    <3>2. saved.gen = path => ~(n <= saved.offset)
      BY <2>3, <2>4, <2>5, <2>6, <3>1
    <3>3. ~(g < saved.gen)
      BY <2>5, <3>1
    <3> QED BY <2>3, <3>1, <3>2, <3>3 DEF UpTo, g, n
  <2>9. DistinctEnds(lines)'
    BY <2>3 DEF DistinctEnds
  <2>10. \A k \in DOMAIN lines' : UpTo(lines[k].end, pending)' /\ ~UpTo(lines[k].end, saved)'
    BY <2>1, <2>8 DEF UpTo
  <2>11. cursor' = saved' /\ pc' # "found" /\ DistinctEnds(spool)' /\ \A k \in DOMAIN spool' : UpTo(spool[k].end, saved)'
    BY <2>1, <2>4 DEF OnceOK, DistinctEnds, UpTo
  <2> QED BY <2>1, <2>7, <2>9, <2>10, <2>11 DEF OnceOK
<1>9. CASE AppendLines
  <2>1. pc = "read" /\ pc' = "appended" /\ spool' = spool \o lines /\ saved' = pending
    BY <1>9 DEF AppendLines
  <2>2. /\ saved.gen < pending.gen \/ (saved.gen = pending.gen /\ saved.offset <= pending.offset)
        /\ \A k \in DOMAIN lines : UpTo(lines[k].end, pending) /\ ~UpTo(lines[k].end, saved)
        /\ \A k \in DOMAIN spool : UpTo(spool[k].end, saved)
        /\ DistinctEnds(lines) /\ DistinctEnds(spool)
    BY <2>1 DEF OnceOK
  <2>3. spool \in Seq(EventType) /\ lines \in Seq(EventType)
    BY DEF StateOK
  <2> DEFINE u == spool \o lines
  <2>4. /\ \A j \in DOMAIN u : \/ j \in DOMAIN spool /\ u[j] = spool[j]
                               \/ \E k \in DOMAIN lines : j = Len(spool) + k /\ u[j] = lines[k]
        /\ (/\ DistinctEnds(spool) /\ DistinctEnds(lines)
            /\ \A j \in DOMAIN spool, k \in DOMAIN lines : spool[j].end # lines[k].end) => DistinctEnds(u)
    BY <2>3, Appended
  <2> HIDE DEF u
  <2>5. DistinctEnds(u)
    <3>1. \A j \in DOMAIN spool, k \in DOMAIN lines : spool[j].end # lines[k].end
      BY <2>2
    <3> QED BY <2>2, <2>4, <3>1
  <2>6. ASSUME NEW k \in DOMAIN spool PROVE UpTo(spool[k].end, pending)
    <3>1. spool[k] \in EventType
      BY <2>3, ElementOfSeq, LenProperties
    <3>2. spool[k].end[1] \in Int /\ spool[k].end[2] \in Int
      BY <3>1 DEF EventType, Cell
    <3>3. UpTo(spool[k].end, saved)
      BY <2>2
    <3> QED BY <1>2, <2>2, <3>2, <3>3 DEF UpTo
  <2>7. \A j \in DOMAIN u : UpTo(u[j].end, pending)
    BY <2>2, <2>4, <2>6
  <2>8. DistinctEnds(spool)' /\ \A j \in DOMAIN spool' : UpTo(spool[j].end, saved)'
    BY <2>1, <2>5, <2>7 DEF DistinctEnds, UpTo, u
  <2> QED BY <2>1, <2>8 DEF OnceOK
<1>10. CommitState \/ OpenFails \/ Crash \/ Restart =>
          UNCHANGED <<saved, spool>> /\ pc' \notin {"found", "read"} /\ (pc' = "idle" => cursor' = saved')
  BY DEF CommitState, OpenFails, Crash, Restart, StateOK, OnceOK, spoolVars
<1>11. LearnService \/ Write \/ ReplaceFile \/ UNCHANGED vars =>
          UNCHANGED <<pc, cursor, pending, found, lines, saved, spool>>
  BY DEF LearnService, Write, ReplaceFile, vars, sourceVars, spoolVars
<1> QED BY <1>3, <1>4, <1>5, <1>6, <1>7, <1>8, <1>9, <1>10, <1>11 DEF Next

LEMMA FileStep == TailInv /\ [Next]_vars => FileOK'
<1> SUFFICES ASSUME SourceOK, StateOK, FileOK, [Next]_vars, kind' = "file", ~torn'
             PROVE  PlacesOK' /\ CoverOK' /\ WholeOK' /\ (failures' = 0 => OnceOK')
  BY DEF TailInv, FileOK
<1>1. kind = "file" /\ ~torn
  BY KindStays
<1>2. PlacesOK /\ CoverOK /\ WholeOK /\ (failures = 0 => OnceOK)
  BY <1>1 DEF FileOK
<1>3. PlacesOK' /\ CoverOK' /\ WholeOK'
  BY <1>1, <1>2, PlacesStep, CoverStep, WholeStep
<1>4. failures' = 0 => failures = 0
  <2>1. failures \in Nat
    BY DEF StateOK
  <2>2. failures' = failures \/ failures' = failures + 1
    BY DEF Next, vars, Write, ReplaceFile, LearnService, Stat, ReadFile, ReadJournal,
           AppendLines, CommitState, Fail, OpenFails, Crash, Restart
  <2> QED BY <2>1, <2>2
<1>5. failures' = 0 => OnceOK'
  BY <1>1, <1>2, <1>4, OnceStep
<1> QED BY <1>3, <1>5

-----------------------------------------------------------------------------
(* The theorems.                                                           *)

LEMMA TailInit == Init => TailInv
<1> SUFFICES ASSUME Init PROVE TailInv
  OBVIOUS
<1> DEFINE f == [inode |-> 1, bytes |-> <<>>]
<1>1. /\ MaxGenerations \in Nat \ {0} /\ MaxBytes \in Nat /\ MaxLines \in Nat
  BY LogTailAssumption
<1>2. f \in FileType
  BY <1>1 DEF FileType
<1>3. files = <<f>> /\ Len(files) = 1 /\ files[1] = f /\ files \in Seq(FileType)
  BY <1>2 DEF Init
<1>4. Size(1) = 0
  BY <1>3 DEF Size
<1>5. path \in {0, 1} /\ (kind = "journald" => path = 1) /\ kind \in {"file", "journald"}
  BY DEF Init
<1>6. SourceOK
  BY <1>1, <1>3, <1>4, <1>5 DEF Init, SourceOK
<1>7. NoCursor \in CursorType /\ Len(NoCursor.partial) <= MaxLineBytes /\ NoCursor.offset = 0 /\ NoCursor.gen = 0
  BY LogTailAssumption DEF NoCursor, CursorType
<1>8. StateOK
  <2>1. <<>> \in Seq(EventType) /\ Len(<<>>) <= MaxLines
    BY <1>1
  <2>2. NotFound \in [gen : 0..Len(files), size : 0..MaxBytes]
    BY <1>1, <1>3 DEF NotFound
  <2> QED BY <1>7, <2>1, <2>2 DEF Init, StateOK
<1>9. FileOK
  <2>1. PlacesOK
    BY DEF Init, PlacesOK
  <2>2. CoverOK
    BY <1>7 DEF Init, CoverOK
  <2>3. WholeOK
    BY DEF Init, WholeOK, Range
  <2>4. OnceOK
    BY <1>7 DEF Init, OnceOK, DistinctEnds
  <2> QED BY <2>1, <2>2, <2>3, <2>4 DEF FileOK
<1>10. JournalOK
  <2>1. JournalPlaces
    BY <1>4, <1>7 DEF Init, JournalPlaces
  <2>2. JournalSpool
    BY <1>7 DEF Init, JournalSpool, DistinctEnds, Spooled
  <2> QED BY <2>1, <2>2 DEF Init, JournalOK
<1> QED BY <1>6, <1>8, <1>9, <1>10 DEF TailInv

\* TailInv is inductive: no interleaving of the application's writes and
\* rotations with the steps of a collection, its failures and the agent's
\* crashes and restarts (collectors/logs.py, runtime.py _emit_collector)
\* leaves it.
THEOREM TailInvariant == Spec => []TailInv
<1>1. Init => TailInv
  BY TailInit
<1>2. TailInv /\ [Next]_vars => TailInv'
  <2> SUFFICES ASSUME TailInv, [Next]_vars PROVE TailInv'
    OBVIOUS
  <2>1. SourceOK'
    BY SourceStep DEF TailInv
  <2> QED BY <2>1, StateStep, FileStep, JournalStep DEF TailInv
<1> QED BY <1>1, <1>2, PTL DEF Spec

\* The state keeps its shape: a cursor never holds more than max_line_bytes of
\* a line that does not end, a poll returns at most max_lines_per_second
\* events, and _pending outlives a collection only after a failed one.
THEOREM TailTypes == Spec => []TypeOK
<1>1. TailInv => TypeOK
  <2> SUFFICES ASSUME SourceOK, StateOK PROVE TypeOK
    BY DEF TailInv
  <2>1. path \in 0..Len(files)
    BY SourceFacts DEF SourceOK
  <2> QED BY <2>1 DEF StateOK, TypeOK
<1> QED BY <1>1, TailInvariant, PTL

\* The cursor in the state table tells exactly what was spooled: every line of
\* the file at the path that ends before its offset, and the start of the line
\* that does not; for a journal every entry since the first one collected.
\* Whatever append(), restore() and commit_state_update() are interrupted by.
THEOREM CursorIsExact == Spec => []CursorExact
<1>1. TailInv => CursorExact
  <2> SUFFICES ASSUME SourceOK, StateOK, FileOK, JournalOK, ~torn PROVE CursorExact
    BY DEF TailInv, CursorExact
  <2>1. ASSUME kind = "file", path # 0, saved.gen = path
        PROVE  LET rest == Cells(path, LineStart(path, saved.offset + 1) + 1, saved.offset)
               IN /\ \A n \in 1..saved.offset : IsNewline(<<path, n>>) => Spooled(<<path, n>>)
                  /\ saved.partial = CutTo(rest)
                  /\ saved.cut = (Len(rest) > MaxLineBytes)
    <3>1. PlacesOK /\ CoverOK
      BY <2>1 DEF FileOK
    <3>2. \A n \in 1..saved.offset : IsNewline(<<path, n>>) => Spooled(<<path, n>>)
      BY <2>1, <3>1 DEF CoverOK
    <3>3. Exact(saved)
      BY <2>1, <3>1 DEF PlacesOK, NoCursor
    <3>4. saved.partial = CutTo(Rest(path, saved.offset)) /\ saved.cut = (Len(Rest(path, saved.offset)) > MaxLineBytes)
      BY <2>1, <3>3 DEF Exact
    <3> QED BY <3>2, <3>4, Zenon DEF Rest
  <2>2. ASSUME kind = "journald"
        PROVE  \A n, m \in 1..saved.offset : n <= m /\ Spooled(<<1, n>>) => Spooled(<<1, m>>)
    BY <2>2 DEF JournalOK, JournalSpool
  <2> QED BY <2>1, <2>2, Zenon DEF CursorExact
<1> QED BY <1>1, TailInvariant, PTL

\* Every event is one whole line of one generation of the file, cut at
\* max_line_bytes and flagged when it was (_event()), however many polls,
\* restarts and limits its pieces were read across.
THEOREM LinesAreWhole == Spec => []LinesWhole
<1>1. TailInv => LinesWhole
  <2> SUFFICES ASSUME FileOK, ~torn, kind = "file", NEW k \in DOMAIN spool
               PROVE  LET e == spool[k]
                          line == Cells(e.end[1], LineStart(e.end[1], e.end[2]) + 1, e.end[2] - 1)
                      IN e.text = CutTo(line) /\ e.truncated = (Len(line) > MaxLineBytes)
    BY Zenon DEF TailInv, LinesWhole
  <2>1. Whole(spool[k])
    BY DEF FileOK, WholeOK, Range
  <2>2. spool[k].text = CutTo(Line(spool[k].end)) /\ spool[k].truncated = (Len(Line(spool[k].end)) > MaxLineBytes)
    BY <2>1 DEF Whole
  <2> QED BY <2>2, Zenon DEF Line
<1> QED BY <1>1, TailInvariant, PTL

\* Until an emit or a read fails, no line is spooled twice, wherever the agent
\* dies and restores its cursor: append() commits lines and cursor together.
THEOREM SpooledOnce == Spec => []OnceUnlessFailed
<1>1. TailInv => OnceUnlessFailed
  <2> SUFFICES ASSUME SourceOK, FileOK, JournalOK, failures = 0, ~torn PROVE DistinctEnds(spool)
    BY DEF TailInv, OnceUnlessFailed, DistinctEnds
  <2>1. CASE kind = "file"
    BY <2>1 DEF FileOK, OnceOK
  <2>2. CASE kind = "journald"
    BY <2>2 DEF JournalOK, JournalSpool
  <2> QED BY <2>1, <2>2 DEF SourceOK
<1> QED BY <1>1, TailInvariant, PTL
=============================================================================
