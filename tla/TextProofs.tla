----------------------------- MODULE TextProofs -----------------------------
(***************************************************************************)
(* The parts that read and write texts, files and bytes: that the database *)
(* of GcdbDownload is true to its etag wherever the chunks break the lines *)
(* and the list of Ss4sModules to its file, what a constraint of           *)
(* VersionInfo means, that SpsBytes takes what a writer put, and that      *)
(* NetAddress reads back the addresses and hosts it writes. For any        *)
(* contents, of any length.                                                *)
(***************************************************************************)
EXTENDS NetAddress, GcdbDownload, Ss4sModules, SpsBytes, SequenceTheorems, WellFoundedInduction, TLAPS

-----------------------------------------------------------------------------
(* Induction over numbers and sequences, and functions defined by recursion *)

\* induction over the natural numbers, for a set
LEMMA AllOf ==
  ASSUME NEW T, 0 \in T, \A k \in Nat : k \in T => k + 1 \in T
  PROVE  \A k \in Nat : k \in T
<1> DEFINE Out == {k \in Nat : k \notin T}
<1> SUFFICES ASSUME Out # {} PROVE FALSE
    OBVIOUS
<1>1. PICK m \in Out : \A k \in Out : <<k, m>> \notin OpToRel(<, Nat)
      BY NatLessThanWellFounded, WFMin
<1>2. \A k \in Out : ~(k < m)
      BY <1>1 DEF OpToRel
<1>3. m # 0 /\ m - 1 \in Nat /\ m - 1 \notin Out
      BY <1>2
<1>4. m - 1 \in T
      BY <1>3
<1> QED BY <1>3, <1>4

\* a set of natural numbers has a least one
LEMMA LeastOf ==
  ASSUME NEW I \in SUBSET Nat, I # {}
  PROVE  Min(I) \in I /\ \A k \in I : Min(I) <= k
<1>1. PICK m \in I : \A k \in I : <<k, m>> \notin OpToRel(<, Nat)
      BY NatLessThanWellFounded, WFMin
<1>2. \A k \in I : ~(k < m)
      BY <1>1 DEF OpToRel
<1>3. \A k \in I : m <= k
      BY <1>2
<1> QED BY <1>3 DEF Min

\* induction over sequences, for a set
LEMMA AllSequences ==
  ASSUME NEW S, NEW T, <<>> \in T, \A s \in Seq(S), e \in S : s \in T => Append(s, e) \in T
  PROVE  \A s \in Seq(S) : s \in T
<1> DEFINE L == {n \in Nat : \A s \in Seq(S) : Len(s) = n => s \in T}
<1>1. 0 \in L
      BY EmptySeq
<1>2. ASSUME NEW n \in Nat, n \in L PROVE n + 1 \in L
  <2>1. ASSUME NEW s \in Seq(S), Len(s) = n + 1 PROVE s \in T
    <3>1. s # <<>>
          BY <2>1, EmptySeq
    <3>2. PICK t \in Seq(S), e \in S : s = Append(t, e)
          BY <3>1, SequenceEmptyOrAppend
    <3>3. Len(t) = n
          BY <2>1, <3>2, AppendProperties, LenProperties
    <3> QED BY <1>2, <3>2, <3>3
  <2> QED BY <2>1
<1> HIDE DEF L
<1>3. \A n \in Nat : n \in L
      BY <1>1, <1>2, AllOf
<1> QED BY <1>3, LenProperties DEF L

LEMMA ConcatAppend ==
  ASSUME NEW S, NEW s \in Seq(S), NEW u \in Seq(S), NEW e \in S
  PROVE  s \o u \in Seq(S) /\ Append(u, e) \in Seq(S) /\ s \o Append(u, e) = Append(s \o u, e)
<1>1. s \o u \in Seq(S) /\ Append(u, e) \in Seq(S)
      BY ConcatProperties, AppendProperties
<1>2. Append(s \o u, e) = (s \o u) \o <<e>> /\ Append(u, e) = u \o <<e>>
      BY <1>1, AppendIsConcat
<1>3. (s \o u) \o <<e>> = s \o (u \o <<e>>)
  <2>1. <<e>> \in Seq(S)
        OBVIOUS
  <2> QED BY <2>1, ConcatAssociative
<1> QED BY <1>1, <1>2, <1>3

LEMMA PairAppended == ASSUME NEW S, NEW p \in S, NEW q \in S PROVE Append(<<p>>, q) = <<p, q>>
<1> DEFINE s == Append(<<p>>, q)
           u == <<p, q>>
<1>1. <<p>> \in Seq(S) /\ Len(<<p>>) = 1 /\ <<p>>[1] = p
      OBVIOUS
<1>2. s \in Seq(S) /\ Len(s) = 2 /\ s[1] = p /\ s[2] = q
      BY <1>1, AppendProperties
<1>3. u \in Seq(S) /\ Len(u) = 2 /\ u[1] = p /\ u[2] = q
      OBVIOUS
<1> HIDE DEF s, u
<1>4. s = u
      BY <1>2, <1>3, SeqEqual
<1> QED BY <1>4 DEF s, u

\* a function defined by recursion over 0..N, and that there is one
Recurs(f, N, S, first, step) == /\ f \in [0..N -> S]
                                /\ f[0] = first
                                /\ \A n \in 1..N : f[n] = step[n][f[n - 1]]

LEMMA Recursion ==
  ASSUME NEW S, NEW N \in Nat, NEW first \in S, NEW step \in [1..N -> [S -> S]]
  PROVE  \E f : Recurs(f, N, S, first, step)
<1> DEFINE T == {m \in Nat : m <= N => \E f : Recurs(f, m, S, first, step)}
<1>1. 0 \in T
  <2>1. Recurs([n \in 0..0 |-> first], 0, S, first, step)
        BY DEF Recurs
  <2> QED BY <2>1
<1>2. ASSUME NEW m \in Nat, m \in T PROVE m + 1 \in T
  <2>1. SUFFICES ASSUME m + 1 <= N PROVE \E f : Recurs(f, m + 1, S, first, step)
        OBVIOUS
  <2>2. PICK f : Recurs(f, m, S, first, step)
        BY <1>2, <2>1
  <2> DEFINE g == [k \in 0..m + 1 |-> IF k = m + 1 THEN step[m + 1][f[m]] ELSE f[k]]
  <2>3. f[m] \in S /\ step[m + 1] \in [S -> S]
        BY <2>1, <2>2 DEF Recurs
  <2>4. g \in [0..m + 1 -> S]
        BY <2>2, <2>3 DEF Recurs
  <2>5. g[0] = first /\ \A n \in 1..m + 1 : g[n] = step[n][g[n - 1]]
        BY <2>2 DEF Recurs
  <2> HIDE DEF g
  <2> QED BY <2>4, <2>5 DEF Recurs
<1> HIDE DEF T
<1>3. N \in T
      BY <1>1, <1>2, AllOf
<1> QED BY <1>3 DEF T

-----------------------------------------------------------------------------
(* write_mapping_lines: the lines do not depend on the chunks               *)

Piece == STRING \X {1, 2}
FileLine == [etag : Versions \cup {NoEtag}, pieces : Seq(Piece)]
Scans == [lines : Seq(FileLine), line : Seq(Piece)]
Start == [lines |-> <<>>, line |-> <<>>]

LEMMA ScanTyped ==
  ASSUME NEW x \in Scans, NEW p \in Piece
  PROVE  Scan(x, p) \in Scans
<1>1. Append(x.line, p) \in Seq(Piece)
      BY AppendProperties DEF Scans
<1>2. MapLine(Append(x.line, p)) \in FileLine
      BY <1>1 DEF MapLine, FileLine
<1>3. Append(x.lines, MapLine(Append(x.line, p))) \in Seq(FileLine)
      BY <1>2, AppendProperties DEF Scans
<1>4. <<>> \in Seq(Piece)
      BY EmptySeq
<1> QED BY <1>1, <1>3, <1>4 DEF Scan, Scans

\* the scan of a sequence, piece by piece
LEMMA ScannedBy ==
  ASSUME NEW s \in Seq(Piece)
  PROVE  \E f \in [0..Len(s) -> Scans] :
            /\ Scanned(s) = f[Len(s)]
            /\ f[0] = Start
            /\ \A n \in 1..Len(s) : f[n] = Scan(f[n - 1], s[n])
<1> DEFINE By(f) == [n \in 0..Len(s) |-> IF n = 0 THEN Start ELSE Scan(f[n - 1], s[n])]
           step == [n \in 1..Len(s) |-> [x \in Scans |-> Scan(x, s[n])]]
           after == CHOOSE f : f = By(f)
<1>1. Start \in Scans /\ Len(s) \in Nat
      BY EmptySeq, LenProperties DEF Start, Scans
<1>2. \A n \in 1..Len(s) : s[n] \in Piece
      BY ElementOfSeq
<1>3. step \in [1..Len(s) -> [Scans -> Scans]]
      BY <1>2, ScanTyped
<1>4. PICK f : Recurs(f, Len(s), Scans, Start, step)
  <2> HIDE DEF step
  <2> QED BY <1>1, <1>3, Recursion
<1>5. f = By(f)
  <2>1. ASSUME NEW n \in 1..Len(s) PROVE step[n][f[n - 1]] = Scan(f[n - 1], s[n])
    <3>1. f[n - 1] \in Scans
          BY <1>1, <1>4 DEF Recurs
    <3>2. step[n] = [x \in Scans |-> Scan(x, s[n])]
          OBVIOUS
    <3> HIDE DEF step
    <3> QED BY <3>1, <3>2
  <2>2. f = [n \in 0..Len(s) |-> f[n]]
        BY <1>4 DEF Recurs
  <2>3. \A n \in 0..Len(s) : f[n] = IF n = 0 THEN Start ELSE Scan(f[n - 1], s[n])
    <3> HIDE DEF step
    <3> QED BY <1>1, <1>4, <2>1 DEF Recurs
  <2> HIDE DEF step
  <2> QED BY <2>2, <2>3
<1>6. after = By(after)
  <2> HIDE DEF By
  <2> QED BY <1>5
<1>7. Scanned(s) = after[Len(s)]
      BY DEF Scanned, Start
<1> HIDE DEF after
<1>8. \A n \in 0..Len(s) : after[n] = IF n = 0 THEN Start ELSE Scan(after[n - 1], s[n])
      BY <1>6
<1> DEFINE T == {n \in Nat : n <= Len(s) => after[n] \in Scans}
<1>9. 0 \in T
      BY <1>1, <1>8
<1>10. ASSUME NEW n \in Nat, n \in T PROVE n + 1 \in T
  <2>1. n + 1 <= Len(s) => after[n + 1] = Scan(after[n], s[n + 1]) /\ s[n + 1] \in Piece
        BY <1>1, <1>2, <1>8
  <2> QED BY <1>1, <1>10, <2>1, ScanTyped
<1> HIDE DEF T
<1>11. \A n \in Nat : n \in T
       BY <1>9, <1>10, AllOf
<1>12. \A n \in 0..Len(s) : after[n] \in Scans
       BY <1>1, <1>11 DEF T
<1>13. after \in [0..Len(s) -> Scans]
       BY <1>6, <1>12
<1> QED BY <1>1, <1>7, <1>8, <1>13

LEMMA ScannedEmpty == Scanned(<<>>) = Start
<1>1. <<>> \in Seq(Piece) /\ Len(<<>>) = 0
      BY EmptySeq
<1> QED BY <1>1, ScannedBy

LEMMA ScannedTyped == ASSUME NEW s \in Seq(Piece) PROVE Scanned(s) \in Scans
<1> QED BY ScannedBy, LenProperties

LEMMA ScannedAppend ==
  ASSUME NEW s \in Seq(Piece), NEW p \in Piece
  PROVE  Scanned(Append(s, p)) = Scan(Scanned(s), p)
<1> DEFINE t == Append(s, p)
<1>1. /\ t \in Seq(Piece) /\ Len(t) = Len(s) + 1 /\ Len(s) \in Nat
      /\ \A n \in 1..Len(s) : t[n] = s[n]
      /\ t[Len(s) + 1] = p
      BY AppendProperties, LenProperties
<1>2. PICK f : /\ Scanned(s) = f[Len(s)]
               /\ f[0] = Start
               /\ \A n \in 1..Len(s) : f[n] = Scan(f[n - 1], s[n])
      BY ScannedBy
<1> HIDE DEF t
<1>3. PICK g : /\ Scanned(t) = g[Len(t)]
               /\ g[0] = Start
               /\ \A n \in 1..Len(t) : g[n] = Scan(g[n - 1], t[n])
      BY <1>1, ScannedBy
<1> DEFINE T == {n \in Nat : n <= Len(s) => f[n] = g[n]}
<1>4. 0 \in T
      BY <1>2, <1>3
<1>5. ASSUME NEW n \in Nat, n \in T PROVE n + 1 \in T
  <2>1. SUFFICES ASSUME n + 1 <= Len(s) PROVE f[n + 1] = g[n + 1]
        OBVIOUS
  <2>2. n + 1 \in 1..Len(s) /\ n + 1 \in 1..Len(t) /\ (n + 1) - 1 = n /\ f[n] = g[n]
        BY <1>1, <1>5, <2>1
  <2>3. f[n + 1] = Scan(f[n], s[n + 1]) /\ g[n + 1] = Scan(g[n], t[n + 1])
        BY <1>2, <1>3, <2>2
  <2> QED BY <1>1, <2>2, <2>3
<1> HIDE DEF T
<1>6. \A n \in Nat : n \in T
      BY <1>4, <1>5, AllOf
<1>7. f[Len(s)] = g[Len(s)]
      BY <1>1, <1>6 DEF T
<1>8. g[Len(t)] = Scan(g[Len(s)], p)
  <2>1. Len(t) \in 1..Len(t) /\ Len(t) - 1 = Len(s)
        BY <1>1
  <2> QED BY <1>1, <1>3, <2>1
<1> QED BY <1>2, <1>3, <1>7, <1>8 DEF t

\* what has no end of a line stays
LEMMA Unbroken ==
  ASSUME NEW s \in Seq(STRING \X {1})
  PROVE  s \in Seq(Piece) /\ Scanned(s) = [lines |-> <<>>, line |-> s]
<1> DEFINE S == STRING \X {1}
           T == {q \in Seq(Piece) : Scanned(q) = [lines |-> <<>>, line |-> q]}
<1>1. S \subseteq Piece
      BY DEF Piece
<1>2. <<>> \in T
      BY EmptySeq, ScannedEmpty DEF Start
<1>3. ASSUME NEW q \in Seq(S), NEW p \in S, q \in T PROVE Append(q, p) \in T
  <2>1. Append(q, p) \in Seq(Piece) /\ p \in Piece /\ p[2] = 1
        BY <1>1, <1>3, AppendProperties
  <2>2. Scanned(Append(q, p)) = Scan([lines |-> <<>>, line |-> q], p)
        BY <1>3, <2>1, ScannedAppend
  <2> QED BY <2>1, <2>2 DEF Scan
<1> HIDE DEF S, T
<1>4. \A q \in Seq(S) : q \in T
      BY <1>2, <1>3, AllSequences
<1> QED BY <1>4 DEF S, T

LEMMA RemainderUnbroken == ASSUME NEW s \in Seq(Piece) PROVE Remainder(s) \in Seq(STRING \X {1})
<1> DEFINE S == STRING \X {1}
           T == {q \in Seq(Piece) : Remainder(q) \in Seq(S)}
<1>1. <<>> \in T
  <2>1. <<>> \in Seq(S) /\ <<>> \in Seq(Piece)
        BY EmptySeq
  <2>2. Remainder(<<>>) = <<>>
        BY ScannedEmpty DEF Start, Remainder
  <2> QED BY <2>1, <2>2
<1>2. ASSUME NEW q \in Seq(Piece), NEW p \in Piece, q \in T PROVE Append(q, p) \in T
  <2>1. Append(q, p) \in Seq(Piece)
        BY AppendProperties
  <2>2. Scanned(Append(q, p)) = Scan(Scanned(q), p) /\ Scanned(q) \in Scans
        BY ScannedAppend, ScannedTyped
  <2>3. CASE p[2] = 1
    <3>1. p \in S
          BY <2>3 DEF Piece
    <3>2. Append(Remainder(q), p) \in Seq(S)
          BY <1>2, <3>1, AppendProperties
    <3>3. Remainder(Append(q, p)) = Append(Remainder(q), p)
          BY <2>2, <2>3 DEF Scan, Remainder, Scans
    <3> QED BY <2>1, <3>2, <3>3
  <2>4. CASE p[2] # 1
    <3>1. Remainder(Append(q, p)) = <<>>
          BY <2>2, <2>4 DEF Scan, Remainder
    <3>2. <<>> \in Seq(S)
          BY EmptySeq
    <3> QED BY <2>1, <3>1, <3>2
  <2> QED BY <2>3, <2>4
<1> HIDE DEF T
<1>3. \A q \in Seq(Piece) : q \in T
      BY <1>1, <1>2, AllSequences
<1> QED BY <1>3 DEF T

\* Wherever the chunks break the lines, what write_mapping_lines writes of two
\* of them is what it would write of both at once, and so is what stays in the
\* buffer (gamecontrollerdb_updater.c:92).
THEOREM ChunksAnywhere ==
  ASSUME NEW a \in Seq(Piece), NEW b \in Seq(Piece)
  PROVE  /\ MappingLines(a \o b) = MappingLines(a) \o MappingLines(Remainder(a) \o b)
         /\ Remainder(a \o b) = Remainder(Remainder(a) \o b)
<1> DEFINE r == Remainder(a)
           Holds(q) == /\ MappingLines(a \o q) = MappingLines(a) \o MappingLines(r \o q)
                       /\ Remainder(a \o q) = Remainder(r \o q)
           T == {q \in Seq(Piece) : Holds(q)}
<1>1. r \in Seq(Piece) /\ Scanned(r) = [lines |-> <<>>, line |-> r]
      BY RemainderUnbroken, Unbroken
<1>2. MappingLines(a) \in Seq(FileLine)
      BY ScannedTyped DEF MappingLines, Scans
<1>3. <<>> \in T
  <2>1. a \o <<>> = a /\ r \o <<>> = r
        BY <1>1, ConcatEmptySeq
  <2>2. MappingLines(a) \o <<>> = MappingLines(a)
        BY <1>2, ConcatEmptySeq
  <2>3. MappingLines(r) = <<>> /\ Remainder(r) = r
        BY <1>1 DEF MappingLines, Remainder
  <2> HIDE DEF r
  <2>4. Holds(<<>>)
        BY <2>1, <2>2, <2>3 DEF r
  <2> QED BY <2>4, EmptySeq
<1> HIDE DEF r
<1>4. ASSUME NEW q \in Seq(Piece), NEW p \in Piece, q \in T PROVE Append(q, p) \in T
  <2>1. /\ a \o q \in Seq(Piece) /\ r \o q \in Seq(Piece) /\ Append(q, p) \in Seq(Piece)
        /\ a \o Append(q, p) = Append(a \o q, p) /\ r \o Append(q, p) = Append(r \o q, p)
        BY <1>1, ConcatAppend
  <2> DEFINE x == Scanned(a \o q)
             y == Scanned(r \o q)
  <2>2. x \in Scans /\ y \in Scans /\ x.lines = MappingLines(a) \o y.lines /\ x.line = y.line
        BY <1>4, <2>1, ScannedTyped DEF MappingLines, Remainder
  <2>3. Scanned(a \o Append(q, p)) = Scan(x, p) /\ Scanned(r \o Append(q, p)) = Scan(y, p)
        BY <2>1, ScannedAppend
  <2> HIDE DEF x, y
  <2>4. Scan(x, p).line = Scan(y, p).line
        BY <2>2 DEF Scan, Scans
  <2>5. Scan(x, p).lines = MappingLines(a) \o Scan(y, p).lines
    <3>1. CASE p[2] # 1 /\ p[1] \in Mine
      <4> DEFINE l == MapLine(Append(x.line, p))
      <4>1. l \in FileLine
        <5>1. Append(x.line, p) \in Seq(Piece)
              BY <2>2, AppendProperties DEF Scans
        <5> QED BY <5>1 DEF MapLine, FileLine
      <4>2. x.lines \in Seq(FileLine) /\ y.lines \in Seq(FileLine)
            BY <2>2 DEF Scans
      <4>3. Append(x.lines, l) = MappingLines(a) \o Append(y.lines, l)
        <5> HIDE DEF l
        <5>1. MappingLines(a) \o Append(y.lines, l) = Append(MappingLines(a) \o y.lines, l)
              BY <1>2, <4>1, <4>2, ConcatAppend
        <5> QED BY <2>2, <5>1
      <4>4. Scan(x, p).lines = Append(x.lines, l) /\ Scan(y, p).lines = Append(y.lines, l)
            BY <2>2, <3>1 DEF Scan
      <4> QED BY <4>3, <4>4
    <3>2. CASE ~(p[2] # 1 /\ p[1] \in Mine)
          BY <2>2, <3>2 DEF Scan, Scans
    <3> QED BY <3>1, <3>2
  <2>6. Holds(Append(q, p))
        BY <2>3, <2>4, <2>5 DEF MappingLines, Remainder
  <2> QED BY <2>1, <2>6
<1> HIDE DEF T
<1>5. \A q \in Seq(Piece) : q \in T
      BY <1>3, <1>4, AllSequences
<1> QED BY <1>5 DEF T, r

-----------------------------------------------------------------------------
(* The file of a version, line by line and piece by piece                   *)

LEMMA LinesTyped ==
  ASSUME NEW v \in Versions
  PROVE  /\ Content[v] \in Seq(STRING) /\ Len(Content[v]) \in Nat
         /\ WholeLines(v) \in Nat /\ WholeLines(v) <= Len(Content[v])
         /\ Len(Content[v]) <= WholeLines(v) + 1
         /\ \A k \in 1..Len(Content[v]) : Content[v][k] \in STRING
<1>1. Content[v] \in Seq(STRING) /\ (v \in Unended => Content[v] # <<>>)
      BY DatabaseAssumption
<1>2. Len(Content[v]) \in Nat /\ (v \in Unended => Len(Content[v]) # 0)
      BY <1>1, EmptySeq, LenProperties
<1>3. \A k \in 1..Len(Content[v]) : Content[v][k] \in STRING
      BY <1>1, ElementOfSeq
<1>4. WholeLines(v) = IF v \in Unended THEN Len(Content[v]) - 1 ELSE Len(Content[v])
      BY <1>2 DEF WholeLines
<1> QED BY <1>1, <1>2, <1>3, <1>4

LEMMA BodyTyped ==
  ASSUME NEW v \in Versions
  PROVE  /\ Body(v) \in Seq(Piece) /\ Len(Body(v)) = Len(Content[v]) + WholeLines(v)
         /\ \A k \in 1..WholeLines(v) : /\ Body(v)[2 * k - 1] = <<Content[v][k], 1>>
                                        /\ Body(v)[2 * k] = <<Content[v][k], 2>>
         /\ WholeLines(v) < Len(Content[v]) => Body(v)[Len(Body(v))][2] = 1
<1> DEFINE n == Len(Content[v])
           w == WholeLines(v)
           piece(i) == <<Content[v][(i + 1) \div 2], IF i % 2 = 1 THEN 1 ELSE 2>>
<1>1. n \in Nat /\ w \in Nat /\ w <= n /\ n <= w + 1
      BY LinesTyped
<1>2. Body(v) = [i \in 1..n + w |-> piece(i)]
      BY DEF Body
<1>3. ASSUME NEW i \in 1..n + w PROVE piece(i) \in Piece
  <2>1. (i + 1) \div 2 \in 1..n
        BY <1>1
  <2> QED BY <2>1, LinesTyped DEF Piece
<1> HIDE DEF n, w
<1>4. n + w \in Nat /\ Body(v) \in [1..n + w -> Piece]
      BY <1>1, <1>2, <1>3
<1>5. Body(v) \in Seq(Piece) /\ Len(Body(v)) = n + w
      BY <1>4
<1>6. ASSUME NEW k \in 1..w
      PROVE  Body(v)[2 * k - 1] = <<Content[v][k], 1>> /\ Body(v)[2 * k] = <<Content[v][k], 2>>
  <2>1. 2 * k - 1 \in 1..n + w /\ 2 * k \in 1..n + w
        BY <1>1
  <2>2. ((2 * k - 1) + 1) \div 2 = k /\ (2 * k + 1) \div 2 = k /\ (2 * k - 1) % 2 = 1 /\ (2 * k) % 2 = 0
        BY <1>1
  <2> QED BY <1>2, <2>1, <2>2
<1>7. ASSUME w < n PROVE Body(v)[n + w][2] = 1
  <2>1. n + w \in 1..n + w /\ (n + w) % 2 = 1
        BY <1>1, <1>7
  <2> QED BY <1>2, <2>1
<1> QED BY <1>5, <1>6, <1>7 DEF n, w

Written(f, v, k) == LET l == Content[v][k]
                    IN  IF l \in Mine THEN Append(f, MapLine(<<<<l, 1>>, <<l, 2>>>>)) ELSE f

LEMMA MappedBy ==
  ASSUME NEW v \in Versions
  PROVE  \E f : /\ Mapped(v) = f[WholeLines(v)]
                /\ f[0] = <<EtagLine(v)>>
                /\ \A k \in 1..WholeLines(v) : f[k] = Written(f[k - 1], v, k)
<1> DEFINE S == Seq(FileLine)
           w == WholeLines(v)
           first == <<EtagLine(v)>>
           By(f) == [k \in 0..w |-> IF k = 0 THEN first ELSE Written(f[k - 1], v, k)]
           step == [k \in 1..w |-> [x \in S |-> Written(x, v, k)]]
           text == CHOOSE f : f = By(f)
<1>1. w \in Nat /\ first \in S
  <2>1. <<>> \in Seq(Piece)
        BY EmptySeq
  <2>2. EtagLine(v) \in FileLine
        BY <2>1 DEF EtagLine, FileLine
  <2> QED BY <2>2, LinesTyped
<1>2. ASSUME NEW k \in 1..w, NEW x \in S PROVE Written(x, v, k) \in S
  <2> DEFINE l == Content[v][k]
  <2>1. l \in STRING
        BY LinesTyped
  <2>2. <<l, 1>> \in Piece /\ <<l, 2>> \in Piece
        BY <2>1 DEF Piece
  <2>3. <<<<l, 1>>, <<l, 2>>>> \in Seq(Piece)
        BY <2>2
  <2>4. MapLine(<<<<l, 1>>, <<l, 2>>>>) \in FileLine
        BY <2>3 DEF MapLine, FileLine
  <2>5. Append(x, MapLine(<<<<l, 1>>, <<l, 2>>>>)) \in S
        BY <2>4, AppendProperties
  <2> QED BY <2>5 DEF Written
<1>3. step \in [1..w -> [S -> S]]
      BY <1>2
<1>4. PICK f : Recurs(f, w, S, first, step)
  <2> HIDE DEF step, S, first, w
  <2> QED BY <1>1, <1>3, Recursion
<1> HIDE DEF first, S, w
<1>5. f = By(f)
  <2>1. ASSUME NEW k \in 1..w PROVE step[k][f[k - 1]] = Written(f[k - 1], v, k)
    <3>1. f[k - 1] \in S
          BY <1>1, <1>4 DEF Recurs
    <3>2. step[k] = [x \in S |-> Written(x, v, k)]
          OBVIOUS
    <3> HIDE DEF step
    <3> QED BY <3>1, <3>2
  <2>2. f = [k \in 0..w |-> f[k]]
        BY <1>4 DEF Recurs
  <2> HIDE DEF step
  <2>3. \A k \in 0..w : f[k] = IF k = 0 THEN first ELSE Written(f[k - 1], v, k)
        BY <1>1, <1>4, <2>1 DEF Recurs
  <2> QED BY <2>2, <2>3
<1>6. text = By(text)
  <2> HIDE DEF By
  <2> QED BY <1>5
<1>7. Mapped(v) = text[w]
      BY DEF Mapped, Written, first, w
<1> HIDE DEF text
<1>8. \A k \in 0..w : text[k] = IF k = 0 THEN first ELSE Written(text[k - 1], v, k)
      BY <1>6
<1>9. text[0] = first /\ \A k \in 1..w : text[k] = Written(text[k - 1], v, k)
      BY <1>1, <1>8
<1> QED BY <1>7, <1>9 DEF first, w

LEMMA EtagLineTyped == ASSUME NEW v \in Versions PROVE <<EtagLine(v)>> \in Seq(FileLine)
<1>1. <<>> \in Seq(Piece)
      BY EmptySeq
<1>2. EtagLine(v) \in FileLine
      BY <1>1 DEF EtagLine, FileLine
<1> QED BY <1>2

LEMMA MappedIsScanned ==
  ASSUME NEW v \in Versions
  PROVE  Mapped(v) = <<EtagLine(v)>> \o MappingLines(Body(v))
<1> DEFINE b == Body(v)
           w == WholeLines(v)
           e == <<EtagLine(v)>>
           part(i) == SubSeq(b, 1, i)
<1>1. /\ b \in Seq(Piece) /\ w \in Nat /\ Len(b) \in Nat /\ 2 * w <= Len(b) /\ Len(b) <= 2 * w + 1
      /\ \A k \in 1..w : b[2 * k - 1] = <<Content[v][k], 1>> /\ b[2 * k] = <<Content[v][k], 2>>
      /\ 2 * w < Len(b) => b[Len(b)][2] = 1
      BY BodyTyped, LinesTyped
<1>2. e \in Seq(FileLine)
      BY EtagLineTyped
<1>3. PICK f : /\ Mapped(v) = f[w]
               /\ f[0] = e
               /\ \A k \in 1..w : f[k] = Written(f[k - 1], v, k)
      BY MappedBy
<1> HIDE DEF b, e, w
<1>4. ASSUME NEW i \in Nat, i <= Len(b)
      PROVE  part(i) \in Seq(Piece) /\ Scanned(part(i)) \in Scans
  <2>1. \A j \in 1..i : b[j] \in Piece
        BY <1>1, <1>4, ElementOfSeq
  <2>2. part(i) \in Seq(Piece)
        BY <2>1, SubSeqProperties
  <2> QED BY <2>2, ScannedTyped
<1>5. ASSUME NEW i \in Nat, i + 1 <= Len(b)
      PROVE  Scanned(part(i + 1)) = Scan(Scanned(part(i)), b[i + 1])
  <2>1. part(i + 1) = part(i) \o <<b[i + 1]>>
    <3>1. i + 1 \in 1..Len(b) /\ 1 \in 1..Len(b) /\ i + 1 \in 1..(i + 1) /\ i + 1 \in 1..Len(b) /\ (i + 1) - 1 = i
          BY <1>1, <1>5
    <3> QED BY <1>1, <3>1, SubSeqRecursiveSecond
  <2>2. b[i + 1] \in Piece /\ part(i) \in Seq(Piece)
        BY <1>1, <1>4, <1>5, ElementOfSeq
  <2>3. part(i + 1) = Append(part(i), b[i + 1])
        BY <2>1, <2>2, AppendIsConcat
  <2> QED BY <2>2, <2>3, ScannedAppend
<1> HIDE DEF part
<1> DEFINE T == {k \in Nat : k <= w => /\ f[k] = e \o Scanned(part(2 * k)).lines
                                       /\ Scanned(part(2 * k)).line = <<>>}
<1>6. 0 \in T
  <2>1. part(2 * 0) = <<>>
        BY SubSeqEmpty DEF part
  <2>2. Scanned(part(2 * 0)) = Start
        BY <2>1, ScannedEmpty
  <2>3. e \o <<>> = e
        BY <1>2, ConcatEmptySeq
  <2>4. Scanned(part(2 * 0)).lines = <<>> /\ Scanned(part(2 * 0)).line = <<>>
        BY <2>2 DEF Start
  <2> QED BY <1>3, <2>3, <2>4
<1>7. ASSUME NEW k \in Nat, k \in T PROVE k + 1 \in T
  <2>1. SUFFICES ASSUME k + 1 <= w
                 PROVE  /\ f[k + 1] = e \o Scanned(part(2 * (k + 1))).lines
                        /\ Scanned(part(2 * (k + 1))).line = <<>>
        OBVIOUS
  <2> DEFINE l == Content[v][k + 1]
             n == 2 * k
             x == Scanned(part(n))
             y == Scanned(part(n + 1))
             z == Scanned(part(n + 2))
             line == MapLine(<<<<l, 1>>, <<l, 2>>>>)
  <2>2. /\ f[k] = e \o x.lines /\ x.line = <<>>
        /\ n \in Nat /\ n + 1 \in Nat /\ n + 1 <= Len(b) /\ (n + 1) + 1 <= Len(b)
        /\ n <= Len(b) /\ (n + 1) + 1 = n + 2 /\ k + 1 \in 1..w /\ (k + 1) - 1 = k
        /\ 2 * (k + 1) = n + 2 /\ 2 * (k + 1) - 1 = n + 1
        BY <1>1, <1>7, <2>1
  <2>3. b[n + 1] = <<l, 1>> /\ b[n + 2] = <<l, 2>>
        BY <1>1, <2>2
  <2> HIDE DEF n, l
  <2>4. x \in Scans
        BY <1>4, <2>2
  <2>5. y = Scan(x, <<l, 1>>)
        BY <1>5, <2>2, <2>3
  <2>6. z = Scan(y, <<l, 2>>)
    <3>1. Scanned(part((n + 1) + 1)) = Scan(y, b[(n + 1) + 1])
          BY <1>5, <2>2
    <3> QED BY <2>2, <2>3, <3>1
  <2> HIDE DEF x, y, z
  <2>7. z.line = <<>> /\ z.lines = IF l \in Mine THEN Append(x.lines, line) ELSE x.lines
    <3>1. y = [lines |-> x.lines, line |-> <<<<l, 1>>>>]
      <4>1. Append(x.line, <<l, 1>>) = <<<<l, 1>>>>
            BY <2>2
      <4>2. y = [x EXCEPT !.line = Append(x.line, <<l, 1>>)]
            BY <2>5 DEF Scan
      <4> QED BY <2>4, <4>1, <4>2 DEF Scans
    <3>2. y.line = <<<<l, 1>>>> /\ y.lines = x.lines
          BY <3>1
    <3>3. Append(y.line, <<l, 2>>) = <<<<l, 1>>, <<l, 2>>>>
      <4>1. \A p, q \in Piece : Append(<<p>>, q) = <<p, q>>
            BY PairAppended
      <4>2. <<l, 1>> \in Piece /\ <<l, 2>> \in Piece
            BY <2>2, LinesTyped DEF Piece, l, w
      <4> QED BY <3>2, <4>1, <4>2
    <3>4. <<l, 2>>[2] # 1 /\ <<l, 2>>[1] = l
          OBVIOUS
    <3>5. z = [lines |-> IF l \in Mine THEN Append(x.lines, line) ELSE x.lines, line |-> <<>>]
          BY <2>6, <3>2, <3>3, <3>4 DEF Scan
    <3> QED BY <3>5
  <2>8. f[k + 1] = Written(f[k], v, k + 1)
    <3>1. f[k + 1] = Written(f[(k + 1) - 1], v, k + 1)
          BY <1>3, <2>2
    <3> QED BY <2>2, <3>1
  <2>9. f[k + 1] = e \o z.lines
    <3>1. CASE l \in Mine
      <4>1. line \in FileLine
        <5>1. l \in STRING
              BY <2>2, LinesTyped DEF w, l
        <5>2. <<l, 1>> \in Piece /\ <<l, 2>> \in Piece
              BY <5>1 DEF Piece
        <5>3. <<<<l, 1>>, <<l, 2>>>> \in Seq(Piece)
              BY <5>2
        <5> QED BY <5>3 DEF MapLine, FileLine
      <4>2. f[k + 1] = Append(e \o x.lines, line)
            BY <2>2, <2>8, <3>1 DEF Written, l
      <4>3. x.lines \in Seq(FileLine)
            BY <2>4 DEF Scans
      <4> HIDE DEF line
      <4>4. e \o Append(x.lines, line) = Append(e \o x.lines, line)
            BY <1>2, <4>1, <4>3, ConcatAppend
      <4> QED BY <2>7, <3>1, <4>2, <4>4
    <3>2. CASE l \notin Mine
          BY <2>2, <2>7, <2>8, <3>2 DEF Written, l
    <3> QED BY <3>1, <3>2
  <2> QED BY <2>2, <2>7, <2>9 DEF z
<1> HIDE DEF T
<1>8. \A k \in Nat : k \in T
      BY <1>6, <1>7, AllOf
<1>9. f[w] = e \o Scanned(part(2 * w)).lines
      BY <1>1, <1>8 DEF T
<1>10. Scanned(part(2 * w)).lines = Scanned(b).lines
  <2>1. part(Len(b)) = b
        BY <1>1, SubSeqFull DEF part
  <2>2. CASE Len(b) = 2 * w
        BY <2>1, <2>2
  <2>3. CASE Len(b) = 2 * w + 1
    <3>1. /\ Scanned(b) = Scan(Scanned(part(2 * w)), b[Len(b)]) /\ b[Len(b)][2] = 1
          /\ Scanned(part(2 * w)) \in Scans
          BY <1>1, <1>4, <1>5, <2>1, <2>3
    <3> QED BY <3>1 DEF Scan, Scans
  <2> QED BY <1>1, <2>2, <2>3
<1> QED BY <1>3, <1>9, <1>10 DEF MappingLines, b, e

-----------------------------------------------------------------------------
(* GcdbDownload: the inductive invariant, its steps and the theorem         *)

\* what header_cb has still to be called with, and the file that it has begun
HeadersInv == \/ dbFile = <<>> /\ rest \in {<<NoEtag, version, NoEtag>>, <<version, NoEtag>>}
              \/ dbFile = <<EtagLine(version)>> /\ rest = <<NoEtag>>

\* the file and the buffer hold what has come of the body
BodyInv == \E got \in Seq(Piece) : /\ rest \in Seq(Piece) /\ got \o rest = Body(version)
                                   /\ dbFile = <<EtagLine(version)>> \o MappingLines(got)
                                   /\ buf = Remainder(got)

DbInv ==
    /\ version \in Versions /\ status \in Int
    /\ stage \in {"idle", "asking", "ended", "headers", "body"}
    /\ stage # "body" => buf = <<>>
    /\ stage \in {"headers", "body"} => fp /\ status = 200
    /\ stage \notin {"headers", "body"} => ~fp
    /\ ~fp /\ ~cut => dbFile \in {<<>>} \cup {Mapped(v) : v \in Versions}
    /\ stage = "idle" /\ ~cut /\ result = "UPDATED" => dbFile \in {Mapped(v) : v \in Versions}
    /\ stage = "idle" /\ result # "UPDATED" => dbFile = before
    /\ stage \in {"asking", "ended"} => status # 200 /\ dbFile = before
    /\ stage = "headers" => HeadersInv
    /\ stage = "body" => BodyInv

LEMMA HeaderLineKeeps == ASSUME DbInv, HeaderLine PROVE DbInv'
<1> USE DEF HeaderLine, ctxVars
<1>1. stage = "headers" /\ HeadersInv /\ version \in Versions /\ NoEtag # version
      BY DatabaseAssumption DEF DbInv
<1>2. CASE rest = <<NoEtag, version, NoEtag>>
  <2>1. Head(rest) = NoEtag /\ Len(rest) > 1 /\ Tail(rest) = <<version, NoEtag>>
        BY <1>2
  <2>2. dbFile = <<>>
        BY <1>1, <1>2 DEF HeadersInv
  <2>3. HeadersInv'
        BY <2>1, <2>2 DEF HeadersInv
  <2> QED BY <2>1, <2>3 DEF DbInv
<1>3. CASE rest = <<version, NoEtag>>
  <2>1. Head(rest) = version /\ Len(rest) > 1 /\ Tail(rest) = <<NoEtag>>
        BY <1>3
  <2>2. dbFile = <<>>
        BY <1>1, <1>3 DEF HeadersInv
  <2>3. Append(dbFile, EtagLine(version)) = <<EtagLine(version)>>
        BY <2>2
  <2>4. HeadersInv'
        BY <1>1, <2>1, <2>3 DEF HeadersInv, EtagLine
  <2> QED BY <2>1, <2>4 DEF DbInv
<1>4. CASE rest = <<NoEtag>> /\ dbFile = <<EtagLine(version)>>
  <2>1. Head(rest) = NoEtag /\ ~(Len(rest) > 1)
        BY <1>4
  <2>2. stage' = "body" /\ rest' = Body(version) /\ dbFile' = <<EtagLine(version)>>
        BY <1>4, <2>1
  <2>3. <<>> \in Seq(Piece) /\ <<>> \o Body(version) = Body(version) /\ Body(version) \in Seq(Piece)
        BY <1>1, BodyTyped, EmptySeq, ConcatEmptySeq
  <2>4. MappingLines(<<>>) = <<>> /\ Remainder(<<>>) = <<>>
        BY ScannedEmpty DEF Start, MappingLines, Remainder
  <2>5. dbFile' = <<EtagLine(version)>> \o MappingLines(<<>>) /\ buf' = Remainder(<<>>)
    <3>1. <<EtagLine(version)>> \o <<>> = <<EtagLine(version)>>
          BY <1>1, EtagLineTyped, ConcatEmptySeq
    <3>2. buf' = <<>>
          BY <1>1 DEF DbInv
    <3> QED BY <2>2, <2>4, <3>1, <3>2
  <2>6. BodyInv'
        BY <2>2, <2>3, <2>5 DEF BodyInv, EtagLine, Body, WholeLines
  <2> QED BY <2>2, <2>6 DEF DbInv
<1> QED BY <1>1, <1>2, <1>3, <1>4 DEF HeadersInv

LEMMA BodyChunkKeeps == ASSUME DbInv, NEW n \in Nat, BodyChunk(n) PROVE DbInv'
<1> USE DEF BodyChunk
<1> DEFINE chunk == SubSeq(rest, 1, n)
           left == SubSeq(rest, n + 1, Len(rest))
           e == <<EtagLine(version)>>
<1>1. PICK got \in Seq(Piece) : /\ rest \in Seq(Piece) /\ got \o rest = Body(version)
                                /\ dbFile = e \o MappingLines(got)
                                /\ buf = Remainder(got)
      BY DEF DbInv, BodyInv
<1>2. n \in 1..Len(rest) /\ Len(rest) \in Nat
      BY <1>1, LenProperties
<1>3. chunk \in Seq(Piece) /\ left \in Seq(Piece) /\ chunk \o left = rest
  <2>1. \A i \in 1..Len(rest) : rest[i] \in Piece
        BY <1>1, ElementOfSeq
  <2>2. chunk \in Seq(Piece)
        BY <1>2, <2>1, SubSeqProperties
  <2>3. left \in Seq(Piece)
        BY <1>2, <2>1, SubSeqProperties
  <2>4. chunk \o left = SubSeq(rest, 1, Len(rest))
    <3>1. 1 \in 1..Len(rest) + 1 /\ n \in 1 - 1..Len(rest) /\ Len(rest) \in n..Len(rest)
          BY <1>2
    <3> QED BY <1>1, <3>1, ConcatAdjacentSubSeq
  <2>5. SubSeq(rest, 1, Len(rest)) = rest
        BY <1>1, SubSeqFull
  <2> QED BY <2>2, <2>3, <2>4, <2>5
<1>4. /\ dbFile' = dbFile \o MappingLines(buf \o chunk) /\ buf' = Remainder(buf \o chunk)
      /\ rest' = left /\ UNCHANGED <<version, stage, status, fp, result, before, cut>>
      OBVIOUS
<1> HIDE DEF chunk, left, e
<1>5. got \o chunk \in Seq(Piece) /\ (got \o chunk) \o left = Body(version)
  <2>1. got \o chunk \in Seq(Piece)
        BY <1>1, <1>3, ConcatProperties
  <2>2. got \o (chunk \o left) = Body(version)
        BY <1>1, <1>3
  <2>3. (got \o chunk) \o left = got \o (chunk \o left)
    <3>1. \A x, y, z \in Seq(Piece) : (x \o y) \o z = x \o (y \o z)
          BY ConcatAssociative
    <3> QED BY <1>3, <3>1
  <2> QED BY <2>1, <2>2, <2>3
<1>6. /\ MappingLines(got \o chunk) = MappingLines(got) \o MappingLines(buf \o chunk)
      /\ Remainder(got \o chunk) = Remainder(buf \o chunk)
      BY <1>1, <1>3, ChunksAnywhere
<1>7. dbFile' = e \o MappingLines(got \o chunk)
  <2>1. buf \o chunk \in Seq(Piece)
        BY <1>1, <1>3, RemainderUnbroken, Unbroken, ConcatProperties
  <2>2. MappingLines(got) \in Seq(FileLine) /\ MappingLines(buf \o chunk) \in Seq(FileLine)
        BY <1>1, <2>1, ScannedTyped DEF MappingLines, Scans
  <2>3. e \in Seq(FileLine)
        BY EtagLineTyped DEF e, DbInv
  <2>4. (e \o MappingLines(got)) \o MappingLines(buf \o chunk)
            = e \o (MappingLines(got) \o MappingLines(buf \o chunk))
        BY <2>2, <2>3, ConcatAssociative
  <2> QED BY <1>1, <1>4, <1>6, <2>4
<1>8. BodyInv'
  <2>1. /\ rest' \in Seq(Piece) /\ (got \o chunk) \o rest' = Body(version')
        /\ dbFile' = <<EtagLine(version')>> \o MappingLines(got \o chunk)
        /\ buf' = Remainder(got \o chunk)
        BY <1>3, <1>4, <1>5, <1>6, <1>7 DEF e
  <2> QED BY <1>5, <2>1 DEF BodyInv, Body, WholeLines, EtagLine
<1> QED BY <1>4, <1>8 DEF DbInv

LEMMA EndKeeps == ASSUME DbInv, End PROVE DbInv'
<1> USE DEF End
<1>1. stage' = "idle" /\ buf' = <<>> /\ ~fp' /\ status' = 0 /\ UNCHANGED <<dbFile, version, before>>
      OBVIOUS
<1>2. ASSUME ~cut', fp PROVE dbFile \in {Mapped(v) : v \in Versions}
  <2>1. stage = "body" /\ rest = <<>>
        BY <1>2
  <2>2. PICK got \in Seq(Piece) : /\ got \o rest = Body(version)
                                  /\ dbFile = <<EtagLine(version)>> \o MappingLines(got)
        BY <2>1 DEF DbInv, BodyInv
  <2>3. got = Body(version)
        BY <2>1, <2>2, ConcatEmptySeq
  <2>4. dbFile = Mapped(version)
        BY <2>2, <2>3, MappedIsScanned DEF DbInv
  <2> QED BY <2>4 DEF DbInv
<1>3. ASSUME ~cut' PROVE dbFile \in {<<>>} \cup {Mapped(v) : v \in Versions}
  <2>1. CASE ~fp
        BY <1>3, <2>1 DEF DbInv
  <2> QED BY <1>2, <1>3, <2>1
<1>4. ASSUME result' # "UPDATED" PROVE dbFile = before
  <2>1. status # 200
        BY <1>4 DEF StatusOf
  <2> QED BY <2>1 DEF DbInv
<1>5. ASSUME ~cut', result' = "UPDATED" PROVE dbFile \in {Mapped(v) : v \in Versions}
  <2>1. status = 200
    <3>1. status \in Int
          BY DEF DbInv
    <3>2. status = 304 \/ status >= 400 \/ (status < 400 /\ status \notin {200, 304}) \/ status = 200
          BY <3>1
    <3> QED BY <1>5, <3>1, <3>2 DEF StatusOf
  <2>2. fp
        BY <2>1 DEF DbInv
  <2> QED BY <1>2, <1>5, <2>2
<1> QED BY <1>1, <1>3, <1>4, <1>5 DEF DbInv

THEOREM DownloadInvariance == DbSpec => []DbInv
<1>1. DbInit => DbInv
  <2> SUFFICES ASSUME DbInit PROVE DbInv
      OBVIOUS
  <2> QED BY DEF DbInit, DbInv
<1>2. ASSUME DbInv, [DbNext]_dbVars PROVE DbInv'
  <2>1. CASE Server
        BY <1>2, <2>1 DEF Server, ctxVars, DbInv, HeadersInv, BodyInv
  <2>2. CASE Begin
        BY <1>2, <2>2 DEF Begin, DbInv
  <2>3. ASSUME NEW code \in {304, 404, 503}, AnswerOther(code) PROVE DbInv'
        BY <1>2, <2>3 DEF AnswerOther, DbInv
  <2>4. CASE Answer200
        BY <1>2, <2>4 DEF Answer200, DbInv, HeadersInv
  <2>5. CASE HeaderLine
        BY <1>2, <2>5, HeaderLineKeeps
  <2>6. ASSUME NEW n \in 1..Len(rest), BodyChunk(n) PROVE DbInv'
    <3>1. n \in Nat
          BY <2>6
    <3> QED BY <1>2, <2>6, <3>1, BodyChunkKeeps
  <2>7. CASE End
        BY <1>2, <2>7, EndKeeps
  <2>8. CASE UNCHANGED dbVars
        BY <1>2, <2>8 DEF dbVars, ctxVars, DbInv, HeadersInv, BodyInv
  <2> QED BY <1>2, <2>1, <2>2, <2>3, <2>4, <2>5, <2>6, <2>7, <2>8 DEF DbNext
<1> QED BY <1>1, <1>2, PTL DEF DbSpec

\* Between updates the file is the one of its etag, wherever the chunks broke
\* its lines, unless the transfer was cut; it is empty only until an update has
\* said UPDATED, and no other has changed it; for any databases and any lines of
\* the platform.
THEOREM FileTrueToEtagSafe == DbSpec => []FileTrueToEtag
<1>1. DbInv => FileTrueToEtag
      BY DEF DbInv, FileTrueToEtag
<1> QED BY <1>1, DownloadInvariance, PTL

-----------------------------------------------------------------------------
(* strtol: the digits a text begins with                                    *)

LEMMA DigitTyped == ASSUME NEW c, IsDigit(c) PROVE DigitValue(c) \in 0..9
<1>1. DOMAIN Digits = 1..10
      BY DEF Digits
<1> DEFINE i == CHOOSE k \in DOMAIN Digits : Digits[k] = c
<1>2. i \in DOMAIN Digits
      BY DEF IsDigit
<1>3. DigitValue(c) = i - 1
      BY DEF DigitValue
<1> HIDE DEF i
<1> QED BY <1>1, <1>2, <1>3

LEMMA DigitCountIs ==
  ASSUME NEW S, NEW text \in Seq(S)
  PROVE  /\ DigitCount(text) \in 0..Len(text)
         /\ \A i \in 1..DigitCount(text) : IsDigit(text[i])
         /\ DigitCount(text) < Len(text) => ~IsDigit(text[DigitCount(text) + 1])
<1> DEFINE Ends == {n \in 0..Len(text) : n < Len(text) => ~IsDigit(text[n + 1])}
           n0 == Min(Ends)
           P(n) == /\ \A i \in 1..n : IsDigit(text[i])
                   /\ n < Len(text) => ~IsDigit(text[n + 1])
<1>1. Len(text) \in Nat
      BY LenProperties
<1>2. Len(text) \in Ends /\ Ends \in SUBSET Nat
      BY <1>1
<1>3. n0 \in Ends /\ \A k \in Ends : n0 <= k
      BY <1>2, LeastOf
<1> HIDE DEF n0
<1>4. ASSUME NEW i \in 1..n0 PROVE IsDigit(text[i])
  <2>1. n0 \in 0..Len(text)
        BY <1>3
  <2>2. i - 1 \in 0..Len(text) /\ ~(n0 <= i - 1) /\ (i - 1) + 1 = i /\ i - 1 < Len(text)
        BY <1>1, <2>1
  <2>3. i - 1 \notin Ends
    <3> HIDE DEF Ends
    <3> QED BY <1>3, <2>2
  <2> QED BY <2>2, <2>3
<1>5. n0 \in 0..Len(text) /\ P(n0)
      BY <1>3, <1>4
<1> HIDE DEF P
<1>6. \E n \in 0..Len(text) : P(n)
      BY <1>5
<1>7. DigitCount(text) = CHOOSE n \in 0..Len(text) : P(n)
      BY DEF DigitCount, P
<1>8. DigitCount(text) \in 0..Len(text) /\ P(DigitCount(text))
      BY <1>6, <1>7
<1> QED BY <1>8 DEF P

\* the value of the digits, one more digit at a time
LEMMA NumberBy ==
  ASSUME NEW S, NEW text \in Seq(S)
  PROVE  \E f : /\ Number(text) = f[DigitCount(text)] /\ f[0] = 0
                /\ \A n \in 1..Len(text) : f[n] = 10 * f[n - 1] + DigitValue(text[n])
<1> DEFINE N == Len(text)
           By(f, m) == [n \in 0..m |-> IF n = 0 THEN 0 ELSE 10 * f[n - 1] + DigitValue(text[n])]
           T == {m \in Nat : \E f : f = By(f, m)}
           value == CHOOSE f : f = By(f, N)
<1>1. N \in Nat
      BY LenProperties
<1> HIDE DEF N
<1>2. 0 \in T
  <2>1. [n \in 0..0 |-> 0] = By([n \in 0..0 |-> 0], 0)
        OBVIOUS
  <2> QED BY <2>1
<1>3. ASSUME NEW m \in Nat, m \in T PROVE m + 1 \in T
  <2>1. PICK f : f = By(f, m)
        BY <1>3
  <2> DEFINE g == [n \in 0..m + 1 |-> IF n = m + 1 THEN 10 * f[m] + DigitValue(text[m + 1]) ELSE f[n]]
  <2>2. \A n \in 0..m : f[n] = IF n = 0 THEN 0 ELSE 10 * f[n - 1] + DigitValue(text[n])
        BY <2>1
  <2>3. ASSUME NEW n \in 0..m + 1
        PROVE  g[n] = IF n = 0 THEN 0 ELSE 10 * g[n - 1] + DigitValue(text[n])
    <3>1. CASE n \in 0..m
      <4>1. g[n] = f[n] /\ (n # 0 => g[n - 1] = f[n - 1])
            BY <3>1
      <4> HIDE DEF g
      <4> QED BY <2>2, <3>1, <4>1
    <3>2. CASE n = m + 1
      <4>1. g[n] = 10 * f[m] + DigitValue(text[n]) /\ g[n - 1] = f[m] /\ n # 0
            BY <3>2
      <4> QED BY <4>1
    <3> QED BY <3>1, <3>2
  <2>4. g = By(g, m + 1)
    <3>1. g = [n \in 0..m + 1 |-> g[n]]
          OBVIOUS
    <3> HIDE DEF g
    <3> QED BY <2>3, <3>1
  <2> HIDE DEF g, By
  <2> QED BY <2>4
<1> HIDE DEF T
<1>4. \A m \in Nat : m \in T
      BY <1>2, <1>3, AllOf
<1>5. value = By(value, N)
  <2> HIDE DEF By
  <2> QED BY <1>1, <1>4 DEF T
<1>6. Number(text) = value[DigitCount(text)]
      BY DEF Number, N
<1> HIDE DEF value
<1>7. \A n \in 0..N : value[n] = IF n = 0 THEN 0 ELSE 10 * value[n - 1] + DigitValue(text[n])
      BY <1>5
<1>8. value[0] = 0 /\ \A n \in 1..N : value[n] = 10 * value[n - 1] + DigitValue(text[n])
      BY <1>1, <1>7
<1> QED BY <1>6, <1>8 DEF N

LEMMA NumberTyped == ASSUME NEW S, NEW text \in Seq(S) PROVE Number(text) \in Nat
<1> DEFINE d == DigitCount(text)
<1>1. PICK f : /\ Number(text) = f[d] /\ f[0] = 0
               /\ \A n \in 1..Len(text) : f[n] = 10 * f[n - 1] + DigitValue(text[n])
      BY NumberBy
<1>2. d \in 0..Len(text) /\ Len(text) \in Nat /\ \A i \in 1..d : IsDigit(text[i])
      BY DigitCountIs, LenProperties
<1> HIDE DEF d
<1> DEFINE T == {n \in Nat : n <= d => f[n] \in Nat}
<1>3. 0 \in T
      BY <1>1
<1>4. ASSUME NEW n \in Nat, n \in T PROVE n + 1 \in T
  <2>1. SUFFICES ASSUME n + 1 <= d PROVE f[n + 1] \in Nat
        OBVIOUS
  <2>2. n + 1 \in 1..Len(text) /\ n + 1 \in 1..d /\ (n + 1) - 1 = n /\ f[n] \in Nat
        BY <1>2, <1>4, <2>1
  <2>3. f[n + 1] = 10 * f[n] + DigitValue(text[n + 1])
        BY <1>1, <2>2
  <2>4. DigitValue(text[n + 1]) \in 0..9
        BY <1>2, <2>2, DigitTyped
  <2> QED BY <2>2, <2>3, <2>4
<1> HIDE DEF T
<1>5. \A n \in Nat : n \in T
      BY <1>3, <1>4, AllOf
<1> QED BY <1>1, <1>2, <1>5 DEF T

LEMMA WeightTyped == ASSUME NEW S, NEW v \in Seq(S) PROVE Weight(v) \in Int
<1> DEFINE n == Number(v)
<1>1. n \in Nat
      BY NumberTyped
<1> HIDE DEF n
<1>2. Min({n, 100}) = IF n <= 100 THEN n ELSE 100
      BY <1>1 DEF Min
<1>3. Clamp(n) = IF n <= 100 THEN n ELSE 100
      BY <1>1, <1>2 DEF Clamp, Max
<1>4. Clamp(n) \in Int
      BY <1>1, <1>3
<1>5. Weight(v) = IF v[1] = "-" THEN 0 ELSE Clamp(n)
      BY DEF Weight, n
<1> QED BY <1>4, <1>5

-----------------------------------------------------------------------------
(* Reading the list of modules, and sorting it                              *)

Module(lines) ==
    [id : {NoName} \cup STRING, group : {NoName} \cup {lines[i].value[1] : i \in DOMAIN lines}, weight : Int,
     video : BOOLEAN, audio : BOOLEAN, conflicts : SUBSET STRING,
     os : {<<>>} \cup {ConstraintsParse(lines[i].value) : i \in DOMAIN lines}]
Reading(lines) == [current : Module(lines), modules : Seq(Module(lines))]
Unread == [current |-> BlankModule, modules |-> <<>>]

LEMMA BlankTyped == ASSUME NEW lines PROVE BlankModule \in Module(lines)
<1>1. {} \in SUBSET STRING
      OBVIOUS
<1> QED BY <1>1 DEF BlankModule, Module

LEMMA LineTyped ==
  ASSUME NEW lines \in Seq(Line), NEW n \in 1..Len(lines)
  PROVE  /\ lines[n] \in Line /\ n \in DOMAIN lines
         /\ lines[n].section \in STRING /\ lines[n].name \in STRING /\ lines[n].value \in Seq(STRING)
<1>1. lines[n] \in Line /\ n \in DOMAIN lines
      BY ElementOfSeq, LenProperties
<1> QED BY <1>1 DEF Line

LEMMA SectionChangedTyped ==
  ASSUME NEW lines, NEW x \in Reading(lines)
  PROVE  SectionChanged(x) \in Reading(lines)
<1>1. x.current \in Module(lines) /\ x.modules \in Seq(Module(lines))
      BY DEF Reading
<1>2. Append(x.modules, x.current) \in Seq(Module(lines))
      BY <1>1, AppendProperties
<1> QED BY <1>1, <1>2, BlankTyped DEF SectionChanged, Reading

LEMMA EnteredTyped ==
  ASSUME NEW lines, NEW x \in Reading(lines), NEW s \in STRING
  PROVE  Entered(x, s) \in Reading(lines)
<1> DEFINE y == SectionChanged(x)
<1>1. y \in Reading(lines)
      BY SectionChangedTyped
<1> HIDE DEF y
<1>2. [y.current EXCEPT !.id = s] \in Module(lines)
      BY <1>1 DEF Reading, Module
<1>3. [y EXCEPT !.current = [y.current EXCEPT !.id = s]] \in Reading(lines)
      BY <1>1, <1>2 DEF Reading
<1> QED BY <1>3 DEF Entered, y

LEMMA ToldTyped ==
  ASSUME NEW lines \in Seq(Line), NEW n \in 1..Len(lines), NEW m \in Module(lines)
  PROVE  Told(m, lines[n].name, lines[n].value) \in Module(lines)
<1> DEFINE v == lines[n].value
<1>1. v \in Seq(STRING) /\ n \in DOMAIN lines
      BY LineTyped
<1>2. Weight(v) \in Int
      BY <1>1, WeightTyped
<1>3. ListParse(m.conflicts, v) \in SUBSET STRING
  <2>1. \A i \in DOMAIN v : v[i] \in STRING
        BY <1>1, ElementOfSeq, LenProperties
  <2> QED BY <2>1 DEF ListParse, Module
<1>4. v[1] \in {lines[i].value[1] : i \in DOMAIN lines}
      BY <1>1
<1>5. ConstraintsParse(v) \in {ConstraintsParse(lines[i].value) : i \in DOMAIN lines}
      BY <1>1
<1> HIDE DEF v
<1>6. [m EXCEPT !.group = v[1]] \in Module(lines)
      BY <1>4 DEF Module
<1>7. [m EXCEPT !.weight = Weight(v)] \in Module(lines)
      BY <1>2 DEF Module
<1>8. [m EXCEPT !.audio = (v[1] = "true")] \in Module(lines)
      BY DEF Module
<1>9. [m EXCEPT !.video = (v[1] = "true")] \in Module(lines)
      BY DEF Module
<1>10. [m EXCEPT !.os = ConstraintsParse(v)] \in Module(lines)
       BY <1>5 DEF Module
<1>11. [m EXCEPT !.conflicts = ListParse(m.conflicts, v)] \in Module(lines)
       BY <1>3 DEF Module
<1>12. Told(m, lines[n].name, v) \in Module(lines)
       BY <1>6, <1>7, <1>8, <1>9, <1>10, <1>11 DEF Told
<1> QED BY <1>12 DEF v

LEMMA HandlerTyped ==
  ASSUME NEW lines \in Seq(Line), NEW n \in 1..Len(lines), NEW x \in Reading(lines)
  PROVE  IniHandler(x, lines[n]) \in Reading(lines)
<1> DEFINE y == Entered(x, lines[n].section)
<1>1. y \in Reading(lines)
      BY LineTyped, EnteredTyped
<1> HIDE DEF y
<1>2. Told(y.current, lines[n].name, lines[n].value) \in Module(lines)
      BY <1>1, ToldTyped DEF Reading
<1>3. [y EXCEPT !.current = Told(y.current, lines[n].name, lines[n].value)] \in Reading(lines)
      BY <1>1, <1>2 DEF Reading
<1> QED BY <1>3 DEF IniHandler, y

LEMMA ReadBy ==
  ASSUME NEW lines \in Seq(Line)
  PROVE  \E f : /\ ReadFile(lines) = SectionChanged(f[Len(lines)]).modules
                /\ f[0] = Unread
                /\ \A n \in 0..Len(lines) : f[n] \in Reading(lines)
                /\ \A n \in 1..Len(lines) : f[n] = IniHandler(f[n - 1], lines[n])
<1> DEFINE N == Len(lines)
           S == Reading(lines)
           By(f) == [n \in 0..N |-> IF n = 0 THEN Unread ELSE IniHandler(f[n - 1], lines[n])]
           step == [n \in 1..N |-> [x \in S |-> IniHandler(x, lines[n])]]
           after == CHOOSE f : f = By(f)
<1>1. N \in Nat
      BY LenProperties
<1>2. Unread \in S
      BY BlankTyped, EmptySeq DEF Unread, Reading
<1>3. \A n \in 1..N : \A x \in S : IniHandler(x, lines[n]) \in S
      BY HandlerTyped
<1> HIDE DEF N, S
<1>4. step \in [1..N -> [S -> S]]
      BY <1>3
<1>5. PICK f : Recurs(f, N, S, Unread, step)
  <2> HIDE DEF step
  <2> QED BY <1>1, <1>2, <1>4, Recursion
<1>6. f = By(f)
  <2>1. ASSUME NEW n \in 1..N PROVE step[n][f[n - 1]] = IniHandler(f[n - 1], lines[n])
    <3>1. f[n - 1] \in S
          BY <1>1, <1>5 DEF Recurs
    <3>2. step[n] = [x \in S |-> IniHandler(x, lines[n])]
          OBVIOUS
    <3> HIDE DEF step
    <3> QED BY <3>1, <3>2
  <2>2. f = [n \in 0..N |-> f[n]]
        BY <1>5 DEF Recurs
  <2> HIDE DEF step
  <2>3. \A n \in 0..N : f[n] = IF n = 0 THEN Unread ELSE IniHandler(f[n - 1], lines[n])
        BY <1>1, <1>5, <2>1 DEF Recurs
  <2> QED BY <2>2, <2>3
<1>7. after = By(after)
  <2> HIDE DEF By
  <2> QED BY <1>6
<1>8. ReadFile(lines) = SectionChanged(after[N]).modules
      BY DEF ReadFile, Unread, N
<1> HIDE DEF after
<1>9. \A n \in 0..N : after[n] = IF n = 0 THEN Unread ELSE IniHandler(after[n - 1], lines[n])
      BY <1>7
<1>10. after[0] = Unread /\ \A n \in 1..N : after[n] = IniHandler(after[n - 1], lines[n])
       BY <1>1, <1>9
<1> DEFINE T == {n \in Nat : n <= N => after[n] \in S}
<1>11. 0 \in T
       BY <1>2, <1>10
<1>12. ASSUME NEW n \in Nat, n \in T PROVE n + 1 \in T
  <2>1. SUFFICES ASSUME n + 1 <= N PROVE after[n + 1] \in S
        OBVIOUS
  <2>2. n + 1 \in 1..N /\ (n + 1) - 1 = n /\ after[n] \in S
        BY <1>1, <1>12, <2>1
  <2>3. after[n + 1] = IniHandler(after[n], lines[n + 1])
        BY <1>10, <2>2
  <2> QED BY <1>3, <2>2, <2>3
<1> HIDE DEF T
<1>13. \A n \in Nat : n \in T
       BY <1>11, <1>12, AllOf
<1>14. \A n \in 0..N : after[n] \in S
       BY <1>1, <1>13 DEF T
<1> QED BY <1>8, <1>10, <1>14 DEF N, S

LEMMA ReadTyped ==
  ASSUME NEW lines \in Seq(Line)
  PROVE  ReadFile(lines) \in Seq(Module(lines))
<1>1. PICK f : /\ ReadFile(lines) = SectionChanged(f[Len(lines)]).modules
               /\ \A n \in 0..Len(lines) : f[n] \in Reading(lines)
      BY ReadBy
<1>2. f[Len(lines)] \in Reading(lines)
      BY <1>1, LenProperties
<1> QED BY <1>1, <1>2, SectionChangedTyped DEF Reading

-----------------------------------------------------------------------------
(* The list of a well-formed file                                           *)

\* what the first n lines say of a section
SaidBy(lines, n, section, name, value) ==
    \E i \in 1..n : lines[i].section = section /\ lines[i].name = name /\ lines[i].value = value
Opened(lines, n, section) == \E i \in 1..n : lines[i].section = section
Suits(lines, n, section) ==
    \A v : SaidBy(lines, n, section, "os_version", v) => ConstraintsCheck(ConstraintsParse(v), OsVersion)
Items(value) == {value[i] : i \in DOMAIN value} \ {","}
Distinct(list) == \A i, j \in DOMAIN list : list[i].id = list[j].id => i = j

\* a module that holds what they say of its section, and nothing else
Described(m, lines, n) ==
    /\ m.video <=> SaidBy(lines, n, m.id, "video", <<"true">>)
    /\ m.audio <=> SaidBy(lines, n, m.id, "audio", <<"true">>)
    /\ \A v : SaidBy(lines, n, m.id, "group", v) => m.group = v[1]
    /\ \A v : SaidBy(lines, n, m.id, "weight", v) => m.weight = Weight(v)
    /\ \A v : SaidBy(lines, n, m.id, "conflicts", v) => m.conflicts = Items(v)
    /\ \A v : SaidBy(lines, n, m.id, "os_version", v) => m.os = ConstraintsParse(v)
    /\ (\A v : ~SaidBy(lines, n, m.id, "group", v)) => m.group = NoName
    /\ (\A v : ~SaidBy(lines, n, m.id, "weight", v)) => m.weight = 0
    /\ (\A v : ~SaidBy(lines, n, m.id, "conflicts", v)) => m.conflicts = {}
    /\ (\A v : ~SaidBy(lines, n, m.id, "os_version", v)) => m.os = <<>>

\* the list after n lines, but for the module that is being read
Listed(list, lines, n, open) ==
    /\ \A i \in DOMAIN list : Described(list[i], lines, n)
    /\ Distinct(list)
    /\ \A s : (\E i \in DOMAIN list : list[i].id = s) <=>
                  s # open /\ Opened(lines, n, s) /\ Suits(lines, n, s)

Halfway(x, lines, n) ==
    /\ n = 0 => x = Unread
    /\ n # 0 => x.current.id = lines[n].section /\ Described(x.current, lines, n)
    /\ Listed(x.modules, lines, n, x.current.id)

\* a line of another section says nothing of a module
LEMMA OtherSection ==
  ASSUME NEW lines, NEW n \in Nat, NEW s, lines[n + 1].section # s
  PROVE  /\ \A m : m.id = s /\ Described(m, lines, n) => Described(m, lines, n + 1)
         /\ Opened(lines, n + 1, s) <=> Opened(lines, n, s)
         /\ Suits(lines, n + 1, s) <=> Suits(lines, n, s)
<1>1. 1..n + 1 = (1..n) \cup {n + 1}
      OBVIOUS
<1>2. \A name, v : SaidBy(lines, n + 1, s, name, v) <=> SaidBy(lines, n, s, name, v)
      BY <1>1 DEF SaidBy
<1>3. Opened(lines, n + 1, s) <=> Opened(lines, n, s)
      BY <1>1 DEF Opened
<1>4. Suits(lines, n + 1, s) <=> Suits(lines, n, s)
      BY <1>2 DEF Suits
<1>5. ASSUME NEW m, m.id = s, Described(m, lines, n) PROVE Described(m, lines, n + 1)
      BY <1>2, <1>5, Zenon DEF Described
<1> QED BY <1>3, <1>4, <1>5

LEMMA ListedOn ==
  ASSUME NEW lines, NEW n \in Nat, NEW list, Listed(list, lines, n, lines[n + 1].section)
  PROVE  Listed(list, lines, n + 1, lines[n + 1].section)
<1> DEFINE open == lines[n + 1].section
<1>1. ASSUME NEW i \in DOMAIN list PROVE Described(list[i], lines, n + 1)
  <2>1. Described(list[i], lines, n) /\ list[i].id # open
        BY DEF Listed
  <2> QED BY <2>1, OtherSection
<1>2. ASSUME NEW s
      PROVE  (\E i \in DOMAIN list : list[i].id = s) <=>
                s # open /\ Opened(lines, n + 1, s) /\ Suits(lines, n + 1, s)
  <2>1. (\E i \in DOMAIN list : list[i].id = s) <=>
           s # open /\ Opened(lines, n, s) /\ Suits(lines, n, s)
        BY DEF Listed
  <2>2. s # open => /\ Opened(lines, n + 1, s) <=> Opened(lines, n, s)
                    /\ Suits(lines, n + 1, s) <=> Suits(lines, n, s)
        BY OtherSection
  <2> HIDE DEF open
  <2> QED BY <2>1, <2>2
<1>3. Distinct(list)
      BY DEF Listed
<1> HIDE DEF open
<1>4. Listed(list, lines, n + 1, open)
      BY <1>1, <1>2, <1>3 DEF Listed
<1> QED BY <1>4 DEF open

\* when its section ends, a module joins the list if the system suits it
LEMMA Closed ==
  ASSUME NEW lines \in Seq(Line), WellFormed(lines), NEW n \in 0..Len(lines),
         NEW x \in Reading(lines), Halfway(x, lines, n)
  PROVE  /\ SectionChanged(x).current = BlankModule
         /\ Listed(SectionChanged(x).modules, lines, n, NoName)
<1>1. x.modules \in Seq(Module(lines)) /\ x.current \in Module(lines)
      BY DEF Reading
<1>2. ASSUME NEW s, Opened(lines, n, s) PROVE s # NoName
  <2>1. PICK i \in 1..n : lines[i].section = s
        BY <1>2 DEF Opened
  <2>2. i \in DOMAIN lines
        BY LenProperties
  <2> QED BY <2>1, <2>2 DEF WellFormed
<1>3. CASE n = 0
  <2>1. x = Unread /\ x.current = BlankModule /\ x.current.id = NoName
        BY <1>3 DEF Halfway, Unread, BlankModule
  <2>2. SectionChanged(x) = x
        BY <2>1 DEF SectionChanged
  <2> QED BY <2>1, <2>2 DEF Halfway
<1>4. CASE n # 0
  <2> DEFINE m == x.current
             list == x.modules
             suits == ConstraintsCheck(m.os, OsVersion)
             out == IF suits THEN Append(list, m) ELSE list
  <2>1. /\ m.id = lines[n].section /\ Described(m, lines, n) /\ Listed(list, lines, n, m.id)
        /\ n \in 1..n /\ Opened(lines, n, m.id)
        BY <1>4 DEF Halfway, Opened
  <2>2. m.id # NoName
        BY <1>2, <2>1
  <2>3. SectionChanged(x) = [current |-> BlankModule, modules |-> out]
        BY <2>2 DEF SectionChanged
  <2>4. suits <=> Suits(lines, n, m.id)
    <3>1. CASE \E v : SaidBy(lines, n, m.id, "os_version", v)
      <4>1. \A v : SaidBy(lines, n, m.id, "os_version", v) => m.os = ConstraintsParse(v)
            BY <2>1 DEF Described
      <4> QED BY <3>1, <4>1 DEF Suits
    <3>2. CASE \A v : ~SaidBy(lines, n, m.id, "os_version", v)
      <4>1. m.os = <<>>
            BY <2>1, <3>2 DEF Described
      <4>2. suits
            BY <4>1 DEF ConstraintsCheck
      <4> HIDE DEF suits
      <4> QED BY <3>2, <4>2 DEF Suits
    <3> QED BY <3>1, <3>2
  <2> HIDE DEF m, list, suits
  <2>5. CASE ~suits
    <3>1. out = list
          BY <2>5
    <3>2. \A s : (\E i \in DOMAIN list : list[i].id = s) <=>
                    s # NoName /\ Opened(lines, n, s) /\ Suits(lines, n, s)
          BY <1>2, <2>1, <2>4, <2>5 DEF Listed
    <3> QED BY <2>1, <2>3, <3>1, <3>2 DEF Listed
  <2>6. CASE suits
    <3>1. out = Append(list, m) /\ Len(list) \in Nat
          BY <1>1, <2>6, LenProperties DEF list
    <3>2. /\ DOMAIN out = DOMAIN list \cup {Len(list) + 1} /\ out[Len(list) + 1] = m
          /\ \A i \in DOMAIN list : out[i] = list[i]
          BY <1>1, <3>1, AppendProperties, LenProperties DEF list, m
    <3> HIDE DEF out
    <3>3. \A i \in DOMAIN out : Described(out[i], lines, n)
          BY <2>1, <3>2 DEF Listed
    <3>4. ASSUME NEW s PROVE (\E i \in DOMAIN out : out[i].id = s) <=>
                    s # NoName /\ Opened(lines, n, s) /\ Suits(lines, n, s)
      <4>1. (\E i \in DOMAIN out : out[i].id = s) <=> (\E i \in DOMAIN list : list[i].id = s) \/ s = m.id
            BY <3>2
      <4> QED BY <1>2, <2>1, <2>4, <2>6, <4>1 DEF Listed
    <3>5. Distinct(out)
      <4>1. Distinct(list) /\ \A i \in DOMAIN list : list[i].id # m.id
            BY <2>1 DEF Listed
      <4> QED BY <3>2, <4>1 DEF Distinct
    <3> QED BY <2>3, <3>3, <3>4, <3>5 DEF Listed
  <2> QED BY <2>5, <2>6
<1> QED BY <1>3, <1>4

LEMMA ListParseIs == ASSUME NEW value PROVE ListParse({}, value) = Items(value)
<1> DEFINE items == {value[j] : j \in DOMAIN value} \ {","}
<1>1. ListParse({}, value) = IF items = {} THEN {} ELSE items
      BY Zenon DEF ListParse
<1>2. Items(value) = items
      BY Zenon DEF Items
<1> HIDE DEF items
<1> QED BY <1>1, <1>2

\* each line tells the module of its section what it says, once
LEMMA ToldDescribed ==
  ASSUME NEW lines \in Seq(Line), WellFormed(lines), NEW n \in Nat, n + 1 \in 1..Len(lines),
         NEW m \in Module(lines), m.id = lines[n + 1].section, Described(m, lines, n)
  PROVE  LET t == Told(m, lines[n + 1].name, lines[n + 1].value)
         IN  t.id = m.id /\ Described(t, lines, n + 1)
<1> DEFINE name == lines[n + 1].name
           v == lines[n + 1].value
           t == Told(m, name, v)
           s == m.id
<1>1. 1..n + 1 = (1..n) \cup {n + 1} /\ v \in Seq(STRING) /\ n + 1 \in DOMAIN lines
      BY LineTyped
<1>2. \A i \in 1..n : lines[i].section = s => lines[i].name # name
  <2>1. ASSUME NEW i \in 1..n PROVE i \in DOMAIN lines /\ i < n + 1
        BY LenProperties
  <2> QED BY <1>1, <2>1 DEF WellFormed
<1>3. name \in {"group", "audio", "video"} => Len(v) = 1
      BY <1>1 DEF WellFormed
<1>4. Len(v) = 1 => v = <<v[1]>> /\ v[1] \in STRING
      BY <1>1
<1> DEFINE Holds(k, what, w) == SaidBy(lines, k, s, what, w)
<1>5. \A what, w : Holds(n + 1, what, w) <=> Holds(n, what, w) \/ (what = name /\ w = v)
      BY <1>1 DEF SaidBy
<1>6. \A w : ~Holds(n, name, w)
      BY <1>2 DEF SaidBy
<1>7. /\ m.video <=> Holds(n, "video", <<"true">>)
      /\ m.audio <=> Holds(n, "audio", <<"true">>)
      BY Zenon DEF Described
<1> DEFINE Gives(k, what, field, Read(_), blank) ==
              /\ \A w : Holds(k, what, w) => field = Read(w)
              /\ (\A w : ~Holds(k, what, w)) => field = blank
           Initial(w) == w[1]
<1>8. /\ Gives(n, "group", m.group, Initial, NoName)
      /\ Gives(n, "weight", m.weight, Weight, 0)
      /\ Gives(n, "conflicts", m.conflicts, Items, {})
      /\ Gives(n, "os_version", m.os, ConstraintsParse, <<>>)
      BY Zenon DEF Described
<1>9. name = "conflicts" => m.conflicts = {}
  <2> HIDE DEF Holds, name
  <2> QED BY <1>6, <1>8
<1>10. name = "conflicts" => ListParse(m.conflicts, v) = Items(v)
  <2> HIDE DEF v, name
  <2> QED BY <1>9, ListParseIs
<1>11. /\ t.id = s
       /\ t.group = IF name = "group" THEN v[1] ELSE m.group
       /\ t.weight = IF name = "weight" THEN Weight(v) ELSE m.weight
       /\ t.video <=> IF name = "video" THEN v[1] = "true" ELSE m.video
       /\ t.audio <=> IF name = "audio" THEN v[1] = "true" ELSE m.audio
       /\ t.os = IF name = "os_version" THEN ConstraintsParse(v) ELSE m.os
       /\ t.conflicts = IF name = "conflicts" THEN ListParse(m.conflicts, v) ELSE m.conflicts
  <2> HIDE DEF name, v
  <2> QED BY DEF Told, Module
<1> HIDE DEF t, Holds, s
<1>12. t.video <=> Holds(n + 1, "video", <<"true">>)
       BY <1>3, <1>4, <1>5, <1>6, <1>7, <1>11
<1>13. t.audio <=> Holds(n + 1, "audio", <<"true">>)
       BY <1>3, <1>4, <1>5, <1>6, <1>7, <1>11
<1> HIDE DEF name, v
<1>14. Gives(n + 1, "group", t.group, Initial, NoName)
       BY <1>5, <1>6, <1>8, <1>11
<1>15. Gives(n + 1, "weight", t.weight, Weight, 0)
       BY <1>5, <1>6, <1>8, <1>11
<1>16. Gives(n + 1, "conflicts", t.conflicts, Items, {})
       BY <1>5, <1>6, <1>8, <1>10, <1>11
<1>17. Gives(n + 1, "os_version", t.os, ConstraintsParse, <<>>)
       BY <1>5, <1>6, <1>8, <1>11
<1>18. Described(t, lines, n + 1)
       BY Zenon, <1>11, <1>12, <1>13, <1>14, <1>15, <1>16, <1>17 DEF Described, Holds
<1> QED BY <1>11, <1>18 DEF t, s, name, v

LEMMA BlankDescribed ==
  ASSUME NEW lines, NEW n, NEW s, ~Opened(lines, n, s)
  PROVE  LET m == [BlankModule EXCEPT !.id = s]
         IN  m.id = s /\ Described(m, lines, n)
<1> DEFINE m == [BlankModule EXCEPT !.id = s]
<1>1. /\ m.id = s /\ m.group = NoName /\ m.video = FALSE /\ m.audio = FALSE
      /\ m.weight = 0 /\ m.conflicts = {} /\ m.os = <<>>
      BY Zenon DEF BlankModule
<1>2. \A name, v : ~SaidBy(lines, n, s, name, v)
      BY DEF Opened, SaidBy
<1> HIDE DEF m
<1>3. Described(m, lines, n)
      BY <1>1, <1>2 DEF Described
<1> QED BY <1>1, <1>3 DEF m

LEMMA LineRead ==
  ASSUME NEW lines \in Seq(Line), WellFormed(lines), NEW n \in Nat, n + 1 \in 1..Len(lines),
         NEW x \in Reading(lines), Halfway(x, lines, n)
  PROVE  Halfway(IniHandler(x, lines[n + 1]), lines, n + 1)
<1> DEFINE line == lines[n + 1]
           s == line.section
           y == Entered(x, s)
           z == SectionChanged(x)
<1>1. line \in Line /\ s \in STRING /\ n + 1 \in DOMAIN lines
      BY LineTyped
<1>2. y \in Reading(lines)
      BY <1>1, EnteredTyped
<1>3. ASSUME NEW i \in 1..n
      PROVE  /\ lines[i].section # NoName
             /\ lines[i].section = s => lines[n].section = s
  <2>1. i \in DOMAIN lines /\ n \in DOMAIN lines /\ n \in i..n + 1 /\ i < n + 1
        BY LenProperties
  <2> QED BY <1>1, <2>1 DEF WellFormed
<1>4. s # NoName
      BY <1>1 DEF WellFormed
<1>5. y.current.id = s /\ Described(y.current, lines, n) /\ Listed(y.modules, lines, n, s)
  <2>1. CASE s = x.current.id
    <3>1. y = x
          BY <2>1 DEF Entered
    <3>2. n # 0
          BY <1>4, <2>1 DEF Halfway, Unread, BlankModule
    <3> HIDE DEF y, s
    <3> QED BY <2>1, <3>1, <3>2 DEF Halfway
  <2>2. CASE s # x.current.id
    <3>1. /\ z \in Reading(lines) /\ z.current = BlankModule
          /\ Listed(z.modules, lines, n, NoName)
          BY SectionChangedTyped, Closed
    <3>2. y = [z EXCEPT !.current = [z.current EXCEPT !.id = s]]
          BY <2>2 DEF Entered
    <3> HIDE DEF s, y, z
    <3>3. y.current = [BlankModule EXCEPT !.id = s] /\ y.modules = z.modules
          BY <3>1, <3>2 DEF Reading
    <3>4. ~Opened(lines, n, s)
      <4>1. ASSUME n # 0 PROVE x.current.id = lines[n].section
            BY <4>1 DEF Halfway
      <4>2. \A i \in 1..n : lines[i].section # s
            BY <1>3, <2>2, <4>1
      <4> QED BY <4>2 DEF Opened
    <3>5. \A t : Opened(lines, n, t) => t # s /\ t # NoName
          BY <1>3, <3>4 DEF Opened
    <3>6. Listed(z.modules, lines, n, s)
          BY <3>1, <3>5 DEF Listed
    <3> QED BY <3>3, <3>4, <3>6, BlankDescribed
  <2> QED BY <2>1, <2>2
<1> DEFINE t == Told(y.current, line.name, line.value)
           w == IniHandler(x, line)
<1>6. w = [y EXCEPT !.current = t]
      BY DEF IniHandler
<1> HIDE DEF y, z
<1>7. t.id = s /\ Described(t, lines, n + 1)
  <2>1. y.current \in Module(lines)
        BY <1>2 DEF Reading
  <2> QED BY <1>5, <2>1, ToldDescribed
<1>8. Listed(y.modules, lines, n + 1, s)
      BY <1>5, ListedOn
<1> HIDE DEF t
<1>9. w.current = t /\ w.modules = y.modules
      BY <1>2, <1>6 DEF Reading
<1> HIDE DEF w
<1>10. Halfway(w, lines, n + 1)
       BY <1>7, <1>8, <1>9 DEF Halfway
<1> QED BY <1>10 DEF w

LEMMA ReadTrue ==
  ASSUME NEW lines \in Seq(Line), WellFormed(lines)
  PROVE  Listed(ReadFile(lines), lines, Len(lines), NoName)
<1> DEFINE N == Len(lines)
<1>1. PICK f : /\ ReadFile(lines) = SectionChanged(f[N]).modules
               /\ f[0] = Unread
               /\ \A n \in 0..N : f[n] \in Reading(lines)
               /\ \A n \in 1..N : f[n] = IniHandler(f[n - 1], lines[n])
      BY ReadBy
<1>2. N \in Nat
      BY LenProperties
<1> DEFINE T == {n \in Nat : n <= N => Halfway(f[n], lines, n)}
<1>3. 0 \in T
  <2>1. Listed(<<>>, lines, 0, NoName)
        BY DEF Listed, Opened, Distinct
  <2>2. Halfway(Unread, lines, 0)
        BY <2>1 DEF Halfway, Unread, BlankModule
  <2> QED BY <1>1, <2>2
<1>4. ASSUME NEW n \in Nat, n \in T PROVE n + 1 \in T
  <2>1. SUFFICES ASSUME n + 1 <= N PROVE Halfway(f[n + 1], lines, n + 1)
        OBVIOUS
  <2>2. n + 1 \in 1..N /\ n \in 0..N /\ (n + 1) - 1 = n
        BY <1>2, <2>1
  <2>3. f[n + 1] = IniHandler(f[n], lines[n + 1]) /\ f[n] \in Reading(lines)
        BY <1>1, <2>2
  <2>4. Halfway(f[n], lines, n)
        BY <1>4, <2>2
  <2> QED BY <2>2, <2>3, <2>4, LineRead
<1> HIDE DEF T
<1>5. N \in T
      BY <1>2, <1>3, <1>4, AllOf
<1>6. Halfway(f[N], lines, N) /\ f[N] \in Reading(lines) /\ N \in 0..N
      BY <1>1, <1>2, <1>5 DEF T
<1> QED BY <1>1, <1>6, Closed

\* sorting moves the modules, and puts none after one that it comes after
LEMMA SortedIs ==
  ASSUME NEW M, NEW list \in Seq(M), NEW s \in Sorted(list)
  PROVE  /\ s \in Seq(M) /\ Len(s) = Len(list)
         /\ \A i \in DOMAIN s : \E j \in DOMAIN list : s[i] = list[j]
         /\ \A j \in DOMAIN list : \E i \in DOMAIN s : s[i] = list[j]
         /\ \A i, j \in DOMAIN s : i < j => ~ComesAfter(s[i], s[j])
         /\ Distinct(list) => Distinct(s)
<1> DEFINE D == DOMAIN list
<1>1. D = 1..Len(list) /\ Len(list) \in Nat /\ \A i \in D : list[i] \in M
      BY LenProperties, ElementOfSeq
<1>2. PICK p \in Bijection(D, D) :
         /\ s = [i \in D |-> list[p[i]]]
         /\ \A i, j \in D : i < j => ~ComesAfter(list[p[i]], list[p[j]])
      BY DEF Sorted
<1>3. p \in [D -> D] /\ \A j \in D : \E i \in D : p[i] = j
      BY DEF Bijection, Surjection
<1> HIDE DEF D
<1>4. DOMAIN s = D /\ \A i \in D : s[i] = list[p[i]] /\ p[i] \in D
      BY <1>2, <1>3
<1>5. s \in [1..Len(list) -> M]
      BY <1>1, <1>2, <1>3
<1>6. s \in Seq(M) /\ Len(s) = Len(list)
      BY <1>1, <1>5
<1>7. \A i, j \in D : p[i] = p[j] => i = j
      BY Zenon DEF Bijection, Injection, IsInjective
<1>8. Distinct(list) => Distinct(s)
  <2> SUFFICES ASSUME Distinct(list), NEW i \in DOMAIN s, NEW j \in DOMAIN s, s[i].id = s[j].id
               PROVE  i = j
      BY Zenon DEF Distinct
  <2>1. i \in D /\ j \in D /\ p[i] \in D /\ p[j] \in D /\ list[p[i]].id = list[p[j]].id
        BY <1>4
  <2>2. p[i] = p[j]
        BY <2>1 DEF Distinct, D
  <2> QED BY <1>7, <2>1, <2>2
<1> QED BY <1>2, <1>3, <1>4, <1>6, <1>8 DEF D

LEMMA FirstIs ==
  ASSUME NEW M, modules \in Seq(M), NEW S \in SUBSET DOMAIN modules
  PROVE  /\ First(S) = 0 => S = {}
         /\ First(S) # 0 => First(S) \in S /\ \A i \in S : First(S) <= i
<1> DEFINE n == Len(modules) + 1
<1>1. n \in Nat \ {0} /\ DOMAIN modules = 1..n - 1
      BY LenProperties
<1> HIDE DEF n
<1>2. S \cup {n} \in SUBSET Nat /\ S \cup {n} # {}
      BY <1>1
<1> DEFINE m == Min(S \cup {n})
<1>3. m \in S \cup {n} /\ \A i \in S \cup {n} : m <= i
      BY <1>2, LeastOf
<1>4. First(S) = m % n
      BY DEF First, n
<1> HIDE DEF m
<1>5. CASE S = {}
  <2>1. m % n = 0
        BY <1>1, <1>3, <1>5
  <2> QED BY <1>4, <1>5, <2>1
<1>6. CASE S # {}
  <2>1. m \in S
        BY <1>1, <1>3, <1>6
  <2>2. m \in 1..n - 1
        BY <1>1, <2>1
  <2>3. m % n = m
        BY <1>1, <2>2
  <2> QED BY <1>3, <1>4, <2>1, <2>2, <2>3
<1> QED BY <1>5, <1>6

-----------------------------------------------------------------------------
(* Ss4sModules: the inductive invariant, and the choices                    *)

\* the list is that of the file, sorted, nothing was asked of a list that is not
\* there, and what the last call has selected is what it should
ListInv ==
    /\ file \in Seq(Line) /\ (file # <<>> => file \in Files)
    /\ modules \in Sorted(ReadFile(file))
    /\ file = <<>> => call = NoCall
    /\ SelectionSound
    /\ HeaviestVideo

LEMMA NothingRead == <<>> \in Sorted(ReadFile(<<>>))
<1>1. <<>> \in Seq(Line) /\ Len(<<>>) = 0
      BY EmptySeq
<1>2. ReadFile(<<>>) = SectionChanged(Unread).modules
      BY <1>1, ReadBy
<1>3. ReadFile(<<>>) = <<>>
      BY <1>2 DEF SectionChanged, Unread, BlankModule
<1>4. DOMAIN <<>> = {}
      OBVIOUS
<1> DEFINE p == [i \in {} |-> i]
<1>5. p \in Bijection({}, {})
      BY DEF Bijection, Injection, Surjection, IsInjective
<1>6. <<>> = [i \in {} |-> <<>>[p[i]]]
      OBVIOUS
<1> HIDE DEF p
<1> QED BY <1>3, <1>4, <1>5, <1>6 DEF Sorted

\* what VideoChoice and AudioChoice return
LEMMA VideoChosen ==
  ASSUME NEW M, modules \in Seq(M), NEW c
  PROVE  LET v == VideoChoice(c)
         IN  /\ v # 0 => v \in DOMAIN modules /\ CanVideo(c, v)
             /\ \A i \in DOMAIN modules : CanVideo(c, i) =>
                   v # 0 /\ (v <= i \/ c.video \in {modules[v].id, modules[v].group})
<1> DEFINE v == VideoChoice(c)
           named == ById(c.video)
           wanted == IF c.video = AutoId THEN 0 ELSE named
           able == {i \in DOMAIN modules : CanVideo(c, i)}
<1>1. named # 0 => named \in DOMAIN modules /\ c.video \in {modules[named].id, modules[named].group}
  <2> DEFINE S == {i \in DOMAIN modules : c.video \in {modules[i].id, modules[i].group}}
  <2>1. S \in SUBSET DOMAIN modules
        OBVIOUS
  <2>2. named = First(S)
        BY DEF ById
  <2> HIDE DEF S, named
  <2>3. named # 0 => named \in S
        BY <2>1, <2>2, FirstIs
  <2> QED BY <2>3 DEF S
<1>2. /\ First(able) = 0 => able = {}
      /\ First(able) # 0 => First(able) \in able /\ \A i \in able : First(able) <= i
  <2>1. able \in SUBSET DOMAIN modules
        OBVIOUS
  <2> HIDE DEF able
  <2> QED BY <2>1, FirstIs
<1>3. v = IF wanted # 0 /\ CanVideo(c, wanted) THEN wanted ELSE First(able)
      BY DEF VideoChoice
<1> HIDE DEF named, v
<1>4. CASE wanted # 0 /\ CanVideo(c, wanted)
  <2>1. v = wanted /\ wanted = named
        BY <1>3, <1>4
  <2> QED BY <1>1, <1>4, <2>1 DEF v
<1>5. CASE ~(wanted # 0 /\ CanVideo(c, wanted))
  <2>1. v = First(able)
        BY <1>3, <1>5
  <2> HIDE DEF wanted
  <2>2. v # 0 => v \in able /\ \A i \in able : v <= i
        BY <1>2, <2>1
  <2>3. v = 0 => able = {}
        BY <1>2, <2>1
  <2> QED BY <2>2, <2>3 DEF v
<1> QED BY <1>4, <1>5

LEMMA AudioChosen ==
  ASSUME NEW M, modules \in Seq(M), NEW c, NEW v
  PROVE  LET a == AudioChoice(c, v)
         IN  a # 0 => \/ a = v /\ "audio" \in VideoFlags(c, v)
                      \/ a \in DOMAIN modules /\ WantedAudio(c, v, a)
                      \/ a \in DOMAIN modules /\ OtherAudio(c, v, a)
<1> DEFINE a == AudioChoice(c, v)
           named == ById(c.audio)
           wanted == IF c.audio = AutoId THEN 0 ELSE named
           able == {i \in DOMAIN modules : OtherAudio(c, v, i)}
<1>1. named # 0 => named \in DOMAIN modules
  <2> DEFINE S == {i \in DOMAIN modules : c.audio \in {modules[i].id, modules[i].group}}
  <2>1. S \in SUBSET DOMAIN modules
        OBVIOUS
  <2>2. named = First(S)
        BY DEF ById
  <2> HIDE DEF S, named
  <2>3. named # 0 => named \in S
        BY <2>1, <2>2, FirstIs
  <2> QED BY <2>1, <2>3
<1>2. First(able) # 0 => First(able) \in able
  <2>1. able \in SUBSET DOMAIN modules
        OBVIOUS
  <2> HIDE DEF able
  <2> QED BY <2>1, FirstIs
<1>3. a = IF v # 0 /\ "audio" \in VideoFlags(c, v) THEN v
          ELSE IF wanted # 0 /\ WantedAudio(c, v, wanted) THEN wanted ELSE First(able)
      BY DEF AudioChoice
<1> HIDE DEF a, named
<1>4. CASE v # 0 /\ "audio" \in VideoFlags(c, v)
      BY <1>3, <1>4 DEF a
<1>5. CASE ~(v # 0 /\ "audio" \in VideoFlags(c, v)) /\ wanted # 0 /\ WantedAudio(c, v, wanted)
  <2>1. a = wanted /\ wanted = named
        BY <1>3, <1>5
  <2> QED BY <1>1, <1>5, <2>1 DEF a
<1>6. CASE ~(v # 0 /\ "audio" \in VideoFlags(c, v)) /\ ~(wanted # 0 /\ WantedAudio(c, v, wanted))
  <2>1. a = First(able)
        BY <1>3, <1>6
  <2>2. a # 0 => a \in able
        BY <1>2, <2>1
  <2> QED BY <2>2 DEF a
<1> QED BY <1>4, <1>5, <1>6

LEMMA SelectKeeps == ASSUME ListInv, NEW c \in Calls, ModulesSelect(c) PROVE ListInv'
<1> DEFINE v == VideoChoice(c)
           a == AudioChoice(c, v)
           M == Module(file)
<1>1. /\ file # <<>> /\ call' = c /\ selection' = [video |-> v, audio |-> a]
      /\ UNCHANGED <<modules, file>>
      BY DEF ModulesSelect
<1>2. /\ modules \in Seq(M)
      /\ \A i, j \in DOMAIN modules : i < j => ~ComesAfter(modules[i], modules[j])
  <2>1. ReadFile(file) \in Seq(M)
        BY ReadTyped DEF ListInv
  <2> HIDE DEF M
  <2> QED BY <2>1, SortedIs DEF ListInv
<1>3. DOMAIN modules = 1..Len(modules) /\ Len(modules) \in Nat /\ \A i \in DOMAIN modules : modules[i] \in M
      BY <1>2, LenProperties, ElementOfSeq
<1>4. /\ v # 0 => v \in DOMAIN modules /\ CanVideo(c, v)
      /\ \A i \in DOMAIN modules : CanVideo(c, i) =>
            v # 0 /\ (v <= i \/ c.video \in {modules[v].id, modules[v].group})
  <2> HIDE DEF M
  <2> QED BY <1>2, VideoChosen
<1>5. a # 0 => \/ a = v /\ "audio" \in VideoFlags(c, v)
               \/ a \in DOMAIN modules /\ WantedAudio(c, v, a)
               \/ a \in DOMAIN modules /\ OtherAudio(c, v, a)
  <2> HIDE DEF M, v
  <2> QED BY <1>2, AudioChosen
<1> HIDE DEF v, a, M
<1>6. SelectionSound'
  <2> SUFFICES ASSUME c.check
               PROVE  /\ v # 0 => modules[v].video /\ "video" \in c.probe[modules[v].id]
                      /\ a # 0 => modules[a].audio /\ "audio" \in c.probe[modules[a].id]
                      /\ v # 0 /\ a # 0 /\ v # a => ~Conflicts(modules[v], modules[a])
    <3>1. \A m, n : ~Conflicts(m, n) => /\ n.id \notin m.conflicts /\ n.group \notin m.conflicts
                                        /\ m.id \notin n.conflicts /\ m.group \notin n.conflicts
          BY DEF Conflicts
    <3> QED BY <1>1, <3>1 DEF SelectionSound
  <2>1. ASSUME v # 0 PROVE modules[v].video /\ "video" \in c.probe[modules[v].id]
        BY <1>4, <2>1 DEF CanVideo, VideoFlags, Granted
  <2>2. ASSUME a # 0
        PROVE  /\ modules[a].audio /\ "audio" \in c.probe[modules[a].id]
               /\ v # 0 /\ v # a => ~Conflicts(modules[v], modules[a])
    <3>1. CASE a = v /\ "audio" \in VideoFlags(c, v)
          BY <3>1 DEF VideoFlags, Granted
    <3>2. CASE WantedAudio(c, v, a)
          BY <3>2 DEF WantedAudio, Granted
    <3>3. CASE OtherAudio(c, v, a)
          BY <3>3 DEF OtherAudio, Granted
    <3> QED BY <1>5, <2>2, <3>1, <3>2, <3>3
  <2> QED BY <2>1, <2>2
<1>7. HeaviestVideo'
  <2> SUFFICES ASSUME NEW i \in DOMAIN modules, modules[i].video,
                      c.check => "video" \in c.probe[modules[i].id]
               PROVE  /\ v # 0
                      /\ \/ modules[v].weight >= modules[i].weight
                         \/ c.video \in {modules[v].id, modules[v].group}
        BY <1>1 DEF HeaviestVideo
  <2>1. CanVideo(c, i)
        BY DEF CanVideo, VideoFlags, Granted
  <2>2. v # 0 /\ v \in DOMAIN modules /\ (v <= i \/ c.video \in {modules[v].id, modules[v].group})
        BY <1>4, <2>1
  <2>3. modules[v].weight \in Int /\ modules[i].weight \in Int
        BY <1>3, <2>2 DEF M, Module
  <2>4. ASSUME v < i PROVE modules[v].weight >= modules[i].weight
        BY <1>2, <2>2, <2>3, <2>4 DEF ComesAfter
  <2>5. ASSUME v = i PROVE modules[v].weight >= modules[i].weight
        BY <2>3, <2>5
  <2>6. v <= i => v < i \/ v = i
        BY <1>3, <2>2
  <2> QED BY <2>2, <2>4, <2>5, <2>6
<1> QED BY <1>1, <1>6, <1>7 DEF ListInv

\* Reading a file, sorting the list and choosing from it keep the list one that a
\* file can give and the selection one of its modules.
THEOREM ListInvariance == Ss4sSpec => []ListInv
<1>1. NoCall.check = FALSE
      BY DEF NoCall
<1>2. Ss4sInit => ListInv
  <2>1. <<>> \in Seq(Line)
        BY EmptySeq
  <2> QED BY <1>1, <2>1, NothingRead DEF Ss4sInit, ListInv, SelectionSound, HeaviestVideo
<1>3. ASSUME ListInv, [Ss4sNext]_ss4sVars PROVE ListInv'
  <2>1. ASSUME NEW lines \in Files, ModulesList(lines) PROVE ListInv'
    <3>1. lines \in Seq(Line)
          BY FilesAssumption
    <3>2. call' = NoCall
          BY <1>3, <2>1 DEF ModulesList, ListInv
    <3>3. SelectionSound' /\ HeaviestVideo'
          BY <1>1, <3>2 DEF SelectionSound, HeaviestVideo
    <3> QED BY <2>1, <3>1, <3>2, <3>3 DEF ModulesList, ListInv
  <2>2. ASSUME NEW c \in Calls, ModulesSelect(c) PROVE ListInv'
        BY <1>3, <2>2, SelectKeeps
  <2>3. CASE ModulesListClear
    <3>1. <<>> \in Seq(Line)
          BY EmptySeq
    <3>2. call' = NoCall
          BY <2>3 DEF ModulesListClear
    <3>3. SelectionSound' /\ HeaviestVideo'
          BY <1>1, <3>2 DEF SelectionSound, HeaviestVideo
    <3> QED BY <2>3, <3>1, <3>2, <3>3, NothingRead DEF ModulesListClear, ListInv
  <2>4. CASE UNCHANGED ss4sVars
        BY <1>3, <2>4 DEF ss4sVars, ListInv, SelectionSound, HeaviestVideo
  <2> QED BY <1>3, <2>1, <2>2, <2>3, <2>4 DEF Ss4sNext
<1> QED BY <1>2, <1>3, PTL DEF Ss4sSpec

\* Every field of a module in the list, its weight, group and conflicts included,
\* is what the module's own section says in the file, or is blank if that says
\* nothing, and each section that the system satisfies has its module in the list
\* once: for files of any length that name each module in one place.
THEOREM ListTrueToFileSafe ==
  ASSUME \A lines \in Files : WellFormed(lines)
  PROVE  Ss4sSpec => []ListTrueToFile
<1>1. ASSUME ListInv PROVE ListTrueToFile
  <2> DEFINE list == ReadFile(file)
             N == Len(file)
             M == Module(file)
  <2>1. file \in Seq(Line) /\ modules \in Sorted(list)
        BY <1>1 DEF ListInv
  <2>2. WellFormed(file)
    <3>1. CASE file = <<>>
          BY <3>1 DEF WellFormed
    <3>2. CASE file # <<>>
          BY <1>1, <3>2 DEF ListInv
    <3> QED BY <3>1, <3>2
  <2>3. Listed(list, file, N, NoName) /\ list \in Seq(M)
        BY <2>1, <2>2, ReadTrue, ReadTyped
  <2>4. N \in Nat /\ DOMAIN file = 1..N
        BY <2>1, LenProperties
  <2> HIDE DEF list, N, M
  <2>5. /\ \A i \in DOMAIN modules : \E j \in DOMAIN list : modules[i] = list[j]
        /\ \A j \in DOMAIN list : \E i \in DOMAIN modules : modules[i] = list[j]
        /\ Distinct(list) => Distinct(modules)
        BY <2>1, <2>3, SortedIs
  <2>6. ASSUME NEW s, NEW name
        PROVE  \A v : v \in Said(s, name) <=> SaidBy(file, N, s, name, v)
        BY <2>4 DEF Said, SaidBy
  <2>7. ASSUME NEW i \in DOMAIN modules PROVE AsItsSectionSays(modules[i])
    <3> DEFINE m == modules[i]
    <3>1. Described(m, file, N)
          BY <2>3, <2>5 DEF Listed
    <3> HIDE DEF m
    <3>2. /\ m.video <=> <<"true">> \in Said(m.id, "video")
          /\ m.audio <=> <<"true">> \in Said(m.id, "audio")
          BY <2>6, <3>1, Zenon DEF Described
    <3>3. \A name : /\ \A v \in Said(m.id, name) : SaidBy(file, N, m.id, name, v)
                    /\ Said(m.id, name) = {} => \A v : ~SaidBy(file, N, m.id, name, v)
          BY <2>6, Zenon
    <3>4. /\ \A v \in Said(m.id, "group") : m.group = v[1]
          /\ \A v \in Said(m.id, "weight") : m.weight = Weight(v)
          /\ \A v \in Said(m.id, "conflicts") : m.conflicts = Items(v)
          /\ \A v \in Said(m.id, "os_version") : m.os = ConstraintsParse(v)
          BY <3>1, <3>3, Zenon DEF Described
    <3>5. /\ Said(m.id, "group") = {} => m.group = NoName
          /\ Said(m.id, "weight") = {} => m.weight = 0
          /\ Said(m.id, "conflicts") = {} => m.conflicts = {}
          /\ Said(m.id, "os_version") = {} => m.os = <<>>
          BY <3>1, <3>3, Zenon DEF Described
    <3>6. AsItsSectionSays(m)
          BY <3>2, <3>4, <3>5, Zenon DEF AsItsSectionSays, Items
    <3> QED BY <3>6 DEF m
  <2> DEFINE unsuited == {l \in DOMAIN file : /\ file[l].name = "os_version"
                                             /\ ~ConstraintsCheck(ConstraintsParse(file[l].value), OsVersion)}
             ids == {modules[i].id : i \in DOMAIN modules}
             sections == {file[l].section : l \in DOMAIN file}
             refused == {file[l].section : l \in unsuited}
  <2>8. ASSUME NEW s PROVE s \in ids <=> s \in sections \ refused
    <3>1. s \in ids <=> \E j \in DOMAIN list : list[j].id = s
          BY <2>5
    <3>2. s \in sections <=> Opened(file, N, s)
          BY <2>4 DEF Opened
    <3>3. s \in refused <=> ~Suits(file, N, s)
          BY <2>4 DEF Suits, SaidBy
    <3>4. Opened(file, N, s) => s # NoName
          BY <2>2, <2>4 DEF Opened, WellFormed
    <3> HIDE DEF ids, sections, refused
    <3> QED BY <2>3, <3>1, <3>2, <3>3, <3>4 DEF Listed
  <2>9. ids = sections \ refused
    <3> HIDE DEF ids, sections, refused
    <3> QED BY <2>8
  <2>10. \A i, j \in DOMAIN modules : modules[i].id = modules[j].id => i = j
         BY <2>3, <2>5 DEF Listed, Distinct
  <2> QED BY <2>7, <2>9, <2>10 DEF ListTrueToFile
<1> QED BY <1>1, ListInvariance, PTL

\* Two selected modules never conflict and can do what they were selected for,
\* whatever the file says, the system answers and the call asks.
THEOREM SelectionSoundSafe == Ss4sSpec => []SelectionSound
<1>1. ListInv => SelectionSound
      BY DEF ListInv
<1> QED BY <1>1, ListInvariance, PTL

\* The video module is the heaviest that can show video, or one asked for by name.
THEOREM HeaviestVideoSafe == Ss4sSpec => []HeaviestVideo
<1>1. ListInv => HeaviestVideo
      BY DEF ListInv
<1> QED BY <1>1, ListInvariance, PTL

-----------------------------------------------------------------------------
(* version_info.c: what a constraint says                                   *)

Operands == {"=", "<>", "<", "<=", ">", ">="}
Version(parts) == {v \in Seq(parts) : Len(v) <= 3}

\* a full version that begins with a shorter one
LEMMA Completed ==
  ASSUME NEW parts, parts # {}, NEW v \in Version(parts)
  PROVE  /\ DOMAIN v = 1..Len(v) /\ Len(v) \in 0..3 /\ \A i \in DOMAIN v : v[i] \in parts
         /\ \E w : w \in Completions(v, parts)
<1>1. /\ DOMAIN v = 1..Len(v) /\ Len(v) \in 0..3 /\ \A i \in DOMAIN v : v[i] \in parts
  <2>1. v \in Seq(parts) /\ Len(v) <= 3
        BY DEF Version
  <2>2. DOMAIN v = 1..Len(v) /\ Len(v) \in Nat
        BY <2>1, LenProperties
  <2>3. \A i \in 1..Len(v) : v[i] \in parts
        BY <2>1, ElementOfSeq
  <2> QED BY <2>1, <2>2, <2>3
<1>2. PICK e : e \in parts
      OBVIOUS
<1> DEFINE w == [i \in 1..3 |-> IF i \in DOMAIN v THEN v[i] ELSE e]
<1>3. w \in [1..3 -> parts] /\ \A i \in DOMAIN v : w[i] = v[i]
      BY <1>1, <1>2
<1> HIDE DEF w
<1>4. w \in Completions(v, parts)
      BY <1>3 DEF Completions
<1> QED BY <1>1, <1>4

\* two versions that agree as far as both go stand for a common one
LEMMA Common ==
  ASSUME NEW parts, parts # {}, NEW a \in Version(parts), NEW b \in Version(parts),
         \A i \in DOMAIN a \cap DOMAIN b : a[i] = b[i]
  PROVE  \E w : w \in Completions(a, parts) \cap Completions(b, parts)
<1>1. /\ DOMAIN a \subseteq 1..3 /\ \A i \in DOMAIN a : a[i] \in parts
      /\ DOMAIN b \subseteq 1..3 /\ \A i \in DOMAIN b : b[i] \in parts
      BY Completed
<1>2. PICK e : e \in parts
      OBVIOUS
<1> DEFINE w == [i \in 1..3 |-> IF i \in DOMAIN a THEN a[i] ELSE IF i \in DOMAIN b THEN b[i] ELSE e]
<1>3. w \in [1..3 -> parts] /\ (\A i \in DOMAIN a : w[i] = a[i]) /\ \A i \in DOMAIN b : w[i] = b[i]
      BY <1>1, <1>2
<1> HIDE DEF w
<1>4. w \in Completions(a, parts) \cap Completions(b, parts)
      BY <1>3 DEF Completions
<1> QED BY <1>4

\* the first part in which they differ, of the parts that both have, decides
LEMMA Decided ==
  ASSUME NEW parts \in SUBSET Int, parts # {}, NEW a \in Version(parts), NEW b \in Version(parts),
         NEW m \in DOMAIN a \cap DOMAIN b, a[m] < b[m],
         \A i \in DOMAIN a \cap DOMAIN b : i < m => a[i] = b[i],
         NEW v \in Completions(a, parts), NEW w \in Completions(b, parts)
  PROVE  Below(v, w) /\ ~Below(w, v) /\ v # w
<1>1. /\ DOMAIN a = 1..Len(a) /\ Len(a) \in 0..3
      /\ DOMAIN b = 1..Len(b) /\ Len(b) \in 0..3
      BY Completed
<1>2. /\ v \in [1..3 -> parts] /\ \A i \in DOMAIN a : v[i] = a[i]
      /\ w \in [1..3 -> parts] /\ \A i \in DOMAIN b : w[i] = b[i]
      BY DEF Completions
<1>3. m \in 1..3 /\ v[m] < w[m]
      BY <1>1, <1>2
<1>4. ASSUME NEW j \in 1..m - 1 PROVE v[j] = w[j]
  <2>1. j \in DOMAIN a \cap DOMAIN b /\ j < m
        BY <1>1
  <2> QED BY <1>2, <2>1
<1>5. Below(v, w)
      BY <1>3, <1>4 DEF Below
<1>6. \A i \in 1..3 : v[i] \in Int /\ w[i] \in Int
      BY <1>2
<1>7. ~Below(w, v)
  <2> SUFFICES ASSUME NEW i \in 1..3, w[i] < v[i], \A j \in 1..i - 1 : w[j] = v[j] PROVE FALSE
      BY DEF Below
  <2>1. CASE i < m
    <3>1. i \in 1..m - 1
          BY <1>3, <2>1
    <3> QED BY <1>4, <1>6, <3>1
  <2>2. CASE m < i
    <3>1. m \in 1..i - 1
          BY <1>3, <2>2
    <3> QED BY <1>3, <1>6, <3>1
  <2>3. CASE i = m
        BY <1>3, <1>6, <2>3
  <2> QED BY <1>3, <2>1, <2>2, <2>3
<1> QED BY <1>3, <1>5, <1>6, <1>7

\* What version_constraint_check answers agrees with the full versions that the
\* two, perhaps shorter, stand for: <, > and <> hold if they do for all of these,
\* =, <= and >= if they do for some. The check stops at the first part that one of
\* the two does not have, whatever the numbers.
THEOREM ConstraintMeans ==
  ASSUME NEW parts \in SUBSET Int, parts # {},
         NEW a \in Version(parts), NEW b \in Version(parts), NEW op \in Operands
  PROVE  ConstraintCheck([operand |-> op, version |-> b], a) <=> Means(op, b, a, parts)
<1> DEFINE V == Completions(a, parts)
           B == Completions(b, parts)
           differ == {i \in DOMAIN a \cap DOMAIN b : a[i] # b[i]}
           diff == Compare(a, b)
           less == \A v \in V, w \in B : Below(v, w)
           more == \A v \in V, w \in B : Below(w, v)
<1>1. /\ DOMAIN a = 1..Len(a) /\ Len(a) \in 0..3 /\ \A i \in DOMAIN a : a[i] \in Int
      /\ DOMAIN b = 1..Len(b) /\ Len(b) \in 0..3 /\ \A i \in DOMAIN b : b[i] \in Int
      BY Completed
<1>2. V # {} /\ B # {}
      BY Completed
<1>3. diff \in Int /\ (diff < 0 <=> less) /\ (diff > 0 <=> more) /\ (diff = 0 <=> V \cap B # {})
  <2>1. CASE differ = {}
    <3>1. diff = 0
          BY <2>1 DEF Compare
    <3>2. PICK w : w \in V \cap B
          BY <2>1, Common
    <3>3. ~Below(w, w)
      <4>1. \A i \in 1..3 : w[i] \in Int
            BY <3>2 DEF Completions
      <4> QED BY <4>1 DEF Below
    <3> HIDE DEF V, B, diff
    <3> QED BY <3>1, <3>2, <3>3
  <2>2. CASE differ # {}
    <3> DEFINE m == Min(differ)
    <3>1. m \in differ /\ \A i \in differ : m <= i
      <4>1. differ \in SUBSET Nat
            BY <1>1
      <4> HIDE DEF differ
      <4> QED BY <2>2, <4>1, LeastOf
    <3>2. diff = a[m] - b[m]
          BY <2>2 DEF Compare
    <3>3. \A i \in DOMAIN a \cap DOMAIN b : i < m => a[i] = b[i]
      <4> HIDE DEF m
      <4>1. m \in Int
            BY <1>1, <3>1
      <4> QED BY <1>1, <3>1, <4>1
    <3> HIDE DEF m, diff, V, B
    <3>4. m \in DOMAIN a \cap DOMAIN b /\ a[m] # b[m] /\ a[m] \in Int /\ b[m] \in Int
          BY <1>1, <3>1
    <3>5. CASE a[m] < b[m]
      <4>1. \A v \in V, w \in B : Below(v, w) /\ ~Below(w, v) /\ v # w
            BY <3>3, <3>4, <3>5, Decided DEF V, B
      <4> QED BY <1>2, <3>2, <3>4, <3>5, <4>1
    <3>6. CASE b[m] < a[m]
      <4>1. \A v \in V, w \in B : Below(w, v) /\ ~Below(v, w) /\ v # w
            BY <3>3, <3>4, <3>6, Decided DEF V, B
      <4> QED BY <1>2, <3>2, <3>4, <3>6, <4>1
    <3> QED BY <3>4, <3>5, <3>6
  <2> QED BY <2>1, <2>2
<1> DEFINE c == [operand |-> op, version |-> b]
<1>4. c.operand = op /\ c.version = b
      OBVIOUS
<1> HIDE DEF V, B, diff, less, more, c
<1>5. ConstraintCheck(c, a) <=> \/ op = "="  /\ diff = 0
                                \/ op = "<>" /\ diff # 0
                                \/ op = ">"  /\ diff > 0
                                \/ op = ">=" /\ diff >= 0
                                \/ op = "<"  /\ diff < 0
                                \/ op = "<=" /\ diff <= 0
      BY <1>4 DEF ConstraintCheck, Operands, diff
<1>6. Means(op, b, a, parts) <=> \/ op = "="  /\ V \cap B # {}
                                 \/ op = "<>" /\ V \cap B = {}
                                 \/ op = ">"  /\ more
                                 \/ op = ">=" /\ ~less
                                 \/ op = "<"  /\ less
                                 \/ op = "<=" /\ ~more
      BY DEF Means, Operands, V, B, less, more
<1>7. /\ diff # 0 <=> V \cap B = {}
      /\ diff >= 0 <=> ~less
      /\ diff <= 0 <=> ~more
      BY <1>3
<1>8. ConstraintCheck(c, a) <=> Means(op, b, a, parts)
      BY <1>3, <1>5, <1>6, <1>7
<1> QED BY <1>8 DEF c

-----------------------------------------------------------------------------
(* sps_parser.c: the bytes of a stream                                      *)

LEMMA TakenBy ==
  ASSUME NEW S, NEW bytes \in Seq(S)
  PROVE  \E f : /\ Taken(bytes) = f[Len(bytes)] /\ f[0] = NoBytes
                /\ \A n \in 1..Len(bytes) : f[n] = TakeByte(f[n - 1], bytes[n])
<1> DEFINE N == Len(bytes)
           By(f, m) == [n \in 0..m |-> IF n = 0 THEN NoBytes ELSE TakeByte(f[n - 1], bytes[n])]
           T == {m \in Nat : \E f : f = By(f, m)}
           all == CHOOSE f : f = By(f, N)
<1>1. N \in Nat
      BY LenProperties
<1> HIDE DEF N
<1>2. 0 \in T
  <2>1. [n \in 0..0 |-> NoBytes] = By([n \in 0..0 |-> NoBytes], 0)
        OBVIOUS
  <2> QED BY <2>1
<1>3. ASSUME NEW m \in Nat, m \in T PROVE m + 1 \in T
  <2>1. PICK f : f = By(f, m)
        BY <1>3
  <2> DEFINE g == [n \in 0..m + 1 |-> IF n = m + 1 THEN TakeByte(f[m], bytes[m + 1]) ELSE f[n]]
  <2>2. \A n \in 0..m : f[n] = IF n = 0 THEN NoBytes ELSE TakeByte(f[n - 1], bytes[n])
        BY <2>1
  <2>3. ASSUME NEW n \in 0..m + 1
        PROVE  g[n] = IF n = 0 THEN NoBytes ELSE TakeByte(g[n - 1], bytes[n])
    <3>1. CASE n \in 0..m
      <4>1. g[n] = f[n] /\ (n # 0 => g[n - 1] = f[n - 1])
            BY <3>1
      <4> HIDE DEF g
      <4> QED BY <2>2, <3>1, <4>1
    <3>2. CASE n = m + 1
      <4>1. g[n] = TakeByte(f[m], bytes[n]) /\ g[n - 1] = f[m] /\ n # 0
            BY <3>2
      <4> QED BY <4>1
    <3> QED BY <3>1, <3>2
  <2>4. g = By(g, m + 1)
    <3>1. g = [n \in 0..m + 1 |-> g[n]]
          OBVIOUS
    <3> HIDE DEF g
    <3> QED BY <2>3, <3>1
  <2> HIDE DEF g, By
  <2> QED BY <2>4
<1> HIDE DEF T
<1>4. \A m \in Nat : m \in T
      BY <1>2, <1>3, AllOf
<1>5. all = By(all, N)
  <2> HIDE DEF By
  <2> QED BY <1>1, <1>4 DEF T
<1>6. Taken(bytes) = all[N]
      BY DEF Taken, N
<1> HIDE DEF all
<1>7. \A n \in 0..N : all[n] = IF n = 0 THEN NoBytes ELSE TakeByte(all[n - 1], bytes[n])
      BY <1>5
<1>8. all[0] = NoBytes /\ \A n \in 1..N : all[n] = TakeByte(all[n - 1], bytes[n])
      BY <1>1, <1>7
<1> QED BY <1>6, <1>8 DEF N

LEMMA TakenAppend ==
  ASSUME NEW S, NEW bytes \in Seq(S), NEW b \in S
  PROVE  Taken(<<>>) = NoBytes /\ Taken(Append(bytes, b)) = TakeByte(Taken(bytes), b)
<1> DEFINE t == Append(bytes, b)
<1>1. /\ t \in Seq(S) /\ Len(t) = Len(bytes) + 1 /\ Len(bytes) \in Nat
      /\ \A n \in 1..Len(bytes) : t[n] = bytes[n]
      /\ t[Len(bytes) + 1] = b
      BY AppendProperties, LenProperties
<1>2. PICK f : /\ Taken(bytes) = f[Len(bytes)] /\ f[0] = NoBytes
               /\ \A n \in 1..Len(bytes) : f[n] = TakeByte(f[n - 1], bytes[n])
      BY TakenBy
<1> HIDE DEF t
<1>3. PICK g : /\ Taken(t) = g[Len(t)] /\ g[0] = NoBytes
               /\ \A n \in 1..Len(t) : g[n] = TakeByte(g[n - 1], t[n])
      BY <1>1, TakenBy
<1> DEFINE T == {n \in Nat : n <= Len(bytes) => f[n] = g[n]}
<1>4. 0 \in T
      BY <1>2, <1>3
<1>5. ASSUME NEW n \in Nat, n \in T PROVE n + 1 \in T
  <2>1. SUFFICES ASSUME n + 1 <= Len(bytes) PROVE f[n + 1] = g[n + 1]
        OBVIOUS
  <2>2. n + 1 \in 1..Len(bytes) /\ n + 1 \in 1..Len(t) /\ (n + 1) - 1 = n /\ f[n] = g[n]
        BY <1>1, <1>5, <2>1
  <2>3. f[n + 1] = TakeByte(f[n], bytes[n + 1]) /\ g[n + 1] = TakeByte(g[n], t[n + 1])
        BY <1>2, <1>3, <2>2
  <2> QED BY <1>1, <2>2, <2>3
<1> HIDE DEF T
<1>6. \A n \in Nat : n \in T
      BY <1>4, <1>5, AllOf
<1>7. f[Len(bytes)] = g[Len(bytes)]
      BY <1>1, <1>6 DEF T
<1>8. g[Len(t)] = TakeByte(g[Len(bytes)], b)
  <2>1. Len(t) \in 1..Len(t) /\ Len(t) - 1 = Len(bytes)
        BY <1>1
  <2> QED BY <1>1, <1>3, <2>1
<1>9. Taken(<<>>) = NoBytes
  <2>1. <<>> \in Seq(S) /\ Len(<<>>) = 0
        BY EmptySeq
  <2> QED BY <2>1, TakenBy
<1> QED BY <1>2, <1>3, <1>7, <1>8, <1>9 DEF t

LEMMA PutBy ==
  ASSUME NEW S, NEW bytes \in Seq(S)
  PROVE  \E f : /\ Put(bytes) = f[Len(bytes)] /\ f[0] = NoBytes
                /\ \A n \in 1..Len(bytes) : f[n] = PutByte(f[n - 1], bytes[n])
<1> DEFINE N == Len(bytes)
           By(f, m) == [n \in 0..m |-> IF n = 0 THEN NoBytes ELSE PutByte(f[n - 1], bytes[n])]
           T == {m \in Nat : \E f : f = By(f, m)}
           all == CHOOSE f : f = By(f, N)
<1>1. N \in Nat
      BY LenProperties
<1> HIDE DEF N
<1>2. 0 \in T
  <2>1. [n \in 0..0 |-> NoBytes] = By([n \in 0..0 |-> NoBytes], 0)
        OBVIOUS
  <2> QED BY <2>1
<1>3. ASSUME NEW m \in Nat, m \in T PROVE m + 1 \in T
  <2>1. PICK f : f = By(f, m)
        BY <1>3
  <2> DEFINE g == [n \in 0..m + 1 |-> IF n = m + 1 THEN PutByte(f[m], bytes[m + 1]) ELSE f[n]]
  <2>2. \A n \in 0..m : f[n] = IF n = 0 THEN NoBytes ELSE PutByte(f[n - 1], bytes[n])
        BY <2>1
  <2>3. ASSUME NEW n \in 0..m + 1
        PROVE  g[n] = IF n = 0 THEN NoBytes ELSE PutByte(g[n - 1], bytes[n])
    <3>1. CASE n \in 0..m
      <4>1. g[n] = f[n] /\ (n # 0 => g[n - 1] = f[n - 1])
            BY <3>1
      <4> HIDE DEF g
      <4> QED BY <2>2, <3>1, <4>1
    <3>2. CASE n = m + 1
      <4>1. g[n] = PutByte(f[m], bytes[n]) /\ g[n - 1] = f[m] /\ n # 0
            BY <3>2
      <4> QED BY <4>1
    <3> QED BY <3>1, <3>2
  <2>4. g = By(g, m + 1)
    <3>1. g = [n \in 0..m + 1 |-> g[n]]
          OBVIOUS
    <3> HIDE DEF g
    <3> QED BY <2>3, <3>1
  <2> HIDE DEF g, By
  <2> QED BY <2>4
<1> HIDE DEF T
<1>4. \A m \in Nat : m \in T
      BY <1>2, <1>3, AllOf
<1>5. all = By(all, N)
  <2> HIDE DEF By
  <2> QED BY <1>1, <1>4 DEF T
<1>6. Put(bytes) = all[N]
      BY DEF Put, N
<1> HIDE DEF all
<1>7. \A n \in 0..N : all[n] = IF n = 0 THEN NoBytes ELSE PutByte(all[n - 1], bytes[n])
      BY <1>5
<1>8. all[0] = NoBytes /\ \A n \in 1..N : all[n] = PutByte(all[n - 1], bytes[n])
      BY <1>1, <1>7
<1> QED BY <1>6, <1>8 DEF N

LEMMA PutAppend ==
  ASSUME NEW S, NEW bytes \in Seq(S), NEW b \in S
  PROVE  Put(<<>>) = NoBytes /\ Put(Append(bytes, b)) = PutByte(Put(bytes), b)
<1> DEFINE t == Append(bytes, b)
<1>1. /\ t \in Seq(S) /\ Len(t) = Len(bytes) + 1 /\ Len(bytes) \in Nat
      /\ \A n \in 1..Len(bytes) : t[n] = bytes[n]
      /\ t[Len(bytes) + 1] = b
      BY AppendProperties, LenProperties
<1>2. PICK f : /\ Put(bytes) = f[Len(bytes)] /\ f[0] = NoBytes
               /\ \A n \in 1..Len(bytes) : f[n] = PutByte(f[n - 1], bytes[n])
      BY PutBy
<1> HIDE DEF t
<1>3. PICK g : /\ Put(t) = g[Len(t)] /\ g[0] = NoBytes
               /\ \A n \in 1..Len(t) : g[n] = PutByte(g[n - 1], t[n])
      BY <1>1, PutBy
<1> DEFINE T == {n \in Nat : n <= Len(bytes) => f[n] = g[n]}
<1>4. 0 \in T
      BY <1>2, <1>3
<1>5. ASSUME NEW n \in Nat, n \in T PROVE n + 1 \in T
  <2>1. SUFFICES ASSUME n + 1 <= Len(bytes) PROVE f[n + 1] = g[n + 1]
        OBVIOUS
  <2>2. n + 1 \in 1..Len(bytes) /\ n + 1 \in 1..Len(t) /\ (n + 1) - 1 = n /\ f[n] = g[n]
        BY <1>1, <1>5, <2>1
  <2>3. f[n + 1] = PutByte(f[n], bytes[n + 1]) /\ g[n + 1] = PutByte(g[n], t[n + 1])
        BY <1>2, <1>3, <2>2
  <2> QED BY <1>1, <2>2, <2>3
<1> HIDE DEF T
<1>6. \A n \in Nat : n \in T
      BY <1>4, <1>5, AllOf
<1>7. f[Len(bytes)] = g[Len(bytes)]
      BY <1>1, <1>6 DEF T
<1>8. g[Len(t)] = PutByte(g[Len(bytes)], b)
  <2>1. Len(t) \in 1..Len(t) /\ Len(t) - 1 = Len(bytes)
        BY <1>1
  <2> QED BY <1>1, <1>3, <2>1
<1>9. Put(<<>>) = NoBytes
  <2>1. <<>> \in Seq(S) /\ Len(<<>>) = 0
        BY EmptySeq
  <2> QED BY <2>1, PutBy
<1> QED BY <1>2, <1>3, <1>7, <1>8, <1>9 DEF t

\* What bitstream_read_bits takes of a stream is what the writer had before it put
\* in the emulation prevention bytes: for payloads of any length, zeroes and threes
\* in any order, also where a 3 of the payload follows one that was put in.
THEOREM EscapedIsTaken ==
  ASSUME NEW payload \in Seq(Byte)
  PROVE  Taken(Escape(payload)).out = payload
<1> DEFINE Same(s) == /\ Put(s).out \in Seq(Byte) /\ Put(s).zeroes \in 0..2
                      /\ Taken(Put(s).out) = [out |-> s, zeroes |-> Put(s).zeroes]
           T == {s \in Seq(Byte) : Same(s)}
<1>1. <<>> \in T
  <2>1. <<>> \in Seq(Byte)
        BY EmptySeq
  <2>2. 0 \in Byte
        BY DEF Byte
  <2>3. Put(<<>>) = NoBytes /\ Taken(<<>>) = NoBytes
        BY <2>1, <2>2, PutAppend, TakenAppend
  <2> DEFINE e == Put(<<>>)
             r == Taken(<<>>)
  <2>4. e = [out |-> <<>>, zeroes |-> 0] /\ r = [out |-> <<>>, zeroes |-> 0]
        BY <2>3 DEF NoBytes
  <2> HIDE DEF e, r
  <2>5. e.out = <<>> /\ e.zeroes = 0
        BY <2>4
  <2>6. Taken(e.out) = [out |-> <<>>, zeroes |-> e.zeroes]
        BY <2>4, <2>5 DEF r
  <2>7. e.out \in Seq(Byte) /\ e.zeroes \in 0..2
        BY <2>1, <2>5
  <2> QED BY <2>1, <2>6, <2>7 DEF e
<1>2. ASSUME NEW s \in Seq(Byte), NEW b \in Byte, s \in T PROVE Append(s, b) \in T
  <2> DEFINE e == Put(s)
             t == Append(s, b)
  <2>1. e.out \in Seq(Byte) /\ e.zeroes \in 0..2 /\ Taken(e.out) = [out |-> s, zeroes |-> e.zeroes]
        BY <1>2
  <2>2. Put(t) = PutByte(e, b) /\ t \in Seq(Byte)
        BY PutAppend, AppendProperties
  <2>3. b \in Int /\ 3 \in Byte
        BY DEF Byte
  <2> HIDE DEF e
  <2>4. CASE e.zeroes = 2 /\ b <= 3
    <3> DEFINE u == Append(e.out, 3)
               w == Append(u, b)
               z == IF b = 0 THEN 1 ELSE 0
    <3>1. u \in Seq(Byte) /\ w \in Seq(Byte)
          BY <2>1, <2>3, AppendProperties
    <3>2. Taken(u) = TakeByte(Taken(e.out), 3)
          BY <2>1, <2>3, TakenAppend
    <3>3. Taken(w) = TakeByte(Taken(u), b)
          BY <3>1, TakenAppend
    <3>4. Put(t) = [out |-> w, zeroes |-> z]
          BY <2>2, <2>4 DEF PutByte
    <3> HIDE DEF u, w, t
    <3>5. Taken(u) = [out |-> s, zeroes |-> 0]
          BY <2>1, <2>4, <3>2 DEF TakeByte
    <3>6. Taken(w) = [out |-> Append(s, b), zeroes |-> z]
          BY <3>3, <3>5 DEF TakeByte
    <3> QED BY <2>2, <3>1, <3>4, <3>6 DEF t
  <2>5. CASE ~(e.zeroes = 2 /\ b <= 3)
    <3> DEFINE w == Append(e.out, b)
               z == IF b = 0 THEN e.zeroes + 1 ELSE 0
    <3>1. w \in Seq(Byte) /\ z \in 0..2
          BY <2>1, <2>3, <2>5, AppendProperties
    <3>2. Taken(w) = TakeByte(Taken(e.out), b)
          BY <2>1, TakenAppend
    <3>3. Put(t) = [out |-> w, zeroes |-> z]
          BY <2>2, <2>5 DEF PutByte
    <3>4. ~(b = 3 /\ e.zeroes = 2)
          BY <2>5
    <3> HIDE DEF w, t
    <3>5. Taken(w) = [out |-> Append(s, b), zeroes |-> z]
          BY <2>1, <3>2, <3>4 DEF TakeByte
    <3> HIDE DEF z
    <3> QED BY <2>2, <3>1, <3>3, <3>5 DEF t
  <2> QED BY <2>4, <2>5
<1> HIDE DEF T
<1>3. payload \in T
      BY <1>1, <1>2, AllSequences
<1> QED BY <1>3 DEF T, Escape

-----------------------------------------------------------------------------
(* Numbers, written and read back                                           *)

Char == STRING \cup {Digits[i] : i \in 1..10} \cup {":", "[", "]"}

AllDigits(s) == \A i \in 1..Len(s) : IsDigit(s[i])

LEMMA DigitIs ==
  ASSUME NEW k \in 0..9
  PROVE  /\ Digits[k + 1] \in Char /\ IsDigit(Digits[k + 1]) /\ DigitValue(Digits[k + 1]) = k
         /\ Digits[k + 1] \notin {"-", "+"}
<1>1. DOMAIN Digits = 1..10 /\ k + 1 \in 1..10
      BY DEF Digits
<1>2. Digits[k + 1] \in Char
      BY <1>1 DEF Char
<1>3. IsDigit(Digits[k + 1])
      BY <1>1 DEF IsDigit
<1>4. \A i, j \in 1..10 : Digits[i] = Digits[j] => i = j
      BY DEF Digits
<1> DEFINE i == CHOOSE n \in DOMAIN Digits : Digits[n] = Digits[k + 1]
<1>5. i \in DOMAIN Digits /\ Digits[i] = Digits[k + 1]
      BY <1>1
<1>6. DigitValue(Digits[k + 1]) = i - 1
      BY DEF DigitValue
<1> HIDE DEF i
<1>7. DigitValue(Digits[k + 1]) = k
      BY <1>1, <1>4, <1>5, <1>6
<1>8. Digits[k + 1] \notin {"-", "+"}
      BY DEF Digits
<1> QED BY <1>2, <1>3, <1>7, <1>8

LEMMA DigitsCounted ==
  ASSUME NEW S, NEW s \in Seq(S), AllDigits(s)
  PROVE  DigitCount(s) = Len(s)
<1>1. Len(s) \in Nat
      BY LenProperties
<1>2. /\ DigitCount(s) \in 0..Len(s)
      /\ DigitCount(s) < Len(s) => ~IsDigit(s[DigitCount(s) + 1])
      BY DigitCountIs
<1> QED BY <1>1, <1>2 DEF AllDigits

\* one more digit
LEMMA NumberAppend ==
  ASSUME NEW S, NEW s \in Seq(S), NEW c \in S, AllDigits(s), IsDigit(c)
  PROVE  AllDigits(Append(s, c)) /\ Number(Append(s, c)) = 10 * Number(s) + DigitValue(c)
<1> DEFINE t == Append(s, c)
<1>1. /\ t \in Seq(S) /\ Len(t) = Len(s) + 1 /\ Len(s) \in Nat
      /\ \A n \in 1..Len(s) : t[n] = s[n]
      /\ t[Len(s) + 1] = c
      BY AppendProperties, LenProperties
<1> HIDE DEF t
<1>2. AllDigits(t)
      BY <1>1 DEF AllDigits
<1>3. DigitCount(s) = Len(s) /\ DigitCount(t) = Len(t)
      BY <1>1, <1>2, DigitsCounted
<1>4. PICK f : /\ Number(s) = f[DigitCount(s)] /\ f[0] = 0
               /\ \A n \in 1..Len(s) : f[n] = 10 * f[n - 1] + DigitValue(s[n])
      BY NumberBy
<1>5. PICK g : /\ Number(t) = g[DigitCount(t)] /\ g[0] = 0
               /\ \A n \in 1..Len(t) : g[n] = 10 * g[n - 1] + DigitValue(t[n])
      BY <1>1, NumberBy
<1> DEFINE T == {n \in Nat : n <= Len(s) => f[n] = g[n]}
<1>6. 0 \in T
      BY <1>4, <1>5
<1>7. ASSUME NEW n \in Nat, n \in T PROVE n + 1 \in T
  <2>1. SUFFICES ASSUME n + 1 <= Len(s) PROVE f[n + 1] = g[n + 1]
        OBVIOUS
  <2>2. n + 1 \in 1..Len(s) /\ n + 1 \in 1..Len(t) /\ (n + 1) - 1 = n /\ f[n] = g[n]
        BY <1>1, <1>7, <2>1
  <2>3. f[n + 1] = 10 * f[n] + DigitValue(s[n + 1]) /\ g[n + 1] = 10 * g[n] + DigitValue(t[n + 1])
        BY <1>4, <1>5, <2>2
  <2> QED BY <1>1, <2>2, <2>3
<1> HIDE DEF T
<1>8. \A n \in Nat : n \in T
      BY <1>6, <1>7, AllOf
<1>9. f[Len(s)] = g[Len(s)]
      BY <1>1, <1>8 DEF T
<1>10. g[Len(t)] = 10 * g[Len(s)] + DigitValue(c)
  <2>1. Len(t) \in 1..Len(t) /\ Len(t) - 1 = Len(s)
        BY <1>1
  <2> QED BY <1>1, <1>5, <2>1
<1> QED BY <1>2, <1>3, <1>4, <1>5, <1>9, <1>10 DEF t

LEMMA NumberOfDigit ==
  ASSUME NEW S, NEW c \in S, IsDigit(c)
  PROVE  AllDigits(<<c>>) /\ Number(<<c>>) = DigitValue(c)
<1> DEFINE e == <<c>>
<1>1. e \in Seq(S) /\ Len(e) = 1 /\ e[1] = c
      OBVIOUS
<1> HIDE DEF e
<1>2. AllDigits(e)
      BY <1>1 DEF AllDigits
<1>3. DigitCount(e) = 1
      BY <1>1, <1>2, DigitsCounted
<1>4. PICK f : /\ Number(e) = f[DigitCount(e)] /\ f[0] = 0
               /\ \A n \in 1..Len(e) : f[n] = 10 * f[n - 1] + DigitValue(e[n])
      BY <1>1, NumberBy
<1>5. f[1] = 10 * f[0] + DigitValue(c)
      BY <1>1, <1>4
<1>6. DigitValue(c) \in 0..9
      BY DigitTyped
<1>7. Number(e) = DigitValue(c)
      BY <1>3, <1>4, <1>5, <1>6
<1> QED BY <1>2, <1>7 DEF e

\* the digits of a number, from those of its tenth
LEMMA DecimalBy ==
  ASSUME NEW n \in Nat
  PROVE  \E f : /\ Decimal(n) = f[n]
                /\ \A k \in 0..n : f[k] = IF k < 10 THEN <<Digits[k + 1]>>
                                          ELSE Append(f[k \div 10], Digits[(k % 10) + 1])
<1> DEFINE By(f, m) == [k \in 0..m |-> IF k < 10 THEN <<Digits[k + 1]>>
                                       ELSE Append(f[k \div 10], Digits[(k % 10) + 1])]
           T == {m \in Nat : \E f : f = By(f, m)}
           text == CHOOSE f : f = By(f, n)
<1>1. 0 \in T
  <2>1. [k \in 0..0 |-> <<Digits[1]>>] = By([k \in 0..0 |-> <<Digits[1]>>], 0)
        OBVIOUS
  <2> QED BY <2>1
<1>2. ASSUME NEW m \in Nat, m \in T PROVE m + 1 \in T
  <2>1. PICK f : f = By(f, m)
        BY <1>2
  <2> DEFINE last == IF m + 1 < 10 THEN <<Digits[(m + 1) + 1]>>
                     ELSE Append(f[(m + 1) \div 10], Digits[((m + 1) % 10) + 1])
             g == [k \in 0..m + 1 |-> IF k = m + 1 THEN last ELSE f[k]]
  <2>2. \A k \in 0..m : f[k] = IF k < 10 THEN <<Digits[k + 1]>>
                               ELSE Append(f[k \div 10], Digits[(k % 10) + 1])
        BY <2>1
  <2>3. \A k \in 0..m + 1 : k >= 10 => k \div 10 \in 0..m /\ k \div 10 # m + 1
        OBVIOUS
  <2>4. \A k \in 0..m : g[k] = f[k] /\ g[m + 1] = last
        OBVIOUS
  <2>5. g = [k \in 0..m + 1 |-> g[k]]
        OBVIOUS
  <2> HIDE DEF g
  <2>6. ASSUME NEW k \in 0..m + 1
        PROVE  g[k] = IF k < 10 THEN <<Digits[k + 1]>> ELSE Append(g[k \div 10], Digits[(k % 10) + 1])
    <3>1. k >= 10 => g[k \div 10] = f[k \div 10]
          BY <2>3, <2>4
    <3>2. CASE k \in 0..m
          BY <2>2, <2>4, <3>1, <3>2
    <3>3. CASE k = m + 1
      <4>1. g[k] = last
            BY <2>4, <3>3
      <4> QED BY <3>1, <3>3, <4>1
    <3> QED BY <3>2, <3>3
  <2> HIDE DEF last
  <2>7. g = By(g, m + 1)
        BY <2>5, <2>6
  <2> HIDE DEF By
  <2> QED BY <2>7
<1> HIDE DEF T
<1>3. \A m \in Nat : m \in T
      BY <1>1, <1>2, AllOf
<1>4. text = By(text, n)
  <2> HIDE DEF By
  <2> QED BY <1>3 DEF T
<1>5. Decimal(n) = text[n]
      BY DEF Decimal
<1> HIDE DEF text
<1>6. \A k \in 0..n : text[k] = IF k < 10 THEN <<Digits[k + 1]>>
                                ELSE Append(text[k \div 10], Digits[(k % 10) + 1])
      BY <1>4
<1> QED BY <1>5, <1>6

\* a number that is written with %d is read back with strtol
LEMMA DecimalIs ==
  ASSUME NEW n \in Nat
  PROVE  /\ Decimal(n) \in Seq(Char) /\ Decimal(n) # <<>> /\ AllDigits(Decimal(n))
         /\ Number(Decimal(n)) = n
         /\ Decimal(n)[1] \notin {"-", "+"}
<1> DEFINE Writes(s, k) == /\ s \in Seq(Char) /\ Len(s) > 0 /\ AllDigits(s)
                           /\ Number(s) = k /\ s[1] \notin {"-", "+"}
<1>1. PICK f : /\ Decimal(n) = f[n]
               /\ \A k \in 0..n : f[k] = IF k < 10 THEN <<Digits[k + 1]>>
                                         ELSE Append(f[k \div 10], Digits[(k % 10) + 1])
      BY DecimalBy
<1> DEFINE T == {m \in Nat : \A k \in 0..m : k <= n => Writes(f[k], k)}
<1>2. ASSUME NEW k \in 0..n, k < 10 PROVE Writes(f[k], k)
  <2> DEFINE c == Digits[k + 1]
             s == <<c>>
  <2>1. f[k] = s
        BY <1>1, <1>2
  <2>2. k \in 0..9
        BY <1>2
  <2>3. c \in Char /\ IsDigit(c) /\ DigitValue(c) = k /\ c \notin {"-", "+"}
        BY <2>2, DigitIs
  <2> HIDE DEF c
  <2>4. s \in Seq(Char) /\ Len(s) = 1 /\ s[1] = c
        BY <2>3
  <2>5. AllDigits(s) /\ Number(s) = k
        BY <2>3, NumberOfDigit
  <2> HIDE DEF s
  <2> QED BY <2>1, <2>3, <2>4, <2>5
<1>3. ASSUME NEW k \in 0..n, k >= 10, Writes(f[k \div 10], k \div 10) PROVE Writes(f[k], k)
  <2> DEFINE s == f[k \div 10]
             c == Digits[(k % 10) + 1]
             t == Append(s, c)
  <2>1. f[k] = t
    <3>1. f[k] = IF k < 10 THEN <<Digits[k + 1]>> ELSE Append(s, c)
          BY <1>1
    <3>2. ~(k < 10)
          BY <1>3
    <3> HIDE DEF s, c
    <3> QED BY <3>1, <3>2
  <2>2. k % 10 \in 0..9 /\ k = 10 * (k \div 10) + (k % 10)
        OBVIOUS
  <2>3. c \in Char /\ IsDigit(c) /\ DigitValue(c) = k % 10
        BY <2>2, DigitIs
  <2>4. s \in Seq(Char) /\ Len(s) > 0 /\ AllDigits(s) /\ Number(s) = k \div 10 /\ s[1] \notin {"-", "+"}
        BY <1>3
  <2> HIDE DEF s, c
  <2>5. t \in Seq(Char) /\ Len(t) > 0 /\ t[1] = s[1]
    <3>1. Len(s) \in Nat
          BY <2>4, LenProperties
    <3> QED BY <2>3, <2>4, <3>1, AppendProperties
  <2>6. AllDigits(t) /\ Number(t) = 10 * Number(s) + DigitValue(c)
        BY <2>3, <2>4, NumberAppend
  <2> HIDE DEF t
  <2>7. Number(t) = k
        BY <2>2, <2>3, <2>4, <2>6
  <2> QED BY <2>1, <2>4, <2>5, <2>6, <2>7
<1> HIDE DEF Writes
<1>4. 0 \in T
      BY <1>2
<1>5. ASSUME NEW m \in Nat, m \in T PROVE m + 1 \in T
  <2>1. SUFFICES ASSUME m + 1 <= n PROVE Writes(f[m + 1], m + 1)
        BY <1>5
  <2>2. CASE m + 1 < 10
        BY <1>2, <2>1, <2>2
  <2>3. CASE m + 1 >= 10
    <3>1. (m + 1) \div 10 \in 0..m /\ (m + 1) \div 10 <= n
          BY <2>1, <2>3
    <3>2. Writes(f[(m + 1) \div 10], (m + 1) \div 10)
          BY <1>5, <3>1
    <3> QED BY <1>3, <2>1, <2>3, <3>2
  <2> QED BY <2>2, <2>3
<1> HIDE DEF T
<1>6. n \in T
      BY <1>4, <1>5, AllOf
<1>7. Writes(f[n], n)
      BY <1>6 DEF T
<1>8. Writes(Decimal(n), n)
      BY <1>1, <1>7
<1>9. Decimal(n) # <<>>
  <2>1. Len(<<>>) = 0
        BY EmptySeq
  <2> QED BY <1>8, <2>1 DEF Writes
<1> QED BY <1>8, <1>9 DEF Writes

-----------------------------------------------------------------------------
(* sockaddr.c: addresses, read from texts that are put together              *)

LEMMA SubSeqTyped ==
  ASSUME NEW S, NEW s \in Seq(S), NEW m \in Nat, m > 0, NEW n \in Int, n <= Len(s)
  PROVE  /\ SubSeq(s, m, n) \in Seq(S)
         /\ Len(SubSeq(s, m, n)) = IF m <= n THEN n - m + 1 ELSE 0
         /\ \A i \in 1..n - m + 1 : SubSeq(s, m, n)[i] = s[m + i - 1]
<1>1. \A i \in m..n : s[i] \in S
      BY ElementOfSeq, LenProperties
<1> QED BY <1>1, SubSeqProperties

\* what was put together comes apart
Parted(S, w, s, t) ==
    /\ w \in Seq(S) /\ Len(s) \in Nat /\ Len(t) \in Nat /\ Len(w) = Len(s) + Len(t)
    /\ \A i \in 1..Len(s) : w[i] = s[i]
    /\ \A i \in 1..Len(t) : w[Len(s) + i] = t[i]
    /\ SubSeq(w, 1, Len(s)) = s
    /\ From(w, Len(s) + 1) = t

LEMMA Cut == ASSUME NEW S, NEW s \in Seq(S), NEW t \in Seq(S) PROVE Parted(S, s \o t, s, t)
<1> DEFINE w == s \o t
           m == Len(s)
           n == Len(t)
<1>1. m \in Nat /\ n \in Nat
      BY LenProperties
<1>2. w \in Seq(S) /\ Len(w) = m + n
      BY ConcatProperties
<1>3. \A i \in 1..m + n : w[i] = IF i <= m THEN s[i] ELSE t[i - m]
      BY ConcatProperties
<1> HIDE DEF w
<1>4. \A i \in 1..m : w[i] = s[i]
      BY <1>1, <1>3
<1>5. ASSUME NEW i \in 1..n PROVE w[m + i] = t[i]
  <2>1. m + i \in 1..m + n /\ ~(m + i <= m) /\ (m + i) - m = i
        BY <1>1
  <2> QED BY <1>3, <2>1
<1> HIDE DEF m, n
<1>6. SubSeq(w, 1, m) = s
  <2>1. /\ SubSeq(w, 1, m) \in Seq(S) /\ Len(SubSeq(w, 1, m)) = m
        /\ \A i \in 1..m : SubSeq(w, 1, m)[i] = s[i]
        BY <1>1, <1>2, <1>4, SubSeqTyped
  <2> QED BY <2>1, SeqEqual DEF m
<1>7. From(w, m + 1) = t
  <2>1. /\ From(w, m + 1) \in Seq(S) /\ Len(From(w, m + 1)) = n
        /\ \A i \in 1..n : From(w, m + 1)[i] = w[(m + 1) + i - 1]
        BY <1>1, <1>2, SubSeqTyped DEF From
  <2>2. \A i \in 1..n : (m + 1) + i - 1 = m + i
        BY <1>1
  <2>3. \A i \in 1..n : From(w, m + 1)[i] = t[i]
        BY <1>5, <2>1, <2>2
  <2> QED BY <2>1, <2>3, SeqEqual DEF n
<1>8. Parted(S, w, s, t)
      BY <1>1, <1>2, <1>4, <1>5, <1>6, <1>7 DEF Parted, m, n
<1> QED BY <1>8 DEF w

Finds(at, s, c, i) ==
    /\ at = 0 \/ at \in i..Len(s)
    /\ (\A j \in i..Len(s) : s[j] # c) => at = 0
    /\ \A k \in i..Len(s) : s[k] = c /\ (\A j \in i..k - 1 : s[j] # c) => at = k

LEMMA FindIs ==
  ASSUME NEW S, NEW s \in Seq(S), NEW c, NEW i \in Nat, i > 0
  PROVE  Finds(Find(s, c, i), s, c, i)
<1> DEFINE at == {j \in i..Len(s) : s[j] = c}
<1>1. Find(s, c, i) = IF at = {} THEN 0 ELSE Min(at)
      BY DEF Find
<1>2. Len(s) \in Nat
      BY LenProperties
<1>3. at # {} => Min(at) \in at /\ \A k \in at : Min(at) <= k
  <2>1. at \in SUBSET Nat
        BY <1>2
  <2> HIDE DEF at
  <2> QED BY <2>1, LeastOf
<1> DEFINE m == Min(at)
<1> HIDE DEF m
<1>4. Find(s, c, i) = 0 \/ Find(s, c, i) \in i..Len(s)
      BY <1>1, <1>3 DEF m
<1>5. ASSUME \A j \in i..Len(s) : s[j] # c PROVE Find(s, c, i) = 0
      BY <1>1, <1>5
<1>6. ASSUME NEW k \in i..Len(s), s[k] = c, \A j \in i..k - 1 : s[j] # c PROVE Find(s, c, i) = k
  <2>1. k \in at
        BY <1>6
  <2>2. m \in at /\ m <= k /\ Find(s, c, i) = m
        BY <1>1, <1>3, <2>1 DEF m
  <2>3. ~(m < k)
        BY <1>2, <1>6, <2>2
  <2> QED BY <1>2, <2>2, <2>3
<1> QED BY <1>4, <1>5, <1>6 DEF Finds

LEMMA PortIs ==
  ASSUME NEW n \in Int
  PROVE  Port16(n) \in PortNumbers /\ (n \in PortNumbers => n \in Nat /\ Port16(n) = n)
<1>1. Port16(n) \in PortNumbers
      BY DEF Port16, PortNumbers
<1>2. \A k \in Int : 0 <= k /\ k < 65536 => k % 65536 = k
      OBVIOUS
<1>3. n \in PortNumbers => n \in Nat /\ 0 <= n /\ n < 65536
      BY DEF PortNumbers
<1>4. n \in PortNumbers => Port16(n) = n
      BY <1>2, <1>3 DEF Port16
<1> QED BY <1>1, <1>3, <1>4

LEMMA StrtolTyped ==
  ASSUME NEW S, NEW s \in Seq(S)
  PROVE  Strtol(s).value \in Int /\ Port16(Strtol(s).value) \in PortNumbers
<1> DEFINE sign == IF s # <<>> /\ s[1] \in {"-", "+"} THEN 1 ELSE 0
           digits == From(s, 1 + sign)
<1>1. digits \in Seq(S)
      BY SubSeqTyped, LenProperties DEF From
<1>2. Number(digits) \in Nat
      BY <1>1, NumberTyped
<1>3. Strtol(s).value = IF sign = 1 /\ s[1] = "-" THEN -Number(digits) ELSE Number(digits)
      BY DEF Strtol
<1> HIDE DEF digits, sign
<1>4. Strtol(s).value \in Int
      BY <1>2, <1>3
<1> QED BY <1>4, PortIs

LEMMA StrtolOfDecimal ==
  ASSUME NEW p \in Nat
  PROVE  Strtol(Decimal(p)) = [length |-> Len(Decimal(p)), value |-> p] /\ Len(Decimal(p)) > 0
<1> DEFINE s == Decimal(p)
           n == Len(s)
<1>1. s \in Seq(Char) /\ s # <<>> /\ AllDigits(s) /\ Number(s) = p /\ s[1] \notin {"-", "+"}
      BY DecimalIs
<1> HIDE DEF s
<1>2. From(s, 1) = s
      BY <1>1, SubSeqFull DEF From
<1>3. DigitCount(s) = n /\ n \in Nat /\ n # 0
      BY <1>1, DigitsCounted, EmptySeq, LenProperties
<1> DEFINE sign == IF s # <<>> /\ s[1] \in {"-", "+"} THEN 1 ELSE 0
<1>4. sign = 0
      BY <1>1
<1>5. Strtol(s) = [length |-> IF DigitCount(From(s, 1 + sign)) = 0 THEN 0 ELSE sign + DigitCount(From(s, 1 + sign)),
                   value |-> IF sign = 1 /\ s[1] = "-" THEN -Number(From(s, 1 + sign)) ELSE Number(From(s, 1 + sign))]
      BY DEF Strtol
<1> HIDE DEF sign, n
<1>6. From(s, 1 + sign) = s
      BY <1>2, <1>4
<1>7. Strtol(s) = [length |-> n, value |-> p]
      BY <1>1, <1>3, <1>4, <1>5, <1>6
<1>8. n > 0
      BY <1>3
<1> QED BY <1>7, <1>8 DEF s, n

LEMMA PortRead ==
  ASSUME NEW p \in PortNumbers
  PROVE  /\ \A family, i : family # "none" =>
               WithPort([family |-> family, ip |-> i, port |-> 0], Decimal(p))
                  = [family |-> family, ip |-> i, port |-> p]
         /\ WithPort(NoAddr, Decimal(p)) = NoAddr
<1>1. Port16(p) = p /\ p \in Nat
  <2>1. p \in Int
        BY DEF PortNumbers
  <2> QED BY <2>1, PortIs
<1>2. Strtol(Decimal(p)) = [length |-> Len(Decimal(p)), value |-> p]
      BY <1>1, StrtolOfDecimal
<1>3. ASSUME NEW family, NEW i, family # "none"
      PROVE  WithPort([family |-> family, ip |-> i, port |-> 0], Decimal(p))
                = [family |-> family, ip |-> i, port |-> p]
  <2> DEFINE a == [family |-> family, ip |-> i, port |-> 0]
  <2>1. a # NoAddr
    <3>1. a.family = family /\ NoAddr.family = "none"
          BY DEF NoAddr
    <3> QED BY <1>3, <3>1
  <2>2. [a EXCEPT !.port = p] = [family |-> family, ip |-> i, port |-> p]
        OBVIOUS
  <2> HIDE DEF a
  <2>3. WithPort(a, Decimal(p)) = [a EXCEPT !.port = p]
        BY <1>1, <1>2, <2>1 DEF WithPort
  <2> QED BY <2>2, <2>3 DEF a
<1>4. WithPort(NoAddr, Decimal(p)) = NoAddr
      BY DEF WithPort
<1> QED BY <1>3, <1>4

LEMMA SeparatorTyped == <<":">> \in Seq(Char) /\ Len(<<":">>) = 1 /\ <<":">>[1] = ":"
<1>1. ":" \in Char
      BY DEF Char
<1> QED BY <1>1

\* a text with a colon comes apart at it
AtColon(text, s, d) ==
    LET n == Len(s)
    IN  /\ text \in Seq(Char) /\ n \in Nat /\ n + 1 \in 1..Len(text)
        /\ \A i \in 1..n : text[i] = s[i]
        /\ text[n + 1] = ":"
        /\ SubSeq(text, 1, n) = s
        /\ From(text, n + 2) = d

LEMMA ColonCut ==
  ASSUME NEW s \in Seq(Char), NEW d \in Seq(Char)
  PROVE  AtColon(s \o (<<":">> \o d), s, d) /\ (s \o <<":">>) \o d = s \o (<<":">> \o d)
<1> DEFINE e == <<":">>
           u == e \o d
           v == s \o e
           text == s \o u
           n == Len(s)
<1>1. e \in Seq(Char) /\ Len(e) = 1 /\ e[1] = ":"
      BY SeparatorTyped
<1> HIDE DEF e
<1>2. text = v \o d
  <2>1. \A x, y, z \in Seq(Char) : (x \o y) \o z = x \o (y \o z)
        BY ConcatAssociative
  <2> QED BY <1>1, <2>1
<1>3. Parted(Char, u, e, d) /\ Parted(Char, v, s, e)
      BY <1>1, Cut
<1> HIDE DEF u, v, n
<1>4. u \in Seq(Char) /\ Len(u) = 1 + Len(d) /\ u[1] = ":" /\ Len(d) \in Nat
      BY <1>1, <1>3 DEF Parted
<1>5. v \in Seq(Char) /\ Len(v) = n + 1 /\ n \in Nat
      BY <1>1, <1>3 DEF Parted, n
<1>6. Parted(Char, text, s, u)
      BY <1>4, Cut
<1> HIDE DEF text
<1>7. /\ text \in Seq(Char) /\ Len(text) = n + Len(u) /\ SubSeq(text, 1, n) = s
      /\ \A i \in 1..n : text[i] = s[i]
      /\ \A i \in 1..Len(u) : text[n + i] = u[i]
      BY <1>6 DEF Parted, n
<1>8. text[n + 1] = ":" /\ n + 1 \in 1..Len(text)
      BY <1>4, <1>5, <1>7
<1>9. From(text, n + 2) = d
  <2>1. Parted(Char, v \o d, v, d)
        BY <1>5, Cut
  <2>2. From(v \o d, Len(v) + 1) = d
        BY <2>1 DEF Parted
  <2>3. (n + 1) + 1 = n + 2
        BY <1>5
  <2> QED BY <1>2, <1>5, <2>2, <2>3
<1>10. AtColon(text, s, d)
       BY <1>5, <1>7, <1>8, <1>9 DEF AtColon, n
<1> QED BY <1>2, <1>10 DEF text, u, v, e

\* an address with a port is parted at the first colon
LEMMA ColonParts ==
  ASSUME NEW s \in Seq(Char), \A i \in 1..Len(s) : s[i] # ":", s # <<>> => s[1] # "[",
         NEW d \in Seq(Char)
  PROVE  SockaddrParse(s \o (<<":">> \o d)) = WithPort(IpOf("inet", s), d)
<1> DEFINE text == s \o (<<":">> \o d)
           n == Len(s)
<1>1. AtColon(text, s, d)
      BY ColonCut
<1> HIDE DEF text
<1>2. /\ text \in Seq(Char) /\ n \in Nat /\ n + 1 \in 1..Len(text)
      /\ \A i \in 1..n : text[i] = s[i]
      /\ text[n + 1] = ":" /\ SubSeq(text, 1, n) = s /\ From(text, n + 2) = d
      BY <1>1 DEF AtColon
<1>3. ~(text # <<>> /\ text[1] = "[")
  <2>1. CASE n = 0
        BY <1>2, <2>1
  <2>2. CASE n # 0
    <3>1. s # <<>>
          BY <2>2, EmptySeq
    <3>2. text[1] = s[1]
          BY <1>2, <2>2
    <3> QED BY <3>1, <3>2
  <2> QED BY <2>1, <2>2
<1>4. Find(text, ":", 1) = n + 1
  <2>1. \A j \in 1..(n + 1) - 1 : text[j] # ":"
        BY <1>2
  <2>2. Finds(Find(text, ":", 1), text, ":", 1)
        BY <1>2, FindIs
  <2> QED BY <1>2, <2>1, <2>2 DEF Finds
<1> HIDE DEF n
<1>5. (n + 1) - 1 = n /\ n + 1 # 0 /\ (n + 1) + 1 = n + 2
      BY <1>2
<1>6. SockaddrParse(text) = WithPort(IpOf("inet", SubSeq(text, 1, n)), From(text, n + 2))
      BY <1>3, <1>4, <1>5 DEF SockaddrParse
<1> QED BY <1>2, <1>6 DEF text

\* and what has none is an address and no more
LEMMA NoColon ==
  ASSUME NEW s \in Seq(Char), \A i \in 1..Len(s) : s[i] # ":", s # <<>> => s[1] # "["
  PROVE  SockaddrParse(s) = IpOf("inet", s)
<1>1. Find(s, ":", 1) = 0
  <2>1. Finds(Find(s, ":", 1), s, ":", 1)
        BY FindIs
  <2> QED BY <2>1 DEF Finds
<1>2. ~(s # <<>> /\ s[1] = "[")
      OBVIOUS
<1>3. SubSeq(s, 1, Len(s)) = s
      BY SubSeqFull
<1> QED BY <1>1, <1>2, <1>3 DEF SockaddrParse

Inet(i, p)  == [family |-> "inet", ip |-> i, port |-> p]
Inet6(i, p) == [family |-> "inet6", ip |-> i, port |-> p]
IsAddress(a) == \E p \in PortNumbers : \/ \E i \in Range(Ip4) : a = Inet(i, p)
                                       \/ \E i \in Range(Ip6) : a = Inet6(i, p)

LEMMA InChar == ASSUME NEW s \in Seq(STRING) PROVE s \in Seq(Char)
<1>1. STRING \subseteq Char
      BY DEF Char
<1> QED BY <1>1, SeqMonotonic

LEMMA Text4Is ==
  ASSUME NEW i \in Range(Ip4)
  PROVE  LET s == Text4[i]
         IN  /\ s \in Seq(Char) /\ (\A k \in 1..Len(s) : s[k] # ":") /\ s # <<>> /\ s[1] # "["
             /\ IpOf("inet", s) = Inet(i, 0)
<1> DEFINE s == Text4[i]
<1>1. /\ s \in DOMAIN Ip4 /\ Ip4[s] = i /\ DOMAIN Ip4 \subseteq Seq(STRING)
      /\ s # <<>> /\ s[1] # "[" /\ \A k \in DOMAIN s : s[k] # ":"
      BY AddressesAssumption
<1> HIDE DEF s
<1>2. s \in Seq(STRING)
      BY <1>1
<1>3. \A k \in 1..Len(s) : s[k] # ":"
      BY <1>1, <1>2, LenProperties
<1>4. IpOf("inet", s) = Inet(i, 0)
      BY <1>1 DEF IpOf, Inet
<1> QED BY <1>1, <1>2, <1>3, <1>4, InChar DEF s

LEMMA Text6Is ==
  ASSUME NEW i \in Range(Ip6)
  PROVE  LET s == Text6[i]
         IN  /\ s \in Seq(Char) /\ (\A k \in 1..Len(s) : s[k] # "]") /\ s \in DOMAIN Ip6
             /\ IpOf("inet6", s) = Inet6(i, 0)
<1> DEFINE s == Text6[i]
<1>1. /\ s \in DOMAIN Ip6 /\ Ip6[s] = i /\ DOMAIN Ip6 \subseteq Seq(STRING)
      /\ \A k \in DOMAIN s : s[k] # "]"
      BY AddressesAssumption
<1> HIDE DEF s
<1>2. s \in Seq(STRING)
      BY <1>1
<1>3. \A k \in 1..Len(s) : s[k] # "]"
      BY <1>1, <1>2, LenProperties
<1>4. IpOf("inet6", s) = Inet6(i, 0)
      BY <1>1 DEF IpOf, Inet6
<1> QED BY <1>1, <1>2, <1>3, <1>4, InChar DEF s

\* what is in brackets, and what comes after them
Bracket(s) == <<"[">> \o s \o <<"]">>

LEMMA BracketIs ==
  ASSUME NEW s \in Seq(Char), \A i \in 1..Len(s) : s[i] # "]", NEW u \in Seq(Char)
  PROVE  LET w == Bracket(s) \o u
             n == Len(s)
         IN  /\ Parted(Char, w, Bracket(s), u) /\ Len(Bracket(s)) = n + 2 /\ Bracket(s) \in Seq(Char)
             /\ w # <<>> /\ w[1] = "["
             /\ Find(w, "]", 2) = n + 2
             /\ SubSeq(w, 2, n + 1) = s
<1> DEFINE open == <<"[">>
           close == <<"]">>
           b == open \o s
           c == b \o close
           w == c \o u
           n == Len(s)
<1>1. /\ open \in Seq(Char) /\ Len(open) = 1 /\ open[1] = "["
      /\ close \in Seq(Char) /\ Len(close) = 1 /\ close[1] = "]"
  <2>1. "[" \in Char /\ "]" \in Char
        BY DEF Char
  <2> QED BY <2>1
<1>2. c = Bracket(s)
      BY DEF Bracket
<1> HIDE DEF open, close
<1>3. Parted(Char, b, open, s)
      BY <1>1, Cut
<1> HIDE DEF b
<1>4. b \in Seq(Char)
      BY <1>3 DEF Parted
<1>5. Parted(Char, c, b, close)
      BY <1>1, <1>4, Cut
<1> HIDE DEF c
<1>6. c \in Seq(Char)
      BY <1>5 DEF Parted
<1>7. Parted(Char, w, c, u)
      BY <1>6, Cut
<1> HIDE DEF w
<1>8. n \in Nat /\ b \in Seq(Char) /\ Len(b) = n + 1 /\ b[1] = "[" /\ \A i \in 1..n : b[1 + i] = s[i]
      BY <1>1, <1>3 DEF Parted
<1> HIDE DEF n
<1>9. c \in Seq(Char) /\ Len(c) = n + 2 /\ c[n + 2] = "]" /\ \A i \in 1..n + 1 : c[i] = b[i]
  <2>1. Len(c) = Len(b) + 1 /\ c \in Seq(Char) /\ c[Len(b) + 1] = close[1] /\ \A i \in 1..Len(b) : c[i] = b[i]
        BY <1>1, <1>5 DEF Parted
  <2>2. Len(b) + 1 = n + 2
        BY <1>8
  <2> QED BY <1>1, <1>8, <2>1, <2>2
<1>10. /\ w \in Seq(Char) /\ Len(w) \in Nat /\ n + 2 <= Len(w)
      /\ w[1] = "[" /\ w[n + 2] = "]" /\ \A i \in 1..n : w[1 + i] = s[i]
  <2>1. /\ w \in Seq(Char) /\ Len(w) = (n + 2) + Len(u) /\ Len(u) \in Nat
        /\ \A i \in 1..n + 2 : w[i] = c[i]
        BY <1>7, <1>9 DEF Parted
  <2>2. w[1] = "[" /\ w[n + 2] = "]"
        BY <1>8, <1>9, <2>1
  <2>3. ASSUME NEW i \in 1..n PROVE w[1 + i] = s[i]
    <3>1. 1 + i \in 1..n + 2 /\ 1 + i \in 1..n + 1
          BY <1>8
    <3> QED BY <1>8, <1>9, <2>1, <3>1
  <2> QED BY <1>8, <2>1, <2>2, <2>3
<1>11. w # <<>>
      BY <1>8, <1>10, EmptySeq
<1>12. Find(w, "]", 2) = n + 2
  <2>1. ASSUME NEW j \in 2..(n + 2) - 1 PROVE w[j] # "]"
    <3>1. j - 1 \in 1..n /\ 1 + (j - 1) = j
          BY <1>8
    <3>2. w[j] = s[j - 1]
          BY <1>10, <3>1
    <3> QED BY <3>1, <3>2 DEF n
  <2>2. Finds(Find(w, "]", 2), w, "]", 2)
        BY <1>10, FindIs
  <2>3. n + 2 \in 2..Len(w)
        BY <1>8, <1>10
  <2> QED BY <1>10, <2>1, <2>2, <2>3 DEF Finds
<1>13. SubSeq(w, 2, n + 1) = s
  <2>1. n + 1 \in Int /\ n + 1 <= Len(w) /\ (n + 1) - 2 + 1 = n
        BY <1>8, <1>10
  <2>2. /\ SubSeq(w, 2, n + 1) \in Seq(Char)
        /\ Len(SubSeq(w, 2, n + 1)) = IF 2 <= n + 1 THEN (n + 1) - 2 + 1 ELSE 0
        /\ \A i \in 1..(n + 1) - 2 + 1 : SubSeq(w, 2, n + 1)[i] = w[2 + i - 1]
        BY <1>10, <2>1, SubSeqTyped
  <2> DEFINE v == SubSeq(w, 2, n + 1)
  <2> HIDE DEF v
  <2>3. v \in Seq(Char) /\ Len(v) = n
        BY <1>8, <2>1, <2>2 DEF v
  <2>4. \A i \in 1..n : v[i] = s[i]
    <3>1. \A i \in 1..n : 2 + i - 1 = 1 + i
          BY <1>8
    <3> QED BY <1>10, <2>1, <2>2, <3>1 DEF v
  <2>5. v = s
        BY <2>3, <2>4, SeqEqual DEF n
  <2> QED BY <2>5 DEF v
<1> QED BY <1>2, <1>7, <1>9, <1>10, <1>11, <1>12, <1>13 DEF w, n

LEMMA BracketParts ==
  ASSUME NEW s \in Seq(Char), \A i \in 1..Len(s) : s[i] # "]"
  PROVE  /\ SockaddrParse(Bracket(s)) = IpOf("inet6", s)
         /\ \A d \in Seq(Char) : SockaddrParse(Bracket(s) \o (<<":">> \o d)) = WithPort(IpOf("inet6", s), d)
<1> DEFINE n == Len(s)
           b == Bracket(s)
<1>1. n \in Nat
      BY LenProperties
<1> HIDE DEF n, b
<1>2. ASSUME NEW w, w # <<>>, w[1] = "[", Find(w, "]", 2) = n + 2, SubSeq(w, 2, n + 1) = s
      PROVE  SockaddrParse(w) = IF Find(w, ":", n + 3) = 0 THEN IpOf("inet6", s)
                                ELSE WithPort(IpOf("inet6", s), From(w, Find(w, ":", n + 3) + 1))
  <2>1. (n + 2) + 1 = n + 3 /\ (n + 2) - 1 = n + 1 /\ n + 2 # 0
        BY <1>1
  <2> QED BY <1>2, <2>1 DEF SockaddrParse
<1>3. SockaddrParse(b) = IpOf("inet6", s)
  <2> DEFINE none == <<>>
  <2>1. none \in Seq(Char) /\ Len(none) = 0
        BY EmptySeq
  <2> DEFINE w == b \o none
  <2>2. /\ w # <<>> /\ w[1] = "[" /\ Find(w, "]", 2) = n + 2 /\ SubSeq(w, 2, n + 1) = s
        /\ b \in Seq(Char) /\ Len(b) = n + 2
    <3> HIDE DEF none
    <3> QED BY <2>1, BracketIs DEF b, n
  <2>3. w = b
        BY <2>2, ConcatEmptySeq
  <2>4. Find(w, ":", n + 3) = 0
    <3>1. Finds(Find(b, ":", n + 3), b, ":", n + 3)
          BY <1>1, <2>2, FindIs
    <3>2. \A j \in n + 3..Len(b) : b[j] # ":"
          BY <1>1, <2>2
    <3> QED BY <2>3, <3>1, <3>2 DEF Finds
  <2>5. SockaddrParse(w) = IpOf("inet6", s)
    <3> HIDE DEF w
    <3> QED BY <1>2, <2>2, <2>4
  <2> QED BY <2>3, <2>5
<1>4. ASSUME NEW d \in Seq(Char)
      PROVE  SockaddrParse(b \o (<<":">> \o d)) = WithPort(IpOf("inet6", s), d)
  <2> DEFINE e == <<":">>
             u == e \o d
             w == b \o u
  <2>1. e \in Seq(Char) /\ Len(e) = 1 /\ e[1] = ":"
        BY SeparatorTyped
  <2> HIDE DEF e
  <2>2. Parted(Char, u, e, d)
        BY <2>1, Cut
  <2>3. u \in Seq(Char) /\ u[1] = ":" /\ Len(u) = 1 + Len(d) /\ Len(d) \in Nat
    <3> HIDE DEF u
    <3> QED BY <2>1, <2>2 DEF Parted
  <2>4. w = (b \o e) \o d
    <3>1. \A x, y, z \in Seq(Char) : (x \o y) \o z = x \o (y \o z)
          BY ConcatAssociative
    <3>2. b \in Seq(Char)
          BY <2>1, BracketIs DEF b
    <3> QED BY <2>1, <3>1, <3>2 DEF u
  <2> HIDE DEF u
  <2>5. /\ w # <<>> /\ w[1] = "[" /\ Find(w, "]", 2) = n + 2 /\ SubSeq(w, 2, n + 1) = s
        /\ b \in Seq(Char) /\ Len(b) = n + 2 /\ Parted(Char, w, b, u)
        BY <2>3, BracketIs DEF b, n
  <2> HIDE DEF w
  <2>6. /\ w \in Seq(Char) /\ Len(w) = (n + 2) + Len(u) /\ w[(n + 2) + 1] = u[1]
        BY <2>3, <2>5 DEF Parted
  <2>7. Find(w, ":", n + 3) = n + 3
    <3>1. Finds(Find(w, ":", n + 3), w, ":", n + 3)
          BY <1>1, <2>6, FindIs
    <3>2. n + 3 \in n + 3..Len(w) /\ (n + 2) + 1 = n + 3 /\ \A j \in n + 3..(n + 3) - 1 : FALSE
          BY <1>1, <2>3, <2>6
    <3> QED BY <2>3, <2>6, <3>1, <3>2 DEF Finds
  <2>8. From(w, n + 4) = d
    <3> DEFINE v == b \o e
    <3>1. Parted(Char, v, b, e)
          BY <2>1, <2>5, Cut
    <3> HIDE DEF v
    <3>2. v \in Seq(Char) /\ Len(v) = n + 3
          BY <1>1, <2>1, <2>5, <3>1 DEF Parted
    <3>3. Parted(Char, v \o d, v, d)
          BY <3>2, Cut
    <3>4. From(v \o d, Len(v) + 1) = d /\ Len(v) + 1 = n + 4
          BY <1>1, <3>2, <3>3 DEF Parted
    <3> QED BY <2>4, <3>4 DEF v
  <2>9. (n + 3) + 1 = n + 4 /\ n + 3 # 0
        BY <1>1
  <2>10. SockaddrParse(w) = WithPort(IpOf("inet6", s), d)
         BY <1>2, <2>5, <2>7, <2>8, <2>9
  <2> QED BY <2>10 DEF w, u, e
<1> QED BY <1>3, <1>4 DEF b

\* an address that is written is read back
LEMMA AddressWritten ==
  ASSUME NEW a, IsAddress(a)
  PROVE  SockaddrParse(SockaddrToString(a)) = a
<1>1. PICK p \in PortNumbers : \/ \E i \in Range(Ip4) : a = Inet(i, p)
                               \/ \E i \in Range(Ip6) : a = Inet6(i, p)
      BY DEF IsAddress
<1>2. p \in Nat
      BY DEF PortNumbers
<1> DEFINE d == Decimal(p)
           u == <<":">> \o d
<1>3. d \in Seq(Char)
      BY <1>2, DecimalIs
<1> HIDE DEF d
<1>4. CASE \E i \in Range(Ip4) : a = Inet(i, p)
  <2>1. PICK i \in Range(Ip4) : a = Inet(i, p)
        BY <1>4
  <2> DEFINE s == Text4[i]
  <2>2. /\ s \in Seq(Char) /\ (\A k \in 1..Len(s) : s[k] # ":") /\ s # <<>> /\ s[1] # "["
        /\ IpOf("inet", s) = Inet(i, 0)
        BY Text4Is
  <2>3. SockaddrToString(a) = s \o (IF p = 0 THEN <<>> ELSE u)
    <3>1. a.family = "inet" /\ a.ip = i /\ a.port = p
          BY <2>1 DEF Inet
    <3> HIDE DEF u
    <3> QED BY <3>1 DEF SockaddrToString, IpText, u, d
  <2> HIDE DEF s
  <2>4. CASE p = 0
    <3>1. SockaddrToString(a) = s
          BY <2>2, <2>3, <2>4, ConcatEmptySeq
    <3> QED BY <2>1, <2>2, <2>4, <3>1, NoColon
  <2>5. CASE p # 0
    <3>1. SockaddrParse(s \o u) = WithPort(Inet(i, 0), d)
          BY <1>3, <2>2, ColonParts
    <3>2. WithPort(Inet(i, 0), d) = Inet(i, p)
          BY PortRead DEF Inet, d
    <3> QED BY <2>1, <2>3, <2>5, <3>1, <3>2
  <2> QED BY <2>4, <2>5
<1>5. CASE \E i \in Range(Ip6) : a = Inet6(i, p)
  <2>1. PICK i \in Range(Ip6) : a = Inet6(i, p)
        BY <1>5
  <2> DEFINE s == Text6[i]
  <2>2. /\ s \in Seq(Char) /\ (\A k \in 1..Len(s) : s[k] # "]")
        /\ IpOf("inet6", s) = Inet6(i, 0)
        BY Text6Is
  <2>3. SockaddrToString(a) = Bracket(s) \o (IF p = 0 THEN <<>> ELSE u)
    <3>1. a.family = "inet6" /\ a.ip = i /\ a.port = p
          BY <2>1 DEF Inet6
    <3> HIDE DEF u
    <3> QED BY <3>1 DEF SockaddrToString, IpText, Bracket, u, d
  <2> HIDE DEF s
  <2>4. CASE p = 0
    <3>1. Bracket(s) \in Seq(Char)
          BY <1>3, <2>2, BracketIs
    <3>2. SockaddrToString(a) = Bracket(s)
          BY <2>3, <2>4, <3>1, ConcatEmptySeq
    <3> QED BY <2>1, <2>2, <2>4, <3>2, BracketParts
  <2>5. CASE p # 0
    <3>1. SockaddrParse(Bracket(s) \o u) = WithPort(Inet6(i, 0), d)
          BY <1>3, <2>2, BracketParts
    <3>2. WithPort(Inet6(i, 0), d) = Inet6(i, p)
          BY PortRead DEF Inet6, d
    <3> QED BY <2>1, <2>3, <2>5, <3>1, <3>2
  <2> QED BY <2>4, <2>5
<1> QED BY <1>1, <1>4, <1>5

\* what is read of any text is an address or nothing
LEMMA ParseTyped ==
  ASSUME NEW S, NEW s \in Seq(S)
  PROVE  SockaddrParse(s) = NoAddr \/ IsAddress(SockaddrParse(s))
<1> DEFINE Good(a) == a = NoAddr \/ IsAddress(a)
<1>1. ASSUME NEW family, NEW t PROVE Good(IpOf(family, t))
  <2>1. 0 \in PortNumbers
        BY DEF PortNumbers
  <2>2. CASE family = "inet" /\ t \in DOMAIN Ip4
    <3>1. IpOf(family, t) = Inet(Ip4[t], 0)
          BY <2>2 DEF IpOf, Inet
    <3>2. Ip4[t] \in Range(Ip4)
          BY <2>2 DEF Range
    <3> QED BY <2>1, <3>1, <3>2 DEF IsAddress
  <2>3. CASE family = "inet6" /\ t \in DOMAIN Ip6
    <3>1. IpOf(family, t) = Inet6(Ip6[t], 0)
          BY <2>3 DEF IpOf, Inet6
    <3>2. Ip6[t] \in Range(Ip6)
          BY <2>3 DEF Range
    <3> QED BY <2>1, <3>1, <3>2 DEF IsAddress
  <2>4. CASE ~(family = "inet" /\ t \in DOMAIN Ip4) /\ ~(family = "inet6" /\ t \in DOMAIN Ip6)
        BY <2>4 DEF IpOf
  <2> QED BY <2>2, <2>3, <2>4
<1>2. ASSUME NEW a, Good(a), NEW k \in Nat PROVE Good(WithPort(a, From(s, k + 1)))
  <2> DEFINE t == From(s, k + 1)
             q == Port16(Strtol(t).value)
  <2>1. t \in Seq(S)
        BY <1>2, SubSeqTyped, LenProperties DEF From
  <2> HIDE DEF t
  <2>2. q \in PortNumbers
        BY <2>1, StrtolTyped
  <2>3. WithPort(a, t) = NoAddr \/ (a # NoAddr /\ WithPort(a, t) = [a EXCEPT !.port = q])
        BY DEF WithPort
  <2> HIDE DEF q
  <2>4. ASSUME IsAddress(a) PROVE IsAddress([a EXCEPT !.port = q])
    <3>1. PICK p : \/ \E i \in Range(Ip4) : a = Inet(i, p)
                   \/ \E i \in Range(Ip6) : a = Inet6(i, p)
          BY <2>4 DEF IsAddress
    <3>2. /\ \A i : a = Inet(i, p) => [a EXCEPT !.port = q] = Inet(i, q)
          /\ \A i : a = Inet6(i, p) => [a EXCEPT !.port = q] = Inet6(i, q)
          BY DEF Inet, Inet6
    <3> QED BY <2>2, <3>1, <3>2 DEF IsAddress
  <2> QED BY <1>2, <2>3, <2>4 DEF t
<1> DEFINE bracket == s # <<>> /\ s[1] = "["
           from == IF bracket THEN Find(s, "]", 2) + 1 ELSE 1
           colon == Find(s, ":", from)
<1>3. bracket => Find(s, "]", 2) \in Nat
  <2>1. Finds(Find(s, "]", 2), s, "]", 2)
        BY FindIs
  <2> QED BY <2>1, LenProperties DEF Finds
<1>4. colon \in Nat
  <2>1. from \in Nat /\ from > 0
        BY <1>3
  <2> HIDE DEF from
  <2>2. Finds(colon, s, ":", from)
        BY <2>1, FindIs
  <2> QED BY <2>1, <2>2, LenProperties DEF Finds
<1>5. \E family, t : \/ SockaddrParse(s) = NoAddr
                     \/ SockaddrParse(s) = IpOf(family, t)
                     \/ SockaddrParse(s) = WithPort(IpOf(family, t), From(s, colon + 1))
      BY DEF SockaddrParse
<1> HIDE DEF Good, colon
<1>6. Good(NoAddr)
      BY DEF Good
<1>7. Good(SockaddrParse(s))
      BY <1>1, <1>2, <1>4, <1>5, <1>6
<1> QED BY <1>7 DEF Good

-----------------------------------------------------------------------------
(* hostport.c: what is read is an address or a name, and is written as read *)

NameChar(c) == HostChar(c) \/ c = "."

\* where find_hostname_end stops, and what it finds wrong before
Stops(s, n) ==
    /\ \A j \in 1..n : NameChar(s[j])
    /\ n = Len(s) \/ n = MaxHost \/ ~NameChar(s[n + 1])
    /\ n <= MaxHost

Part(s, i) == i - Max({0} \cup {j \in 1..(i - 1) : s[j] = "."})
BadPart(s, n) == \E i \in 1..n : IF s[i] = "." THEN Part(s, i) = 1 ELSE Part(s, i) > MaxLabel

\* it stops at one place
LEMMA EndAt ==
  ASSUME NEW S, NEW s \in Seq(S), NEW n \in 0..Len(s), Stops(s, n)
  PROVE  HostnameEnd(s) = IF BadPart(s, n) THEN -1 ELSE n
<1> DEFINE m == CHOOSE i \in 0..Len(s) : Stops(s, i)
<1>1. m \in 0..Len(s) /\ Stops(s, m)
  <2> HIDE DEF Stops
  <2> QED OBVIOUS
<1>2. HostnameEnd(s) = IF BadPart(s, m) THEN -1 ELSE m
      BY DEF HostnameEnd, BadPart, Part, Stops, NameChar
<1> HIDE DEF m
<1>3. Len(s) \in Nat /\ MaxHost \in Nat
      BY LenProperties, LimitsAssumption
<1>4. ~(m < n)
  <2>1. m < n => m + 1 \in 1..n /\ m # Len(s) /\ m # MaxHost
        BY <1>1, <1>3 DEF Stops
  <2> QED BY <1>1, <2>1 DEF Stops
<1>5. ~(n < m)
  <2>1. n < m => n + 1 \in 1..m /\ n # Len(s) /\ n # MaxHost
        BY <1>1, <1>3 DEF Stops
  <2> QED BY <1>1, <2>1 DEF Stops
<1>6. m = n
      BY <1>1, <1>3, <1>4, <1>5
<1> QED BY <1>2, <1>6

\* and at some place
LEMMA EndIs ==
  ASSUME NEW S, NEW s \in Seq(S)
  PROVE  \E n \in 0..Len(s) : Stops(s, n) /\ HostnameEnd(s) = IF BadPart(s, n) THEN -1 ELSE n
<1> DEFINE Ends == {n \in 0..Len(s) : n = Len(s) \/ n = MaxHost \/ ~NameChar(s[n + 1])}
           n == Min(Ends)
<1>1. Len(s) \in Nat /\ MaxHost \in Nat
      BY LenProperties, LimitsAssumption
<1>2. Len(s) \in Ends /\ Ends \in SUBSET Nat
      BY <1>1
<1>3. n \in Ends /\ \A k \in Ends : n <= k
  <2> HIDE DEF Ends
  <2> QED BY <1>2, LeastOf
<1> HIDE DEF n
<1>4. n \in 0..Len(s) /\ (n = Len(s) \/ n = MaxHost \/ ~NameChar(s[n + 1]))
      BY <1>3
<1>5. ASSUME NEW j \in 1..n PROVE NameChar(s[j])
  <2>1. j - 1 \in 0..Len(s) /\ ~(n <= j - 1) /\ (j - 1) + 1 = j
        BY <1>1, <1>4
  <2>2. j - 1 \notin Ends
    <3> HIDE DEF Ends
    <3> QED BY <1>3, <2>1
  <2> QED BY <2>1, <2>2
<1>6. n <= MaxHost
  <2>1. CASE MaxHost <= Len(s)
    <3>1. MaxHost \in Ends
          BY <1>1, <2>1
    <3> HIDE DEF Ends
    <3> QED BY <1>3, <3>1
  <2>2. CASE ~(MaxHost <= Len(s))
        BY <1>1, <1>4, <2>2
  <2> QED BY <2>1, <2>2
<1>7. Stops(s, n)
      BY <1>4, <1>5, <1>6 DEF Stops
<1> QED BY <1>4, <1>7, EndAt

\* the parts of a name are those of any text that begins with it
LEMMA PartsKept ==
  ASSUME NEW s, NEW t, NEW n \in Nat, \A i \in 1..n : s[i] = t[i]
  PROVE  BadPart(s, n) = BadPart(t, n)
<1>1. ASSUME NEW i \in 1..n PROVE Part(s, i) = Part(t, i) /\ s[i] = t[i]
  <2>1. {j \in 1..(i - 1) : s[j] = "."} = {j \in 1..(i - 1) : t[j] = "."}
    <3>1. \A j \in 1..(i - 1) : s[j] = t[j]
          OBVIOUS
    <3> QED BY <3>1
  <2> QED BY <2>1 DEF Part
<1>2. BadPart(s, n) => BadPart(t, n)
  <2> SUFFICES ASSUME BadPart(s, n) PROVE BadPart(t, n)
      OBVIOUS
  <2>1. PICK i \in 1..n : IF s[i] = "." THEN Part(s, i) = 1 ELSE Part(s, i) > MaxLabel
        BY DEF BadPart
  <2> QED BY <1>1, <2>1 DEF BadPart
<1>3. BadPart(t, n) => BadPart(s, n)
  <2> SUFFICES ASSUME BadPart(t, n) PROVE BadPart(s, n)
      OBVIOUS
  <2>1. PICK i \in 1..n : IF t[i] = "." THEN Part(t, i) = 1 ELSE Part(t, i) > MaxLabel
        BY DEF BadPart
  <2> QED BY <1>1, <2>1 DEF BadPart
<1>4. BadPart(s, n) \in BOOLEAN /\ BadPart(t, n) \in BOOLEAN
      BY DEF BadPart
<1> QED BY <1>2, <1>3, <1>4

Named(s, p) == [hostname |-> s, port |-> p, ip |-> FALSE]
ByIp(s, p)  == [hostname |-> s, port |-> p, ip |-> TRUE]

LEMMA PortSet ==
  \A s, p, q : /\ [Named(s, p) EXCEPT !.port = q] = Named(s, q)
               /\ [ByIp(s, p) EXCEPT !.port = q] = ByIp(s, q)
<1> DEFINE R(s, p, b) == [hostname |-> s, port |-> p, ip |-> b]
           no == FALSE
           yes == TRUE
<1>1. \A s, p : Named(s, p) = R(s, p, no) /\ ByIp(s, p) = R(s, p, yes)
      BY DEF Named, ByIp
<1> HIDE DEF no, yes
<1>2. \A s, p, q, b : [R(s, p, b) EXCEPT !.port = q] = R(s, q, b)
      OBVIOUS
<1> HIDE DEF R
<1> QED BY <1>1, <1>2

IsName(s) ==
    /\ s \in Seq(Char) /\ Len(s) <= MaxHost
    /\ \A i \in 1..Len(s) : NameChar(s[i])
    /\ ~BadPart(s, Len(s))

IsHost(h) ==
    \E p \in PortNumbers : \/ \E s : IsName(s) /\ h = Named(s, p)
                           \/ \E i \in Range(Ip4) : h = ByIp(Text4[i], p)
                           \/ \E i \in Range(Ip6) : h = ByIp(Text6[i], p)

\* what is read of any text is a host or nothing
LEMMA HostTyped ==
  ASSUME NEW s \in Seq(STRING)
  PROVE  HostportParse(s) = NoHost \/ IsHost(HostportParse(s))
<1> DEFINE a == SockaddrParse(s)
           end == HostnameEnd(s)
           port == Strtol(From(s, end + 2))
           h == HostportParse(s)
<1>1. CASE a # NoAddr
  <2>1. IsAddress(a)
        BY <1>1, ParseTyped
  <2>2. h = ByIp(IpText(a), a.port)
        BY <1>1 DEF HostportParse, ByIp
  <2> HIDE DEF a, h
  <2>3. PICK p \in PortNumbers : \/ \E i \in Range(Ip4) : a = Inet(i, p)
                                 \/ \E i \in Range(Ip6) : a = Inet6(i, p)
        BY <2>1 DEF IsAddress
  <2>4. /\ \A i : IpText(Inet(i, p)) = Text4[i] /\ Inet(i, p).port = p
        /\ \A i : IpText(Inet6(i, p)) = Text6[i] /\ Inet6(i, p).port = p
        BY DEF IpText, Inet, Inet6
  <2>5. \/ \E i \in Range(Ip4) : h = ByIp(Text4[i], p)
        \/ \E i \in Range(Ip6) : h = ByIp(Text6[i], p)
        BY <2>2, <2>3, <2>4
  <2>6. IsHost(h)
        BY <2>5 DEF IsHost
  <2> QED BY <2>6 DEF h
<1>2. CASE a = NoAddr
  <2>1. PICK n \in 0..Len(s) : Stops(s, n) /\ end = IF BadPart(s, n) THEN -1 ELSE n
        BY EndIs
  <2>2. Len(s) \in Nat /\ n \in Nat /\ n <= Len(s)
        BY LenProperties
  <2>3. CASE BadPart(s, n)
    <3>1. end = -1
          BY <2>1, <2>3
    <3>2. h = NoHost
      <4> HIDE DEF a, end
      <4> QED BY <1>2, <3>1 DEF HostportParse, a, end
    <3> QED BY <3>2
  <2>4. CASE ~BadPart(s, n)
    <3> DEFINE name == SubSeq(s, 1, n)
               after == From(s, n + 2)
               q == Port16(Strtol(after).value)
    <3>1. end = n
          BY <2>1, <2>4
    <3>2. /\ name \in Seq(STRING) /\ Len(name) = n /\ \A i \in 1..n : name[i] = s[i]
          /\ after \in Seq(STRING)
      <4>1. /\ name \in Seq(STRING) /\ Len(name) = IF 1 <= n THEN n - 1 + 1 ELSE 0
            /\ \A i \in 1..n - 1 + 1 : name[i] = s[1 + i - 1]
            BY <2>2, SubSeqTyped
      <4>2. after \in Seq(STRING)
            BY <2>2, SubSeqTyped DEF From
      <4> HIDE DEF name
      <4>3. Len(name) = n /\ \A i \in 1..n : name[i] = s[i]
            BY <2>2, <4>1
      <4> QED BY <4>1, <4>2, <4>3
    <3>3. \/ h = Named(name, 0) \/ h = NoHost
          \/ h = Named(name, q)
      <4>1. end + 2 = n + 2 /\ end # -1
            BY <2>2, <3>1
      <4>2. end = Len(s) \/ end \in 0..(Len(s) - 1)
            BY <2>2, <3>1
      <4>3. h = CASE a # NoAddr -> [hostname |-> IpText(a), port |-> a.port, ip |-> TRUE]
                  [] a = NoAddr /\ end = -1 -> NoHost
                  [] a = NoAddr /\ end = Len(s) -> Named(SubSeq(s, 1, end), 0)
                  [] a = NoAddr /\ end \in 0..(Len(s) - 1) ->
                        IF s[end + 1] # ":" \/ port.length = 0 THEN NoHost
                        ELSE [Named(SubSeq(s, 1, end), 0) EXCEPT !.port = Port16(port.value)]
            BY DEF HostportParse, Named
      <4> HIDE DEF a, h, end
      <4>4. \/ h = NoHost
            \/ h = Named(SubSeq(s, 1, end), 0)
            \/ h = [Named(SubSeq(s, 1, end), 0) EXCEPT !.port = Port16(port.value)]
            BY <1>2, <4>1, <4>2, <4>3
      <4> QED BY <3>1, <4>4, PortSet
    <3>4. IsName(name)
      <4> HIDE DEF name
      <4>1. BadPart(s, n) = BadPart(name, n)
            BY <2>2, <3>2, PartsKept
      <4>2. \A i \in 1..n : NameChar(name[i])
            BY <2>1, <3>2 DEF Stops
      <4>3. n <= MaxHost
            BY <2>1 DEF Stops
      <4>4. name \in Seq(Char)
            BY <3>2, InChar
      <4> QED BY <2>4, <3>2, <4>1, <4>2, <4>3, <4>4 DEF IsName
    <3> HIDE DEF name, after
    <3>5. 0 \in PortNumbers /\ q \in PortNumbers
      <4>1. 0 \in PortNumbers
            BY DEF PortNumbers
      <4> QED BY <3>2, <4>1, StrtolTyped
    <3> HIDE DEF h, q
    <3>6. h = NoHost \/ IsHost(h)
          BY <3>3, <3>4, <3>5 DEF IsHost
    <3> QED BY <3>6 DEF h
  <2> QED BY <2>3, <2>4
<1> QED BY <1>1, <1>2

\* the characters of a name are none of the separators
LEMMA NameNoSeparator == ~NameChar(":") /\ ~NameChar("[")
<1>1. ~IsDigit(":") /\ ~IsDigit("[")
      BY DEF IsDigit, Digits
<1> QED BY <1>1, AddressesAssumption DEF NameChar, HostChar

\* a name is read back with its port
LEMMA NameWritten ==
  ASSUME NEW s, IsName(s), s \notin DOMAIN Ip4, NEW p \in PortNumbers
  PROVE  HostportParse(HostportToString(Named(s, p))) = Named(s, p)
<1> DEFINE d == Decimal(p)
           text == s \o (<<":">> \o d)
           n == Len(s)
<1>1. p \in Nat /\ Port16(p) = p
  <2>1. p \in Int
        BY DEF PortNumbers
  <2> QED BY <2>1, PortIs
<1>2. d \in Seq(Char) /\ Strtol(d) = [length |-> Len(d), value |-> p] /\ Len(d) > 0
      BY <1>1, DecimalIs, StrtolOfDecimal
<1>3. s \in Seq(Char) /\ n \in Nat /\ n <= MaxHost /\ ~BadPart(s, n) /\ \A i \in 1..n : NameChar(s[i])
      BY LenProperties DEF IsName
<1>4. WithPort(NoAddr, d) = NoAddr
      BY PortRead
<1> HIDE DEF d
<1>5. HostportToString(Named(s, p)) = text
  <2>1. (s \o <<":">>) \o d = text
        BY <1>2, <1>3, ColonCut
  <2>2. Named(s, p).hostname = s /\ Named(s, p).port = p
        BY DEF Named
  <2> QED BY <2>1, <2>2 DEF HostportToString, d
<1>6. SockaddrParse(text) = NoAddr
  <2>1. \A i \in 1..n : s[i] # ":" /\ s[i] # "["
        BY <1>3, NameNoSeparator
  <2>2. s # <<>> => s[1] # "["
    <3>1. s # <<>> => n # 0
          BY <1>3, EmptySeq
    <3> QED BY <1>3, <2>1, <3>1
  <2>3. IpOf("inet", s) = NoAddr
        BY DEF IpOf
  <2> QED BY <1>2, <1>3, <1>4, <2>1, <2>2, <2>3, ColonParts
<1>7. AtColon(text, s, d)
      BY <1>2, <1>3, ColonCut
<1> HIDE DEF text
<1>8. /\ text \in Seq(Char) /\ n + 1 \in 1..Len(text) /\ text[n + 1] = ":"
      /\ \A i \in 1..n : text[i] = s[i]
      /\ SubSeq(text, 1, n) = s /\ From(text, n + 2) = d
      BY <1>7 DEF AtColon
<1> HIDE DEF n
<1>9. HostnameEnd(text) = n
  <2>1. n \in 0..Len(text) /\ n # Len(text)
        BY <1>3, <1>8, LenProperties
  <2>2. Stops(text, n)
        BY <1>3, <1>8, NameNoSeparator DEF Stops
  <2>3. BadPart(s, n) = BadPart(text, n)
    <3>1. \A i \in 1..n : s[i] = text[i]
          BY <1>8
    <3> QED BY <1>3, <3>1, PartsKept
  <2> QED BY <1>3, <1>8, <2>1, <2>2, <2>3, EndAt
<1>10. HostportParse(text) = [Named(s, 0) EXCEPT !.port = p]
  <2>1. n # -1 /\ n # Len(text) /\ n \in 0..(Len(text) - 1) /\ Len(d) # 0
        BY <1>2, <1>3, <1>8, LenProperties
  <2>2. Strtol(From(text, n + 2)).length # 0 /\ Port16(Strtol(From(text, n + 2)).value) = p
        BY <1>1, <1>2, <1>8, <2>1
  <2>3. HostportParse(text) = [Named(SubSeq(text, 1, n), 0) EXCEPT !.port = Port16(Strtol(From(text, n + 2)).value)]
        BY <1>6, <1>8, <1>9, <2>1, <2>2 DEF HostportParse, Named
  <2> QED BY <1>8, <2>2, <2>3
<1> QED BY <1>5, <1>10, PortSet

\* so is an IPv4 address
LEMMA Ip4Written ==
  ASSUME NEW i \in Range(Ip4), NEW p \in PortNumbers
  PROVE  HostportParse(HostportToString(ByIp(Text4[i], p))) = ByIp(Text4[i], p)
<1> DEFINE d == Decimal(p)
           s == Text4[i]
           text == s \o (<<":">> \o d)
<1>1. p \in Nat
      BY DEF PortNumbers
<1>2. d \in Seq(Char)
      BY <1>1, DecimalIs
<1>3. /\ s \in Seq(Char) /\ (\A k \in 1..Len(s) : s[k] # ":") /\ s # <<>> /\ s[1] # "["
      /\ IpOf("inet", s) = Inet(i, 0)
      BY Text4Is
<1>4. WithPort(Inet(i, 0), d) = Inet(i, p)
      BY PortRead DEF Inet
<1> HIDE DEF d, s
<1>5. HostportToString(ByIp(s, p)) = text
  <2>1. (s \o <<":">>) \o d = text
        BY <1>2, <1>3, ColonCut
  <2>2. ByIp(s, p).hostname = s /\ ByIp(s, p).port = p
        BY DEF ByIp
  <2> QED BY <2>1, <2>2 DEF HostportToString, d
<1>6. SockaddrParse(text) = Inet(i, p)
      BY <1>2, <1>3, <1>4, ColonParts
<1> HIDE DEF text
<1>7. Inet(i, p) # NoAddr
  <2>1. Inet(i, p).family = "inet" /\ NoAddr.family = "none"
        BY DEF Inet, NoAddr
  <2> QED BY <2>1
<1>8. IpText(Inet(i, p)) = s /\ Inet(i, p).port = p
      BY DEF IpText, Inet, s
<1>9. HostportParse(text) = ByIp(s, p)
      BY <1>6, <1>7, <1>8 DEF HostportParse, ByIp
<1> QED BY <1>5, <1>9 DEF s

\* The objects of both calls: an address that inet_pton knows, a host that is
\* one or a name of parts that are neither empty nor too long
NetInv ==
    /\ addr = NoAddr \/ IsAddress(addr)
    /\ host = NoHost \/ IsHost(host)

\* Every step of sockaddr.c and hostport.c leaves such objects.
THEOREM NetInvariance == NetSpec => []NetInv
<1>1. NetInit => NetInv
      BY DEF NetInit, NetInv
<1>2. ASSUME NetInv, [NetNext]_netVars PROVE NetInv'
  <2>1. CASE UNCHANGED netVars
        BY <1>2, <2>1 DEF NetInv, netVars, IsAddress, IsHost
  <2>2. ASSUME NEW t \in Texts, ReadAddress(t) PROVE NetInv'
    <3>1. t \in Seq(STRING)
          BY CallsAssumption
    <3>2. addr' = SockaddrParse(t) /\ host' = host
          BY <2>2 DEF ReadAddress
    <3>3. SockaddrParse(t) = NoAddr \/ IsAddress(SockaddrParse(t))
          BY <3>1, ParseTyped
    <3> QED BY <1>2, <3>2, <3>3 DEF NetInv, IsAddress, IsHost
  <2>3. ASSUME NEW t \in Texts, ReadHost(t) PROVE NetInv'
    <3>1. t \in Seq(STRING)
          BY CallsAssumption
    <3>2. host' = HostportParse(t) /\ addr' = addr
          BY <2>3 DEF ReadHost
    <3>3. HostportParse(t) = NoHost \/ IsHost(HostportParse(t))
          BY <3>1, HostTyped
    <3> QED BY <1>2, <3>2, <3>3 DEF NetInv, IsAddress, IsHost
  <2>4. ASSUME NEW t \in Texts, NEW q \in Ports, NewHost(t, q) PROVE NetInv'
    <3> DEFINE h == HostportParse(t)
    <3>1. t \in Seq(STRING) /\ q \in PortNumbers
          BY CallsAssumption
    <3>2. host' = (IF h = NoHost THEN NoHost ELSE [h EXCEPT !.port = q]) /\ addr' = addr
          BY <2>4 DEF NewHost, HostportNew
    <3>3. h = NoHost \/ IsHost(h)
          BY <3>1, HostTyped
    <3> HIDE DEF h
    <3>4. ASSUME IsHost(h) PROVE IsHost([h EXCEPT !.port = q])
      <4>1. PICK p : \/ \E s : IsName(s) /\ h = Named(s, p)
                     \/ \E i \in Range(Ip4) : h = ByIp(Text4[i], p)
                     \/ \E i \in Range(Ip6) : h = ByIp(Text6[i], p)
            BY <3>4 DEF IsHost
      <4> QED BY <3>1, <4>1, PortSet DEF IsHost
    <3> QED BY <1>2, <3>2, <3>3, <3>4 DEF NetInv, IsAddress, IsHost
  <2>5. ASSUME NEW family, NEW i, SetIp(family, i),
               (family = "inet" /\ i \in Range(Ip4)) \/ (family = "inet6" /\ i \in Range(Ip6))
        PROVE  NetInv'
    <3>1. /\ addr # NoAddr /\ host' = host
          /\ addr' = [addr EXCEPT !.family = family, !.ip = i]
          BY <2>5 DEF SetIp
    <3>2. IsAddress(addr)
          BY <1>2, <3>1 DEF NetInv
    <3>3. PICK p \in PortNumbers : \/ \E k \in Range(Ip4) : addr = Inet(k, p)
                                   \/ \E k \in Range(Ip6) : addr = Inet6(k, p)
          BY <3>2 DEF IsAddress
    <3>4. addr' = [family |-> family, ip |-> i, port |-> p]
      <4> DEFINE A(f, k) == [family |-> f, ip |-> k, port |-> p]
      <4>1. \A f, k, g, n : /\ [A(f, k) EXCEPT !.family = g] = A(g, k)
                            /\ [A(f, k) EXCEPT !.ip = n] = A(f, n)
            OBVIOUS
      <4>2. PICK f, k : addr = A(f, k)
            BY <3>3 DEF Inet, Inet6
      <4> HIDE DEF A
      <4>3. addr' = [[addr EXCEPT !.family = family] EXCEPT !.ip = i]
            BY <3>1
      <4>4. [addr EXCEPT !.family = family] = A(family, k)
            BY <4>1, <4>2
      <4>5. addr' = A(family, i)
        <5>1. [A(family, k) EXCEPT !.ip = i] = A(family, i)
              BY <4>1
        <5> QED BY <4>3, <4>4, <5>1
      <4> QED BY <4>5 DEF A
    <3>5. \/ addr' = Inet(i, p) /\ i \in Range(Ip4)
          \/ addr' = Inet6(i, p) /\ i \in Range(Ip6)
      <4>1. CASE family = "inet" /\ i \in Range(Ip4)
            BY <3>4, <4>1 DEF Inet
      <4>2. CASE family = "inet6" /\ i \in Range(Ip6)
            BY <3>4, <4>2 DEF Inet6
      <4> QED BY <2>5, <4>1, <4>2
    <3>6. IsAddress(addr)'
          BY <3>5 DEF IsAddress
    <3> QED BY <1>2, <3>1, <3>6 DEF NetInv, IsHost
  <2>6. ASSUME NEW q \in Ports, SetPort(q) PROVE NetInv'
    <3>1. /\ addr # NoAddr /\ host' = host
          /\ addr' = [addr EXCEPT !.port = q]
          BY <2>6 DEF SetPort
    <3>2. IsAddress(addr)
          BY <1>2, <3>1 DEF NetInv
    <3>3. PICK p : \/ \E i \in Range(Ip4) : addr = Inet(i, p)
                   \/ \E i \in Range(Ip6) : addr = Inet6(i, p)
          BY <3>2 DEF IsAddress
    <3>4. /\ \A i : addr = Inet(i, p) => addr' = Inet(i, q)
          /\ \A i : addr = Inet6(i, p) => addr' = Inet6(i, q)
          BY <3>1 DEF Inet, Inet6
    <3>5. q \in PortNumbers
          BY CallsAssumption
    <3>6. IsAddress(addr)'
          BY <3>3, <3>4, <3>5 DEF IsAddress
    <3> QED BY <1>2, <3>1, <3>6 DEF NetInv, IsHost
  <2>7. CASE Free
        BY <2>7 DEF Free, NetInv
  <2> QED BY <1>2, <2>1, <2>2, <2>3, <2>4, <2>5, <2>6, <2>7 DEF NetNext
<1> QED BY <1>1, <1>2, PTL DEF NetSpec

\* The module's property, for any library that reads back the addresses it
\* writes, any limits and texts: sockaddr_parse gives back the address that
\* sockaddr_to_string wrote, hostport_parse the host of hostport_to_string,
\* with the exceptions the property names.
THEOREM WrittenIsReadBackSafe == NetSpec => []WrittenIsReadBack
<1>1. ASSUME NetInv PROVE WrittenIsReadBack
  <2>1. ASSUME addr # NoAddr PROVE SockaddrParse(SockaddrToString(addr)) = addr
    <3>1. IsAddress(addr)
          BY <1>1, <2>1 DEF NetInv
    <3> QED BY <3>1, AddressWritten
  <2>2. ASSUME host # NoHost
        PROVE  \/ HostportParse(HostportToString(host)) = host
               \/ host.ip /\ host.hostname \in DOMAIN Ip6
               \/ ~host.ip /\ host.hostname \in DOMAIN Ip4
    <3>1. IsHost(host)
          BY <1>1, <2>2 DEF NetInv
    <3>2. PICK p \in PortNumbers : \/ \E s : IsName(s) /\ host = Named(s, p)
                                   \/ \E i \in Range(Ip4) : host = ByIp(Text4[i], p)
                                   \/ \E i \in Range(Ip6) : host = ByIp(Text6[i], p)
          BY <3>1 DEF IsHost
    <3>3. ASSUME NEW s, IsName(s), host = Named(s, p)
          PROVE  \/ HostportParse(HostportToString(host)) = host
                 \/ ~host.ip /\ host.hostname \in DOMAIN Ip4
      <4>1. ~host.ip /\ host.hostname = s
            BY <3>3 DEF Named
      <4> QED BY <3>3, <4>1, NameWritten
    <3>4. ASSUME NEW i \in Range(Ip4), host = ByIp(Text4[i], p)
          PROVE  HostportParse(HostportToString(host)) = host
          BY <3>4, Ip4Written
    <3>5. ASSUME NEW i \in Range(Ip6), host = ByIp(Text6[i], p)
          PROVE  host.ip /\ host.hostname \in DOMAIN Ip6
      <4>1. Text6[i] \in DOMAIN Ip6
            BY AddressesAssumption
      <4> QED BY <3>5, <4>1 DEF ByIp
    <3> QED BY <3>2, <3>3, <3>4, <3>5
  <2> QED BY <2>1, <2>2 DEF WrittenIsReadBack
<1> QED BY <1>1, NetInvariance, PTL

=============================================================================
