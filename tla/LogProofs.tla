------------------------------ MODULE LogProofs ------------------------------
(***************************************************************************)
(* Proofs about the tail of the logs, for any logs, accounts and number of *)
(* lines: while the logs grow by halves of lines, a line is struck as it   *)
(* is due in each reading of its log.                                      *)
(***************************************************************************)
EXTENDS LogTail, SequenceTheorems, WellFoundedInduction, TLAPS

\* The order in which half lines are written, over all logs.
Earlier(u, v) == u[1] < v[1] \/ (u[1] = v[1] /\ u[2] < v[2])

\* Half lines of the first w lines, in the order in which they were written.
Piece(s, w) ==
    /\ s \in Seq(Units)
    /\ \A i \in DOMAIN s : s[i][1] <= w
    /\ \A i, j \in DOMAIN s : i < j => Earlier(s[i], s[j])

\* A log, in which only the last line may lack its second half.
Whole(s, w) ==
    /\ Piece(s, w)
    /\ \A i \in DOMAIN s : /\ s[i][2] = 2 => i > 1 /\ s[i - 1] = <<s[i][1], 1>>
                           /\ s[i][2] = 1 /\ i < Len(s) => s[i + 1] = <<s[i][1], 2>>

LogsOK ==
    /\ text \in [Logs -> Seq(Units)]
    /\ \A l \in Logs : Whole(text[l], written)
    /\ kind \in [Lines -> Kinds]
    /\ written \in 0 .. MaxLines
    /\ order \in Seq(Logs)
    /\ \A i \in DOMAIN order : order[i] \notin deleted
    /\ \A i, j \in DOMAIN order : order[i] = order[j] => i = j

WatcherOK ==
    /\ active \in Accounts \union {NoAccount}
    /\ pc \in {"find", "read", "stat"}
    /\ cur \in Logs \union {NoLog}
    /\ (pc # "find" => cur # NoLog)
    /\ shut \in BOOLEAN
    /\ off \in Nat /\ lastSize \in Nat
    /\ buf \in Seq(Units)
    /\ strikes \in [Lines -> 0 .. 2]
    /\ \A n \in Lines : n > written => strikes[n] = 0 /\ n \notin split
    /\ split \subseteq Lines /\ unmanned \subseteq Lines
    /\ skipped \in BOOLEAN

\* What the reader has buffered is older than what it has not read yet.
Ahead ==
    \A i \in DOMAIN buf, j \in DOMAIN text[cur] :
        /\ j >= off => buf[i] = text[cur][j] \/ Earlier(buf[i], text[cur][j])
        /\ j > off \/ off > Len(text[cur]) => Earlier(buf[i], text[cur][j])

\* A line is struck for each of its halves once at most.
Struck ==
    /\ \A i \in DOMAIN buf : strikes[buf[i][1]] < buf[i][2]
    /\ \A j \in DOMAIN text[cur] :
          /\ j > off => strikes[text[cur][j][1]] < text[cur][j][2]
          /\ j = Len(text[cur]) /\ text[cur][j][2] = 1 => strikes[text[cur][j][1]] <= 1

\* Where in its log the reader is, as long as that is not truncated, and what
\* the lines before and after that place were struck.
Counted ==
    \A i \in DOMAIN text[cur] :
        LET n == text[cur][i][1]
            half == text[cur][i][2]
        IN /\ half = 1 /\ i > Passed => strikes[n] = 0 /\ n \notin split
           /\ n \notin unmanned =>
                 /\ half = 1 /\ i = Passed => strikes[n] = FirstDue(kind[n])
                 /\ half = 2 /\ i <= Passed => strikes[n] = Due(kind[n], n \in split)
InStep ==
    /\ off <= Len(text[cur]) /\ Len(buf) <= off
    /\ \A i \in DOMAIN buf : buf[i] = text[cur][Passed + i]
    /\ Counted

Reading == Piece(buf, written) /\ Ahead /\ Struck /\ (~skipped => InStep)

LogInv == LogsOK /\ WatcherOK /\ (cur # NoLog => Reading)

-----------------------------------------------------------------------------
(* Half lines and sequences.                                               *)

LEMMA UnitParts ==
    /\ \A u \in Units : u[1] \in Lines /\ u[1] \in Nat \ {0} /\ u[2] \in {1, 2} /\ u = <<u[1], u[2]>>
    /\ \A n \in Lines : <<n, 1>> \in Units /\ <<n, 2>> \in Units
BY LogAssumption DEF Units, Lines

\* A nonempty set of numbers has a least element.
LEMMA LeastNumber ==
    ASSUME NEW T, T \subseteq Nat, T # {}
    PROVE  \E n \in T : \A m \in T : n <= m
<1>1. \E n \in T : \A m \in T : ~(<<m, n>> \in OpToRel(<, Nat))
  BY NatLessThanWellFounded, WFMin
<1>2. PICK n \in T : \A m \in T : ~(<<m, n>> \in OpToRel(<, Nat))
  BY <1>1
<1>3. \A m \in T : ~(m < n)
  BY <1>2 DEF OpToRel
<1> QED
  BY <1>3

LEMMA Joined ==
    ASSUME NEW S, NEW s \in Seq(S), NEW t \in Seq(S)
    PROVE  /\ s \o t \in Seq(S)
           /\ Len(s \o t) = Len(s) + Len(t)
           /\ DOMAIN (s \o t) = 1 .. Len(s) + Len(t)
           /\ \A i \in DOMAIN s : (s \o t)[i] = s[i]
           /\ \A i \in DOMAIN (s \o t) : i > Len(s) => i - Len(s) \in DOMAIN t /\ (s \o t)[i] = t[i - Len(s)]
OBVIOUS

LEMMA Part ==
    ASSUME NEW S, NEW s \in Seq(S), NEW m \in Nat, m <= Len(s)
    PROVE  /\ SubSeq(s, m + 1, Len(s)) \in Seq(S)
           /\ Len(SubSeq(s, m + 1, Len(s))) = Len(s) - m
           /\ DOMAIN SubSeq(s, m + 1, Len(s)) = 1 .. Len(s) - m
           /\ \A i \in DOMAIN SubSeq(s, m + 1, Len(s)) : SubSeq(s, m + 1, Len(s))[i] = s[m + i]
           /\ SubSeq(s, 1, m) \in Seq(S)
           /\ Len(SubSeq(s, 1, m)) = m
           /\ \A i \in 1 .. m : SubSeq(s, 1, m)[i] = s[i]
OBVIOUS

\* A log leaves the order: it was there once at most.
LEMMA LeavesOrder ==
    ASSUME NEW S, NEW s \in Seq(S), \A i, j \in DOMAIN s : s[i] = s[j] => i = j, NEW e
    PROVE  /\ RemoveFirst(s, e) \in Seq(S)
           /\ \A i, j \in DOMAIN RemoveFirst(s, e) :
                 RemoveFirst(s, e)[i] = RemoveFirst(s, e)[j] => i = j
           /\ \A i \in DOMAIN RemoveFirst(s, e) :
                 RemoveFirst(s, e)[i] # e /\ \E j \in DOMAIN s : RemoveFirst(s, e)[i] = s[j]
<1> DEFINE r == RemoveFirst(s, e)
<1>1. CASE ~\E i \in 1 .. Len(s) : s[i] = e
  <2>1. r = s
    BY <1>1 DEF RemoveFirst
  <2> QED
    BY <1>1, <2>1
<1>2. CASE \E i \in 1 .. Len(s) : s[i] = e
  <2> DEFINE I == {i \in 1 .. Len(s) : s[i] = e}
             m == Min(I)
  <2>1. m \in I
    <3>1. \E n \in I : \A k \in I : n <= k
      BY <1>2, LeastNumber
    <3> QED
      BY <3>1 DEF Min
  <2>2. r = RemoveAt(s, m)
    BY <1>2 DEF RemoveFirst, SelectInSeq
  <2> DEFINE a == SubSeq(s, 1, m - 1)
             b == SubSeq(s, m + 1, Len(s))
  <2> HIDE DEF m
  <2>3. m \in 1 .. Len(s) /\ s[m] = e /\ Len(s) \in Nat /\ DOMAIN s = 1 .. Len(s)
    BY <2>1
  <2>4. /\ a \in Seq(S) /\ Len(a) = m - 1 /\ \A i \in 1 .. m - 1 : a[i] = s[i]
        /\ b \in Seq(S) /\ Len(b) = Len(s) - m /\ \A i \in 1 .. Len(s) - m : b[i] = s[m + i]
    <3>1. m \in Nat /\ m - 1 \in Nat /\ m <= Len(s) /\ m - 1 <= Len(s)
      BY <2>3
    <3> QED
      BY <3>1, Part
  <2>5. r = a \o b
    BY <2>2 DEF RemoveAt
  <2> HIDE DEF r, a, b
  <2>a. /\ r \in Seq(S) /\ DOMAIN r = 1 .. Len(a) + Len(b)
        /\ \A i \in DOMAIN a : r[i] = a[i]
        /\ \A i \in DOMAIN r : i > Len(a) => i - Len(a) \in DOMAIN b /\ r[i] = b[i - Len(a)]
    BY <2>4, <2>5, Joined
  <2>b. DOMAIN a = 1 .. m - 1 /\ DOMAIN b = 1 .. Len(s) - m
    BY <2>4
  <2>6. r \in Seq(S) /\ DOMAIN r = 1 .. Len(s) - 1
    BY <2>3, <2>4, <2>a
  <2>7. ASSUME NEW i \in DOMAIN r PROVE r[i] = IF i < m THEN s[i] ELSE s[i + 1]
    <3>1. CASE i < m
      BY <2>3, <2>4, <2>6, <2>a, <2>b, <3>1
    <3>2. CASE i >= m
      <4>1. r[i] = b[i - (m - 1)] /\ i - (m - 1) \in 1 .. Len(s) - m
        BY <2>3, <2>4, <2>6, <2>a, <2>b, <3>2
      <4>2. m + (i - (m - 1)) = i + 1
        BY <2>3, <2>6
      <4> QED
        BY <2>3, <2>4, <2>6, <3>2, <4>1, <4>2
    <3> QED
      BY <2>3, <2>6, <3>1, <3>2
  <2> DEFINE k(i) == IF i < m THEN i ELSE i + 1
  <2>8. \A i \in DOMAIN r : k(i) \in DOMAIN s /\ k(i) # m /\ r[i] = s[k(i)]
    BY <2>3, <2>6, <2>7
  <2>9. \A i, j \in DOMAIN r : k(i) = k(j) => i = j
    BY <2>3, <2>6
  <2> HIDE DEF k
  <2>10. \A i \in DOMAIN r : r[i] # e /\ \E j \in DOMAIN s : r[i] = s[j]
    BY <2>3, <2>8
  <2>11. \A i, j \in DOMAIN r : r[i] = r[j] => i = j
    BY <2>8, <2>9
  <2> QED
    BY <2>6, <2>10, <2>11 DEF r
<1> QED
  BY <1>1, <1>2

-----------------------------------------------------------------------------
(* Agy writes, and other things that happen to the logs.                   *)

\* The first half of a new line, at the end of a log.
LEMMA WholeFirst ==
    ASSUME NEW w \in Nat, w + 1 \in Lines, NEW s, Whole(s, w), s # <<>> => Last(s)[2] = 2
    PROVE  Whole(s \o << <<w + 1, 1>> >>, w + 1)
<1>1. /\ s \in Seq(Units) /\ Len(s) \in Nat /\ DOMAIN s = 1 .. Len(s)
      /\ \A i \in DOMAIN s : s[i] \in Units /\ s[i][1] <= w
  BY DEF Whole, Piece
<1>2. <<w + 1, 1>> \in Units /\ w + 1 \in Nat
  BY UnitParts
<1> DEFINE r == s \o << <<w + 1, 1>> >>
<1>3. /\ r \in Seq(Units) /\ Len(r) = Len(s) + 1 /\ DOMAIN r = 1 .. Len(s) + 1
      /\ \A i \in DOMAIN s : r[i] = s[i]
      /\ r[Len(s) + 1] = <<w + 1, 1>>
  BY <1>1, <1>2
<1> HIDE DEF r
<1>4. \A i \in DOMAIN r : i # Len(s) + 1 => i \in DOMAIN s
  BY <1>1, <1>3
<1>5. \A i \in DOMAIN s : s[i][1] \in Nat /\ s[i][1] <= w
  BY <1>1, UnitParts
<1>6. ASSUME NEW i \in DOMAIN r PROVE r[i][1] <= w + 1
  <2>1. CASE i = Len(s) + 1
    BY <1>2, <1>3, <2>1
  <2>2. CASE i # Len(s) + 1
    BY <1>3, <1>4, <1>5, <2>2
  <2> QED
    BY <2>1, <2>2
<1>7. ASSUME NEW i \in DOMAIN r, NEW j \in DOMAIN r, i < j PROVE Earlier(r[i], r[j])
  <2>1. i \in DOMAIN s /\ r[i] = s[i]
    BY <1>1, <1>3, <1>7
  <2>2. CASE j \in DOMAIN s
    BY <1>3, <1>7, <2>1, <2>2 DEF Whole, Piece
  <2>3. CASE j = Len(s) + 1
    <3>1. r[i][1] < w + 1 /\ r[j][1] = w + 1
      BY <1>3, <1>5, <2>1, <2>3
    <3> QED
      BY <3>1 DEF Earlier
  <2> QED
    BY <1>4, <2>2, <2>3
<1>8. ASSUME NEW i \in DOMAIN r
      PROVE  /\ r[i][2] = 2 => i > 1 /\ r[i - 1] = <<r[i][1], 1>>
             /\ r[i][2] = 1 /\ i < Len(r) => r[i + 1] = <<r[i][1], 2>>
  <2>1. CASE i < Len(s)
    <3>1. i \in DOMAIN s /\ i + 1 \in DOMAIN s /\ (i > 1 => i - 1 \in DOMAIN s)
      BY <1>1, <1>3, <2>1
    <3> QED
      BY <1>3, <2>1, <3>1 DEF Whole
  <2>2. CASE i = Len(s)
    <3>1. s # <<>> /\ Last(s) = s[i] /\ i \in DOMAIN s /\ (i > 1 => i - 1 \in DOMAIN s)
      BY <1>1, <1>3, <2>2 DEF Last
    <3> QED
      BY <1>3, <3>1 DEF Whole
  <2>3. CASE i = Len(s) + 1
    BY <1>1, <1>3, <2>3
  <2> QED
    BY <1>1, <1>3, <2>1, <2>2, <2>3
<1> QED
  BY <1>3, <1>6, <1>7, <1>8 DEF Whole, Piece, r

\* The rest of an open line.
LEMMA WholeEnd ==
    ASSUME NEW w \in Nat, NEW s, Whole(s, w), s # <<>>, NEW n, Last(s) = <<n, 1>>
    PROVE  Whole(s \o << <<n, 2>> >>, w)
<1>1. /\ s \in Seq(Units) /\ Len(s) \in Nat \ {0} /\ DOMAIN s = 1 .. Len(s) /\ Len(s) \in DOMAIN s
      /\ s[Len(s)] = <<n, 1>> /\ \A i \in DOMAIN s : s[i] \in Units /\ s[i][1] <= w
  BY DEF Whole, Piece, Last
<1>2. n \in Lines /\ n \in Nat /\ n <= w /\ <<n, 2>> \in Units
  BY <1>1, UnitParts
<1> DEFINE r == s \o << <<n, 2>> >>
<1>3. /\ r \in Seq(Units) /\ Len(r) = Len(s) + 1 /\ DOMAIN r = 1 .. Len(s) + 1
      /\ \A i \in DOMAIN s : r[i] = s[i]
      /\ r[Len(s) + 1] = <<n, 2>>
  BY <1>1, <1>2
<1> HIDE DEF r
<1>4. \A i \in DOMAIN r : i # Len(s) + 1 => i \in DOMAIN s
  BY <1>1, <1>3
<1>5. \A i \in DOMAIN r : r[i][1] <= w
  BY <1>1, <1>2, <1>3, <1>4
<1>6. ASSUME NEW i \in DOMAIN r, NEW j \in DOMAIN r, i < j PROVE Earlier(r[i], r[j])
  <2>1. i \in DOMAIN s /\ r[i] = s[i]
    BY <1>1, <1>3, <1>6
  <2>2. CASE j \in DOMAIN s
    BY <1>3, <1>6, <2>1, <2>2 DEF Whole, Piece
  <2>3. CASE j = Len(s) + 1
    <3>1. i = Len(s) \/ Earlier(s[i], <<n, 1>>)
      BY <1>1, <2>1 DEF Whole, Piece
    <3> QED
      BY <1>1, <1>2, <1>3, <2>1, <2>3, <3>1, UnitParts DEF Earlier
  <2> QED
    BY <1>4, <2>2, <2>3
<1>7. ASSUME NEW i \in DOMAIN r
      PROVE  /\ r[i][2] = 2 => i > 1 /\ r[i - 1] = <<r[i][1], 1>>
             /\ r[i][2] = 1 /\ i < Len(r) => r[i + 1] = <<r[i][1], 2>>
  <2>1. CASE i < Len(s)
    <3>1. i \in DOMAIN s /\ i + 1 \in DOMAIN s /\ (i > 1 => i - 1 \in DOMAIN s)
      BY <1>1, <1>3, <2>1
    <3> QED
      BY <1>3, <2>1, <3>1 DEF Whole
  <2>2. CASE i = Len(s)
    BY <1>1, <1>3, <2>2
  <2>3. CASE i = Len(s) + 1
    BY <1>1, <1>3, <2>3
  <2> QED
    BY <1>1, <1>3, <2>1, <2>2, <2>3
<1> QED
  BY <1>3, <1>5, <1>6, <1>7 DEF Whole, Piece, r

\* A whole line at once.
LEMMA WholeLine ==
    ASSUME NEW w \in Nat, w + 1 \in Lines, NEW s, Whole(s, w), s # <<>> => Last(s)[2] = 2
    PROVE  Whole(s \o << <<w + 1, 1>>, <<w + 1, 2>> >>, w + 1)
<1> DEFINE r == s \o << <<w + 1, 1>> >>
<1>1. Whole(r, w + 1) /\ s \in Seq(Units) /\ <<w + 1, 1>> \in Units /\ <<w + 1, 2>> \in Units
  <2>1. Whole(s \o << <<w + 1, 1>> >>, w + 1)
    BY WholeFirst
  <2>2. s \in Seq(Units) /\ <<w + 1, 1>> \in Units /\ <<w + 1, 2>> \in Units
    BY UnitParts DEF Whole, Piece
  <2> QED
    BY <2>1, <2>2
<1>2. r # <<>> /\ Last(r) = <<w + 1, 1>>
  BY <1>1 DEF Last
<1>3. s \o << <<w + 1, 1>>, <<w + 1, 2>> >> = r \o << <<w + 1, 2>> >>
  BY <1>1, SMTT(60)
<1> HIDE DEF r
<1>4. w + 1 \in Nat
  OBVIOUS
<1>5. Whole(r \o << <<w + 1, 2>> >>, w + 1)
  BY <1>1, <1>2, <1>4, WholeEnd
<1> QED
  BY <1>3, <1>5

\* A longer record of what was written contains the shorter one.
LEMMA WholeMore ==
    ASSUME NEW w \in Nat, NEW v \in Nat, w <= v, NEW s
    PROVE  (Whole(s, w) => Whole(s, v)) /\ (Piece(s, w) => Piece(s, v))
<1>1. ASSUME Piece(s, w) PROVE Piece(s, v)
  <2>1. \A i \in DOMAIN s : s[i] \in Units /\ s[i][1] <= w
    BY <1>1 DEF Piece
  <2>2. \A i \in DOMAIN s : s[i][1] <= v
    BY <2>1, UnitParts
  <2> QED
    BY <1>1, <2>2 DEF Piece
<1> QED
  BY <1>1 DEF Whole

\* The log being read is the same, and so is what was struck.
LEMMA ReadingSame ==
    ASSUME LogInv, cur # NoLog, UNCHANGED <<readVars, strikes, split, unmanned>>, text'[cur] = text[cur],
           written' \in Nat, written <= written', \A n \in 1 .. written : kind'[n] = kind[n],
           ~skipped' => ~skipped
    PROVE  Reading'
<1>1. Reading /\ written \in Nat /\ UNCHANGED <<cur, off, buf>> /\ cur \in Logs
  BY DEF LogInv, LogsOK, WatcherOK, readVars
<1>2. Piece(buf, written)'
  BY <1>1, WholeMore DEF Reading
<1>3. Ahead' /\ Struck'
  BY <1>1 DEF Reading, Ahead, Struck
<1>4. \A i \in DOMAIN text[cur] : text[cur][i][1] \in 1 .. written
  <2>1. \A i \in DOMAIN text[cur] : text[cur][i] \in Units /\ text[cur][i][1] <= written
    BY <1>1 DEF LogInv, LogsOK, Whole, Piece
  <2> QED
    BY <1>1, <2>1, UnitParts
<1>5. ASSUME ~skipped' PROVE InStep'
  <2>1. InStep /\ Passed' = Passed
    BY <1>1, <1>5 DEF Reading, Passed
  <2>2. UNCHANGED <<cur, off, buf, strikes, split, unmanned>> /\ text'[cur'] = text[cur]
    BY DEF readVars
  <2>3. \A i \in DOMAIN text[cur] : kind'[text[cur][i][1]] = kind[text[cur][i][1]]
    BY <1>4
  <2>4. Counted'
    BY <2>1, <2>2, <2>3 DEF InStep, Counted
  <2> QED
    BY <1>1, <2>1, <2>4 DEF InStep
<1> QED
  BY <1>2, <1>3, <1>5 DEF Reading

\* The log being read gets a new line, or the rest of its last one.
LEMMA ReadingGrown ==
    ASSUME LogInv, cur # NoLog, UNCHANGED <<readVars, history>>,
           written' \in Nat, written <= written', \A n \in 1 .. written : kind'[n] = kind[n],
           NEW t \in Seq(Units), Len(t) > 0, text'[cur] = text[cur] \o t,
           \/ \A k \in DOMAIN t : t[k][1] > written /\ strikes[t[k][1]] = 0 /\ t[k][1] \notin split
           \/ text[cur] # <<>> /\ \E n \in Lines : Last(text[cur]) = <<n, 1>> /\ t = << <<n, 2>> >>
    PROVE  Reading'
<1> DEFINE T == text[cur]
           R == text[cur] \o t
<1>1. /\ Reading /\ written \in Nat /\ UNCHANGED <<cur, off, buf, strikes, split, unmanned, skipped>>
      /\ T \in Seq(Units) /\ Len(T) \in Nat /\ DOMAIN T = 1 .. Len(T) /\ off \in Nat
      /\ buf \in Seq(Units) /\ Len(t) \in Nat /\ Len(buf) \in Nat
      /\ strikes \in [Lines -> 0 .. 2]
  BY DEF LogInv, LogsOK, WatcherOK, readVars, history
<1>2. /\ R \in Seq(Units) /\ Len(R) = Len(T) + Len(t) /\ DOMAIN R = 1 .. Len(T) + Len(t)
      /\ \A i \in DOMAIN T : R[i] = T[i]
      /\ \A i \in DOMAIN R : i > Len(T) => i - Len(T) \in DOMAIN t /\ R[i] = t[i - Len(T)]
  BY <1>1, Joined
<1>3. /\ text'[cur'] = R
      /\ \A i \in DOMAIN buf, j \in DOMAIN T :
            /\ j >= off => buf[i] = T[j] \/ Earlier(buf[i], T[j])
            /\ j > off \/ off > Len(T) => Earlier(buf[i], T[j])
      /\ \A j \in DOMAIN T : /\ j > off => strikes[T[j][1]] < T[j][2]
                             /\ j = Len(T) /\ T[j][2] = 1 => strikes[T[j][1]] <= 1
  BY <1>1 DEF Reading, Ahead, Struck
<1>12. ASSUME ~skipped
       PROVE  \A i \in DOMAIN T :
                 /\ T[i][2] = 1 /\ i > Passed => strikes[T[i][1]] = 0 /\ T[i][1] \notin split
                 /\ T[i][1] \notin unmanned =>
                       /\ T[i][2] = 1 /\ i = Passed => strikes[T[i][1]] = FirstDue(kind[T[i][1]])
                       /\ T[i][2] = 2 /\ i <= Passed => strikes[T[i][1]] = Due(kind[T[i][1]], T[i][1] \in split)
  BY <1>1, <1>12 DEF Reading, InStep, Counted
<1> HIDE DEF T, R
<1>4. /\ \A i \in DOMAIN buf : buf[i] \in Units /\ buf[i][1] <= written
      /\ \A i \in DOMAIN T : T[i] \in Units /\ T[i][1] <= written
      /\ \A i \in DOMAIN R : R[i] \in Units
  BY <1>1, <1>2 DEF Reading, Piece, LogInv, LogsOK, WatcherOK, Whole, T
<1>5. \A j \in DOMAIN R : j \in DOMAIN T \/ j > Len(T)
  BY <1>1, <1>2
<1>6. ASSUME NEW j \in DOMAIN R, j > Len(T)
      PROVE  \/ R[j][1] > written /\ strikes[R[j][1]] = 0 /\ R[j][1] \notin split
             \/ /\ Len(T) \in DOMAIN T /\ T[Len(T)] = <<R[j][1], 1>> /\ R[j][2] = 2
                /\ j = Len(R)
  <2>1. CASE \A k \in DOMAIN t : t[k][1] > written /\ strikes[t[k][1]] = 0 /\ t[k][1] \notin split
    BY <1>2, <1>6, <2>1
  <2>2. CASE T # <<>> /\ \E n \in Lines : Last(T) = <<n, 1>> /\ t = << <<n, 2>> >>
    <3>1. PICK n \in Lines : T[Len(T)] = <<n, 1>> /\ t = << <<n, 2>> >>
      BY <2>2 DEF Last
    <3>2. Len(t) = 1 /\ Len(T) \in DOMAIN T /\ j = Len(T) + 1
      BY <1>1, <1>2, <1>6, <2>2, <3>1
    <3>3. R[j] = <<n, 2>>
      <4>1. j - Len(T) = 1 /\ R[j] = t[j - Len(T)]
        BY <1>1, <1>2, <1>6, <3>2
      <4>2. t[1] = <<n, 2>>
        BY <3>1
      <4> QED
        BY <4>1, <4>2
    <3> QED
      BY <1>2, <3>1, <3>2, <3>3
  <2> QED
    BY <2>1, <2>2 DEF T
<1>7. ASSUME NEW i \in DOMAIN buf, NEW j \in DOMAIN R, j > Len(T) PROVE Earlier(buf[i], R[j])
  <2>1. CASE R[j][1] > written
    BY <1>1, <1>4, <2>1, UnitParts DEF Earlier
  <2>2. CASE Len(T) \in DOMAIN T /\ T[Len(T)] = <<R[j][1], 1>> /\ R[j][2] = 2
    <3>1. buf[i] = T[Len(T)] \/ Earlier(buf[i], T[Len(T)])
      <4>1. Len(T) >= off \/ off > Len(T)
        BY <1>1
      <4> QED
        BY <1>3, <2>2, <4>1
    <3> QED
      BY <1>4, <2>2, <3>1, UnitParts DEF Earlier
  <2> QED
    BY <1>6, <1>7, <2>1, <2>2
<1>8. Ahead'
  <2>1. ASSUME NEW i \in DOMAIN buf, NEW j \in DOMAIN R
        PROVE  /\ j >= off => buf[i] = R[j] \/ Earlier(buf[i], R[j])
               /\ j > off \/ off > Len(R) => Earlier(buf[i], R[j])
    <3>1. CASE j \in DOMAIN T
      <4>1. R[j] = T[j] /\ (off > Len(R) => off > Len(T))
        BY <1>1, <1>2, <3>1
      <4> QED
        BY <1>3, <3>1, <4>1
    <3> QED
      BY <1>5, <1>7, <3>1
  <2> QED
    BY <1>1, <1>3, <2>1 DEF Ahead
<1>9. Struck'
  <2>1. ASSUME NEW j \in DOMAIN R
        PROVE  /\ j > off => strikes[R[j][1]] < R[j][2]
               /\ j = Len(R) /\ R[j][2] = 1 => strikes[R[j][1]] <= 1
    <3>1. CASE j \in DOMAIN T
      <4>1. R[j] = T[j] /\ j # Len(R)
        BY <1>1, <1>2, <3>1
      <4> QED
        BY <1>3, <3>1, <4>1
    <3>2. CASE j > Len(T)
      <4>1. CASE strikes[R[j][1]] = 0
        BY <1>4, <4>1, UnitParts
      <4>2. CASE Len(T) \in DOMAIN T /\ T[Len(T)] = <<R[j][1], 1>> /\ R[j][2] = 2
        <5>1. strikes[R[j][1]] <= 1
          <6>1. T[Len(T)][2] = 1 /\ T[Len(T)][1] = R[j][1]
            BY <4>2
          <6> QED
            BY <1>3, <4>2, <6>1
        <5>2. strikes[R[j][1]] \in 0 .. 2
          BY <1>1, <1>4, UnitParts
        <5> QED
          BY <4>2, <5>1, <5>2
      <4> QED
        BY <1>6, <3>2, <4>1, <4>2
    <3> QED
      BY <1>5, <3>1, <3>2
  <2> QED
    BY <1>1, <1>3, <2>1 DEF Struck, Reading
<1>10. ASSUME ~skipped PROVE InStep'
  <2>1. InStep /\ Passed' = Passed /\ Passed <= Len(T) /\ Passed \in Nat
    BY <1>1, <1>10 DEF Reading, InStep, Passed, T
  <2>2. ASSUME NEW i \in DOMAIN R
        PROVE  /\ R[i][2] = 1 /\ i > Passed => strikes[R[i][1]] = 0 /\ R[i][1] \notin split
               /\ R[i][1] \notin unmanned =>
                     /\ R[i][2] = 1 /\ i = Passed => strikes[R[i][1]] = FirstDue(kind'[R[i][1]])
                     /\ R[i][2] = 2 /\ i <= Passed => strikes[R[i][1]] = Due(kind'[R[i][1]], R[i][1] \in split)
    <3>1. CASE i \in DOMAIN T
      <4>1. kind'[R[i][1]] = kind[R[i][1]] /\ R[i] = T[i]
        <5>1. R[i][1] \in 1 .. written
          BY <1>1, <1>2, <1>4, <3>1, UnitParts
        <5> QED
          BY <1>1, <1>2, <3>1, <5>1
      <4> QED
        BY <1>10, <1>12, <3>1, <4>1
    <3>2. CASE i > Len(T)
      <4>1. ~(i <= Passed) /\ i # Passed
        BY <1>1, <1>2, <2>1, <3>2
      <4>2. R[i][2] = 1 => strikes[R[i][1]] = 0 /\ R[i][1] \notin split
        BY <1>6, <3>2
      <4> QED
        BY <4>1, <4>2
    <3> QED
      BY <1>5, <3>1, <3>2
  <2>3. Counted'
    BY <1>1, <1>3, <2>1, <2>2 DEF Counted
  <2>4. off <= Len(R) /\ Len(buf) <= off
    BY <1>1, <1>2, <2>1 DEF InStep, T
  <2>5. ASSUME NEW i \in DOMAIN buf PROVE buf[i] = R[Passed + i]
    <3>1. buf[i] = T[Passed + i] /\ off <= Len(T) /\ Len(buf) <= off
      BY <2>1 DEF InStep, T
    <3>2. Passed + i \in DOMAIN T
      BY <1>1, <2>1, <3>1 DEF Passed
    <3> QED
      BY <1>2, <3>1, <3>2
  <2> QED
    BY <1>1, <1>3, <2>1, <2>3, <2>4, <2>5 DEF InStep
<1>11. Piece(buf, written)'
  BY <1>1, WholeMore DEF Reading
<1> QED
  BY <1>1, <1>8, <1>9, <1>10, <1>11 DEF Reading

\* A log that is written to becomes the newest.
LEMMA OrderMoves ==
    ASSUME LogsOK, NEW l \in Logs, UNCHANGED deleted,
           (l \notin deleted /\ order' = Append(RemoveFirst(order, l), l)) \/ UNCHANGED order
    PROVE  /\ order' \in Seq(Logs)
           /\ \A i \in DOMAIN order' : order'[i] \notin deleted'
           /\ \A i, j \in DOMAIN order' : order'[i] = order'[j] => i = j
<1>1. CASE UNCHANGED order
  BY <1>1 DEF LogsOK
<1>2. CASE l \notin deleted /\ order' = Append(RemoveFirst(order, l), l)
  <2> DEFINE r == RemoveFirst(order, l)
  <2>1. /\ r \in Seq(Logs)
        /\ \A i, j \in DOMAIN r : r[i] = r[j] => i = j
        /\ \A i \in DOMAIN r : r[i] # l /\ \E j \in DOMAIN order : r[i] = order[j]
    BY LeavesOrder DEF LogsOK
  <2>2. order' = Append(r, l)
    BY <1>2
  <2> HIDE DEF r
  <2>3. /\ order' \in Seq(Logs) /\ DOMAIN order' = 1 .. Len(r) + 1 /\ Len(r) \in Nat
        /\ \A i \in DOMAIN r : order'[i] = r[i]
        /\ order'[Len(r) + 1] = l /\ DOMAIN r = 1 .. Len(r)
    BY <2>1, <2>2
  <2>4. \A i \in DOMAIN order' : i \in DOMAIN r \/ i = Len(r) + 1
    BY <2>3
  <2>5. \A i \in DOMAIN r : r[i] \notin deleted
    BY <2>1 DEF LogsOK
  <2> QED
    BY <1>2, <2>1, <2>3, <2>4, <2>5
<1> QED
  BY <1>1, <1>2

\* Log l gets the half lines u.
Grows(l, u) ==
    /\ Len(u) > 0 /\ text' = [text EXCEPT ![l] = @ \o u]
    /\ written' \in written .. MaxLines
    /\ \A n \in 1 .. written : kind'[n] = kind[n]
    /\ kind' \in [Lines -> Kinds]
    /\ Whole(text[l] \o u, written')
    /\ \/ \A k \in DOMAIN u : u[k][1] > written /\ strikes[u[k][1]] = 0 /\ u[k][1] \notin split
       \/ text[l] # <<>> /\ \E n \in Lines : Last(text[l]) = <<n, 1>> /\ u = << <<n, 2>> >>

LEMMA AgyInv ==
    ASSUME LogInv, NEW l \in Logs, Agy(l)
    PROVE  LogInv'
<1>1. /\ LogsOK /\ WatcherOK /\ written \in Nat /\ MaxLines \in Nat
      /\ text \in [Logs -> Seq(Units)] /\ \A m \in Logs : Whole(text[m], written)
  BY LogAssumption DEF LogInv, LogsOK
<1>2. PICK t : Writes(l, t)
  BY DEF Agy, AddLine, EndLine
<1>3. UNCHANGED <<deleted, active, readVars, history>> /\ l \notin deleted
      /\ text' = [text EXCEPT ![l] = @ \o t] /\ order' = Append(RemoveFirst(order, l), l)
  BY <1>2 DEF Writes
<1>4. /\ order' \in Seq(Logs)
      /\ \A i \in DOMAIN order' : order'[i] \notin deleted'
      /\ \A i, j \in DOMAIN order' : order'[i] = order'[j] => i = j
  BY <1>1, <1>3, OrderMoves
<1>5. \E u \in Seq(Units) : Grows(l, u)
  <2>1. ASSUME NEW k \in Kinds, AddLine(l, k) PROVE \E u \in Seq(Units) : Grows(l, u)
    <3> DEFINE w == written
    <3>1. /\ w + 1 \in Lines /\ written' = w + 1 /\ kind' = [kind EXCEPT ![w + 1] = k] /\ ~HalfOpen(l)
      BY <1>1, <2>1 DEF AddLine, Lines
    <3>2. text[l] # <<>> => Last(text[l])[2] = 2
      <4>1. text[l] # <<>> => Last(text[l]) \in Units
        BY <1>1 DEF Last
      <4> QED
        BY <3>1, <4>1, UnitParts DEF HalfOpen
    <3>3. Whole(text[l], w)
      BY <1>1
    <3>4. strikes[w + 1] = 0 /\ w + 1 \notin split
      BY <1>1, <3>1 DEF WatcherOK
    <3>5. kind' \in [Lines -> Kinds] /\ \A n \in 1 .. w : kind'[n] = kind[n]
      BY <1>1, <3>1 DEF LogsOK
    <3>6. /\ <<w + 1, 1>> \in Units /\ <<w + 1, 2>> \in Units /\ w + 1 > w
          /\ w + 1 \in w .. MaxLines
      BY <1>1, <3>1, UnitParts DEF Lines
    <3>7. CASE Writes(l, << <<w + 1, 1>>, <<w + 1, 2>> >>)
      <4> DEFINE u == << <<w + 1, 1>>, <<w + 1, 2>> >>
      <4>1. Whole(text[l] \o u, w + 1)
        BY <1>1, <3>1, <3>2, <3>3, WholeLine
      <4>2. u \in Seq(Units) /\ Len(u) > 0 /\ \A i \in DOMAIN u : u[i][1] = w + 1
        BY <3>6
      <4> HIDE DEF u
      <4>3. text' = [text EXCEPT ![l] = @ \o u]
        BY <3>7 DEF Writes, u
      <4> QED
        BY <3>1, <3>4, <3>5, <3>6, <4>1, <4>2, <4>3 DEF Grows
    <3>8. CASE Writes(l, << <<w + 1, 1>> >>)
      <4> DEFINE u == << <<w + 1, 1>> >>
      <4>1. Whole(text[l] \o u, w + 1)
        BY <1>1, <3>1, <3>2, <3>3, WholeFirst
      <4>2. u \in Seq(Units) /\ Len(u) > 0 /\ \A i \in DOMAIN u : u[i][1] = w + 1
        BY <3>6
      <4> HIDE DEF u
      <4>3. text' = [text EXCEPT ![l] = @ \o u]
        BY <3>8 DEF Writes, u
      <4> QED
        BY <3>1, <3>4, <3>5, <3>6, <4>1, <4>2, <4>3 DEF Grows
    <3> QED
      BY <2>1, <3>1, <3>7, <3>8 DEF AddLine
  <2>2. ASSUME EndLine(l) PROVE \E u \in Seq(Units) : Grows(l, u)
    <3> DEFINE n == Last(text[l])[1]
               u == << <<n, 2>> >>
    <3>1. text[l] # <<>> /\ Last(text[l])[2] = 1 /\ UNCHANGED <<kind, written>> /\ Writes(l, u)
      BY <2>2 DEF EndLine, HalfOpen
    <3>2. Last(text[l]) \in Units
      BY <1>1, <3>1 DEF Last
    <3>3. n \in Lines /\ Last(text[l]) = <<n, 1>> /\ <<n, 2>> \in Units
      BY <3>1, <3>2, UnitParts
    <3> HIDE DEF n
    <3>4. Whole(text[l] \o u, written)
      BY <1>1, <3>1, <3>3, WholeEnd
    <3>5. u \in Seq(Units) /\ Len(u) > 0
      BY <3>3
    <3>6. text' = [text EXCEPT ![l] = @ \o u]
      BY <3>1 DEF Writes
    <3>7. written' \in written .. MaxLines /\ kind' \in [Lines -> Kinds]
      BY <1>1, <3>1 DEF LogsOK
    <3>8. u = << <<n, 2>> >>
      OBVIOUS
    <3> HIDE DEF u
    <3> QED
      BY <3>1, <3>3, <3>4, <3>5, <3>6, <3>7, <3>8 DEF Grows
  <2> QED
    BY <2>1, <2>2 DEF Agy
<1>6. PICK u \in Seq(Units) : Grows(l, u)
  BY <1>5
<1>7. text'[l] = text[l] \o u /\ \A m \in Logs \ {l} : text'[m] = text[m]
  BY <1>1, <1>6 DEF Grows
<1>8. written' \in Nat /\ written <= written' /\ written' \in 0 .. MaxLines
  BY <1>1, <1>6 DEF Grows
<1>9. \A m \in Logs : Whole(text'[m], written')
  BY <1>1, <1>6, <1>7, <1>8, WholeMore DEF Grows
<1>10. text' \in [Logs -> Seq(Units)]
  <2>1. text[l] \o u \in Seq(Units)
    BY <1>1, <1>6 DEF Grows
  <2> QED
    BY <1>1, <1>6, <2>1 DEF Grows
<1>11. LogsOK'
  BY <1>4, <1>6, <1>8, <1>9, <1>10 DEF Grows, LogsOK
<1>12. WatcherOK'
  <2>1. \A n \in Lines : n > written' => n > written
    BY <1>1, <1>8 DEF Lines
  <2> QED
    BY <1>1, <1>3, <2>1 DEF WatcherOK, readVars, history
<1>13. ASSUME cur # NoLog PROVE Reading'
  <2>1. cur \in Logs /\ UNCHANGED <<strikes, split, unmanned, skipped>>
    BY <1>1, <1>3, <1>13 DEF WatcherOK, history
  <2>2. CASE cur = l
    BY <1>3, <1>6, <1>7, <1>8, <1>13, <2>2, ReadingGrown DEF Grows
  <2>3. CASE cur # l
    BY <1>3, <1>6, <1>7, <1>8, <1>13, <2>1, <2>3, ReadingSame DEF Grows
  <2> QED
    BY <2>2, <2>3
<1> QED
  BY <1>3, <1>11, <1>12, <1>13 DEF LogInv, readVars

LEMMA OthersInv ==
    ASSUME LogInv, \/ \E l \in Logs : Truncate(l) \/ Delete(l)
                   \/ \E a \in Accounts \union {NoAccount} : Switch(a)
                   \/ UNCHANGED vars
    PROVE  LogInv'
<1>1. LogsOK /\ WatcherOK /\ written \in Nat /\ text \in [Logs -> Seq(Units)]
  BY DEF LogInv, LogsOK
<1>2. ASSUME NEW l \in Logs, Truncate(l) PROVE LogInv'
  <2>1. /\ text' = [text EXCEPT ![l] = <<>>] /\ skipped' = (skipped \/ cur = l) /\ l \notin deleted
        /\ order' = Append(RemoveFirst(order, l), l)
        /\ UNCHANGED <<kind, written, deleted, active, readVars, strikes, split, unmanned>>
    BY <1>2 DEF Truncate
  <2>2. text' \in [Logs -> Seq(Units)] /\ text'[l] = <<>> /\ \A m \in Logs \ {l} : text'[m] = text[m]
    BY <1>1, <2>1
  <2>3. \A m \in Logs : Whole(text'[m], written)
    <3>1. Whole(<<>>, written)
      BY DEF Whole, Piece
    <3> QED
      BY <1>1, <2>2, <3>1 DEF LogsOK
  <2>4. /\ order' \in Seq(Logs)
        /\ \A i \in DOMAIN order' : order'[i] \notin deleted'
        /\ \A i, j \in DOMAIN order' : order'[i] = order'[j] => i = j
    BY <1>1, <2>1, OrderMoves
  <2>5. LogsOK'
    BY <1>1, <2>1, <2>2, <2>3, <2>4 DEF LogsOK
  <2>6. WatcherOK'
    BY <1>1, <2>1 DEF WatcherOK, readVars
  <2>7. ASSUME cur # NoLog PROVE Reading'
    <3>1. UNCHANGED <<cur, off, buf>> /\ cur \in Logs /\ Reading
      BY <1>1, <2>1, <2>7 DEF WatcherOK, readVars, LogInv
    <3>2. CASE cur = l
      <4>0. text'[cur'] = <<>> /\ DOMAIN text'[cur'] = {}
        BY <2>2, <3>1, <3>2
      <4>1. text'[cur'] = <<>> /\ DOMAIN text'[cur'] = {} /\ skipped'
        BY <2>1, <3>2, <4>0, Zenon
      <4>2. UNCHANGED <<cur, off, buf, strikes, written>>
        BY <2>1, <3>1
      <4>3. Ahead' /\ Struck'
        BY <3>1, <4>1, <4>2 DEF Reading, Ahead, Struck
      <4>4. Piece(buf, written)'
        BY <3>1, <4>2 DEF Reading
      <4> QED
        BY <4>1, <4>3, <4>4 DEF Reading
    <3>3. CASE cur # l
      <4>1. written' \in Nat /\ written <= written' /\ text'[cur] = text[cur]
        BY <1>1, <2>1, <2>2, <3>1, <3>3
      <4>2. ~skipped' => ~skipped
        BY <2>1, Zenon
      <4> QED
        BY <2>1, <2>7, <4>1, <4>2, ReadingSame
    <3> QED
      BY <3>2, <3>3
  <2> QED
    BY <2>1, <2>5, <2>6, <2>7 DEF LogInv, readVars
<1>3. ASSUME UNCHANGED <<text, kind, written, readVars, history>>, active' \in Accounts \union {NoAccount},
             /\ order' \in Seq(Logs)
             /\ \A i \in DOMAIN order' : order'[i] \notin deleted'
             /\ \A i, j \in DOMAIN order' : order'[i] = order'[j] => i = j
      PROVE  LogInv'
  <2>1. LogsOK' /\ WatcherOK'
    BY <1>1, <1>3 DEF LogsOK, WatcherOK, readVars, history
  <2>2. cur # NoLog => Reading'
    BY <1>1, <1>3, ReadingSame DEF history
  <2> QED
    BY <1>3, <2>1, <2>2 DEF LogInv, readVars
<1>4. ASSUME NEW l \in Logs, Delete(l) PROVE LogInv'
  <2>1. /\ order' = RemoveFirst(order, l) /\ deleted' = deleted \union {l}
        /\ UNCHANGED <<text, kind, written, active, readVars, history>>
    BY <1>4 DEF Delete
  <2>2. /\ order' \in Seq(Logs)
        /\ \A i, j \in DOMAIN order' : order'[i] = order'[j] => i = j
        /\ \A i \in DOMAIN order' : order'[i] # l /\ \E j \in DOMAIN order : order'[i] = order[j]
    BY <1>1, <2>1, LeavesOrder DEF LogsOK
  <2>3. \A i \in DOMAIN order' : order'[i] \notin deleted'
    BY <1>1, <2>1, <2>2 DEF LogsOK
  <2> QED
    BY <1>1, <1>3, <2>1, <2>2, <2>3 DEF WatcherOK
<1>5. CASE \E a \in Accounts \union {NoAccount} : Switch(a)
  BY <1>1, <1>3, <1>5 DEF Switch, logVars, LogsOK
<1>6. CASE UNCHANGED vars
  BY <1>1, <1>3, <1>6 DEF vars, logVars, LogsOK, WatcherOK
<1> QED
  BY <1>2, <1>4, <1>5, <1>6

-----------------------------------------------------------------------------
(* The watcher.                                                            *)

LEMMA FindInv ==
    ASSUME LogInv, Find
    PROVE  LogInv'
<1>1. LogsOK /\ WatcherOK /\ UNCHANGED <<text, kind, written, order, deleted, active>>
  BY DEF LogInv, Find, logVars
<1>2. LogsOK'
  BY <1>1 DEF LogsOK
<1>3. Newest \in Logs
  <2>1. order # <<>> /\ Newest = order[Len(order)]
    BY DEF Find, Newest, Last
  <2> QED
    BY <1>1, <2>1 DEF LogsOK
<1>4. CASE /\ Newest = cur /\ pc' = "read"
           /\ UNCHANGED <<cur, shut, off, buf, lastSize, strikes, split, unmanned, skipped>>
  <2>1. WatcherOK'
    BY <1>1, <1>3, <1>4, LogAssumption DEF WatcherOK
  <2>2. Reading => Reading'
    BY <1>1, <1>4 DEF Reading, Piece, Ahead, Struck, InStep, Counted, Passed
  <2> QED
    BY <1>2, <1>4, <2>1, <2>2 DEF LogInv
<1>5. CASE shut' = TRUE /\ UNCHANGED <<pc, cur, off, buf, lastSize, history>>
  <2>1. WatcherOK'
    BY <1>1, <1>5 DEF WatcherOK, history
  <2>2. Reading => Reading'
    BY <1>1, <1>5 DEF Reading, Piece, Ahead, Struck, InStep, Counted, Passed, history
  <2> QED
    BY <1>2, <1>5, <2>1, <2>2 DEF LogInv
<1>6. CASE /\ pc' = "read" /\ cur' = Newest /\ shut' = FALSE
           /\ off' = 0 /\ buf' = <<>> /\ lastSize' = 0
           /\ strikes' = [n \in Lines |-> IF n \in LinesOf(Newest) THEN 0 ELSE strikes[n]]
           /\ split' = split \ LinesOf(Newest) /\ unmanned' = unmanned \ LinesOf(Newest)
           /\ skipped' = FALSE
  <2> DEFINE T == text[Newest]
  <2>1. T \in Seq(Units) /\ Len(T) \in Nat /\ \A j \in DOMAIN T : T[j] \in Units
    BY <1>1, <1>3 DEF LogsOK
  <2>2. \A j \in DOMAIN T : strikes'[T[j][1]] = 0 /\ T[j][1] \notin split'
    BY <1>6, <2>1, UnitParts DEF LinesOf
  <2>3. WatcherOK'
    <3>1. strikes' \in [Lines -> 0 .. 2] /\ \A n \in Lines : n > written => strikes'[n] = 0 /\ n \notin split'
      <4>1. \A n \in Lines : strikes'[n] \in {0, strikes[n]} /\ (n \notin split => n \notin split')
        BY <1>6
      <4>2. DOMAIN strikes' = Lines /\ strikes' = [n \in Lines |-> strikes'[n]]
        BY <1>6
      <4> QED
        BY <1>1, <4>1, <4>2 DEF WatcherOK
    <3>2. /\ pc' = "read" /\ cur' \in Logs /\ cur' # NoLog /\ shut' \in BOOLEAN /\ skipped' \in BOOLEAN
          /\ off' \in Nat /\ lastSize' \in Nat /\ buf' \in Seq(Units)
      <4>1. shut' \in BOOLEAN /\ skipped' \in BOOLEAN
        BY <1>6, Zenon
      <4>2. /\ pc' = "read" /\ cur' \in Logs /\ cur' # NoLog
            /\ off' \in Nat /\ lastSize' \in Nat /\ buf' \in Seq(Units)
        BY <1>3, <1>6, LogAssumption
      <4> QED
        BY <4>1, <4>2
    <3>3. split' \subseteq Lines /\ unmanned' \subseteq Lines
      BY <1>1, <1>6 DEF WatcherOK
    <3> QED
      BY <1>1, <3>1, <3>2, <3>3 DEF WatcherOK
  <2>4. text'[cur'] = T /\ Len(buf') = 0 /\ DOMAIN buf' = {}
    BY <1>1, <1>6
  <2> HIDE DEF T
  <2>5. Piece(buf, written)'
    BY <1>6 DEF Piece
  <2>6. Ahead' /\ Struck'
    BY <2>1, <2>2, <2>4, UnitParts DEF Ahead, Struck
  <2>7. InStep'
    <3>1. Passed' = 0
      <4>1. off' = 0 /\ Len(buf') = 0
        BY <1>6, <2>4
      <4> QED
        BY <4>1 DEF Passed
    <3>2. Counted'
      <4>1. \A j \in DOMAIN T : ~(j <= 0) /\ j # 0
        BY <2>1
      <4> QED
        BY <2>2, <2>4, <3>1, <4>1 DEF Counted
    <3> QED
      BY <1>6, <2>1, <2>4, <3>2 DEF InStep
  <2> QED
    BY <1>2, <2>3, <2>5, <2>6, <2>7 DEF LogInv, Reading
<1> QED
  BY <1>4, <1>5, <1>6 DEF Find, history

LEMMA StatInv ==
    ASSUME LogInv, Stat
    PROVE  LogInv'
<1>1. /\ LogsOK /\ WatcherOK /\ UNCHANGED <<text, kind, written, order, deleted, active, shut, off, buf>>
      /\ UNCHANGED <<strikes, split, unmanned, skipped>> /\ pc' = "find" /\ cur' \in {cur, NoLog}
      /\ cur # NoLog /\ lastSize' \in {lastSize, Len(text[cur])}
  BY DEF LogInv, Stat, logVars, history, WatcherOK
<1>2. LogsOK'
  BY <1>1 DEF LogsOK
<1>3. Len(text[cur]) \in Nat
  BY <1>1 DEF LogsOK, WatcherOK
<1>4. WatcherOK'
  BY <1>1, <1>3 DEF WatcherOK
<1>5. ASSUME cur' # NoLog PROVE Reading'
  <2>1. cur' = cur /\ Reading
    BY <1>1, <1>5 DEF LogInv
  <2> QED
    BY <1>1, <2>1 DEF Reading, Piece, Ahead, Struck, InStep, Counted, Passed
<1> QED
  BY <1>2, <1>4, <1>5 DEF LogInv

LEMMA FillInv ==
    ASSUME LogInv, Fill
    PROVE  LogInv'
<1> DEFINE T == text[cur]
           R == SubSeq(T, off + 1, Len(T))
<1>1. /\ LogsOK /\ WatcherOK /\ UNCHANGED <<text, kind, written, order, deleted, active, shut>>
      /\ UNCHANGED <<strikes, split, unmanned, skipped, pc, cur, lastSize>> /\ cur # NoLog /\ cur \in Logs
      /\ off' = Len(T) /\ buf' = buf \o R /\ R # <<>>
  BY DEF LogInv, Fill, Rest, logVars, history, WatcherOK
<1>2. /\ T \in Seq(Units) /\ Len(T) \in Nat /\ DOMAIN T = 1 .. Len(T) /\ off \in Nat /\ Reading
      /\ buf \in Seq(Units) /\ Len(buf) \in Nat /\ DOMAIN buf = 1 .. Len(buf) /\ Whole(T, written)
  BY <1>1 DEF LogsOK, WatcherOK, LogInv
<1>3. off < Len(T)
  BY <1>1, <1>2
<1>4. /\ R \in Seq(Units) /\ Len(R) = Len(T) - off /\ DOMAIN R = 1 .. Len(T) - off
      /\ \A i \in DOMAIN R : R[i] = T[off + i]
  BY <1>2, <1>3, Part
<1> HIDE DEF R
<1>5. /\ buf' \in Seq(Units) /\ Len(buf') = Len(buf) + (Len(T) - off) /\ DOMAIN buf' = 1 .. Len(buf')
      /\ \A i \in DOMAIN buf : buf'[i] = buf[i]
      /\ \A i \in DOMAIN buf' : i > Len(buf) =>
            off + (i - Len(buf)) \in DOMAIN T /\ buf'[i] = T[off + (i - Len(buf))]
  <2>1. /\ buf' \in Seq(Units) /\ Len(buf') = Len(buf) + Len(R) /\ DOMAIN buf' = 1 .. Len(buf) + Len(R)
        /\ \A i \in DOMAIN buf : buf'[i] = buf[i]
        /\ \A i \in DOMAIN buf' : i > Len(buf) => i - Len(buf) \in DOMAIN R /\ buf'[i] = R[i - Len(buf)]
    <3>1. /\ buf \o R \in Seq(Units) /\ Len(buf \o R) = Len(buf) + Len(R)
          /\ DOMAIN (buf \o R) = 1 .. Len(buf) + Len(R)
          /\ \A i \in DOMAIN buf : (buf \o R)[i] = buf[i]
          /\ \A i \in DOMAIN (buf \o R) : i > Len(buf) =>
                i - Len(buf) \in DOMAIN R /\ (buf \o R)[i] = R[i - Len(buf)]
      <4>1. buf \in Seq(Units) /\ R \in Seq(Units)
        BY <1>2, <1>4
      <4> QED
        BY <4>1, Joined
    <3> QED
      BY <1>1, <3>1
  <2>2. \A k \in DOMAIN R : off + k \in DOMAIN T
    BY <1>2, <1>4
  <2> QED
    BY <1>2, <1>4, <2>1, <2>2
<1>6. \A i \in DOMAIN buf' : i \in DOMAIN buf \/ i > Len(buf)
  BY <1>2, <1>5
<1>7. /\ \A i \in DOMAIN buf, j \in DOMAIN T : j > off => Earlier(buf[i], T[j])
      /\ \A i, j \in DOMAIN T : i < j => Earlier(T[i], T[j])
      /\ \A i, j \in DOMAIN buf : i < j => Earlier(buf[i], buf[j])
      /\ \A i \in DOMAIN T : T[i][1] <= written
      /\ \A i \in DOMAIN buf : buf[i][1] <= written
  BY <1>2 DEF Reading, Ahead, Whole, Piece
<1>8. \A j \in DOMAIN T : /\ j > off => strikes[T[j][1]] < T[j][2]
                          /\ j = Len(T) /\ T[j][2] = 1 => strikes[T[j][1]] <= 1
  BY <1>2 DEF Reading, Struck
<1>9. text'[cur'] = T
  BY <1>1
<1>10. ASSUME ~skipped
       PROVE  off <= Len(T) /\ Len(buf) <= off /\ Counted /\ \A i \in DOMAIN buf : buf[i] = T[Passed + i]
  BY <1>2, <1>10 DEF Reading, InStep
<1> HIDE DEF T
<1>11. Piece(buf, written)'
  <2>1. ASSUME NEW i \in DOMAIN buf' PROVE buf'[i][1] <= written
    BY <1>5, <1>6, <1>7
  <2>2. ASSUME NEW i \in DOMAIN buf', NEW j \in DOMAIN buf', i < j PROVE Earlier(buf'[i], buf'[j])
    <3>1. CASE j \in DOMAIN buf
      <4>1. i \in DOMAIN buf
        BY <1>2, <1>5, <2>2, <3>1
      <4> QED
        BY <1>5, <1>7, <2>2, <3>1, <4>1
    <3>2. CASE i \in DOMAIN buf /\ j > Len(buf)
      <4>1. off + (j - Len(buf)) > off /\ off + (j - Len(buf)) \in DOMAIN T
        BY <1>2, <1>5, <3>2
      <4> QED
        BY <1>5, <1>7, <3>2, <4>1
    <3>3. CASE i > Len(buf) /\ j > Len(buf)
      <4>1. off + (i - Len(buf)) < off + (j - Len(buf))
        BY <1>2, <1>5, <2>2
      <4> QED
        BY <1>5, <1>7, <3>3, <4>1
    <3> QED
      BY <1>2, <1>5, <1>6, <2>2, <3>1, <3>2, <3>3
  <2> QED
    BY <1>1, <1>5, <2>1, <2>2 DEF Piece
<1>12. Ahead'
  <2>1. ASSUME NEW i \in DOMAIN buf', NEW j \in DOMAIN T, j >= Len(T)
        PROVE  buf'[i] = T[j] \/ Earlier(buf'[i], T[j])
    <3>1. j = Len(T) /\ j > off
      BY <1>2, <1>3, <2>1
    <3>2. CASE i \in DOMAIN buf
      BY <1>5, <1>7, <3>1, <3>2
    <3>3. CASE i > Len(buf)
      <4>1. off + (i - Len(buf)) \in DOMAIN T /\ buf'[i] = T[off + (i - Len(buf))]
        BY <1>5, <3>3
      <4>2. off + (i - Len(buf)) = j \/ off + (i - Len(buf)) < j
        BY <1>2, <3>1, <4>1
      <4> QED
        BY <1>7, <4>1, <4>2
    <3> QED
      BY <1>6, <3>2, <3>3
  <2>2. \A j \in DOMAIN T : ~(j > Len(T)) /\ ~(Len(T) > Len(T))
    BY <1>2
  <2>3. off' = Len(text'[cur'])
    BY <1>1, <1>9 DEF T
  <2> QED
    BY <1>9, <2>1, <2>2, <2>3 DEF Ahead
<1>13. Struck'
  <2>1. ASSUME NEW i \in DOMAIN buf' PROVE strikes[buf'[i][1]] < buf'[i][2]
    <3>1. CASE i \in DOMAIN buf
      BY <1>2, <1>5, <3>1 DEF Reading, Struck
    <3>2. CASE i > Len(buf)
      <4>1. off + (i - Len(buf)) > off
        BY <1>2, <1>5, <3>2
      <4> QED
        BY <1>5, <1>8, <3>2, <4>1
    <3> QED
      BY <1>6, <3>1, <3>2
  <2>2. \A j \in DOMAIN T : ~(j > Len(T))
    BY <1>2
  <2>3. off' = Len(T)
    BY <1>1 DEF T
  <2> QED
    BY <1>1, <1>8, <1>9, <2>1, <2>2, <2>3 DEF Struck
<1>14. ASSUME ~skipped PROVE InStep'
  <2>1. Passed' = Passed /\ off' = Len(T) /\ Len(buf') <= Len(T)
    BY <1>1, <1>2, <1>3, <1>5, <1>10, <1>14 DEF Passed, T
  <2>2. Counted'
    BY <1>1, <1>10, <1>14, <2>1 DEF Counted
  <2>3. ASSUME NEW i \in DOMAIN buf' PROVE buf'[i] = T[Passed + i]
    <3>1. CASE i \in DOMAIN buf
      BY <1>5, <1>10, <1>14, <3>1
    <3>2. CASE i > Len(buf)
      <4>1. off + (i - Len(buf)) = Passed + i
        BY <1>2, <1>5 DEF Passed
      <4> QED
        BY <1>5, <3>2, <4>1
    <3> QED
      BY <1>6, <3>1, <3>2
  <2> QED
    BY <1>2, <1>9, <2>1, <2>2, <2>3 DEF InStep
<1>15. LogsOK' /\ WatcherOK'
  <2>1. off' \in Nat
    BY <1>1, <1>2 DEF T
  <2> QED
    BY <1>1, <1>5, <2>1 DEF LogsOK, WatcherOK
<1> QED
  BY <1>1, <1>11, <1>12, <1>13, <1>14, <1>15 DEF LogInv, Reading

LEMMA ScanEffect ==
    ASSUME LogsOK, WatcherOK, NEW p \in Seq(Units), p # <<>>, NEW m, m = p[Len(p)][1], Scan(p),
           strikes[m] < 2
    PROVE  /\ m \in Lines
           /\ strikes' \in [Lines -> 0 .. 2] /\ skipped' = skipped
           /\ split' = (IF Len(p) = 1 THEN split \union {m} ELSE split) /\ split' \subseteq Lines
           /\ unmanned \subseteq unmanned' /\ unmanned' \subseteq unmanned \union {m}
           /\ active' \in Accounts \union {NoAccount}
           /\ \A n \in Lines \ {m} : strikes'[n] = strikes[n]
           /\ strikes'[m] \in {strikes[m], strikes[m] + 1}
           /\ m \notin unmanned' => strikes'[m] = strikes[m] + (IF Fails(p) THEN 1 ELSE 0)
<1>1. m \in Lines
  <2>1. p[Len(p)] \in Units
    OBVIOUS
  <2> QED
    BY <2>1, UnitParts
<1>2. /\ strikes \in [Lines -> 0 .. 2] /\ split \subseteq Lines
      /\ active \in Accounts \union {NoAccount}
  BY DEF WatcherOK
<1>3. /\ split' = IF Len(p) = 1 THEN split \union {m} ELSE split
      /\ unmanned' = IF active = NoAccount THEN unmanned \union {m} ELSE unmanned
      /\ skipped' = skipped
      /\ IF Fails(p) /\ active # NoAccount
         THEN strikes' = [strikes EXCEPT ![m] = @ + 1] /\ active' \in Accounts
         ELSE UNCHANGED <<strikes, active>>
  BY DEF Scan
<1>4. CASE Fails(p) /\ active # NoAccount
  <2>1. strikes' = [strikes EXCEPT ![m] = @ + 1] /\ active' \in Accounts
    BY <1>3, <1>4
  <2>2. strikes[m] \in 0 .. 1
    BY <1>1, <1>2
  <2>3. strikes' \in [Lines -> 0 .. 2] /\ strikes'[m] = strikes[m] + 1
        /\ \A n \in Lines \ {m} : strikes'[n] = strikes[n]
    BY <1>1, <1>2, <2>1, <2>2
  <2> QED
    BY <1>1, <1>2, <1>3, <1>4, <2>1, <2>3
<1>5. CASE ~(Fails(p) /\ active # NoAccount)
  <2>1. UNCHANGED <<strikes, active>>
    BY <1>3, <1>5
  <2>2. m \notin unmanned' => ~Fails(p)
    BY <1>3, <1>5
  <2>3. strikes[m] + 0 = strikes[m]
    BY <1>1, <1>2
  <2> QED
    BY <1>1, <1>2, <1>3, <2>1, <2>2, <2>3
<1> QED
  BY <1>4, <1>5

\* Classify finds a failure in a whole line unless that is of the kind "ok".
LEMMA WholeLineFails ==
    ASSUME LogsOK, NEW m \in Lines, NEW p \in Seq(Units), Len(p) = 2, p[1] = <<m, 1>>, p[2] = <<m, 2>>
    PROVE  Fails(p) <=> kind[m] # "ok"
<1>1. {p[i] : i \in DOMAIN p} = {<<m, 1>>, <<m, 2>>}
  <2>1. DOMAIN p = {1, 2}
    OBVIOUS
  <2> QED
    BY <2>1
<1>2. kind[m] \in Kinds
  BY DEF LogsOK
<1>3. ASSUME kind[m] = "ok" PROVE ~Fails(p)
  <2>1. \A n \in Lines : {<<n, 1>>, <<n, 2>>} \subseteq {<<m, 1>>, <<m, 2>>} => n = m
    OBVIOUS
  <2> QED
    BY <1>1, <1>3, <2>1 DEF Fails
<1>4. ASSUME kind[m] # "ok" PROVE Fails(p)
  <2>1. kind[m] \in {"first", "second", "each", "across"}
    BY <1>2, <1>4, KindsAssumption
  <2>2. <<m, 1>>[2] = 1 /\ <<m, 2>>[2] = 2 /\ <<m, 1>>[1] = m /\ <<m, 2>>[1] = m
    OBVIOUS
  <2> QED
    BY <1>1, <2>1, <2>2 DEF Fails
<1> QED
  BY <1>3, <1>4

\* Half a line fails alone when the failure is in it.
LEMMA HalfLineFails ==
    ASSUME LogsOK, NEW m \in Lines, NEW h \in {1, 2}, NEW p \in Seq(Units), Len(p) = 1, p[1] = <<m, h>>
    PROVE  /\ h = 1 => (Fails(p) <=> kind[m] \in {"first", "each"})
           /\ h = 2 => (Fails(p) <=> kind[m] \in {"second", "each"})
<1>1. {p[i] : i \in DOMAIN p} = {<<m, h>>}
  <2>1. DOMAIN p = {1}
    OBVIOUS
  <2> QED
    BY <2>1
<1>2. \A n \in Lines : ~({<<n, 1>>, <<n, 2>>} \subseteq {<<m, h>>})
  <2> SUFFICES ASSUME NEW n \in Lines, <<n, 1>> = <<m, h>>, <<n, 2>> = <<m, h>> PROVE FALSE
    OBVIOUS
  <2>1. h = 1 /\ h = 2
    OBVIOUS
  <2> QED
    BY <2>1
<1>3. <<m, h>>[1] = m /\ <<m, h>>[2] = h
  OBVIOUS
<1>4. Fails(p) <=> kind[m] = "each" \/ kind[m] = IF h = 1 THEN "first" ELSE "second"
  BY <1>1, <1>2, <1>3 DEF Fails
<1> QED
  BY <1>4

\* The first k half lines of the buffer are scanned and taken out of it.
LEMMA ScanKeeps ==
    ASSUME LogInv, cur # NoLog, NEW k \in DOMAIN buf, Scan(SubSeq(buf, 1, k)),
           buf' = SubSeq(buf, k + 1, Len(buf)), UNCHANGED <<logVars, cur, shut, off, lastSize>>,
           pc' \in {"read", "stat"}
    PROVE  /\ LogsOK' /\ WatcherOK' /\ Piece(buf, written)' /\ Ahead' /\ Struck'
           /\ UNCHANGED skipped
<1> DEFINE p == SubSeq(buf, 1, k)
           m == buf[k][1]
           T == text[cur]
<1>1. /\ LogsOK /\ WatcherOK /\ Reading /\ buf \in Seq(Units) /\ Len(buf) \in Nat /\ k \in 1 .. Len(buf)
      /\ buf[k] \in Units /\ off \in Nat /\ written \in Nat
      /\ UNCHANGED <<text, kind, written, order, deleted, cur, off>>
  BY DEF LogInv, WatcherOK, logVars, LogsOK
<1>2. /\ buf' \in Seq(Units) /\ Len(buf') = Len(buf) - k /\ DOMAIN buf' = 1 .. Len(buf) - k
      /\ \A i \in DOMAIN buf' : buf'[i] = buf[k + i] /\ k + i \in DOMAIN buf /\ k + i > k
      /\ p \in Seq(Units) /\ Len(p) = k /\ p[k] = buf[k]
  <2>1. /\ buf' \in Seq(Units) /\ Len(buf') = Len(buf) - k /\ DOMAIN buf' = 1 .. Len(buf) - k
        /\ \A i \in DOMAIN buf' : buf'[i] = buf[k + i]
        /\ p \in Seq(Units) /\ Len(p) = k /\ p[k] = buf[k]
    <3> DEFINE b == SubSeq(buf, k + 1, Len(buf))
    <3>1. k \in Nat /\ k <= Len(buf) /\ k \in 1 .. k /\ buf \in Seq(Units)
      BY <1>1
    <3>2. /\ b \in Seq(Units) /\ Len(b) = Len(buf) - k /\ DOMAIN b = 1 .. Len(buf) - k
          /\ \A i \in DOMAIN b : b[i] = buf[k + i]
          /\ p \in Seq(Units) /\ Len(p) = k /\ \A i \in 1 .. k : p[i] = buf[i]
      BY <3>1, Part
    <3>3. buf' = b
      OBVIOUS
    <3> HIDE DEF b, p
    <3> QED
      BY <3>1, <3>2, <3>3
  <2> HIDE DEF p
  <2>2. ASSUME NEW i \in DOMAIN buf' PROVE k + i \in DOMAIN buf /\ k + i > k
    <3>1. i \in 1 .. Len(buf) - k /\ DOMAIN buf = 1 .. Len(buf)
      BY <1>1, <2>1
    <3> QED
      BY <1>1, <3>1
  <2> QED
    BY <2>1, <2>2
<1>3. /\ strikes \in [Lines -> 0 .. 2] /\ m \in Lines /\ strikes[m] < buf[k][2] /\ strikes[m] < 2
      /\ buf[k][2] \in {1, 2} /\ m <= written
  <2>1. strikes \in [Lines -> 0 .. 2] /\ strikes[m] < buf[k][2] /\ m <= written
    BY <1>1 DEF WatcherOK, Reading, Struck, Piece
  <2>2. m \in Lines /\ buf[k][2] \in {1, 2}
    BY <1>1, UnitParts
  <2>3. strikes[m] \in 0 .. 2
    BY <2>1, <2>2
  <2> QED
    BY <2>1, <2>2, <2>3
<1>4. /\ strikes' \in [Lines -> 0 .. 2] /\ skipped' = skipped
      /\ split' \subseteq Lines /\ split' \subseteq split \union {m} /\ unmanned' \subseteq unmanned \union {m}
      /\ active' \in Accounts \union {NoAccount}
      /\ \A n \in Lines \ {m} : strikes'[n] = strikes[n]
      /\ strikes'[m] \in {strikes[m], strikes[m] + 1}
  <2>1. p # <<>> /\ m = p[Len(p)][1]
    BY <1>1, <1>2
  <2> HIDE DEF p, m
  <2> QED
    BY <1>1, <1>2, <1>3, <2>1, ScanEffect DEF p
<1>5. strikes'[m] <= buf[k][2]
  BY <1>3, <1>4
<1>6. LogsOK'
  BY <1>1 DEF LogsOK
<1>7. WatcherOK'
  <2>1. \A n \in Lines : n > written => strikes'[n] = 0 /\ n \notin split'
    BY <1>1, <1>3, <1>4, UnitParts DEF WatcherOK, Lines
  <2>2. split' \subseteq Lines /\ unmanned' \subseteq Lines
    BY <1>1, <1>3, <1>4 DEF WatcherOK
  <2> HIDE DEF p, m, T
  <2> QED
    BY <1>1, <1>2, <1>4, <2>1, <2>2 DEF WatcherOK
<1>8. Piece(buf, written)'
  <2>1. /\ \A i \in DOMAIN buf : buf[i][1] <= written
        /\ \A i, j \in DOMAIN buf : i < j => Earlier(buf[i], buf[j])
    BY <1>1 DEF Reading, Piece
  <2>2. \A i, j \in DOMAIN buf' : i < j => k + i < k + j
    BY <1>1, <1>2
  <2> HIDE DEF p, m, T
  <2>3. \A i \in DOMAIN buf' : buf'[i][1] <= written'
    BY <1>1, <1>2, <2>1
  <2>4. \A i, j \in DOMAIN buf' : i < j => Earlier(buf'[i], buf'[j])
    BY <1>2, <2>1, <2>2
  <2> QED
    BY <1>2, <2>3, <2>4 DEF Piece
<1>9. Ahead'
  <2>1. \A i \in DOMAIN buf, j \in DOMAIN T :
           /\ j >= off => buf[i] = T[j] \/ Earlier(buf[i], T[j])
           /\ j > off \/ off > Len(T) => Earlier(buf[i], T[j])
    BY <1>1 DEF Reading, Ahead
  <2>2. text'[cur'] = T /\ off' = off
    BY <1>1
  <2> HIDE DEF p, m, T
  <2>3. ASSUME NEW i \in DOMAIN buf', NEW j \in DOMAIN T
        PROVE  /\ j >= off => buf'[i] = T[j] \/ Earlier(buf'[i], T[j])
               /\ j > off \/ off > Len(T) => Earlier(buf'[i], T[j])
    <3>1. k + i \in DOMAIN buf /\ buf'[i] = buf[k + i]
      BY <1>2
    <3> QED
      BY <2>1, <3>1
  <2> QED
    BY <2>2, <2>3 DEF Ahead
<1>10. \A v \in Units : Earlier(buf[k], v) /\ strikes[v[1]] < v[2] => strikes'[v[1]] < v[2]
  <2> SUFFICES ASSUME NEW v \in Units, Earlier(buf[k], v), strikes[v[1]] < v[2]
               PROVE  strikes'[v[1]] < v[2]
    OBVIOUS
  <2>1. v[1] \in Lines /\ v[1] \in Nat /\ v[2] \in {1, 2} /\ m \in Nat
    BY <1>1, UnitParts
  <2>2. CASE v[1] # m
    BY <1>4, <2>1, <2>2
  <2>3. CASE v[1] = m
    <3>1. buf[k][2] < v[2]
      BY <2>1, <2>3 DEF Earlier
    <3> QED
      <4>1. strikes'[m] \in Nat /\ strikes'[m] <= buf[k][2] /\ buf[k][2] \in Nat
        <5> HIDE DEF m
        <5>1. strikes'[m] \in 0 .. 2
          BY <1>3, <1>4
        <5> QED
          BY <1>3, <1>5, <5>1
      <4> QED
        BY <2>1, <2>3, <3>1, <4>1
  <2> QED
    BY <2>2, <2>3
<1>11. T \in Seq(Units) /\ Len(T) \in Nat /\ DOMAIN T = 1 .. Len(T) /\ \A j \in DOMAIN T : T[j] \in Units
  BY <1>1 DEF LogsOK, WatcherOK
<1>12. /\ \A j \in DOMAIN T : /\ j >= off => buf[k] = T[j] \/ Earlier(buf[k], T[j])
                              /\ j > off \/ off > Len(T) => Earlier(buf[k], T[j])
       /\ \A j \in DOMAIN T : /\ j > off => strikes[T[j][1]] < T[j][2]
                              /\ j = Len(T) /\ T[j][2] = 1 => strikes[T[j][1]] <= 1
       /\ text'[cur'] = T
  BY <1>1 DEF Reading, Ahead, Struck
<1> HIDE DEF T
<1>13. Struck'
  <2>1. ASSUME NEW i \in DOMAIN buf' PROVE strikes'[buf'[i][1]] < buf'[i][2]
    <3>1. buf'[i] = buf[k + i] /\ k + i \in DOMAIN buf /\ k + i > k
      BY <1>2
    <3>2. Earlier(buf[k], buf'[i]) /\ strikes[buf'[i][1]] < buf'[i][2] /\ buf'[i] \in Units
      BY <1>1, <3>1 DEF Reading, Piece, Struck
    <3> QED
      BY <1>10, <3>2
  <2>2. ASSUME NEW j \in DOMAIN T, j > off PROVE strikes'[T[j][1]] < T[j][2]
    BY <1>10, <1>11, <1>12, <2>2
  <2>3. ASSUME NEW j \in DOMAIN T, j = Len(T), T[j][2] = 1 PROVE strikes'[T[j][1]] <= 1
    <3>1. T[j] \in Units /\ T[j][1] \in Lines
      BY <1>11, UnitParts
    <3>2. CASE T[j][1] # m
      BY <1>4, <1>12, <2>3, <3>1, <3>2
    <3>3. CASE T[j][1] = m
      <4>1. buf[k] = T[j] \/ Earlier(buf[k], T[j])
        <5>1. j >= off \/ off > Len(T)
          BY <1>1, <1>11, <2>3
        <5> QED
          BY <1>12, <5>1
      <4>2. buf[k][2] = 1
        BY <1>1, <2>3, <3>3, <4>1, UnitParts DEF Earlier
      <4> QED
        BY <1>3, <1>4, <1>5, <3>3, <4>2
    <3> QED
      BY <3>2, <3>3
  <2> QED
    BY <1>1, <1>12, <2>1, <2>2, <2>3 DEF Struck
<1> QED
  BY <1>4, <1>6, <1>7, <1>8, <1>9, <1>13

\* What is scanned strikes its line as it is due, in one piece or in two.
LEMMA ScanCounts ==
    ASSUME LogInv, cur # NoLog, ~skipped, NEW k \in DOMAIN buf, Scan(SubSeq(buf, 1, k)),
           buf' = SubSeq(buf, k + 1, Len(buf)), UNCHANGED <<logVars, cur, off>>,
           \A i \in DOMAIN buf : i < k => buf[i][2] = 1,
           buf[k][2] = 2 \/ k = Len(buf)
    PROVE  InStep'
<1> DEFINE p == SubSeq(buf, 1, k)
           m == buf[k][1]
           T == text[cur]
           P == Passed
           q == P + k
<1>1. /\ LogsOK /\ WatcherOK /\ Reading /\ buf \in Seq(Units) /\ Len(buf) \in Nat /\ k \in 1 .. Len(buf)
      /\ DOMAIN buf = 1 .. Len(buf) /\ off \in Nat /\ cur \in Logs
      /\ text'[cur'] = T /\ off' = off /\ kind' = kind
  BY DEF LogInv, WatcherOK, logVars, LogsOK
<1>2. T \in Seq(Units) /\ Len(T) \in Nat /\ DOMAIN T = 1 .. Len(T) /\ \A j \in DOMAIN T : T[j] \in Units
  BY <1>1 DEF LogsOK
<1>3. /\ off <= Len(T) /\ Len(buf) <= off
      /\ \A i \in DOMAIN buf : buf[i] = T[P + i]
      /\ \A i \in DOMAIN T :
           /\ T[i][2] = 1 /\ i > P => strikes[T[i][1]] = 0 /\ T[i][1] \notin split
           /\ T[i][1] \notin unmanned =>
                 /\ T[i][2] = 1 /\ i = P => strikes[T[i][1]] = FirstDue(kind[T[i][1]])
                 /\ T[i][2] = 2 /\ i <= P => strikes[T[i][1]] = Due(kind[T[i][1]], T[i][1] \in split)
  BY <1>1 DEF Reading, InStep, Counted
<1>4. P = off - Len(buf)
  BY DEF Passed
<1>5. /\ P \in Nat /\ q \in DOMAIN T /\ q \in Nat
      /\ \A i \in DOMAIN buf : P + i \in DOMAIN T
  <2> HIDE DEF P, T
  <2> QED
    BY <1>1, <1>2, <1>3, <1>4
<1>6. /\ \A i \in DOMAIN T : /\ T[i][2] = 2 => i > 1 /\ T[i - 1] = <<T[i][1], 1>>
                             /\ T[i][2] = 1 /\ i < Len(T) => T[i + 1] = <<T[i][1], 2>>
      /\ \A i, j \in DOMAIN T : i < j => Earlier(T[i], T[j])
  BY <1>1 DEF LogsOK, Whole, Piece
<1>7. /\ buf' \in Seq(Units) /\ Len(buf') = Len(buf) - k /\ DOMAIN buf' = 1 .. Len(buf) - k
      /\ \A i \in DOMAIN buf' : buf'[i] = buf[k + i]
      /\ p \in Seq(Units) /\ Len(p) = k /\ \A i \in 1 .. k : p[i] = buf[i]
  <2> HIDE DEF m, T, P, q
  <2> DEFINE b == SubSeq(buf, k + 1, Len(buf))
  <2>1. k \in Nat /\ k <= Len(buf) /\ buf \in Seq(Units)
    BY <1>1
  <2>2. /\ b \in Seq(Units) /\ Len(b) = Len(buf) - k /\ DOMAIN b = 1 .. Len(buf) - k
        /\ \A i \in DOMAIN b : b[i] = buf[k + i]
        /\ p \in Seq(Units) /\ Len(p) = k /\ \A i \in 1 .. k : p[i] = buf[i]
    <3>1. /\ SubSeq(buf, k + 1, Len(buf)) \in Seq(Units)
          /\ Len(SubSeq(buf, k + 1, Len(buf))) = Len(buf) - k
          /\ DOMAIN SubSeq(buf, k + 1, Len(buf)) = 1 .. Len(buf) - k
          /\ \A i \in DOMAIN SubSeq(buf, k + 1, Len(buf)) : SubSeq(buf, k + 1, Len(buf))[i] = buf[k + i]
          /\ SubSeq(buf, 1, k) \in Seq(Units)
          /\ Len(SubSeq(buf, 1, k)) = k
          /\ \A i \in 1 .. k : SubSeq(buf, 1, k)[i] = buf[i]
      BY <2>1, Part, Zenon
    <3> QED
      BY <3>1, Zenon
  <2>3. buf' = b
    OBVIOUS
  <2> HIDE DEF b, p
  <2> QED
    BY <2>2, <2>3
<1>8. Passed' = q
  <2>1. Passed' = off - (Len(buf) - k)
    BY <1>1, <1>7 DEF Passed
  <2> QED
    BY <1>1, <1>4, <2>1
<1> HIDE DEF P, T, p
<1>9. strikes \in [Lines -> 0 .. 2] /\ strikes[m] < 2 /\ m \in Lines /\ buf[k] \in Units
      /\ buf[k] = T[q]
  <2>1. strikes \in [Lines -> 0 .. 2] /\ strikes[m] < buf[k][2] /\ buf[k] \in Units
    BY <1>1 DEF WatcherOK, Reading, Struck
  <2>2. m \in Lines /\ buf[k][2] \in {1, 2}
    BY <2>1, UnitParts
  <2>3. strikes[m] \in 0 .. 2
    BY <2>1, <2>2
  <2> QED
    BY <1>3, <2>1, <2>2, <2>3
<1>10. p # <<>> /\ m = p[Len(p)][1] /\ Scan(p)
  BY <1>1, <1>7 DEF p
<1> HIDE DEF m, q
<1>11. /\ split' = (IF k = 1 THEN split \union {m} ELSE split)
       /\ unmanned \subseteq unmanned' /\ unmanned' \subseteq unmanned \union {m}
       /\ \A n \in Lines \ {m} : strikes'[n] = strikes[n]
       /\ m \notin unmanned' => strikes'[m] = strikes[m] + (IF Fails(p) THEN 1 ELSE 0)
  <2>1. LogsOK /\ WatcherOK /\ p \in Seq(Units) /\ p # <<>> /\ m = p[Len(p)][1] /\ Scan(p) /\ strikes[m] < 2
    BY <1>1, <1>7, <1>9, <1>10
  <2>2. /\ split' = (IF Len(p) = 1 THEN split \union {m} ELSE split)
        /\ unmanned \subseteq unmanned' /\ unmanned' \subseteq unmanned \union {m}
        /\ \A n \in Lines \ {m} : strikes'[n] = strikes[n]
        /\ m \notin unmanned' => strikes'[m] = strikes[m] + (IF Fails(p) THEN 1 ELSE 0)
    BY <2>1, ScanEffect, Zenon
  <2>3. Len(p) = k
    BY <1>7
  <2> QED
    BY <2>2, <2>3, Zenon
<1>12. k <= 2
  <2> SUFFICES ASSUME k > 2 PROVE FALSE
    BY <1>1
  <2>1. 1 \in DOMAIN buf /\ 2 \in DOMAIN buf /\ 1 < k /\ 2 < k
    BY <1>1
  <2>2. buf[1][2] = 1 /\ buf[2][2] = 1 /\ buf[1] = T[P + 1] /\ buf[2] = T[P + 2]
        /\ P + 1 \in DOMAIN T /\ P + 2 \in DOMAIN T
    BY <1>3, <1>5, <2>1
  <2>3. P + 1 < Len(T) /\ (P + 1) + 1 = P + 2
    BY <1>2, <1>5, <2>2
  <2>4. T[P + 2] = <<T[P + 1][1], 2>>
    BY <1>6, <2>2, <2>3
  <2> QED
    BY <2>2, <2>4
\* The scan ends in the first half of its line, or in the second, alone or not.
<1>13. \/ k = 1 /\ T[q] = <<m, 1>> /\ p[1] = <<m, 1>>
       \/ /\ k = 1 /\ T[q] = <<m, 2>> /\ p[1] = <<m, 2>>
          /\ q - 1 = P /\ P \in DOMAIN T /\ T[P] = <<m, 1>>
       \/ /\ k = 2 /\ T[q] = <<m, 2>> /\ p[1] = <<m, 1>> /\ p[2] = <<m, 2>>
          /\ q - 1 > P /\ q - 1 \in DOMAIN T /\ T[q - 1] = <<m, 1>>
  <2>1. T[q] \in Units /\ T[q][1] = m /\ T[q][2] \in {1, 2} /\ T[q] = <<m, T[q][2]>> /\ p[k] = T[q]
    <3>1. T[q] \in Units /\ buf[k] = T[q]
      BY <1>9
    <3>2. T[q][2] \in {1, 2} /\ T[q] = <<T[q][1], T[q][2]>>
      BY <3>1, UnitParts
    <3>3. T[q][1] = m
      BY <3>1 DEF m
    <3>4. p[k] = buf[k]
      BY <1>1, <1>7
    <3> QED
      BY <3>1, <3>2, <3>3, <3>4
  <2>2. ASSUME T[q][2] = 2 PROVE T[q - 1] = <<m, 1>> /\ q > 1 /\ q - 1 \in DOMAIN T
    BY <1>2, <1>5, <1>6, <2>1, <2>2
  <2>3. CASE k = 1
    <3>1. q = P + 1 /\ q - 1 = P
      BY <1>5, <2>3 DEF q
    <3> QED
      BY <2>1, <2>2, <2>3, <3>1
  <2>4. CASE k = 2
    <3>0. 1 \in DOMAIN buf /\ 1 < k /\ p[1] = buf[1]
      BY <1>1, <1>7, <2>4
    <3>1. buf[1][2] = 1 /\ buf[1] = T[P + 1] /\ P + 1 \in DOMAIN T
      BY <1>3, <1>5, <3>0
    <3>2. q = P + 2 /\ q - 1 = P + 1 /\ q - 1 > P
      BY <1>5, <2>4 DEF q
    <3>3. P + 1 < Len(T) /\ (P + 1) + 1 = q
      BY <1>2, <1>5, <3>1, <3>2
    <3>4. T[q] = <<T[P + 1][1], 2>>
      BY <1>6, <3>1, <3>3
    <3>5. T[q][2] = 2
      BY <3>4
    <3> QED
      BY <2>1, <2>2, <2>4, <3>0, <3>1, <3>2, <3>5
  <2> QED
    BY <1>1, <1>12, <2>3, <2>4
<1>14. ASSUME NEW i \in DOMAIN T
       PROVE  /\ T[i][2] = 1 /\ i > q => strikes'[T[i][1]] = 0 /\ T[i][1] \notin split'
              /\ T[i][1] \notin unmanned' =>
                    /\ T[i][2] = 1 /\ i = q => strikes'[T[i][1]] = FirstDue(kind[T[i][1]])
                    /\ T[i][2] = 2 /\ i <= q => strikes'[T[i][1]] = Due(kind[T[i][1]], T[i][1] \in split')
  <2> DEFINE n == T[i][1]
  <2>1. n \in Lines /\ T[i] \in Units /\ T[i] = <<n, T[i][2]>> /\ i \in Nat
    BY <1>2, <1>14, UnitParts
  <2>2. /\ T[i][2] = 1 /\ i > P => strikes[n] = 0 /\ n \notin split
        /\ n \notin unmanned =>
              /\ T[i][2] = 1 /\ i = P => strikes[n] = FirstDue(kind[n])
              /\ T[i][2] = 2 /\ i <= P => strikes[n] = Due(kind[n], n \in split)
    BY <1>3
  <2>3. CASE n # m
    <3>1. strikes'[n] = strikes[n] /\ (n \in split' <=> n \in split) /\ (n \notin unmanned' => n \notin unmanned)
      BY <1>11, <2>1, <2>3
    <3>2. i # q
      BY <1>13, <2>3
    <3>3. ASSUME T[i][2] = 2, i <= q PROVE i <= P
      <4> SUFFICES ASSUME P < i PROVE FALSE
        BY <1>5, <2>1
      <4>1. i - P \in DOMAIN buf /\ P + (i - P) = i /\ i - P < k
        BY <1>1, <1>2, <1>5, <2>1, <3>2, <3>3 DEF q
      <4>2. buf[i - P] = T[i]
        BY <1>3, <4>1
      <4> QED
        BY <3>3, <4>1, <4>2
    <3>4. i > q => i > P
      BY <1>1, <1>5, <2>1 DEF q
    <3> HIDE DEF n
    <3> QED
      BY <2>2, <3>1, <3>2, <3>3, <3>4 DEF n
  <2>4. CASE n = m
    <3>1. T[q] = <<m, T[q][2]>> /\ T[q][1] = m /\ T[q][2] \in {1, 2} /\ m \in Nat
      BY <1>9, <1>13, UnitParts
    <3>2. ~(T[i][2] = 1 /\ i > q) /\ (T[i][2] = 2 /\ i <= q => i = q)
      <4>1. ASSUME T[i][2] = 1, i > q PROVE FALSE
        <5>1. Earlier(T[q], T[i])
          BY <1>5, <1>6, <4>1
        <5> QED
          BY <2>4, <3>1, <4>1, <5>1 DEF Earlier
      <4>2. ASSUME T[i][2] = 2, i < q PROVE FALSE
        <5>1. Earlier(T[i], T[q])
          BY <1>5, <1>6, <4>2
        <5> QED
          BY <2>4, <3>1, <4>2, <5>1 DEF Earlier
      <4> QED
        BY <1>5, <2>1, <4>1, <4>2
    <3>3. P < q
      BY <1>1, <1>5 DEF q
    <3>4. ASSUME m \notin unmanned', i = q, T[q][2] = 1 PROVE strikes'[m] = FirstDue(kind[m])
      <4>1. k = 1 /\ p[1] = <<m, 1>>
        BY <1>13, <3>4
      <4>2. strikes[m] = 0
        BY <2>2, <2>4, <3>3, <3>4
      <4>3. Fails(p) <=> kind[m] \in {"first", "each"}
        BY <1>1, <1>7, <1>9, <4>1, HalfLineFails
      <4>4. strikes'[m] = 0 + (IF Fails(p) THEN 1 ELSE 0)
        BY <1>11, <3>4, <4>2
      <4> QED
        BY <4>3, <4>4 DEF FirstDue
    <3>5. ASSUME m \notin unmanned', T[q][2] = 2 PROVE strikes'[m] = Due(kind[m], m \in split')
      <4>0. m \notin unmanned /\ strikes'[m] = strikes[m] + (IF Fails(p) THEN 1 ELSE 0)
        BY <1>11, <3>5
      <4>1. CASE k = 1
        <5>1. p[1] = <<m, 2>> /\ P \in DOMAIN T /\ T[P] = <<m, 1>>
          BY <1>13, <3>5, <4>1
        <5>2. T[P][1] = m /\ T[P][2] = 1
          BY <5>1
        <5>3. strikes[m] = FirstDue(kind[m])
          BY <1>3, <4>0, <5>1, <5>2
        <5>4. Fails(p) <=> kind[m] \in {"second", "each"}
          BY <1>1, <1>7, <1>9, <4>1, <5>1, HalfLineFails, SMTT(60)
        <5>5. m \in split'
          BY <1>11, <4>1
        <5>6. (IF Fails(p) THEN 1 ELSE 0) = SecondDue(kind[m])
          BY <5>4 DEF SecondDue
        <5>7. strikes'[m] = FirstDue(kind[m]) + SecondDue(kind[m])
          BY <4>0, <5>3, <5>6
        <5> QED
          BY <5>5, <5>7 DEF Due
      <4>2. CASE k = 2
        <5>0. k # 1
          BY <4>2
        <5>1. p[1] = <<m, 1>> /\ p[2] = <<m, 2>> /\ q - 1 > P /\ q - 1 \in DOMAIN T /\ T[q - 1] = <<m, 1>>
          BY <1>13, <5>0, Zenon
        <5>2. T[q - 1][1] = m /\ T[q - 1][2] = 1
          BY <5>1
        <5>3. strikes[m] = 0 /\ m \notin split
          BY <1>3, <5>1, <5>2
        <5>4. Fails(p) <=> kind[m] # "ok"
          BY <1>1, <1>7, <1>9, <4>2, <5>1, WholeLineFails
        <5>5. m \notin split'
          BY <1>11, <4>2, <5>3
        <5>6. strikes'[m] = IF kind[m] = "ok" THEN 0 ELSE 1
          BY <4>0, <5>3, <5>4
        <5> QED
          BY <5>5, <5>6 DEF Due
      <4> QED
        BY <1>1, <1>12, <4>1, <4>2
    <3>6. n = m
      BY <2>4
    <3> HIDE DEF n
    <3> QED
      BY <3>2, <3>4, <3>5, <3>6 DEF n
  <2> QED
    BY <2>3, <2>4
<1>15. Counted'
  BY <1>1, <1>8, <1>14 DEF Counted
<1>16. /\ off' <= Len(T) /\ Len(buf') <= off'
       /\ \A i \in DOMAIN buf' : buf'[i] = T[q + i]
  <2>1. off' <= Len(T) /\ Len(buf') <= off'
    BY <1>1, <1>3, <1>7
  <2>2. ASSUME NEW i \in DOMAIN buf' PROVE buf'[i] = T[q + i]
    <3>1. k + i \in DOMAIN buf /\ P + (k + i) = q + i /\ buf'[i] = buf[k + i]
      <4>1. i \in 1 .. Len(buf) - k /\ buf'[i] = buf[k + i]
        BY <1>7
      <4>2. i \in Nat /\ k \in Nat /\ k + i \in DOMAIN buf
        BY <1>1, <4>1
      <4>3. P + (k + i) = q + i
        BY <1>5, <4>2 DEF q
      <4> QED
        BY <4>1, <4>2, <4>3, Zenon
    <3> QED
      BY <1>3, <3>1
  <2> QED
    BY <2>1, <2>2
<1> QED
  BY <1>1, <1>8, <1>15, <1>16 DEF InStep

LEMMA ReadLineInv ==
    ASSUME LogInv, ReadLine
    PROVE  LogInv'
<1>1. /\ LogsOK /\ WatcherOK /\ pc = "read" /\ cur # NoLog /\ Ends # {}
      /\ buf \in Seq(Units) /\ Len(buf) \in Nat /\ DOMAIN buf = 1 .. Len(buf)
      /\ UNCHANGED <<logVars, pc, cur, shut, off, lastSize>>
  BY DEF LogInv, WatcherOK, ReadLine
<1> DEFINE k == CHOOSE i \in Ends : \A j \in Ends : i <= j
<1>2. k \in Ends /\ \A j \in Ends : k <= j
  <2>1. Ends \subseteq Nat
    BY <1>1 DEF Ends
  <2>2. \E i \in Ends : \A j \in Ends : i <= j
    BY <1>1, <2>1, LeastNumber
  <2> QED
    BY <2>2
<1>3. Scan(SubSeq(buf, 1, k)) /\ buf' = SubSeq(buf, k + 1, Len(buf))
  BY DEF ReadLine
<1> HIDE DEF k
<1>4. k \in DOMAIN buf /\ buf[k][2] = 2 /\ pc' \in {"read", "stat"} /\ cur' = cur
  BY <1>1, <1>2 DEF Ends
<1>5. \A i \in DOMAIN buf : i < k => buf[i][2] = 1
  <2> SUFFICES ASSUME NEW i \in DOMAIN buf, i < k PROVE buf[i][2] = 1
    OBVIOUS
  <2>1. i \notin Ends
    BY <1>1, <1>2, <1>4
  <2>2. buf[i] \in Units /\ buf[i][2] # 2
    BY <1>1, <2>1 DEF Ends
  <2> QED
    BY <2>2, UnitParts
<1>6. LogsOK' /\ WatcherOK' /\ Piece(buf, written)' /\ Ahead' /\ Struck' /\ UNCHANGED skipped
  BY <1>1, <1>3, <1>4, ScanKeeps
<1>7. UNCHANGED <<logVars, cur, off>>
  BY <1>1
<1>8. ASSUME ~skipped PROVE InStep'
  BY <1>1, <1>3, <1>4, <1>5, <1>7, <1>8, ScanCounts
<1>9. ~skipped' => InStep'
  BY <1>6, <1>8, Zenon
<1> QED
  BY <1>6, <1>9 DEF LogInv, Reading

LEMMA AtEOFInv ==
    ASSUME LogInv, AtEOF
    PROVE  LogInv'
<1>1. /\ LogsOK /\ WatcherOK /\ pc = "read" /\ pc' = "stat" /\ cur # NoLog /\ Ends = {}
      /\ buf \in Seq(Units) /\ Len(buf) \in Nat /\ DOMAIN buf = 1 .. Len(buf) /\ buf' = <<>>
      /\ UNCHANGED <<logVars, cur, shut, off, lastSize>>
  BY DEF LogInv, WatcherOK, AtEOF
<1>2. CASE buf = <<>>
  <2>1. UNCHANGED <<active, history, buf>>
    BY <1>1, <1>2 DEF AtEOF
  <2>2. LogsOK' /\ WatcherOK'
    BY <1>1, <2>1 DEF LogsOK, WatcherOK, logVars, history
  <2>3. UNCHANGED <<text, kind, written, cur, off, buf, strikes, split, unmanned, skipped>> /\ Reading
    BY <1>1, <2>1 DEF logVars, history, LogInv
  <2>4. Reading'
    BY <2>3 DEF Reading, Piece, Ahead, Struck, InStep, Counted, Passed
  <2> QED
    BY <2>2, <2>4 DEF LogInv
<1>3. CASE buf # <<>>
  <2> DEFINE k == Len(buf)
  <2>1. k \in DOMAIN buf
    BY <1>1, <1>3
  <2>2. SubSeq(buf, 1, k) = buf
    BY <1>1
  <2>3. SubSeq(buf, k + 1, Len(buf)) = <<>>
    BY <1>1
  <2>4. Scan(SubSeq(buf, 1, k)) /\ buf' = SubSeq(buf, k + 1, Len(buf))
    BY <1>1, <1>3, <2>2, <2>3 DEF AtEOF
  <2>5. \A i \in DOMAIN buf : buf[i][2] = 1
    <3>1. \A i \in DOMAIN buf : buf[i] \in Units /\ buf[i][2] # 2
      BY <1>1 DEF Ends
    <3> QED
      BY <3>1, UnitParts
  <2>6. pc' \in {"read", "stat"} /\ UNCHANGED <<logVars, cur, off>> /\ k = Len(buf)
    BY <1>1
  <2> HIDE DEF k
  <2>7. LogsOK' /\ WatcherOK' /\ Piece(buf, written)' /\ Ahead' /\ Struck' /\ UNCHANGED skipped
    BY <1>1, <2>1, <2>4, <2>6, ScanKeeps
  <2>8. ASSUME ~skipped PROVE InStep'
    BY <1>1, <2>1, <2>4, <2>5, <2>6, <2>8, ScanCounts
  <2>9. ~skipped' => InStep'
    BY <2>7, <2>8, Zenon
  <2> QED
    BY <2>7, <2>9 DEF LogInv, Reading
<1> QED
  BY <1>2, <1>3

-----------------------------------------------------------------------------
(* The theorems.                                                           *)

LEMMA InitLog == Init => LogInv
<1> SUFFICES ASSUME Init PROVE LogInv
  OBVIOUS
<1>1. Whole(<<>>, 0)
  BY DEF Whole, Piece
<1>2. LogsOK
  BY <1>1, LogAssumption, KindsAssumption DEF Init, LogsOK
<1>3. WatcherOK
  <2>1. shut \in BOOLEAN /\ skipped \in BOOLEAN
    BY Zenon DEF Init
  <2>2. strikes = [n \in Lines |-> 0] /\ buf = <<>> /\ split = {} /\ unmanned = {} /\ off = 0 /\ lastSize = 0
    BY DEF Init
  <2>3. /\ strikes \in [Lines -> 0 .. 2] /\ \A n \in Lines : n > written => strikes[n] = 0 /\ n \notin split
        /\ buf \in Seq(Units) /\ split \subseteq Lines /\ unmanned \subseteq Lines /\ off \in Nat /\ lastSize \in Nat
    BY <2>2
  <2>4. active \in Accounts \union {NoAccount} /\ pc = "find" /\ cur = NoLog
    BY DEF Init
  <2> QED
    BY <2>1, <2>3, <2>4 DEF WatcherOK
<1> QED
  BY <1>2, <1>3 DEF Init, LogInv

LEMMA StepLog == LogInv /\ [Next]_vars => LogInv'
<1> SUFFICES ASSUME LogInv, [Next]_vars PROVE LogInv'
  OBVIOUS
<1>1. CASE Watch
  BY <1>1, FindInv, FillInv, ReadLineInv, AtEOFInv, StatInv DEF Watch
<1>2. CASE \E l \in Logs : Agy(l)
  BY <1>2, AgyInv
<1>3. CASE \/ \E l \in Logs : Truncate(l) \/ Delete(l)
           \/ \E a \in Accounts \union {NoAccount} : Switch(a)
           \/ UNCHANGED vars
  BY <1>3, OthersInv
<1> QED
  BY <1>1, <1>2, <1>3 DEF Next

LEMMA LogInvariant == Spec => []LogInv
BY InitLog, StepLog, PTL DEF Spec

\* Whatever is written to the logs, removed from them and read, the variables of
\* the watcher keep their types (watch.go:61-126).
THEOREM LogTypes == Spec => []TypeOK
<1>1. LogInv => TypeOK
  <2> SUFFICES ASSUME LogInv PROVE TypeOK
    OBVIOUS
  <2>1. LogsOK /\ WatcherOK
    BY DEF LogInv
  <2>2. ToSet(order) \subseteq Logs \ deleted
    BY <2>1 DEF LogsOK, ToSet
  <2> QED
    BY <2>1, <2>2 DEF LogsOK, WatcherOK, TypeOK
<1> QED
  BY <1>1, LogInvariant, PTL

\* While sessions of agy write to the logs by halves of lines, the watcher
\* strikes every line of the log it has open as it is due in that reading: once
\* for a failure in a line that is read at once, once for each half with a
\* failure in a line that arrives in two pieces (watch.go:105-125).  A log that
\* is opened again is read and struck again from its start, and nothing is said
\* of a log that was truncated while it is open.
THEOREM LinesStruckAsDue == Spec => []StruckAsDue
<1>1. LogInv => StruckAsDue
  BY DEF LogInv, Reading, InStep, Counted, StruckAsDue
<1> QED
  BY <1>1, LogInvariant, PTL
=============================================================================
