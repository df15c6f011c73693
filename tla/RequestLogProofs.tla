-------------------------- MODULE RequestLogProofs --------------------------
(***************************************************************************)
(* Proofs about RequestLog and Monitor, for any number of files, of lines  *)
(* in them, of records and of crashes.  First OrderInv: what has been read *)
(* so far is in order, and older than all that is still to be read.  Then  *)
(* LossInv: what the caches know is exact, and every line lost was torn.   *)
(* Last the summaries made of what was read, whatever was logged.          *)
(***************************************************************************)
EXTENDS Monitor, Induction

-----------------------------------------------------------------------------
\* The inductive invariant.

Files == 1 .. Len(content)

\* Neither a record logged nor a line begun is to be ended any more.
Settled(r) == r <= written /\ (writer.at = "line" => r < written)

\* Lines end in the order of their records, and the files are in that order, too.
Chronological ==
    /\ \A f \in Files : \A i \in Ends(content[f]) : Settled(content[f][i].record)
    /\ \A f, g \in Files : \A i \in Ends(content[f]) : \A j \in Ends(content[g]) :
          f < g \/ (f = g /\ i < j) => content[f][i].record < content[g][j].record

\* The newer a file, the lower its age; the active one is the newest.
Aged ==
    /\ \A a, b \in Ages : a < b /\ dir[a] # NoFile /\ dir[b] # NoFile => dir[b] < dir[a]
    /\ dir[0] \in {NoFile, Len(content)}
    /\ writer.at \in {"ready", "line", "drop"} => dir[0] # NoFile
    /\ writer.at = "line" => written >= 1
    /\ writer.at \in {"drop", "move"} => written < MaxRecords

Increasing(s) == \A m, n \in 1 .. Len(s) : m < n => s[m] < s[n]

\* These records are from lines at the first n pieces of f.
FromFirst(records, f, n) ==
    \A k \in 1 .. Len(records) : \E i \in Ends(content[f]) :
        i <= n /\ content[f][i].record = records[k]

\* A file that has left this age does not come back to it.
Gone(f, a) == \A b \in 0 .. a : dir[b] # f

\* What is cached is of the file it is cached for, or will never be used.
HonestEntry(entry, a) ==
    LET f == entry.stamp.file IN
    /\ f \in 0 .. Len(content)
    /\ Increasing(entry.records)
    /\ f = NoFile \/ Gone(f, a) \/ FromFirst(entry.records, f, Len(content[f]))

CacheHonest == \A a \in Rotated : HonestEntry(cache[a], a)

KnownType == [identity : 0 .. Len(content), offset : Nat, tail : Seq(Pieces),
              records : Seq(Records), invalid : Nat]

\* What is known of a file is what its first pieces say.
KnownWell(known) ==
    \/ known = NoActive
    \/ /\ known.identity \in Files
       /\ known.offset \in 0 .. Len(content[known.identity])
       /\ Len(known.tail) <= known.offset
       /\ known.tail = SubSeq(content[known.identity], known.offset - Len(known.tail) + 1, known.offset)
       /\ Increasing(known.records)
       /\ FromFirst(known.records, known.identity, known.offset - Len(known.tail))

\* What has been collected is older than all that is still to be read.
ReadInOrder ==
    reading \in {"rotated", "stamped"} =>
        /\ Increasing(result.records)
        /\ \A k \in 1 .. Len(result.records) :
              /\ Settled(result.records[k])
              /\ \A a \in left : \A b \in 0 .. a : dir[b] # NoFile =>
                    \A i \in Ends(content[dir[b]]) :
                        result.records[k] < content[dir[b]][i].record

Progress ==
    /\ reading \in {"rotated", "stamped"} =>
          /\ 0 \in listed => 0 \in left
          /\ result.skipped + Cardinality(left) <= Cardinality(listed)
    /\ reading = "stamped" =>
          /\ left \cap Rotated # {}
          /\ stamp.file \in Files
          /\ \A a \in left : (\A b \in left : b <= a) => \A b \in 0 .. a : b < a => dir[b] # stamp.file

OrderInv ==
    /\ TypeOK /\ Chronological /\ Aged /\ CacheHonest /\ KnownWell(active)
    /\ ReadInOrder /\ Progress /\ CleanSnapshotsOrdered

-----------------------------------------------------------------------------
\* Lines.

LEMMA CutFacts ==
    ASSUME NEW data \in Seq(Pieces)
    PROVE  /\ Cut(data) \in Ends(data) \cup {0} /\ Cut(data) \in 0 .. Len(data)
           /\ \A m \in Ends(data) : m <= Cut(data)
<1>. DEFINE S == Ends(data) \cup {0}
<1>1. Len(data) \in Nat /\ S \subseteq 0 .. Len(data) /\ S # {}
  BY LenProperties DEF Ends
<1>. HIDE DEF S
<1>2. PICK n \in S : \A m \in S : m <= n
  BY <1>1, GreatestNatural
<1>. USE DEF S
<1>3. Cut(data) \in S /\ \A m \in Ends(data) : m <= Cut(data)
  BY <1>2 DEF Cut
<1>. QED
  BY <1>1, <1>3

\* Where the records parsed come from.
LEMMA ParseFacts ==
    ASSUME NEW data \in Seq(Pieces)
    PROVE  /\ Parse(data) \in Seq(Records)
           /\ \E p \in [1 .. Len(Parse(data)) -> {n \in Ends(data) : ValidEnd(data, n)}] :
                 /\ \A k \in 1 .. Len(Parse(data)) : Parse(data)[k] = data[p[k]].record
                 /\ \A k, l \in 1 .. Len(Parse(data)) : k < l => p[k] < p[l]
                 /\ \A n \in Ends(data) : ValidEnd(data, n) =>
                       \E k \in 1 .. Len(Parse(data)) : p[k] = n
<1>. DEFINE
    I == {n \in Ends(data) : ValidEnd(data, n)}
    lines == Kept(data, I)
<1>1. I \in SUBSET (1 .. Len(data))
  BY DEF Ends
<1>2. lines \in Seq(Pieces) /\ \E p : Picks(p, lines, data, I)
  <2>. HIDE DEF I
  <2>. QED
    BY <1>1, KeptElements
<1>3. PICK p : Picks(p, lines, data, I)
  BY <1>2
<1>4. Parse(data) = [n \in 1 .. Len(lines) |-> lines[n].record]
  BY DEF Parse
<1>. HIDE DEF lines
<1>5. Len(lines) \in Nat /\ \A n \in 1 .. Len(lines) : lines[n] \in Pieces /\ lines[n].record \in Records
  <2>1. Len(lines) \in Nat /\ \A n \in 1 .. Len(lines) : lines[n] \in Pieces
    BY <1>2, LenProperties
  <2>2. \A x \in Pieces : x.record \in Records
    BY DEF Pieces
  <2>. QED
    BY <2>1, <2>2
<1>6. /\ Parse(data) \in Seq(Records) /\ Len(Parse(data)) = Len(lines)
      /\ \A n \in 1 .. Len(lines) : Parse(data)[n] = lines[n].record
  BY <1>4, <1>5
<1>7. /\ p \in [1 .. Len(lines) -> I] /\ \A k \in 1 .. Len(lines) : lines[k] = data[p[k]]
      /\ \A k, l \in 1 .. Len(lines) : k < l => p[k] < p[l]
      /\ \A i \in I : \E k \in 1 .. Len(lines) : p[k] = i
  BY <1>3 DEF Picks
<1>. QED
  BY <1>6, <1>7

\* Ends(data) is increasing if its records are.
LEMMA ParseIncreasing ==
    ASSUME NEW data \in Seq(Pieces),
           \A i, j \in Ends(data) : i < j => data[i].record < data[j].record
    PROVE  /\ Increasing(Parse(data))
           /\ \A k \in 1 .. Len(Parse(data)) : \E i \in Ends(data) :
                 data[i].record = Parse(data)[k]
<1>1. PICK p \in [1 .. Len(Parse(data)) -> {n \in Ends(data) : ValidEnd(data, n)}] :
          /\ \A k \in 1 .. Len(Parse(data)) : Parse(data)[k] = data[p[k]].record
          /\ \A k, l \in 1 .. Len(Parse(data)) : k < l => p[k] < p[l]
  BY ParseFacts
<1>2. \A k \in 1 .. Len(Parse(data)) : p[k] \in Ends(data)
  BY <1>1
<1>. QED
  BY <1>1, <1>2 DEF Increasing

\* A part of a sequence, by position.
LEMMA PartFacts ==
    ASSUME NEW A, NEW c \in Seq(A), NEW e \in 0 .. Len(c), NEW b \in 0 .. e
    PROVE  /\ SubSeq(c, b + 1, e) \in Seq(A)
           /\ Len(SubSeq(c, b + 1, e)) = e - b
           /\ \A i \in 1 .. e - b : SubSeq(c, b + 1, e)[i] = c[b + i]
<1>1. Len(c) \in Nat /\ e \in Nat /\ b \in Nat /\ b <= e /\ e <= Len(c)
  BY LenProperties
<1>2. \A i \in b + 1 .. e : i \in 1 .. Len(c) /\ c[i] \in A
  BY <1>1, LenProperties
<1>3. b + 1 \in Int /\ e \in Int
  BY <1>1
<1>. DEFINE t == SubSeq(c, b + 1, e)
<1>4. /\ t \in Seq(A) /\ Len(t) = IF b + 1 <= e THEN e - (b + 1) + 1 ELSE 0
      /\ \A i \in 1 .. e - (b + 1) + 1 : t[i] = c[(b + 1) + i - 1]
  BY <1>2, <1>3, SubSeqProperties
<1>. HIDE DEF t
<1>5. e - (b + 1) + 1 = e - b /\ \A i \in 1 .. e - b : (b + 1) + i - 1 = b + i
  BY <1>1
<1>6. Len(t) = e - b
  BY <1>1, <1>4
<1>7. \A i \in 1 .. e - b : t[i] = c[b + i]
  BY <1>4, <1>5
<1>. QED
  BY <1>4, <1>6, <1>7 DEF t

\* What is behind the first b pieces of c: its whole lines ...
LEMMA BehindWhole ==
    ASSUME NEW c \in Seq(Pieces), NEW b \in 0 .. Len(c), NEW d, d = SubSeq(c, b + 1, Len(c))
    PROVE  /\ Cut(d) \in 0 .. Len(c) - b
           /\ Whole(d) \in Seq(Pieces) /\ Len(Whole(d)) = Cut(d)
           /\ \A i \in 1 .. Cut(d) : Whole(d)[i] = c[b + i]
<1>1. Len(c) \in Nat
  BY LenProperties
<1>2. d \in Seq(Pieces) /\ Len(d) = Len(c) - b /\ \A i \in 1 .. Len(d) : d[i] = c[b + i]
  BY <1>1, PartFacts
<1>3. Cut(d) \in 0 .. Len(d)
  BY <1>2, CutFacts
<1>. DEFINE n == Cut(d)
<1>. HIDE DEF n
<1>4. n \in 0 .. Len(d) /\ n \in Nat /\ 0 \in 0 .. n /\ Len(d) \in 0 .. Len(d) /\ Len(d) \in Nat
  BY <1>1, <1>2, <1>3 DEF n
<1>. DEFINE w == SubSeq(d, 0 + 1, n)
<1>5. w \in Seq(Pieces) /\ Len(w) = n - 0 /\ \A i \in 1 .. n - 0 : w[i] = d[0 + i]
  <2>. HIDE DEF w
  <2>. QED
    BY <1>2, <1>4, PartFacts DEF w
<1>6. Whole(d) = w
  BY <1>4 DEF Whole, n
<1>. HIDE DEF w
<1>7. Len(w) = n /\ \A i \in 1 .. n : w[i] = c[b + i]
  <2>1. \A i \in 1 .. n : i \in 1 .. Len(d) /\ i \in 1 .. n - 0 /\ 0 + i = i
    BY <1>4
  <2>. QED
    BY <1>2, <1>4, <1>5, <2>1
<1>8. n \in 0 .. Len(c) - b
  BY <1>2, <1>4
<1>. QED
  BY <1>5, <1>6, <1>7, <1>8 DEF n

\* ... and the rest.
LEMMA BehindRest ==
    ASSUME NEW c \in Seq(Pieces), NEW b \in 0 .. Len(c), NEW d, d = SubSeq(c, b + 1, Len(c))
    PROVE  /\ Rest(d) = SubSeq(c, b + Cut(d) + 1, Len(c)) /\ Rest(d) \in Seq(Pieces)
           /\ Len(Rest(d)) = Len(c) - (b + Cut(d))
<1>1. Len(c) \in Nat
  BY LenProperties
<1>2. d \in Seq(Pieces) /\ Len(d) = Len(c) - b /\ \A i \in 1 .. Len(d) : d[i] = c[b + i]
  BY <1>1, PartFacts
<1>3. Cut(d) \in 0 .. Len(d)
  BY <1>2, CutFacts
<1>. DEFINE n == Cut(d)
<1>. HIDE DEF n
<1>4. n \in 0 .. Len(d) /\ Len(d) \in 0 .. Len(d) /\ Len(d) \in Nat
  BY <1>1, <1>2, <1>3 DEF n
<1>. DEFINE
    r == SubSeq(d, n + 1, Len(d))
    t == SubSeq(c, (b + n) + 1, Len(c))
<1>5. r \in Seq(Pieces) /\ Len(r) = Len(d) - n /\ \A i \in 1 .. Len(d) - n : r[i] = d[n + i]
  BY <1>2, <1>4, PartFacts
<1>6. b + n \in 0 .. Len(c) /\ Len(c) \in 0 .. Len(c)
  BY <1>1, <1>2, <1>4
<1>7. t \in Seq(Pieces) /\ Len(t) = Len(c) - (b + n)
       /\ \A i \in 1 .. Len(c) - (b + n) : t[i] = c[(b + n) + i]
  BY <1>1, <1>6, PartFacts
<1>8. Rest(d) = r
  BY DEF Rest, n
<1>. HIDE DEF r, t
<1>9. r = t
  <2>1. Len(r) = Len(t)
    BY <1>1, <1>2, <1>4, <1>5, <1>7
  <2>2. ASSUME NEW i \in 1 .. Len(r)
        PROVE  r[i] = t[i]
    <3>1. n + i \in 1 .. Len(d) /\ b + (n + i) = (b + n) + i /\ i \in 1 .. Len(d) - n
          /\ i \in 1 .. Len(c) - (b + n)
      BY <1>1, <1>2, <1>4, <1>5
    <3>. QED
      BY <1>2, <1>5, <1>7, <3>1
  <2>. QED
    BY <1>5, <1>7, <2>1, <2>2, SeqEqual
<1>. QED
  BY <1>5, <1>7, <1>8, <1>9 DEF n, t

LEMMA EndsFinite ==
    ASSUME NEW data \in Seq(Pieces), NEW S, S \subseteq Ends(data)
    PROVE  IsFiniteSet(S) /\ Cardinality(S) \in Nat
<1>1. Len(data) \in Nat /\ Ends(data) \in SUBSET (1 .. Len(data))
  BY LenProperties DEF Ends
<1>2. IsFiniteSet(1 .. Len(data))
  BY <1>1, FS_Interval
<1>3. IsFiniteSet(S)
  BY <1>1, <1>2, FS_Subset
<1>. QED
  BY <1>3, FS_CardinalityType

LEMMA InvalidType ==
    ASSUME NEW data \in Seq(Pieces)
    PROVE  Invalid(data) \in Nat
<1>. DEFINE S == {n \in Ends(data) : ~ValidEnd(data, n)}
<1>1. Cardinality(S) \in Nat
  <2>1. S \subseteq Ends(data)
    OBVIOUS
  <2>. HIDE DEF S
  <2>. QED
    BY <2>1, EndsFinite
<1>2. Invalid(data) = Cardinality(S) + (IF Rest(data) = <<>> THEN 0 ELSE 1)
  BY DEF Invalid
<1>. HIDE DEF S
<1>. QED
  BY <1>1, <1>2

\* Where reading on begins: behind the last whole line read.
LEMMA KnownPart ==
    ASSUME content \in Seq(Seq(Pieces)), NEW f \in Files, NEW known \in KnownType,
           KnownWell(known), known = NoActive \/ known.identity = f
    PROVE  LET b == known.offset - Len(known.tail)
               data == known.tail \o SubSeq(content[f], known.offset + 1, Len(content[f]))
           IN  /\ content[f] \in Seq(Pieces)
               /\ b \in 0 .. Len(content[f])
               /\ data = SubSeq(content[f], b + 1, Len(content[f]))
               /\ Increasing(known.records)
               /\ FromFirst(known.records, f, b)
<1>. DEFINE
    c == content[f]
    b == known.offset - Len(known.tail)
<1>1. c \in Seq(Pieces) /\ Len(c) \in Nat
  <2>1. c \in Seq(Pieces)
    BY LenProperties DEF Files
  <2>. QED
    BY <2>1, LenProperties
<1>2. CASE known = NoActive
  <2>1. known.tail = <<>> /\ known.offset = 0 /\ Len(known.tail) = 0 /\ b = 0
        /\ known.records = <<>> /\ Len(known.records) = 0
    BY <1>2 DEF NoActive
  <2>2. SubSeq(c, 1, Len(c)) = c /\ <<>> \o c = c
    BY <1>1, SubSeqFull, ConcatEmptySeq
  <2>. QED
    BY <1>1, <2>1, <2>2 DEF Increasing, FromFirst
<1>3. CASE known # NoActive
  <2>1. /\ known.offset \in 0 .. Len(c)
        /\ Len(known.tail) <= known.offset
        /\ known.tail = SubSeq(c, b + 1, known.offset)
        /\ Increasing(known.records)
        /\ FromFirst(known.records, f, b)
    BY <1>3 DEF KnownWell
  <2>2. Len(known.tail) \in Nat
    BY LenProperties DEF KnownType
  <2>3. b \in 0 .. Len(c) /\ b + 1 \in 1 .. Len(c) + 1 /\ known.offset \in (b + 1) - 1 .. Len(c)
        /\ Len(c) \in known.offset .. Len(c)
    BY <1>1, <2>1, <2>2
  <2>4. SubSeq(c, b + 1, known.offset) \o SubSeq(c, known.offset + 1, Len(c)) = SubSeq(c, b + 1, Len(c))
    <3>. HIDE DEF b, c
    <3>. QED
      BY <1>1, <2>3, ConcatAdjacentSubSeq
  <2>. QED
    BY <1>1, <2>1, <2>3, <2>4
<1>. QED
  BY <1>2, <1>3

LEMMA ConcatIncreasing ==
    ASSUME NEW s \in Seq(Records), NEW t \in Seq(Records), Increasing(s), Increasing(t),
           \A k \in 1 .. Len(s) : \A l \in 1 .. Len(t) : s[k] < t[l]
    PROVE  /\ s \o t \in Seq(Records) /\ Increasing(s \o t)
           /\ \A k \in 1 .. Len(s \o t) :
                 \/ \E m \in 1 .. Len(s) : (s \o t)[k] = s[m]
                 \/ \E m \in 1 .. Len(t) : (s \o t)[k] = t[m]
<1>. DEFINE
    u == s \o t
    M == Len(s)
<1>1. /\ u \in Seq(Records) /\ Len(u) = M + Len(t) /\ M \in Nat /\ Len(t) \in Nat
      /\ \A k \in 1 .. M + Len(t) : u[k] = IF k <= M THEN s[k] ELSE t[k - M]
  BY ConcatProperties, LenProperties
<1>. HIDE DEF u, M
<1>2. \A k \in 1 .. Len(u) : \/ k \in 1 .. M /\ u[k] = s[k]
                             \/ k - M \in 1 .. Len(t) /\ u[k] = t[k - M] /\ k > M
  BY <1>1
<1>3. ASSUME NEW m \in 1 .. Len(u), NEW n \in 1 .. Len(u), m < n
      PROVE  u[m] < u[n]
  <2>1. CASE n \in 1 .. M /\ u[n] = s[n]
    <3>1. m \in 1 .. M /\ u[m] = s[m]
      BY <1>1, <1>2, <1>3, <2>1
    <3>. QED
      BY <1>3, <2>1, <3>1 DEF Increasing, M
  <2>2. CASE n - M \in 1 .. Len(t) /\ u[n] = t[n - M]
    <3>1. CASE m \in 1 .. M /\ u[m] = s[m]
      BY <2>2, <3>1 DEF M
    <3>2. CASE m - M \in 1 .. Len(t) /\ u[m] = t[m - M]
      <4>1. m - M < n - M
        BY <1>1, <1>3
      <4>. QED
        BY <2>2, <3>2, <4>1 DEF Increasing
    <3>. QED
      BY <1>2, <3>1, <3>2
  <2>. QED
    BY <1>2, <2>1, <2>2
<1>4. Increasing(u)
  BY <1>3 DEF Increasing
<1>. QED
  BY <1>1, <1>2, <1>4 DEF u, M

\* What is known of f after reading on is right again.
LEMMA ReadOnFacts ==
    ASSUME content \in Seq(Seq(Pieces)), Chronological, NEW f \in Files, NEW known \in KnownType,
           KnownWell(known), known = NoActive \/ known.identity = f
    PROVE  /\ ReadOn(f, known) \in KnownType
           /\ KnownWell(ReadOn(f, known))
           /\ ReadOn(f, known).identity = f
<1>. DEFINE
    text == content[f]
    base == known.offset - Len(known.tail)
    data == known.tail \o SubSeq(text, known.offset + 1, Len(text))
    upto == base + Cut(data)
    new == known.records \o Parse(Whole(data))
<1>1. /\ text \in Seq(Pieces) /\ base \in 0 .. Len(text) /\ data = SubSeq(text, base + 1, Len(text))
      /\ Increasing(known.records) /\ FromFirst(known.records, f, base)
  BY KnownPart
<1>2. ReadOn(f, known) = [identity |-> f, offset |-> Len(text), tail |-> Rest(data), records |-> new,
                          invalid |-> known.invalid + Invalid(Whole(data))]
  BY DEF ReadOn
<1>3. Len(text) \in Nat /\ known.records \in Seq(Records) /\ known.invalid \in Nat
  BY <1>1, LenProperties DEF KnownType
<1>. HIDE DEF base, data
<1>4. /\ Cut(data) \in 0 .. Len(text) - base
      /\ Whole(data) \in Seq(Pieces) /\ Len(Whole(data)) = Cut(data)
      /\ \A i \in 1 .. Cut(data) : Whole(data)[i] = text[base + i]
      /\ Rest(data) = SubSeq(text, upto + 1, Len(text)) /\ Rest(data) \in Seq(Pieces)
      /\ Len(Rest(data)) = Len(text) - upto
  <2>. HIDE DEF text, new
  <2>1. text \in Seq(Pieces) /\ base \in 0 .. Len(text) /\ data = SubSeq(text, base + 1, Len(text))
    BY <1>1
  <2>2. /\ Cut(data) \in 0 .. Len(text) - base
        /\ Whole(data) \in Seq(Pieces) /\ Len(Whole(data)) = Cut(data)
        /\ \A i \in 1 .. Cut(data) : Whole(data)[i] = text[base + i]
    BY <2>1, BehindWhole
  <2>3. /\ Rest(data) = SubSeq(text, base + Cut(data) + 1, Len(text)) /\ Rest(data) \in Seq(Pieces)
        /\ Len(Rest(data)) = Len(text) - (base + Cut(data))
    BY <2>1, BehindRest
  <2>. QED
    BY <2>2, <2>3
<1>5. upto \in base .. Len(text) /\ base \in Nat /\ upto \in Nat
  BY <1>1, <1>3, <1>4
<1>6. \A i \in Ends(Whole(data)) : /\ i \in 1 .. Cut(data) /\ base + i \in Ends(text)
                               /\ Whole(data)[i].record = text[base + i].record
  <2>1. ASSUME NEW i \in Ends(Whole(data))
        PROVE  /\ i \in 1 .. Cut(data) /\ base + i \in Ends(text)
               /\ Whole(data)[i].record = text[base + i].record
    <3>1. i \in 1 .. Cut(data) /\ Whole(data)[i].end /\ Whole(data)[i] = text[base + i]
      BY <1>4 DEF Ends
    <3>2. base + i \in 1 .. Len(text)
      <4>1. /\ base \in 0 .. Len(text) /\ Len(text) \in Nat /\ Cut(data) \in 0 .. Len(text) - base
            /\ i \in 1 .. Cut(data)
        BY <1>1, <1>3, <1>4, <3>1
      <4>. HIDE DEF text, new, upto
      <4>. QED
        BY <4>1
    <3>. QED
      BY <3>1, <3>2 DEF Ends
  <2>. QED
    BY <2>1
<1>7. \A i, j \in Ends(text) : i < j => text[i].record < text[j].record
  BY DEF Chronological
<1>. HIDE DEF text
<1>8. \A i, j \in Ends(Whole(data)) : i < j => Whole(data)[i].record < Whole(data)[j].record
  <2>1. ASSUME NEW i \in Ends(Whole(data)), NEW j \in Ends(Whole(data)), i < j
        PROVE  Whole(data)[i].record < Whole(data)[j].record
    <3>1. base + i < base + j
      BY <1>1, <1>3, <1>4, <1>6, <2>1
    <3>. QED
      BY <1>6, <1>7, <3>1
  <2>. QED
    BY <2>1
<1>. DEFINE parsed == Parse(Whole(data))
<1>9. /\ parsed \in Seq(Records) /\ Increasing(parsed)
      /\ \A k \in 1 .. Len(parsed) : \E i \in Ends(Whole(data)) : Whole(data)[i].record = parsed[k]
  BY <1>4, <1>8, ParseFacts, ParseIncreasing
<1>10. \A k \in 1 .. Len(parsed) : \E i \in Ends(text) : i > base /\ i <= upto /\ text[i].record = parsed[k]
  <2>1. ASSUME NEW k \in 1 .. Len(parsed)
        PROVE  \E i \in Ends(text) : i > base /\ i <= upto /\ text[i].record = parsed[k]
    <3>1. PICK i \in Ends(Whole(data)) : Whole(data)[i].record = parsed[k]
      BY <1>9
    <3>2. base + i \in Ends(text) /\ base + i > base /\ base + i <= upto /\ text[base + i].record = parsed[k]
      BY <1>1, <1>3, <1>4, <1>6, <3>1
    <3>. QED
      BY <3>2
  <2>. QED
    BY <2>1
<1>. HIDE DEF parsed
<1>11. \A k \in 1 .. Len(known.records) : \E i \in Ends(text) :
          i <= base /\ i <= upto /\ text[i].record = known.records[k]
  <2>. HIDE DEF upto
  <2>1. base <= upto /\ base \in Nat /\ upto \in Nat /\ \A i \in Ends(text) : i \in Nat
    BY <1>5 DEF Ends
  <2>2. \A k \in 1 .. Len(known.records) : \E i \in Ends(text) :
           i <= base /\ text[i].record = known.records[k]
    BY <1>1 DEF FromFirst, text
  <2>. QED
    BY <2>1, <2>2
<1>12. \A k \in 1 .. Len(known.records) : \A l \in 1 .. Len(parsed) : known.records[k] < parsed[l]
  <2>1. ASSUME NEW k \in 1 .. Len(known.records), NEW l \in 1 .. Len(parsed)
        PROVE  known.records[k] < parsed[l]
    <3>1. PICK i \in Ends(text) : i <= base /\ text[i].record = known.records[k]
      BY <1>11
    <3>2. PICK j \in Ends(text) : j > base /\ text[j].record = parsed[l]
      BY <1>10
    <3>3. i < j
      BY <1>1, <1>3, <3>1, <3>2 DEF Ends
    <3>. QED
      BY <1>7, <3>1, <3>2, <3>3
  <2>. QED
    BY <2>1
<1>13. new = known.records \o parsed
  BY DEF parsed
<1>. HIDE DEF new
<1>14. /\ new \in Seq(Records) /\ Increasing(new)
       /\ \A k \in 1 .. Len(new) : \/ \E m \in 1 .. Len(known.records) : new[k] = known.records[m]
                                   \/ \E m \in 1 .. Len(parsed) : new[k] = parsed[m]
  BY <1>1, <1>3, <1>9, <1>12, <1>13, ConcatIncreasing
<1>15. FromFirst(new, f, upto)
  BY <1>10, <1>11, <1>14 DEF FromFirst, text
<1>16. Increasing(new)
  BY <1>14
<1>17. ReadOn(f, known) \in KnownType
  <2>1. Invalid(Whole(data)) \in Nat
    BY <1>4, InvalidType
  <2>2. f \in 0 .. Len(content) /\ new \in Seq(Records) /\ Len(text) \in Nat
        /\ Rest(data) \in Seq(Pieces) /\ known.invalid + Invalid(Whole(data)) \in Nat
    BY <1>3, <1>4, <1>14, <2>1 DEF Files
  <2>. HIDE DEF text
  <2>. QED
    BY <1>2, <2>2 DEF KnownType
<1>18. KnownWell(ReadOn(f, known))
  <2>. HIDE DEF upto
  <2>1. Len(text) - Len(Rest(data)) = upto /\ Len(Rest(data)) <= Len(text) /\ Len(text) \in 0 .. Len(text)
    BY <1>5, <1>3, <1>4
  <2>2. Rest(data) = SubSeq(text, upto + 1, Len(text))
    BY <1>4 DEF upto
  <2>. DEFINE r == ReadOn(f, known)
  <2>3. /\ r.identity = f /\ r.offset = Len(text) /\ r.tail = Rest(data) /\ r.records = new
    BY <1>2
  <2>. HIDE DEF r
  <2>4. r.offset - Len(r.tail) = upto
    BY <2>1, <2>3
  <2>5. /\ r.identity \in Files /\ r.offset \in 0 .. Len(content[r.identity])
        /\ Len(r.tail) <= r.offset
    BY <2>1, <2>3 DEF text
  <2>6. r.tail = SubSeq(content[r.identity], r.offset - Len(r.tail) + 1, r.offset)
    BY <2>2, <2>3, <2>4 DEF text
  <2>7. Increasing(r.records) /\ FromFirst(r.records, r.identity, r.offset - Len(r.tail))
    BY <1>15, <1>16, <2>3, <2>4
  <2>. QED
    BY <2>5, <2>6, <2>7 DEF KnownWell, r
<1>. QED
  BY <1>2, <1>17, <1>18

-----------------------------------------------------------------------------
\* What the writer's steps do, as far as the reader is concerned.

\* Nothing written is ever changed, ...
Grown ==
    /\ content' \in Seq(Seq(Pieces))
    /\ Len(content) <= Len(content')
    /\ \A f \in Files :
          /\ Len(content[f]) <= Len(content'[f])
          /\ \A i \in 1 .. Len(content[f]) : content'[f][i] = content[f][i]

\* ... no file gets a lower age, ...
Aging == \A b \in Ages : dir'[b] \in Files => \E c \in 0 .. b : dir[c] = dir'[b]

\* ... and the only line that can end is the one begun last.
NewEnds ==
    \A f \in 1 .. Len(content') : \A i \in Ends(content'[f]) :
        \/ f \in Files /\ i \in Ends(content[f])
        \/ /\ writer.at = "line" /\ writer'.at # "line" /\ written' = written
           /\ content'[f][i].record = written
           /\ f = Len(content') /\ i = Len(content'[f])

Settling ==
    /\ written \in Nat /\ written' \in Nat /\ written <= written'
    /\ writer'.at = "line" => written < written'

Written == Grown /\ Aging /\ NewEnds /\ Settling /\ UNCHANGED readerVars

LEMMA FileType ==
    ASSUME content \in Seq(Seq(Pieces)), NEW f \in Files
    PROVE  content[f] \in Seq(Pieces) /\ Len(content[f]) \in Nat
<1>1. content[f] \in Seq(Pieces)
  BY LenProperties DEF Files
<1>. QED
  BY <1>1, LenProperties

\* What is at the ends that were there stays there.
LEMMA EndsStay ==
    ASSUME content \in Seq(Seq(Pieces)), Grown, NEW f \in Files, NEW i \in Ends(content[f])
    PROVE  f \in Files' /\ i \in Ends(content'[f]) /\ content'[f][i].record = content[f][i].record
<1>1. Len(content) \in Nat /\ Len(content') \in Nat /\ f \in 1 .. Len(content')
  BY LenProperties DEF Grown, Files
<1>2. content'[f] \in Seq(Pieces) /\ content[f] \in Seq(Pieces)
  BY <1>1, LenProperties DEF Grown, Files
<1>3. Len(content[f]) \in Nat /\ Len(content'[f]) \in Nat /\ Len(content[f]) <= Len(content'[f])
  BY <1>2, LenProperties DEF Grown
<1>4. i \in 1 .. Len(content[f]) /\ content[f][i].end /\ content'[f][i] = content[f][i]
  BY DEF Ends, Grown
<1>. QED
  BY <1>1, <1>3, <1>4 DEF Ends, Files

LEMMA SettledStays ==
    ASSUME Settling, NEW r \in Nat, Settled(r)
    PROVE  Settled(r)'
<1>1. r <= written
  BY DEF Settled
<1>. QED
  BY <1>1 DEF Settled, Settling

LEMMA ChronologicalStays ==
    ASSUME content \in Seq(Seq(Pieces)), Chronological, Written
    PROVE  Chronological'
<1>. USE DEF Written
<1>1. ASSUME NEW f \in Files, NEW i \in Ends(content[f])
      PROVE  Settled(content[f][i].record) /\ content[f][i].record \in Nat
  <2>1. content[f][i] \in Pieces
    BY FileType, LenProperties DEF Ends
  <2>. QED
    BY <2>1 DEF Chronological, Pieces, Records
<1>2. ASSUME NEW f \in Files', NEW i \in Ends(content'[f]), NEW r, r = content'[f][i].record
      PROVE  Settled(r)'
  <2>1. CASE f \in Files /\ i \in Ends(content[f])
    <3>1. r \in Nat /\ Settled(r)
      BY <1>1, <1>2, <2>1, EndsStay
    <3>. QED
      BY <3>1, SettledStays
  <2>2. CASE writer'.at # "line" /\ written' = written /\ r = written
    BY <2>2 DEF Settled, Settling
  <2>. QED
    BY <1>2, <2>1, <2>2 DEF NewEnds, Files
<1>3. ASSUME NEW f \in Files', NEW g \in Files', NEW i \in Ends(content'[f]), NEW j \in Ends(content'[g]),
             f < g \/ (f = g /\ i < j)
      PROVE  content'[f][i].record < content'[g][j].record
  <2>1. f \in Nat /\ g \in Nat /\ Len(content') \in Nat /\ g <= Len(content')
    BY LenProperties DEF Files, Grown
  <2>2. content'[f] \in Seq(Pieces)
    BY LenProperties DEF Files, Grown
  <2>3. i \in Nat /\ j \in Nat /\ Len(content'[f]) \in Nat /\ (f = g => j <= Len(content'[f]))
    BY <2>2, LenProperties DEF Ends
  <2>4. f \in Files /\ i \in Ends(content[f])
    <3>1. ~ (f = Len(content') /\ i = Len(content'[f]))
      BY <1>3, <2>1, <2>3
    <3>. QED
      BY <1>3, <3>1 DEF NewEnds, Files
  <2>5. content'[f][i].record = content[f][i].record
    BY <2>4, EndsStay
  <2>6. CASE g \in Files /\ j \in Ends(content[g])
    <3>1. content'[g][j].record = content[g][j].record
      BY <2>6, EndsStay
    <3>. QED
      BY <1>3, <2>4, <2>5, <2>6, <3>1 DEF Chronological
  <2>7. CASE writer.at = "line" /\ content'[g][j].record = written
    BY <1>1, <2>4, <2>5, <2>7 DEF Settled
  <2>. QED
    BY <1>3, <2>6, <2>7 DEF NewEnds, Files
<1>. QED
  BY <1>2, <1>3 DEF Chronological

\* What was read of a file remains what its first pieces say.
LEMMA FromFirstStays ==
    ASSUME content \in Seq(Seq(Pieces)), Grown, NEW f \in Files,
           NEW records, NEW n, FromFirst(records, f, n)
    PROVE  FromFirst(records, f, n)'
<1>1. ASSUME NEW k \in 1 .. Len(records)
      PROVE  \E i \in Ends(content'[f]) : i <= n /\ content'[f][i].record = records[k]
  <2>1. PICK i \in Ends(content[f]) : i <= n /\ content[f][i].record = records[k]
    BY DEF FromFirst
  <2>2. i \in Ends(content'[f]) /\ content'[f][i].record = content[f][i].record
    BY EndsStay
  <2>. QED
    BY <2>1, <2>2
<1>. QED
  BY <1>1 DEF FromFirst

LEMMA CacheHonestStays ==
    ASSUME content \in Seq(Seq(Pieces)), dir' \in [Ages -> Nat], CacheHonest, Written
    PROVE  CacheHonest'
<1>. USE DEF Written
<1>1. cache' = cache /\ Len(content) \in Nat /\ Len(content') \in Nat /\ Len(content) <= Len(content')
  BY LenProperties DEF Grown, readerVars
<1>2. ASSUME NEW a \in Rotated, NEW entry, HonestEntry(entry, a), NEW f, f = entry.stamp.file,
             NEW records, records = entry.records
      PROVE  /\ f \in 0 .. Len(content') /\ Increasing(records)
             /\ f = NoFile \/ Gone(f, a)' \/ FromFirst(records, f, Len(content[f]))'
  <2>1. /\ f \in 0 .. Len(content) /\ Increasing(records)
        /\ f = NoFile \/ Gone(f, a) \/ FromFirst(records, f, Len(content[f]))
    BY <1>2 DEF HonestEntry
  <2>2. f \in 0 .. Len(content')
    BY <1>1, <2>1
  <2>3. ASSUME f # NoFile, Gone(f, a)
        PROVE  Gone(f, a)'
    <3>1. f \in Files
      BY <1>1, <2>1, <2>3 DEF Files, NoFile
    <3>2. \A b \in 0 .. a : b \in Ages /\ \A c \in 0 .. b : c \in 0 .. a
      BY LogAssumption DEF Ages, Rotated
    <3>3. \A b \in 0 .. a : dir'[b] # f
      BY <2>3, <3>1, <3>2 DEF Aging, Gone
    <3>. QED
      BY <3>3 DEF Gone
  <2>4. ASSUME f # NoFile, FromFirst(records, f, Len(content[f]))
        PROVE  \A k \in 1 .. Len(records) : \E i \in Ends(content'[f]) :
                   i <= Len(content'[f]) /\ content'[f][i].record = records[k]
    <3>1. f \in Files
      BY <1>1, <2>1, <2>4 DEF Files, NoFile
    <3>2. content'[f] \in Seq(Pieces)
      BY <1>1, <3>1, LenProperties DEF Grown, Files
    <3>3. Len(content'[f]) \in Nat /\ \A i \in Ends(content'[f]) : i <= Len(content'[f])
      BY <3>2, LenProperties DEF Ends
    <3>4. \A k \in 1 .. Len(records) : \E i \in Ends(content[f]) : content[f][i].record = records[k]
      BY <2>4 DEF FromFirst
    <3>. QED
      BY <3>1, <3>3, <3>4, EndsStay
  <2>5. f = NoFile \/ Gone(f, a)' \/ FromFirst(records, f, Len(content[f]))'
    BY <2>1, <2>3, <2>4 DEF FromFirst
  <2>. QED
    BY <2>1, <2>2, <2>5
<1>3. \A a \in Rotated : \A entry : HonestEntry(entry, a) => HonestEntry(entry, a)'
  BY <1>2 DEF HonestEntry
<1>. QED
  BY <1>1, <1>3 DEF CacheHonest, HonestEntry, Rotated

\* The start of a file is what it was.
LEMMA SameStart ==
    ASSUME content \in Seq(Seq(Pieces)), Grown, NEW f \in Files,
           NEW e \in 0 .. Len(content[f]), NEW b \in 0 .. e
    PROVE  SubSeq(content'[f], b + 1, e) = SubSeq(content[f], b + 1, e)
<1>. DEFINE
    c == content[f]
    d == content'[f]
<1>1. Len(content) \in Nat /\ Len(content') \in Nat /\ f \in 1 .. Len(content')
  BY LenProperties DEF Grown, Files
<1>2. c \in Seq(Pieces) /\ d \in Seq(Pieces)
  BY <1>1, LenProperties DEF Grown, Files
<1>3. /\ Len(c) \in Nat /\ Len(d) \in Nat /\ Len(c) <= Len(d)
      /\ \A i \in 1 .. Len(c) : d[i] = c[i]
  BY <1>2, LenProperties DEF Grown
<1>4. e \in 0 .. Len(c) /\ e \in 0 .. Len(d)
  BY <1>3
<1>. HIDE DEF c, d
<1>. DEFINE
    s == SubSeq(c, b + 1, e)
    t == SubSeq(d, b + 1, e)
<1>5. s \in Seq(Pieces) /\ Len(s) = e - b /\ \A i \in 1 .. e - b : s[i] = c[b + i]
  BY <1>2, <1>4, PartFacts
<1>6. t \in Seq(Pieces) /\ Len(t) = e - b /\ \A i \in 1 .. e - b : t[i] = d[b + i]
  BY <1>2, <1>4, PartFacts
<1>. HIDE DEF s, t
<1>7. \A i \in 1 .. e - b : b + i \in 1 .. Len(c)
  BY <1>3, <1>4
<1>8. s = t
  BY <1>3, <1>5, <1>6, <1>7, SeqEqual
<1>. QED
  BY <1>8 DEF s, t, c, d

LEMMA KnownStays ==
    ASSUME content \in Seq(Seq(Pieces)), Written, NEW known \in KnownType, KnownWell(known)
    PROVE  known \in KnownType' /\ KnownWell(known)'
<1>. USE DEF Written
<1>1. Len(content) \in Nat /\ Len(content') \in Nat /\ Len(content) <= Len(content')
  BY LenProperties DEF Grown
<1>2. known \in KnownType'
  BY <1>1 DEF KnownType
<1>3. CASE known = NoActive
  BY <1>2, <1>3 DEF KnownWell
<1>4. CASE known # NoActive
  <2>. DEFINE
      f == known.identity
      t == known.tail
      e == known.offset
      b == e - Len(t)
  <2>1. /\ f \in Files /\ e \in 0 .. Len(content[f]) /\ Len(t) <= e
        /\ t = SubSeq(content[f], b + 1, e)
        /\ Increasing(known.records)
        /\ FromFirst(known.records, f, b)
    BY <1>4 DEF KnownWell
  <2>2. Len(t) \in Nat
    BY LenProperties DEF KnownType
  <2>3. b \in 0 .. e /\ Len(content[f]) \in Nat
    BY <2>1, <2>2, FileType
  <2>4. f \in Files' /\ e \in 0 .. Len(content'[f])
    <3>1. f \in 1 .. Len(content')
      BY <1>1, <2>1 DEF Files
    <3>2. content'[f] \in Seq(Pieces)
      BY <3>1, LenProperties DEF Grown
    <3>3. Len(content'[f]) \in Nat /\ Len(content[f]) <= Len(content'[f])
      BY <2>1, <3>2, LenProperties DEF Grown
    <3>4. e \in 0 .. Len(content[f])
      BY <2>1
    <3>. HIDE DEF e, f
    <3>5. e \in 0 .. Len(content'[f])
      BY <2>3, <3>3, <3>4
    <3>. QED
      BY <3>1, <3>5 DEF Files
  <2>5. t = SubSeq(content'[f], b + 1, e)
    <3>1. f \in Files /\ e \in 0 .. Len(content[f]) /\ b \in 0 .. e /\ t = SubSeq(content[f], b + 1, e)
      BY <2>1, <2>3
    <3>. HIDE DEF f, e, b, t
    <3>. QED
      BY <3>1, SameStart
  <2>6. FromFirst(known.records, f, b)'
    <3>1. f \in Files /\ FromFirst(known.records, f, b)
      BY <2>1
    <3>2. \A k \in 1 .. Len(known.records) : \E i \in Ends(content[f]) :
              i <= b /\ content[f][i].record = known.records[k]
      BY <3>1 DEF FromFirst
    <3>3. \A i \in Ends(content[f]) : i \in Ends(content'[f]) /\ content'[f][i].record = content[f][i].record
      BY <3>1, EndsStay
    <3>. QED
      BY <1>1, <3>2, <3>3 DEF FromFirst
  <2>. QED
    BY <1>2, <2>1, <2>4, <2>5, <2>6 DEF KnownWell
<1>. QED
  BY <1>2, <1>3, <1>4

LEMMA ReadInOrderStays ==
    ASSUME TypeOK, ReadInOrder, dir' \in [Ages -> 0 .. Len(content')], Written
    PROVE  ReadInOrder'
<1>. USE DEF Written
<1>1. /\ reading' = reading /\ result' = result /\ left' = left
      /\ content \in Seq(Seq(Pieces)) /\ Len(content) \in Nat /\ Len(content') \in Nat
      /\ result.records \in Seq(Records) /\ \A a \in left : a \in Ages
  BY LenProperties DEF TypeOK, readerVars, Grown
<1>2. CASE reading \notin {"rotated", "stamped"}
  BY <1>1, <1>2 DEF ReadInOrder
<1>3. CASE reading \in {"rotated", "stamped"}
  <2>1. ASSUME NEW k \in 1 .. Len(result.records), NEW r, r = result.records[k]
        PROVE  /\ Settled(r)'
               /\ \A a \in left : \A b \in 0 .. a : dir'[b] # NoFile =>
                     \A i \in Ends(content'[dir'[b]]) : r < content'[dir'[b]][i].record
    <3>1. /\ r \in Nat /\ Settled(r)
          /\ \A a \in left : \A b \in 0 .. a : dir[b] # NoFile =>
                \A i \in Ends(content[dir[b]]) : r < content[dir[b]][i].record
      <4>1. r \in Records
        BY <1>1, <2>1, ElementOfSeq
      <4>2. r \in Nat
        BY <4>1 DEF Records
      <4>. QED
        BY <1>3, <2>1, <4>2 DEF ReadInOrder
    <3>2. Settled(r)'
      BY <3>1, SettledStays
    <3>3. ASSUME NEW a \in left, NEW b \in 0 .. a, dir'[b] # NoFile, NEW i \in Ends(content'[dir'[b]])
          PROVE  r < content'[dir'[b]][i].record
      <4>. DEFINE f == dir'[b]
      <4>1. f \in 1 .. Len(content') /\ b \in Ages /\ \A c \in 0 .. b : c \in 0 .. a
        BY <1>1, <3>3, LogAssumption DEF Ages, NoFile
      <4>2. CASE f \in Files /\ i \in Ends(content[f])
        <5>1. PICK c \in 0 .. b : dir[c] = f
          BY <4>1, <4>2 DEF Aging
        <5>2. dir[c] # NoFile /\ c \in 0 .. a
          BY <1>1, <4>1, <4>2, <5>1 DEF Files, NoFile
        <5>3. r < content[f][i].record
          BY <3>1, <4>2, <5>1, <5>2
        <5>. HIDE DEF f
        <5>. QED
          BY <1>1, <4>2, <5>3, EndsStay DEF f
      <4>3. CASE writer.at = "line" /\ content'[f][i].record = written
        BY <3>1, <4>3 DEF Settled
      <4>. QED
        BY <3>3, <4>1, <4>2, <4>3 DEF NewEnds
    <3>. QED
      BY <3>2, <3>3
  <2>. QED
    BY <1>1, <1>3, <2>1 DEF ReadInOrder
<1>. QED
  BY <1>2, <1>3

LEMMA ProgressStays ==
    ASSUME TypeOK, Progress, Written
    PROVE  Progress'
<1>. USE DEF Written
<1>1. /\ reading' = reading /\ listed' = listed /\ left' = left /\ result' = result /\ stamp' = stamp
      /\ Len(content) \in Nat /\ Len(content') \in Nat /\ Len(content) <= Len(content')
      /\ \A a \in left : a \in Ages
  BY LenProperties DEF TypeOK, readerVars, Grown
<1>2. ASSUME reading = "stamped"
      PROVE  /\ left \cap Rotated # {} /\ stamp.file \in Files'
             /\ \A a \in left : (\A b \in left : b <= a) => \A b \in 0 .. a : b < a => dir'[b] # stamp.file
  <2>1. /\ left \cap Rotated # {} /\ stamp.file \in Files
        /\ \A a \in left : (\A b \in left : b <= a) => \A b \in 0 .. a : b < a => dir[b] # stamp.file
    BY <1>2 DEF Progress
  <2>2. stamp.file \in Files'
    BY <1>1, <2>1 DEF Files
  <2>3. ASSUME NEW a \in left, \A b \in left : b <= a, NEW b \in 0 .. a, b < a, dir'[b] = stamp.file
        PROVE  FALSE
    <3>1. b \in Ages
      BY <1>1, <2>3, LogAssumption DEF Ages
    <3>2. PICK c \in 0 .. b : dir[c] = stamp.file
      BY <2>1, <2>3, <3>1 DEF Aging
    <3>3. c \in 0 .. a /\ c < a
      BY <1>1, <2>3, LogAssumption DEF Ages
    <3>. QED
      BY <2>1, <2>3, <3>2, <3>3
  <2>. QED
    BY <2>1, <2>2, <2>3
<1>. QED
  BY <1>1, <1>2 DEF Progress

\* Whatever the writer does, the reader stays right.
LEMMA WrittenKeeps ==
    ASSUME OrderInv, TypeOK', Aged', Written
    PROVE  OrderInv'
<1>1. TypeOK /\ Chronological /\ CacheHonest /\ KnownWell(active) /\ ReadInOrder /\ Progress
      /\ CleanSnapshotsOrdered
  BY DEF OrderInv
<1>2. /\ content \in Seq(Seq(Pieces)) /\ active \in KnownType
      /\ dir' \in [Ages -> 0 .. Len(content')] /\ active' = active
      /\ reading' = reading /\ result' = result
  BY <1>1 DEF TypeOK, KnownType, Written, readerVars
<1>3. dir' \in [Ages -> Nat]
  <2>1. Len(content') \in Nat
    BY LenProperties DEF Written, Grown
  <2>. QED
    BY <1>2, <2>1
<1>4. Chronological' /\ CacheHonest'
  BY <1>1, <1>2, <1>3, ChronologicalStays, CacheHonestStays
<1>5. KnownWell(active)'
  BY <1>1, <1>2, KnownStays
<1>6. ReadInOrder' /\ Progress'
  BY <1>1, <1>2, ReadInOrderStays, ProgressStays
<1>7. CleanSnapshotsOrdered'
  BY <1>1, <1>2 DEF CleanSnapshotsOrdered, Delivered
<1>. QED
  BY <1>4, <1>5, <1>6, <1>7 DEF OrderInv

-----------------------------------------------------------------------------
\* The writer's steps.

\* A piece appended to the active file; p ends a line only if one has begun.
LEMMA AppendFacts ==
    ASSUME TypeOK, Aged, NEW p \in Pieces, dir[0] # NoFile, AppendTo(dir[0], p),
           p.end => writer.at = "line" /\ writer'.at # "line" /\ written' = written /\ p.record = written
    PROVE  Grown /\ NewEnds /\ Len(content') = Len(content)
<1>. DEFINE f == dir[0]
<1>1. /\ content \in Seq(Seq(Pieces)) /\ f \in Files /\ f = Len(content)
      /\ Len(content) \in Nat
      /\ content[f] \in Seq(Pieces) /\ Len(content[f]) \in Nat
  <2>1. content \in Seq(Seq(Pieces)) /\ f = Len(content) /\ Len(content) \in Nat /\ f # 0 /\ 0 \in Ages
    BY LogAssumption, LenProperties DEF TypeOK, Aged, NoFile, Ages
  <2>2. f \in Files
    BY <2>1 DEF Files
  <2>. HIDE DEF f
  <2>. QED
    BY <2>1, <2>2, FileType
<1>2. /\ Append(content[f], p) \in Seq(Pieces) /\ Len(Append(content[f], p)) = Len(content[f]) + 1
      /\ \A i \in 1 .. Len(content[f]) : Append(content[f], p)[i] = content[f][i]
      /\ Append(content[f], p)[Len(content[f]) + 1] = p
  BY <1>1, AppendProperties
<1>3. content' = [content EXCEPT ![f] = Append(content[f], p)]
  BY DEF AppendTo
<1>. HIDE DEF f
<1>4. /\ content' \in Seq(Seq(Pieces)) /\ Len(content') = Len(content)
      /\ content'[f] = Append(content[f], p)
      /\ \A g \in Files : g # f => content'[g] = content[g]
  BY <1>1, <1>2, <1>3, ExceptSeq DEF Files
<1>5. Grown
  <2>1. ASSUME NEW g \in Files
        PROVE  /\ Len(content[g]) <= Len(content'[g])
               /\ \A i \in 1 .. Len(content[g]) : content'[g][i] = content[g][i]
    <3>1. Len(content[g]) \in Nat
      BY <1>1, FileType
    <3>2. CASE g = f
      BY <1>2, <1>4, <3>1, <3>2
    <3>3. CASE g # f
      BY <1>4, <3>1, <3>3
    <3>. QED
      BY <3>2, <3>3
  <2>2. content' \in Seq(Seq(Pieces)) /\ Len(content) <= Len(content')
    BY <1>1, <1>4
  <2>. QED
    BY <2>1, <2>2 DEF Grown
<1>6. NewEnds
  <2>1. ASSUME NEW g \in 1 .. Len(content'), NEW i \in Ends(content'[g])
        PROVE  \/ g \in Files /\ i \in Ends(content[g])
               \/ /\ writer.at = "line" /\ writer'.at # "line" /\ written' = written
                  /\ content'[g][i].record = written
                  /\ g = Len(content') /\ i = Len(content'[g])
    <3>1. g \in Files
      BY <1>4 DEF Files
    <3>2. CASE g # f
      BY <1>4, <3>1, <3>2
    <3>3. CASE g = f
      <4>1. i \in 1 .. Len(content[f]) + 1 /\ content'[f][i].end
        BY <1>2, <1>4, <2>1, <3>3 DEF Ends
      <4>2. CASE i \in 1 .. Len(content[f])
        BY <1>2, <1>4, <3>1, <3>3, <4>1, <4>2 DEF Ends
      <4>3. CASE i = Len(content[f]) + 1
        BY <1>1, <1>2, <1>4, <3>3, <4>1, <4>3
      <4>. QED
        BY <1>1, <4>1, <4>2, <4>3
    <3>. QED
      BY <3>2, <3>3
  <2>. QED
    BY <2>1 DEF NewEnds
<1>. QED
  BY <1>4, <1>5, <1>6

LEMMA WriterType ==
    ASSUME TypeOK, Grown, dir' \in [Ages -> 0 .. Len(content')], written' \in 0 .. MaxRecords,
           writer' \in [at : {"ready", "line", "drop", "move", "open"}, age : 0 .. BackupCount - 1],
           crashes' \in 0 .. MaxCrashes, quiet' \in BOOLEAN, before' = before, UNCHANGED readerVars
    PROVE  TypeOK'
<1>1. /\ reading' \in {"idle", "rotated", "stamped", "done"}
      /\ listed' \in SUBSET Ages /\ left' \in SUBSET listed'
      /\ stamp' \in Stamps
      /\ cache' \in [Rotated -> [stamp : Stamps, records : Seq(Records), invalid : Nat]]
      /\ result' \in [records : Seq(Records), skipped : 0 .. Cardinality(listed'),
                      invalid : Nat, readable : BOOLEAN]
      /\ before' \in SUBSET Records
  BY DEF TypeOK, readerVars
<1>2. active' \in [identity : 0 .. Len(content'), offset : Nat, tail : Seq(Pieces),
                   records : Seq(Records), invalid : Nat]
  <2>1. Len(content) \in Nat /\ Len(content') \in Nat /\ Len(content) <= Len(content')
    BY LenProperties DEF TypeOK, Grown
  <2>2. active' = active
    BY DEF readerVars
  <2>. QED
    BY <2>1, <2>2 DEF TypeOK
<1>. QED
  BY <1>1, <1>2 DEF TypeOK, Grown

\* Nothing written at all.
LEMMA ContentStays ==
    ASSUME TypeOK, content' = content
    PROVE  Grown /\ NewEnds
<1>1. content \in Seq(Seq(Pieces)) /\ Len(content) \in Nat
  BY LenProperties DEF TypeOK
<1>2. \A f \in Files : Len(content[f]) \in Nat
  BY <1>1, FileType
<1>. QED
  BY <1>1, <1>2 DEF Grown, NewEnds, Files

LEMMA WriterFacts ==
    ASSUME TypeOK, LogAssumption
    PROVE  /\ content \in Seq(Seq(Pieces)) /\ Len(content) \in Nat
           /\ dir \in [Ages -> 0 .. Len(content)] /\ dir \in [Ages -> Nat] /\ 0 \in Ages
           /\ written \in 0 .. MaxRecords /\ written \in Nat /\ MaxRecords \in Nat
           /\ crashes \in 0 .. MaxCrashes /\ quiet \in BOOLEAN
           /\ writer \in [at : {"ready", "line", "drop", "move", "open"}, age : 0 .. BackupCount - 1]
           /\ 0 \in 0 .. BackupCount - 1
<1>1. content \in Seq(Seq(Pieces)) /\ Len(content) \in Nat
  BY LenProperties DEF TypeOK
<1>2. dir \in [Ages -> Nat]
  BY <1>1 DEF TypeOK
<1>. QED
  BY <1>1, <1>2, LogAssumption DEF TypeOK, Ages

LEMMA BeginLineStep ==
    ASSUME OrderInv, BeginLine
    PROVE  OrderInv' /\ Written
<1>1. TypeOK /\ Aged
  BY DEF OrderInv
<1>. DEFINE p == [record |-> written + 1, end |-> FALSE]
<1>2. /\ writer.at = "ready" /\ written < MaxRecords /\ dir[0] # NoFile
      /\ AppendTo(dir[0], p) /\ written' = written + 1
      /\ writer' = [at |-> "line", age |-> 0] /\ dir' = dir /\ crashes' = crashes
      /\ UNCHANGED readerVars /\ UNCHANGED historyVars
  BY <1>1 DEF BeginLine, Ready, Aged
<1>3. p \in Pieces /\ p.end = FALSE
  BY <1>1, <1>2, WriterFacts, LogAssumption DEF Pieces, Records
<1>4. Grown /\ NewEnds /\ Len(content') = Len(content)
  <2>. HIDE DEF p
  <2>. QED
    BY <1>1, <1>2, <1>3, AppendFacts
<1>5. Aging
  BY <1>2, LogAssumption DEF Aging, Ages
<1>6. Settling
  BY <1>1, <1>2, WriterFacts, LogAssumption DEF Settling
<1>7. TypeOK'
  BY <1>1, <1>2, <1>4, WriterFacts, WriterType, LogAssumption DEF historyVars
<1>8. Aged'
  BY <1>1, <1>2, <1>4, WriterFacts, LogAssumption DEF Aged
<1>. QED
  BY <1>2, <1>4, <1>5, <1>6, <1>7, <1>8, WrittenKeeps DEF Written

LEMMA EndLineStep ==
    ASSUME OrderInv, EndLine
    PROVE  OrderInv' /\ Written
<1>1. TypeOK /\ Aged
  BY DEF OrderInv
<1>. DEFINE p == [record |-> written, end |-> TRUE]
<1>2. /\ writer.at = "line" /\ written >= 1 /\ dir[0] # NoFile
      /\ AppendTo(dir[0], p) /\ written' = written
      /\ writer' = [at |-> "ready", age |-> 0] /\ dir' = dir /\ crashes' = crashes
      /\ UNCHANGED readerVars /\ UNCHANGED historyVars
  BY <1>1 DEF EndLine, Ready, Aged
<1>3. p \in Pieces /\ p.record = written
  BY <1>1, <1>2, WriterFacts, LogAssumption DEF Pieces, Records
<1>4. Grown /\ NewEnds /\ Len(content') = Len(content)
  <2>. HIDE DEF p
  <2>. QED
    BY <1>1, <1>2, <1>3, AppendFacts
<1>5. Aging
  BY <1>2, LogAssumption DEF Aging, Ages
<1>6. Settling
  BY <1>1, <1>2, WriterFacts, LogAssumption DEF Settling
<1>7. TypeOK'
  BY <1>1, <1>2, <1>4, WriterFacts, WriterType, LogAssumption DEF historyVars
<1>8. Aged'
  BY <1>1, <1>2, <1>4, WriterFacts, LogAssumption DEF Aged
<1>. QED
  BY <1>2, <1>4, <1>5, <1>6, <1>7, <1>8, WrittenKeeps DEF Written

LEMMA BeginRotationStep ==
    ASSUME OrderInv, BeginRotation
    PROVE  OrderInv' /\ Written
<1>1. TypeOK /\ Aged
  BY DEF OrderInv
<1>2. /\ writer.at = "ready" /\ written < MaxRecords
      /\ content' = content /\ dir' = dir /\ written' = written /\ crashes' = crashes
      /\ writer' = [at |-> "drop", age |-> 0]
      /\ UNCHANGED readerVars /\ UNCHANGED historyVars
  BY DEF BeginRotation, Ready
<1>3. Grown /\ NewEnds
  BY <1>1, <1>2, ContentStays
<1>4. Aging
  BY <1>2, LogAssumption DEF Aging, Ages
<1>5. Settling
  BY <1>1, <1>2, WriterFacts, LogAssumption DEF Settling
<1>6. TypeOK'
  BY <1>1, <1>2, <1>3, WriterFacts, WriterType, LogAssumption DEF historyVars
<1>7. Aged'
  BY <1>1, <1>2, WriterFacts, LogAssumption DEF Aged
<1>. QED
  BY <1>2, <1>3, <1>4, <1>5, <1>6, <1>7, WrittenKeeps DEF Written

LEMMA DropOldestStep ==
    ASSUME OrderInv, DropOldest
    PROVE  OrderInv' /\ Written
<1>1. TypeOK /\ Aged
  BY DEF OrderInv
<1>2. /\ writer.at = "drop" /\ quiet' = FALSE
      /\ content' = content /\ written' = written /\ crashes' = crashes /\ before' = before
      /\ writer' = [at |-> "move", age |-> BackupCount - 1]
      /\ UNCHANGED readerVars
  BY DEF DropOldest
<1>3. /\ dir' \in [Ages -> 0 .. Len(content)]
      /\ \A b \in Ages : dir'[b] \in {dir[b], NoFile}
      /\ dir'[0] = dir[0]
  BY <1>1, WriterFacts, LogAssumption DEF DropOldest, Ages, NoFile
<1>4. Grown /\ NewEnds
  BY <1>1, <1>2, ContentStays
<1>5. Aging
  <2>1. \A b \in Ages : b \in 0 .. b
    BY LogAssumption DEF Ages
  <2>. QED
    BY <1>3, <2>1 DEF Aging, Files, NoFile
<1>6. Settling
  BY <1>1, <1>2, WriterFacts, LogAssumption DEF Settling
<1>7. TypeOK'
  <2>1. BackupCount - 1 \in 0 .. BackupCount - 1
    BY LogAssumption
  <2>. QED
    BY <1>1, <1>2, <1>3, <1>4, <2>1, WriterFacts, WriterType, LogAssumption
<1>8. Aged'
  BY <1>1, <1>2, <1>3, WriterFacts, LogAssumption DEF Aged
<1>. QED
  BY <1>2, <1>4, <1>5, <1>6, <1>7, <1>8, WrittenKeeps DEF Written

LEMMA MoveFileStep ==
    ASSUME OrderInv, MoveFile
    PROVE  OrderInv' /\ Written
<1>1. TypeOK /\ Aged
  BY DEF OrderInv
<1>. DEFINE a == writer.age
<1>2. /\ writer.at = "move" /\ quiet' = FALSE
      /\ content' = content /\ written' = written /\ crashes' = crashes /\ before' = before
      /\ writer' = IF a = 0 THEN [Ready EXCEPT !.at = "open"] ELSE [writer EXCEPT !.age = a - 1]
      /\ dir' = IF dir[a] = NoFile THEN dir ELSE [dir EXCEPT ![a + 1] = dir[a], ![a] = NoFile]
      /\ UNCHANGED readerVars
  BY DEF MoveFile
<1>3. a \in 0 .. BackupCount - 1 /\ a \in Ages /\ a + 1 \in Ages /\ a \in Nat /\ a # a + 1
  BY <1>1, WriterFacts, LogAssumption DEF Ages
<1>4. /\ writer' \in [at : {"move", "open"}, age : 0 .. BackupCount - 1]
      /\ writer'.at = "open" => a = 0
  <2>1. CASE a = 0
    BY <1>1, <1>2, <1>3, <2>1 DEF Ready
  <2>2. CASE a # 0
    <3>1. a - 1 \in 0 .. BackupCount - 1
      BY <1>3, <2>2, LogAssumption
    <3>2. writer' = [writer EXCEPT !.age = a - 1]
      BY <1>2, <2>2
    <3>3. writer \in [at : {"ready", "line", "drop", "move", "open"}, age : 0 .. BackupCount - 1]
      BY <1>1 DEF TypeOK
    <3>. HIDE DEF a
    <3>4. writer'.at = "move" /\ writer' \in [at : {"move", "open"}, age : 0 .. BackupCount - 1]
      BY <1>2, <3>1, <3>2, <3>3
    <3>. QED
      BY <3>4
  <2>. QED
    BY <2>1, <2>2
<1>5. /\ dir' \in [Ages -> 0 .. Len(content)]
      /\ \/ dir' = dir
         \/ /\ dir[a] # NoFile /\ dir'[a + 1] = dir[a] /\ dir'[a] = NoFile
            /\ \A b \in Ages : b # a /\ b # a + 1 => dir'[b] = dir[b]
  <2>1. dir \in [Ages -> 0 .. Len(content)] /\ NoFile \in 0 .. Len(content)
    BY <1>1, WriterFacts, LogAssumption DEF NoFile
  <2>. HIDE DEF a
  <2>. QED
    BY <1>2, <1>3, <2>1
<1>. HIDE DEF a
<1>6. Grown /\ NewEnds
  BY <1>1, <1>2, ContentStays
<1>7. Aging
  <2>1. ASSUME NEW b \in Ages, dir'[b] \in Files
        PROVE  \E c \in 0 .. b : dir[c] = dir'[b]
    <3>1. b \in 0 .. b /\ dir'[b] # NoFile
      BY <2>1, LogAssumption DEF Ages, Files, NoFile
    <3>2. CASE dir'[b] = dir[b]
      BY <3>1, <3>2
    <3>3. CASE b = a + 1 /\ dir'[b] = dir[a]
      BY <1>3, <3>3
    <3>. QED
      BY <1>5, <2>1, <3>1, <3>2, <3>3
  <2>. QED
    BY <2>1 DEF Aging
<1>8. Settling
  BY <1>1, <1>2, <1>4, WriterFacts, LogAssumption DEF Settling
<1>9. TypeOK'
  BY <1>1, <1>2, <1>4, <1>5, <1>6, WriterFacts, WriterType, LogAssumption
<1>10. Aged'
  <2>1. ASSUME NEW b \in Ages, NEW c \in Ages, b < c, dir'[b] # NoFile, dir'[c] # NoFile
        PROVE  dir'[c] < dir'[b]
    <3>1. b \in Nat /\ c \in Nat
      BY LogAssumption DEF Ages
    <3>2. CASE dir' = dir
      BY <1>1, <2>1, <3>2 DEF Aged
    <3>3. CASE /\ dir[a] # NoFile /\ dir'[a + 1] = dir[a] /\ dir'[a] = NoFile
               /\ \A d \in Ages : d # a /\ d # a + 1 => dir'[d] = dir[d]
      <4>1. b # a /\ c # a
        BY <2>1, <3>3
      <4>2. CASE b = a + 1
        BY <1>1, <1>3, <2>1, <3>1, <3>3, <4>1, <4>2 DEF Aged
      <4>3. CASE c = a + 1
        <5>1. b < a
          BY <1>3, <2>1, <3>1, <4>1, <4>3
        <5>. QED
          BY <1>1, <1>3, <2>1, <3>3, <4>1, <4>3, <5>1 DEF Aged
      <4>4. CASE b # a + 1 /\ c # a + 1
        BY <1>1, <2>1, <3>3, <4>1, <4>4 DEF Aged
      <4>. QED
        BY <4>2, <4>3, <4>4
    <3>. QED
      BY <1>5, <3>2, <3>3
  <2>2. dir'[0] \in {NoFile, Len(content')}
    <3>1. dir[0] \in {NoFile, Len(content)} /\ 0 \in Ages /\ 0 # a + 1
      BY <1>1, <1>3, LogAssumption DEF Aged, Ages
    <3>. QED
      BY <1>2, <1>5, <3>1
  <2>3. writer'.at \in {"move", "open"} /\ (writer'.at = "move" => written' < MaxRecords)
    BY <1>1, <1>2, <1>4 DEF Aged
  <2>. QED
    BY <2>1, <2>2, <2>3 DEF Aged
<1>. QED
  BY <1>2, <1>6, <1>7, <1>8, <1>9, <1>10, WrittenKeeps DEF Written

\* The active file after OpenActive is the newest.
LEMMA OpenActiveFacts ==
    ASSUME TypeOK, Aged, OpenActive
    PROVE  /\ Grown /\ NewEnds /\ Aging
           /\ dir' \in [Ages -> 0 .. Len(content')]
           /\ dir'[0] # NoFile /\ dir'[0] = Len(content')
           /\ \A a, b \in Ages : a < b /\ dir'[a] # NoFile /\ dir'[b] # NoFile => dir'[b] < dir'[a]
<1>1. /\ content \in Seq(Seq(Pieces)) /\ Len(content) \in Nat
      /\ dir \in [Ages -> 0 .. Len(content)] /\ 0 \in Ages
      /\ \A a \in Ages : a \in Nat
  BY WriterFacts, LogAssumption DEF Ages
<1>2. CASE dir[0] # NoFile
  <2>1. content' = content /\ dir' = dir
    BY <1>2 DEF OpenActive
  <2>2. Aging
    BY <1>1, <2>1 DEF Aging
  <2>. QED
    BY <1>1, <1>2, <2>1, <2>2, ContentStays DEF Aged
<1>3. CASE dir[0] = NoFile
  <2>1. content' = Append(content, <<>>) /\ dir' = [dir EXCEPT ![0] = Len(content) + 1]
    BY <1>3 DEF OpenActive
  <2>2. <<>> \in Seq(Pieces) /\ Len(<<>>) = 0
    OBVIOUS
  <2>3. /\ content' \in Seq(Seq(Pieces)) /\ Len(content') = Len(content) + 1
        /\ \A f \in 1 .. Len(content) : content'[f] = content[f]
        /\ content'[Len(content) + 1] = <<>>
    BY <1>1, <2>1, <2>2, AppendProperties
  <2>4. \A f \in Files : Len(content[f]) \in Nat
    BY <1>1, FileType
  <2>5. Grown
    BY <1>1, <2>3, <2>4 DEF Grown, Files
  <2>6. NewEnds
    <3>1. Ends(content'[Len(content) + 1]) = {}
      BY <2>2, <2>3 DEF Ends
    <3>. QED
      BY <1>1, <2>3, <3>1 DEF NewEnds, Files
  <2>7. /\ dir' \in [Ages -> 0 .. Len(content')] /\ dir'[0] = Len(content) + 1
        /\ \A a \in Ages : a # 0 => dir'[a] = dir[a]
    <3>1. dir' \in [Ages -> 0 .. Len(content) + 1]
      BY <1>1, <2>1
    <3>. QED
      BY <1>1, <2>1, <2>3, <3>1
  <2>8. Aging
    BY <1>1, <2>7 DEF Aging, Files
  <2>9. ASSUME NEW a \in Ages, NEW b \in Ages, a < b, dir'[a] # NoFile, dir'[b] # NoFile
        PROVE  dir'[b] < dir'[a]
    <3>1. b # 0 /\ dir'[b] = dir[b] /\ dir[b] \in 0 .. Len(content)
      BY <1>1, <2>7, <2>9
    <3>2. CASE a = 0
      BY <1>1, <2>7, <3>1, <3>2
    <3>3. CASE a # 0
      BY <2>7, <2>9, <3>1, <3>3 DEF Aged
    <3>. QED
      BY <3>2, <3>3
  <2>10. dir'[0] # NoFile /\ dir'[0] = Len(content')
    BY <1>1, <2>3, <2>7 DEF NoFile
  <2>. QED
    BY <2>5, <2>6, <2>7, <2>8, <2>9, <2>10
<1>. QED
  BY <1>2, <1>3

\* The active file is opened, and the writer is ready again.
LEMMA ReopenedKeeps ==
    ASSUME OrderInv, OpenActive, writer' = Ready, quiet' = FALSE, before' = before,
           written' \in {written, written + 1}, written' \in 0 .. MaxRecords,
           crashes' \in 0 .. MaxCrashes, UNCHANGED readerVars
    PROVE  OrderInv' /\ Written
<1>1. TypeOK /\ Aged
  BY DEF OrderInv
<1>2. /\ Grown /\ NewEnds /\ Aging
      /\ dir' \in [Ages -> 0 .. Len(content')]
      /\ dir'[0] # NoFile /\ dir'[0] = Len(content')
      /\ \A a, b \in Ages : a < b /\ dir'[a] # NoFile /\ dir'[b] # NoFile => dir'[b] < dir'[a]
  BY <1>1, OpenActiveFacts
<1>3. writer'.at = "ready"
      /\ writer' \in [at : {"ready", "line", "drop", "move", "open"}, age : 0 .. BackupCount - 1]
  BY <1>1, WriterFacts, LogAssumption DEF Ready
<1>4. Settling
  BY <1>1, <1>3, WriterFacts, LogAssumption DEF Settling
<1>5. TypeOK'
  BY <1>1, <1>2, <1>3, WriterType
<1>6. Aged'
  BY <1>2, <1>3 DEF Aged
<1>. QED
  BY <1>2, <1>4, <1>5, <1>6, WrittenKeeps DEF Written

LEMMA OpenNewStep ==
    ASSUME OrderInv, OpenNew
    PROVE  OrderInv' /\ Written
<1>1. TypeOK
  BY DEF OrderInv
<1>. QED
  BY <1>1, ReopenedKeeps, WriterFacts, LogAssumption DEF OpenNew

LEMMA RotationFailsStep ==
    ASSUME OrderInv, RotationFails
    PROVE  OrderInv' /\ Written
<1>1. TypeOK /\ Aged
  BY DEF OrderInv
<1>2. written' = written + 1 /\ written' \in 0 .. MaxRecords
  BY <1>1, WriterFacts, LogAssumption DEF RotationFails, Aged
<1>. QED
  BY <1>1, <1>2, ReopenedKeeps, WriterFacts, LogAssumption DEF RotationFails

LEMMA CrashStep ==
    ASSUME OrderInv, Crash
    PROVE  OrderInv' /\ Written
<1>1. TypeOK
  BY DEF OrderInv
<1>2. crashes' \in 0 .. MaxCrashes
  BY <1>1, WriterFacts, LogAssumption DEF Crash
<1>. QED
  BY <1>1, <1>2, ReopenedKeeps, WriterFacts, LogAssumption DEF Crash

LEMMA WriteStep ==
    ASSUME OrderInv, Write
    PROVE  OrderInv' /\ Written
BY BeginLineStep, EndLineStep, BeginRotationStep, DropOldestStep, MoveFileStep, OpenNewStep,
   RotationFailsStep, CrashStep DEF Write

-----------------------------------------------------------------------------
\* The reader's steps.

LEMMA OldestFacts ==
    ASSUME left \in SUBSET Ages, left \cap Rotated # {}
    PROVE  Oldest \in left /\ Oldest \in Rotated /\ \A b \in left : b <= Oldest
<1>1. left \subseteq 0 .. BackupCount /\ left # {} /\ BackupCount \in Nat
  BY LogAssumption DEF Ages
<1>2. PICK a \in left : \A b \in left : b <= a
  BY <1>1, GreatestNatural
<1>3. Oldest \in left /\ \A b \in left : b <= Oldest
  BY <1>2 DEF Oldest
<1>4. PICK c \in left : c >= 1
  BY DEF Rotated
<1>5. c <= Oldest /\ Oldest \in 0 .. BackupCount /\ c \in 0 .. BackupCount
  BY <1>1, <1>3
<1>. HIDE DEF Oldest
<1>6. Oldest \in Rotated
  BY <1>1, <1>4, <1>5 DEF Rotated
<1>. QED
  BY <1>3, <1>6

LEMMA LeftFacts ==
    ASSUME TypeOK
    PROVE  /\ IsFiniteSet(left) /\ Cardinality(left) \in Nat
           /\ Cardinality(listed) \in Nat
           /\ \A a \in left : Cardinality(left \ {a}) = Cardinality(left) - 1
           /\ \A a \in left : Cardinality(left) >= 1
<1>1. IsFiniteSet(Ages)
  BY LogAssumption, FS_Interval DEF Ages
<1>2. listed \subseteq Ages /\ left \subseteq Ages
  BY DEF TypeOK
<1>3. IsFiniteSet(left) /\ IsFiniteSet(listed)
  BY <1>1, <1>2, FS_Subset
<1>4. Cardinality(left) \in Nat /\ Cardinality(listed) \in Nat
  BY <1>3, FS_CardinalityType
<1>5. \A a \in left : Cardinality(left \ {a}) = Cardinality(left) - 1 /\ Cardinality(left \ {a}) \in Nat
  BY <1>3, FS_RemoveElement, FS_CardinalityType
<1>6. ASSUME NEW a \in left
      PROVE  Cardinality(left) >= 1
  <2>1. Cardinality(left) - 1 \in Nat
    BY <1>5
  <2>. QED
    BY <1>4, <2>1
<1>. QED
  BY <1>3, <1>4, <1>5, <1>6

\* The writer is where it was.
LEMMA ReadKeeps ==
    ASSUME OrderInv, UNCHANGED writerVars
    PROVE  /\ Chronological' /\ Aged'
           /\ \A r : Settled(r)' <=> Settled(r)
           /\ Files' = Files /\ KnownType' = KnownType
           /\ \A a \in Rotated : \A entry : HonestEntry(entry, a) => HonestEntry(entry, a)'
           /\ \A known : KnownWell(known) => KnownWell(known)'
<1>1. /\ content' = content /\ dir' = dir /\ written' = written /\ writer' = writer
  BY DEF writerVars
<1>2. Chronological /\ Aged /\ CacheHonest /\ Len(content) \in Nat
  BY LenProperties DEF OrderInv, TypeOK
<1>3. Chronological' /\ (\A r : Settled(r)' <=> Settled(r))
  BY <1>1, <1>2 DEF Chronological, Settled, Files
<1>4. Aged'
  BY <1>1, <1>2 DEF Aged
<1>5. Files' = Files /\ KnownType' = KnownType
  BY <1>1 DEF Files, KnownType
<1>6. \A known : KnownWell(known) => KnownWell(known)'
  BY <1>1 DEF KnownWell, Files, FromFirst
<1>7. \A a \in Rotated : \A entry : HonestEntry(entry, a) => HonestEntry(entry, a)'
  BY <1>1 DEF HonestEntry, Gone, FromFirst
<1>. QED
  BY <1>3, <1>4, <1>5, <1>6, <1>7

\* What the read has collected, after one more file or none.
LEMMA ReadingKeeps ==
    ASSUME OrderInv, reading \in {"rotated", "stamped"}, left \cap Rotated # {},
           UNCHANGED writerVars, listed' = listed, reading' = "rotated",
           \/ Skip
           \/ \E entry \in [stamp : Stamps, records : Seq(Records), invalid : Nat] :
                 /\ dir[Oldest] # NoFile
                 /\ Increasing(entry.records)
                 /\ FromFirst(entry.records, dir[Oldest], Len(content[dir[Oldest]]))
                 /\ Collect(entry)
    PROVE  /\ ReadInOrder' /\ Progress'
           /\ left' \in SUBSET listed'
           /\ result' \in [records : Seq(Records), skipped : 0 .. Cardinality(listed'),
                           invalid : Nat, readable : BOOLEAN]
<1>. DEFINE o == Oldest
<1>1. TypeOK /\ Chronological /\ Aged /\ ReadInOrder /\ Progress
  BY DEF OrderInv
<1>2. o \in left /\ o \in Rotated /\ (\A b \in left : b <= o) /\ o # 0
  BY <1>1, OldestFacts DEF TypeOK, Rotated
<1>3. /\ content' = content /\ dir' = dir /\ written' = written /\ writer' = writer
      /\ listed' = listed /\ left' = left \ {o} /\ reading' = "rotated"
  BY DEF writerVars, Skip, Collect
<1>4. /\ Cardinality(left) \in Nat /\ Cardinality(listed) \in Nat /\ Cardinality(left) >= 1
      /\ Cardinality(left') = Cardinality(left) - 1
  BY <1>1, <1>2, <1>3, LeftFacts
<1>5. /\ result.records \in Seq(Records) /\ result.skipped \in 0 .. Cardinality(listed)
      /\ result.invalid \in Nat /\ result.readable \in BOOLEAN
      /\ result = [records |-> result.records, skipped |-> result.skipped,
                   invalid |-> result.invalid, readable |-> result.readable]
      /\ result.skipped + Cardinality(left) <= Cardinality(listed)
      /\ (0 \in listed => 0 \in left)
      /\ left \subseteq listed /\ left \subseteq Ages
  BY <1>1 DEF TypeOK, Progress
<1>6. /\ Increasing(result.records)
      /\ \A k \in 1 .. Len(result.records) :
            /\ Settled(result.records[k])
            /\ \A a \in left : \A b \in 0 .. a : dir[b] # NoFile =>
                  \A i \in Ends(content[dir[b]]) :
                      result.records[k] < content[dir[b]][i].record
  BY <1>1 DEF ReadInOrder
<1>7. left' \in SUBSET listed' /\ (0 \in listed' => 0 \in left')
  BY <1>2, <1>3, <1>5
<1>. HIDE DEF o
<1>8. CASE Skip
  <2>1. /\ result'.records = result.records /\ result'.skipped = result.skipped + 1
        /\ result' \in [records : Seq(Records), skipped : 0 .. Cardinality(listed'),
                        invalid : Nat, readable : BOOLEAN]
    <3>1. result' = [result EXCEPT !.skipped = @ + 1] /\ result.skipped + 1 \in 0 .. Cardinality(listed)
      BY <1>4, <1>5, <1>8 DEF Skip
    <3>. QED
      BY <1>3, <1>5, <3>1
  <2>2. Progress'
    <3>1. result'.skipped + Cardinality(left') <= Cardinality(listed')
      BY <1>3, <1>4, <1>5, <2>1
    <3>. QED
      BY <1>3, <1>7, <3>1 DEF Progress
  <2>3. ReadInOrder'
    BY <1>3, <1>6, <2>1 DEF ReadInOrder, Settled
  <2>. QED
    BY <1>7, <2>1, <2>2, <2>3
<1>9. ASSUME NEW entry \in [stamp : Stamps, records : Seq(Records), invalid : Nat],
             dir[o] # NoFile, Increasing(entry.records),
             FromFirst(entry.records, dir[o], Len(content[dir[o]])), Collect(entry)
      PROVE  /\ ReadInOrder' /\ Progress'
             /\ result' \in [records : Seq(Records), skipped : 0 .. Cardinality(listed'),
                             invalid : Nat, readable : BOOLEAN]
  <2>. DEFINE
      f == dir[o]
      all == result.records \o entry.records
  <2>1. f \in Files /\ o \in Ages /\ o \in 0 .. o
    <3>1. o \in Ages /\ o \in 0 .. o /\ dir \in [Ages -> 0 .. Len(content)] /\ Len(content) \in Nat
      BY <1>1, <1>2, <1>5, WriterFacts, LogAssumption DEF Rotated
    <3>. QED
      BY <1>9, <3>1 DEF Files, NoFile
  <2>2. \A k \in 1 .. Len(entry.records) : \E i \in Ends(content[f]) :
            content[f][i].record = entry.records[k]
    BY <1>9 DEF FromFirst
  <2>3. \A k \in 1 .. Len(result.records) : \A i \in Ends(content[f]) :
            result.records[k] < content[f][i].record
    BY <1>2, <1>6, <1>9, <2>1
  <2>. HIDE DEF f
  <2>4. \A k \in 1 .. Len(result.records) : \A l \in 1 .. Len(entry.records) :
            result.records[k] < entry.records[l]
    BY <2>2, <2>3
  <2>5. /\ all \in Seq(Records) /\ Increasing(all)
        /\ \A k \in 1 .. Len(all) : \/ \E m \in 1 .. Len(result.records) : all[k] = result.records[m]
                                    \/ \E m \in 1 .. Len(entry.records) : all[k] = entry.records[m]
    <3>1. entry.records \in Seq(Records)
      BY <1>9
    <3>. QED
      BY <1>5, <1>6, <1>9, <2>4, <3>1, ConcatIncreasing
  <2>6. /\ result'.records = all /\ result'.skipped = result.skipped
        /\ result' \in [records : Seq(Records), skipped : 0 .. Cardinality(listed'),
                        invalid : Nat, readable : BOOLEAN]
    <3>1. result' = [result EXCEPT !.records = all, !.invalid = @ + entry.invalid]
      BY <1>9 DEF Collect
    <3>2. entry.invalid \in Nat
      BY <1>9
    <3>. HIDE DEF all
    <3>3. result' = [records |-> all, skipped |-> result.skipped,
                     invalid |-> result.invalid + entry.invalid, readable |-> result.readable]
      BY <1>5, <3>1
    <3>. QED
      BY <1>3, <1>5, <2>5, <3>2, <3>3
  <2>. HIDE DEF all
  <2>7. Progress'
    <3>1. result'.skipped + Cardinality(left') <= Cardinality(listed')
      BY <1>3, <1>4, <1>5, <2>6
    <3>. QED
      BY <1>3, <1>7, <3>1 DEF Progress
  <2>8. ASSUME NEW k \in 1 .. Len(all)
        PROVE  /\ Settled(all[k])
               /\ \A a \in left' : \A b \in 0 .. a : dir[b] # NoFile =>
                     \A i \in Ends(content[dir[b]]) : all[k] < content[dir[b]][i].record
    <3>1. CASE \E m \in 1 .. Len(result.records) : all[k] = result.records[m]
      BY <1>3, <1>6, <3>1
    <3>2. CASE \E m \in 1 .. Len(entry.records) : all[k] = entry.records[m]
      <4>1. PICK j \in Ends(content[f]) : all[k] = content[f][j].record
        BY <2>2, <3>2
      <4>2. Settled(all[k])
        BY <1>1, <2>1, <4>1 DEF Chronological
      <4>3. ASSUME NEW a \in left', NEW b \in 0 .. a, dir[b] # NoFile, NEW i \in Ends(content[dir[b]])
            PROVE  all[k] < content[dir[b]][i].record
        <5>1. b \in Ages /\ b < o
          BY <1>2, <1>3, <1>5, <4>3, LogAssumption DEF Ages, Rotated
        <5>2. f < dir[b]
          BY <1>1, <1>9, <2>1, <4>3, <5>1 DEF Aged, f
        <5>3. dir[b] \in Files
          <6>1. dir \in [Ages -> 0 .. Len(content)] /\ Len(content) \in Nat
            BY <1>1, WriterFacts, LogAssumption
          <6>. QED
            BY <4>3, <5>1, <6>1 DEF Files, NoFile
        <5>. QED
          BY <1>1, <2>1, <4>1, <4>3, <5>2, <5>3 DEF Chronological
      <4>. QED
        BY <4>2, <4>3
    <3>. QED
      BY <2>5, <3>1, <3>2
  <2>9. ReadInOrder'
    BY <1>3, <2>5, <2>6, <2>8 DEF ReadInOrder, Settled
  <2>. QED
    BY <2>6, <2>7, <2>9
<1>. QED
  BY <1>7, <1>8, <1>9 DEF o

LEMMA OnDiskType ==
    ASSUME TypeOK
    PROVE  OnDisk \in SUBSET Records
<1>1. ASSUME NEW a \in Ages, dir[a] # NoFile
      PROVE  Range(Parse(content[dir[a]])) \subseteq Records
  <2>1. dir[a] \in Files /\ content \in Seq(Seq(Pieces))
    BY <1>1, WriterFacts, LogAssumption DEF Files, NoFile
  <2>2. Parse(content[dir[a]]) \in Seq(Records)
    BY <2>1, FileType, ParseFacts
  <2>. QED
    BY <2>2, LenProperties DEF Range
<1>. QED
  BY <1>1 DEF OnDisk

LEMMA BeginReadStep ==
    ASSUME OrderInv, BeginRead
    PROVE  OrderInv'
<1>1. TypeOK /\ CacheHonest /\ KnownWell(active)
  BY DEF OrderInv
<1>2. /\ reading' = "rotated" /\ listed' = {a \in Ages : dir[a] # NoFile} /\ left' = listed'
      /\ result' = NoResult /\ quiet' \in BOOLEAN /\ before' = OnDisk
      /\ UNCHANGED writerVars /\ UNCHANGED <<stamp, cache, active>>
  BY DEF BeginRead
<1>3. Chronological' /\ Aged' /\ KnownType' = KnownType /\ KnownWell(active)'
  BY <1>1, <1>2, ReadKeeps DEF KnownWell
<1>4. CacheHonest'
  <2>1. \A a \in Rotated : HonestEntry(cache[a], a) => HonestEntry(cache[a], a)'
    BY <1>2, ReadKeeps DEF HonestEntry
  <2>. QED
    BY <1>1, <1>2, <2>1 DEF CacheHonest
<1>5. Cardinality(listed') \in Nat
  <2>1. IsFiniteSet(Ages)
    BY LogAssumption, FS_Interval DEF Ages
  <2>. QED
    BY <1>2, <2>1, FS_Subset, FS_CardinalityType
<1>6. result' \in [records : Seq(Records), skipped : 0 .. Cardinality(listed'),
                   invalid : Nat, readable : BOOLEAN]
  BY <1>2, <1>5 DEF NoResult
<1>7. TypeOK'
  BY <1>1, <1>2, <1>6, OnDiskType DEF TypeOK, writerVars
<1>8. result'.records = <<>> /\ result'.skipped = 0
  BY <1>2 DEF NoResult
<1>9. ReadInOrder'
  BY <1>8 DEF ReadInOrder, Increasing
<1>10. Progress'
  BY <1>2, <1>5, <1>8 DEF Progress
<1>11. CleanSnapshotsOrdered'
  BY <1>2 DEF CleanSnapshotsOrdered, Delivered
<1>. QED
  BY <1>3, <1>4, <1>7, <1>9, <1>10, <1>11 DEF OrderInv

LEMMA StatRotatedStep ==
    ASSUME OrderInv, StatRotated
    PROVE  OrderInv'
<1>. DEFINE o == Oldest
<1>1. TypeOK /\ CacheHonest /\ KnownWell(active) /\ ReadInOrder /\ Progress /\ Aged
  BY DEF OrderInv
<1>2. /\ reading = "rotated" /\ left \cap Rotated # {}
      /\ listed' = listed /\ cache' = cache /\ active' = active
      /\ UNCHANGED writerVars /\ UNCHANGED historyVars
  BY DEF StatRotated
<1>3. Chronological' /\ Aged' /\ KnownWell(active)'
  BY <1>1, <1>2, ReadKeeps DEF KnownWell
<1>4. CacheHonest'
  <2>1. \A a \in Rotated : HonestEntry(cache[a], a) => HonestEntry(cache[a], a)'
    BY <1>2, ReadKeeps DEF HonestEntry
  <2>. QED
    BY <1>1, <1>2, <2>1 DEF CacheHonest
<1>5. o \in left /\ o \in Rotated /\ o \in Ages /\ (\A b \in left : b <= o)
  BY <1>1, <1>2, OldestFacts DEF TypeOK
<1>6. /\ Len(content) \in Nat /\ dir \in [Ages -> 0 .. Len(content)]
      /\ content \in Seq(Seq(Pieces))
  BY <1>1, WriterFacts, LogAssumption
<1>7. /\ cache[o] \in [stamp : Stamps, records : Seq(Records), invalid : Nat]
      /\ HonestEntry(cache[o], o)
  <2>. HIDE DEF o
  <2>. QED
    BY <1>1, <1>5 DEF TypeOK, CacheHonest
<1>8. ASSUME dir[o] # NoFile
      PROVE  dir[o] \in Files /\ StampOf(dir[o]) \in Stamps /\ StampOf(dir[o]).file = dir[o]
  <2>1. dir[o] \in Files
    BY <1>5, <1>6, <1>8 DEF Files, NoFile
  <2>2. Len(content[dir[o]]) \in Nat /\ dir[o] \in Nat
    BY <1>6, <2>1, FileType DEF Files
  <2>. HIDE DEF o
  <2>. QED
    BY <2>1, <2>2 DEF StampOf, Stamps
<1>9. ASSUME reading' = "rotated", stamp' = stamp,
             \/ Skip
             \/ dir[o] # NoFile /\ cache[o].stamp = StampOf(dir[o]) /\ Collect(cache[o])
      PROVE  OrderInv'
  <2>1. \/ Skip
        \/ /\ dir[o] # NoFile /\ Increasing(cache[o].records)
           /\ FromFirst(cache[o].records, dir[o], Len(content[dir[o]]))
           /\ Collect(cache[o])
    <3>1. ASSUME dir[o] # NoFile, cache[o].stamp = StampOf(dir[o])
          PROVE  /\ Increasing(cache[o].records)
                 /\ FromFirst(cache[o].records, dir[o], Len(content[dir[o]]))
      <4>1. cache[o].stamp.file = dir[o] /\ o \in 0 .. o
        BY <1>5, <1>8, <3>1, LogAssumption DEF Rotated
      <4>. HIDE DEF o
      <4>. QED
        BY <1>7, <3>1, <4>1 DEF HonestEntry, Gone
    <3>. QED
      BY <1>9, <3>1
  <2>2. /\ ReadInOrder' /\ Progress' /\ left' \in SUBSET listed'
        /\ result' \in [records : Seq(Records), skipped : 0 .. Cardinality(listed'),
                        invalid : Nat, readable : BOOLEAN]
    BY <1>2, <1>7, <1>9, <2>1, ReadingKeeps
  <2>3. TypeOK'
    BY <1>1, <1>2, <1>9, <2>2 DEF TypeOK, writerVars, historyVars
  <2>4. CleanSnapshotsOrdered'
    BY <1>9 DEF CleanSnapshotsOrdered, Delivered
  <2>. QED
    BY <1>3, <1>4, <2>2, <2>3, <2>4 DEF OrderInv
<1>10. ASSUME dir[o] # NoFile, stamp' = StampOf(dir[o]), reading' = "stamped", UNCHANGED <<left, result>>
       PROVE  OrderInv'
  <2>1. TypeOK'
    BY <1>1, <1>2, <1>8, <1>10 DEF TypeOK, writerVars, historyVars
  <2>2. ReadInOrder'
    BY <1>1, <1>2, <1>10 DEF ReadInOrder, Settled, writerVars
  <2>3. ASSUME NEW a \in left, \A b \in left : b <= a, NEW b \in 0 .. a, b < a
        PROVE  dir[b] # dir[o]
    <3>1. a = o /\ b \in Ages
      BY <1>1, <1>5, <2>3, LogAssumption DEF TypeOK, Ages, Rotated
    <3>. QED
      BY <1>1, <1>5, <1>6, <1>10, <2>3, <3>1 DEF Aged
  <2>4. Progress'
    <3>1. dir' = dir /\ Files' = Files
      BY <1>2 DEF writerVars, Files
    <3>2. /\ (0 \in listed => 0 \in left)
          /\ result.skipped + Cardinality(left) <= Cardinality(listed)
      BY <1>1, <1>2 DEF Progress
    <3>3. stamp'.file = dir[o] /\ dir[o] \in Files
      BY <1>8, <1>10
    <3>. HIDE DEF o
    <3>. QED
      BY <1>2, <1>10, <2>3, <3>1, <3>2, <3>3 DEF Progress
  <2>5. CleanSnapshotsOrdered'
    BY <1>10 DEF CleanSnapshotsOrdered, Delivered
  <2>. QED
    BY <1>3, <1>4, <2>1, <2>2, <2>4, <2>5 DEF OrderInv
<1>. QED
  BY <1>2, <1>9, <1>10 DEF StatRotated

LEMMA ReadRotatedStep ==
    ASSUME OrderInv, ReadRotated
    PROVE  OrderInv'
<1>. DEFINE
    o == Oldest
    data == content[dir[o]]
    entry == [stamp |-> stamp, records |-> Parse(data), invalid |-> Invalid(data)]
<1>1. TypeOK /\ CacheHonest /\ KnownWell(active) /\ Progress /\ Chronological
  BY DEF OrderInv
<1>2. /\ reading = "stamped" /\ reading' = "rotated" /\ stamp' = NoStamp
      /\ \/ Skip /\ cache' = cache
         \/ dir[o] # NoFile /\ cache' = [cache EXCEPT ![o] = entry] /\ Collect(entry)
      /\ listed' = listed /\ active' = active
      /\ UNCHANGED writerVars /\ UNCHANGED historyVars
  BY DEF ReadRotated
<1>3. Chronological' /\ Aged' /\ KnownWell(active)'
  BY <1>1, <1>2, ReadKeeps DEF KnownWell
<1>4. /\ left \cap Rotated # {} /\ stamp.file \in Files /\ stamp \in Stamps
      /\ \A a \in left : (\A b \in left : b <= a) => \A b \in 0 .. a : b < a => dir[b] # stamp.file
  BY <1>1, <1>2 DEF Progress, TypeOK
<1>5. o \in left /\ o \in Rotated /\ o \in Ages /\ (\A b \in left : b <= o)
  BY <1>1, <1>4, OldestFacts DEF TypeOK
<1>6. /\ Len(content) \in Nat /\ dir \in [Ages -> 0 .. Len(content)]
      /\ content \in Seq(Seq(Pieces))
  BY <1>1, WriterFacts, LogAssumption
<1>7. ASSUME dir[o] # NoFile
      PROVE  /\ dir[o] \in Files
             /\ entry \in [stamp : Stamps, records : Seq(Records), invalid : Nat]
             /\ Increasing(entry.records)
             /\ FromFirst(entry.records, dir[o], Len(content[dir[o]]))
  <2>1. dir[o] \in Files
    BY <1>5, <1>6, <1>7 DEF Files, NoFile
  <2>2. data \in Seq(Pieces) /\ Len(data) \in Nat
    BY <1>6, <2>1, FileType
  <2>3. \A i, j \in Ends(data) : i < j => data[i].record < data[j].record
    BY <1>1, <2>1 DEF Chronological
  <2>4. \A i \in Ends(data) : i <= Len(data)
    BY <2>2 DEF Ends
  <2>5. FromFirst(Parse(data), dir[o], Len(data)) /\ Increasing(Parse(data))
        /\ Parse(data) \in Seq(Records) /\ Invalid(data) \in Nat
    <3>1. /\ Increasing(Parse(data)) /\ Parse(data) \in Seq(Records) /\ Invalid(data) \in Nat
          /\ \A k \in 1 .. Len(Parse(data)) : \E i \in Ends(data) : data[i].record = Parse(data)[k]
      <4>. HIDE DEF data
      <4>. QED
        BY <2>2, <2>3, ParseFacts, ParseIncreasing, InvalidType
    <3>. QED
      BY <2>4, <3>1 DEF FromFirst
  <2>. HIDE DEF data
  <2>6. entry \in [stamp : Stamps, records : Seq(Records), invalid : Nat]
        /\ entry.records = Parse(data)
    BY <1>4, <2>5
  <2>. HIDE DEF entry
  <2>. QED
    BY <2>1, <2>5, <2>6 DEF data
<1>. HIDE DEF entry, data
<1>8. /\ ReadInOrder' /\ Progress' /\ left' \in SUBSET listed'
      /\ result' \in [records : Seq(Records), skipped : 0 .. Cardinality(listed'),
                      invalid : Nat, readable : BOOLEAN]
  BY <1>2, <1>4, <1>7, ReadingKeeps
<1>9. ASSUME dir[o] # NoFile
      PROVE  HonestEntry(entry, o)
  <2>1. entry.stamp = stamp
    BY DEF entry
  <2>2. stamp.file \in 0 .. Len(content)
    BY <1>4, <1>6 DEF Files
  <2>3. CASE dir[o] = stamp.file
    BY <1>7, <1>9, <2>1, <2>2, <2>3 DEF HonestEntry
  <2>4. CASE dir[o] # stamp.file
    <3>1. \A b \in 0 .. o : b < o \/ b = o
      BY <1>5, LogAssumption DEF Rotated
    <3>2. Gone(stamp.file, o)
      <4>. HIDE DEF o
      <4>. QED
        BY <1>4, <1>5, <2>4, <3>1 DEF Gone
    <3>. QED
      BY <1>7, <1>9, <2>1, <2>2, <3>2 DEF HonestEntry
  <2>. QED
    BY <2>3, <2>4
<1>10. /\ cache' \in [Rotated -> [stamp : Stamps, records : Seq(Records), invalid : Nat]]
       /\ \A a \in Rotated : HonestEntry(cache'[a], a)
  <2>1. /\ cache \in [Rotated -> [stamp : Stamps, records : Seq(Records), invalid : Nat]]
        /\ \A a \in Rotated : HonestEntry(cache[a], a)
    BY <1>1 DEF TypeOK, CacheHonest
  <2>. HIDE DEF o
  <2>2. CASE cache' = cache
    BY <2>1, <2>2
  <2>3. CASE dir[o] # NoFile /\ cache' = [cache EXCEPT ![o] = entry]
    <3>1. \A a \in Rotated : cache'[a] = IF a = o THEN entry ELSE cache[a]
      BY <2>1, <2>3
    <3>2. cache' \in [Rotated -> [stamp : Stamps, records : Seq(Records), invalid : Nat]]
      BY <1>5, <1>7, <2>1, <2>3
    <3>. QED
      BY <1>9, <2>1, <2>3, <3>1, <3>2
  <2>. QED
    BY <1>2, <2>2, <2>3
<1>11. CacheHonest'
  <2>1. \A a \in Rotated : \A e : HonestEntry(e, a) => HonestEntry(e, a)'
    BY <1>2, ReadKeeps
  <2>. QED
    BY <1>10, <2>1 DEF CacheHonest, HonestEntry
<1>12. TypeOK'
  <2>1. NoStamp \in Stamps
    BY DEF NoStamp, Stamps, NoFile
  <2>. QED
    BY <1>1, <1>2, <1>8, <1>10, <2>1 DEF TypeOK, writerVars, historyVars
<1>13. CleanSnapshotsOrdered'
  BY <1>2 DEF CleanSnapshotsOrdered, Delivered
<1>. QED
  BY <1>3, <1>8, <1>11, <1>12, <1>13 DEF OrderInv

\* What is known of the active file when the read ends.
LEMMA ActiveAfterFacts ==
    ASSUME OrderInv, dir[0] # NoFile
    PROVE  LET known == ActiveAfter(dir[0]) IN
           /\ dir[0] \in Files
           /\ known \in KnownType /\ KnownWell(known)
           /\ known \in [identity : 0 .. Len(content), offset : Nat, tail : Seq(Pieces),
                         records : Seq(Records), invalid : Nat]
           /\ Increasing(known.records)
           /\ \A k \in 1 .. Len(known.records) : \E i \in Ends(content[dir[0]]) :
                 content[dir[0]][i].record = known.records[k]
<1>. DEFINE
    f == dir[0]
    old == IF SameFile(f) THEN active ELSE NoActive
    known == ReadOn(f, old)
<1>1. /\ content \in Seq(Seq(Pieces)) /\ Chronological /\ KnownWell(active) /\ active \in KnownType
      /\ f \in Files
  <2>1. TypeOK
    BY DEF OrderInv
  <2>2. f \in 0 .. Len(content) /\ Len(content) \in Nat
    BY <2>1, WriterFacts, LogAssumption
  <2>. QED
    BY <2>1, <2>2 DEF OrderInv, TypeOK, KnownType, Files, NoFile
<1>2. NoActive \in KnownType /\ KnownWell(NoActive)
  <2>1. Len(content) \in Nat
    BY <1>1, LenProperties
  <2>. QED
    BY <2>1 DEF NoActive, KnownType, KnownWell, NoFile
<1>3. old \in KnownType /\ KnownWell(old) /\ (old = NoActive \/ old.identity = f)
  BY <1>1, <1>2 DEF SameFile
<1>. HIDE DEF old
<1>4. known \in KnownType /\ KnownWell(known) /\ known.identity = f
  <2>. HIDE DEF f
  <2>. QED
    BY <1>1, <1>3, ReadOnFacts
<1>5. ActiveAfter(f) = known
  BY DEF ActiveAfter, old
<1>. HIDE DEF known, f
<1>6. /\ Increasing(known.records)
      /\ \A k \in 1 .. Len(known.records) : \E i \in Ends(content[f]) :
            content[f][i].record = known.records[k]
  <2>1. known # NoActive
    BY <1>1, <1>4 DEF NoActive, Files, NoFile
  <2>. QED
    BY <1>4, <2>1 DEF KnownWell, FromFirst
<1>. QED
  BY <1>1, <1>4, <1>5, <1>6 DEF f, KnownType

LEMMA ReadActiveStep ==
    ASSUME OrderInv, ReadActive
    PROVE  OrderInv'
<1>1. TypeOK /\ CacheHonest /\ KnownWell(active) /\ ReadInOrder /\ Progress /\ active \in KnownType
  BY DEF OrderInv, TypeOK, KnownType
<1>2. /\ reading = "rotated" /\ reading' = "done" /\ left' = {} /\ listed' = listed /\ stamp' = stamp
      /\ cache' = [a \in Rotated |-> IF a \in listed THEN cache[a] ELSE NoCache]
      /\ UNCHANGED writerVars /\ UNCHANGED historyVars
  BY DEF ReadActive
<1>3. Chronological' /\ Aged' /\ KnownType' = KnownType
      /\ (\A a \in Rotated : \A entry : HonestEntry(entry, a) => HonestEntry(entry, a)')
      /\ (\A known : KnownWell(known) => KnownWell(known)')
  BY <1>2, ReadKeeps
<1>4. \A a \in Rotated : HonestEntry(NoCache, a) /\ HonestEntry(cache[a], a)
  <2>1. Len(content) \in Nat
    BY <1>1, WriterFacts, LogAssumption
  <2>2. NoCache.stamp.file = NoFile /\ NoCache.records = <<>>
    BY DEF NoCache, NoStamp
  <2>. QED
    BY <1>1, <2>1, <2>2 DEF CacheHonest, HonestEntry, Increasing, NoFile
<1>5. \A a \in Rotated : HonestEntry(cache'[a], a)
  BY <1>2, <1>4
<1>6. CacheHonest'
  BY <1>3, <1>5 DEF CacheHonest, HonestEntry
<1>7. cache' \in [Rotated -> [stamp : Stamps, records : Seq(Records), invalid : Nat]]
  <2>1. NoCache \in [stamp : Stamps, records : Seq(Records), invalid : Nat]
    BY DEF NoCache, NoStamp, Stamps, NoFile
  <2>2. cache \in [Rotated -> [stamp : Stamps, records : Seq(Records), invalid : Nat]]
    BY <1>1 DEF TypeOK
  <2>. QED
    BY <1>2, <2>1, <2>2
<1>8. /\ Cardinality(listed) \in Nat /\ result.records \in Seq(Records)
      /\ result.skipped \in 0 .. Cardinality(listed) /\ result.invalid \in Nat
      /\ Increasing(result.records)
      /\ (0 \in listed => 0 \in left)
      /\ result.skipped + Cardinality(left) <= Cardinality(listed)
      /\ Cardinality(left) \in Nat /\ (0 \in left => Cardinality(left) >= 1)
  BY <1>1, <1>2, LeftFacts DEF TypeOK, ReadInOrder, Progress
<1>9. ASSUME NEW known \in KnownType, KnownWell(known), NEW skipped \in 0 .. Cardinality(listed),
             Deliver(known, skipped),
             skipped = 0 => /\ Increasing(known.records)
                            /\ \A k \in 1 .. Len(result.records) : \A l \in 1 .. Len(known.records) :
                                  result.records[k] < known.records[l]
      PROVE  OrderInv'
  <2>. DEFINE all == result.records \o known.records
  <2>1. active' = known
        /\ result' = IF skipped = Cardinality(listed) /\ listed # {}
                     THEN [NoResult EXCEPT !.skipped = skipped, !.readable = FALSE]
                     ELSE [records |-> all, skipped |-> skipped,
                           invalid |-> result.invalid + known.invalid, readable |-> TRUE]
    BY <1>9 DEF Deliver
  <2>2. known.records \in Seq(Records) /\ known.invalid \in Nat
    BY DEF KnownType
  <2>3. all \in Seq(Records)
    BY <1>8, <2>2, ConcatProperties
  <2>4. skipped = 0 => Increasing(all)
    BY <1>8, <1>9, <2>2, ConcatIncreasing
  <2>. HIDE DEF all
  <2>5. result' \in [records : Seq(Records), skipped : 0 .. Cardinality(listed'),
                     invalid : Nat, readable : BOOLEAN]
    <3>1. CASE skipped = Cardinality(listed) /\ listed # {}
      <4>1. result' = [records |-> <<>>, skipped |-> skipped, invalid |-> 0, readable |-> FALSE]
        BY <2>1, <3>1 DEF NoResult
      <4>. QED
        BY <1>2, <4>1
    <3>2. CASE ~ (skipped = Cardinality(listed) /\ listed # {})
      <4>1. result' = [records |-> all, skipped |-> skipped,
                       invalid |-> result.invalid + known.invalid, readable |-> TRUE]
        BY <2>1, <3>2
      <4>. QED
        BY <1>2, <1>8, <2>2, <2>3, <4>1
    <3>. QED
      BY <3>1, <3>2
  <2>6. TypeOK'
    <3>1. active' \in KnownType'
      BY <1>3, <2>1
    <3>. QED
      BY <1>1, <1>2, <1>7, <2>5, <3>1 DEF TypeOK, KnownType, writerVars, historyVars
  <2>7. KnownWell(active)'
    <3>1. KnownWell(known)'
      BY <1>3, <1>9
    <3>. QED
      BY <2>1, <3>1 DEF KnownWell
  <2>8. CleanSnapshotsOrdered'
    <3>1. ASSUME result'.readable, result'.skipped = 0
          PROVE  Increasing(result'.records)
      <4>1. ~ (skipped = Cardinality(listed) /\ listed # {})
        BY <2>1, <3>1 DEF NoResult
      <4>2. result' = [records |-> all, skipped |-> skipped,
                       invalid |-> result.invalid + known.invalid, readable |-> TRUE]
        BY <2>1, <4>1
      <4>. QED
        BY <2>4, <3>1, <4>2
    <3>. QED
      BY <3>1 DEF CleanSnapshotsOrdered, Delivered, Increasing
  <2>9. ReadInOrder' /\ Progress'
    BY <1>2 DEF ReadInOrder, Progress
  <2>. QED
    BY <1>3, <1>6, <2>6, <2>7, <2>8, <2>9 DEF OrderInv
<1>10. CASE 0 \notin listed /\ Deliver(NoActive, result.skipped)
  <2>1. NoActive \in KnownType /\ KnownWell(NoActive) /\ NoActive.records = <<>>
    <3>1. Len(content) \in Nat
      BY <1>1, WriterFacts, LogAssumption
    <3>. QED
      BY <3>1 DEF NoActive, KnownType, KnownWell, NoFile
  <2>. QED
    BY <1>8, <1>9, <1>10, <2>1 DEF Increasing
<1>11. CASE 0 \in listed /\ dir[0] = NoFile /\ Deliver(active, result.skipped + 1)
  <2>1. result.skipped + 1 \in 0 .. Cardinality(listed) /\ result.skipped + 1 # 0
    BY <1>8, <1>11
  <2>. QED
    BY <1>1, <1>9, <1>11, <2>1
<1>12. CASE 0 \in listed /\ dir[0] # NoFile /\ Deliver(ActiveAfter(dir[0]), result.skipped)
  <2>. DEFINE known == ActiveAfter(dir[0])
  <2>1. /\ known \in KnownType /\ KnownWell(known) /\ Increasing(known.records)
        /\ \A k \in 1 .. Len(known.records) : \E i \in Ends(content[dir[0]]) :
              content[dir[0]][i].record = known.records[k]
    BY <1>12, ActiveAfterFacts
  <2>. HIDE DEF known
  <2>2. 0 \in left /\ 0 \in 0 .. 0
    BY <1>8, <1>12
  <2>3. \A k \in 1 .. Len(result.records) : \A i \in Ends(content[dir[0]]) :
            result.records[k] < content[dir[0]][i].record
    BY <1>1, <1>2, <1>12, <2>2 DEF ReadInOrder
  <2>4. \A k \in 1 .. Len(result.records) : \A l \in 1 .. Len(known.records) :
            result.records[k] < known.records[l]
    BY <2>1, <2>3
  <2>. QED
    BY <1>8, <1>9, <1>12, <2>1, <2>4 DEF known
<1>. QED
  BY <1>10, <1>11, <1>12 DEF ReadActive

-----------------------------------------------------------------------------
\* The theorems.

LEMMA InitOrder == Init => OrderInv
<1>. SUFFICES ASSUME Init PROVE OrderInv
  OBVIOUS
<1>1. /\ content = << <<>> >> /\ Len(content) = 1 /\ content \in Seq(Seq(Pieces)) /\ content[1] = <<>>
  BY DEF Init
<1>2. Files = {1} /\ Ends(content[1]) = {}
  BY <1>1 DEF Files, Ends
<1>3. dir \in [Ages -> 0 .. 1] /\ dir[0] = 1 /\ (\A a \in Ages : a # 0 => dir[a] = NoFile) /\ 0 \in Ages
  BY LogAssumption DEF Init, Ages, NoFile
<1>4. writer = [at |-> "ready", age |-> 0] /\ written = 0 /\ crashes = 0 /\ reading = "idle"
      /\ listed = {} /\ left = {} /\ quiet = FALSE /\ before = {} /\ stamp = NoStamp
      /\ active = NoActive /\ result = NoResult /\ cache = [a \in Rotated |-> NoCache]
  BY DEF Init, Ready
<1>5. NoStamp \in Stamps /\ NoCache \in [stamp : Stamps, records : Seq(Records), invalid : Nat]
      /\ NoCache.stamp.file = NoFile /\ NoCache.records = <<>>
  BY DEF NoStamp, Stamps, NoCache, NoFile
<1>6. Cardinality(listed) = 0
  BY <1>4, FS_EmptySet
<1>7. TypeOK
  <2>1. NoActive \in [identity : 0 .. Len(content), offset : Nat, tail : Seq(Pieces),
                      records : Seq(Records), invalid : Nat]
    BY <1>1 DEF NoActive, NoFile
  <2>2. NoResult \in [records : Seq(Records), skipped : 0 .. Cardinality(listed),
                      invalid : Nat, readable : BOOLEAN]
    BY <1>6 DEF NoResult
  <2>3. /\ dir \in [Ages -> 0 .. Len(content)] /\ written \in 0 .. MaxRecords /\ crashes \in 0 .. MaxCrashes
        /\ writer \in [at : {"ready", "line", "drop", "move", "open"}, age : 0 .. BackupCount - 1]
    BY <1>1, <1>3, <1>4, LogAssumption
  <2>. QED
    BY <1>1, <1>4, <1>5, <2>1, <2>2, <2>3 DEF TypeOK
<1>8. Chronological
  BY <1>2 DEF Chronological
<1>9. Aged
  <2>1. \A a, b \in Ages : a < b => b # 0
    BY LogAssumption DEF Ages
  <2>. QED
    BY <1>1, <1>3, <1>4, <2>1 DEF Aged, NoFile
<1>10. CacheHonest
  BY <1>1, <1>4, <1>5 DEF CacheHonest, HonestEntry, Increasing, NoFile
<1>. QED
  BY <1>4, <1>7, <1>8, <1>9, <1>10 DEF OrderInv, KnownWell, ReadInOrder, Progress,
     CleanSnapshotsOrdered, Delivered

LEMMA ReadStep ==
    ASSUME OrderInv, Read
    PROVE  OrderInv'
BY BeginReadStep, StatRotatedStep, ReadRotatedStep, ReadActiveStep DEF Read

LEMMA IdleStep ==
    ASSUME OrderInv, UNCHANGED vars
    PROVE  OrderInv'
<1>1. /\ UNCHANGED writerVars /\ UNCHANGED readerVars /\ UNCHANGED historyVars
      /\ TypeOK /\ CacheHonest /\ KnownWell(active) /\ ReadInOrder /\ Progress /\ CleanSnapshotsOrdered
  BY DEF vars, OrderInv
<1>2. Chronological' /\ Aged' /\ KnownWell(active)'
  BY <1>1, ReadKeeps DEF KnownWell, readerVars
<1>3. TypeOK'
  BY <1>1 DEF TypeOK, writerVars, readerVars, historyVars
<1>4. CacheHonest'
  BY <1>1 DEF CacheHonest, HonestEntry, Gone, FromFirst, writerVars, readerVars
<1>5. ReadInOrder' /\ Progress' /\ CleanSnapshotsOrdered'
  BY <1>1 DEF ReadInOrder, Settled, Progress, Files, CleanSnapshotsOrdered, Delivered, writerVars, readerVars
<1>. QED
  BY <1>2, <1>3, <1>4, <1>5 DEF OrderInv

\* The invariant holds in every reachable state, however the writer's steps and the
\* reader's interleave (observability.RequestLogWriter, metrics.LogReader._read_locked).
THEOREM OrderInvariance == Spec => []OrderInv
<1>1. OrderInv /\ [Next]_vars => OrderInv'
  BY WriteStep, ReadStep, IdleStep DEF Next
<1>. QED
  BY InitOrder, <1>1, PTL DEF Spec

\* Every variable of the log and its reader keeps its type (metrics.LogReader).
THEOREM TypeCorrect == Spec => []TypeOK
<1>1. OrderInv => TypeOK
  BY DEF OrderInv
<1>. QED
  BY OrderInvariance, <1>1, PTL

\* A snapshot that skipped no file has every record once and in the order they were
\* logged, however many rotations run between the reader's steps
\* (metrics.LogReader._read_locked).
THEOREM SnapshotsInOrder == Spec => []CleanSnapshotsOrdered
<1>1. OrderInv => CleanSnapshotsOrdered
  BY DEF OrderInv
<1>. QED
  BY OrderInvariance, <1>1, PTL

-----------------------------------------------------------------------------
\* What caches and offsets know is exact.

\* As long as the stamp fits, what is cached is what the file says.
ExactEntry(entry, a) ==
    LET f == entry.stamp.file IN
    \/ f = NoFile
    \/ Gone(f, a)
    \/ /\ entry.stamp.size <= Len(content[f])
       /\ entry.stamp.size = Len(content[f]) =>
             entry.records = Parse(content[f]) /\ entry.invalid = Invalid(content[f])

\* The records of valid lines up to the n-th piece are all there.
Covers(records, data, n) ==
    \A i \in Ends(data) : i <= n /\ ValidEnd(data, i) =>
        \E k \in 1 .. Len(records) : records[k] = data[i].record

\* The lines up to there that are damaged.
Damaged(data, n) == {i \in Ends(data) : i <= n /\ ~ValidEnd(data, i)}

\* What is known of the active file is all there is up to the end of some line.
KnownExact(known) ==
    \/ known = NoActive
    \/ LET f == known.identity
           base == known.offset - Len(known.tail)
       IN  /\ base = 0 \/ content[f][base].end
           /\ Covers(known.records, content[f], base)
           /\ known.invalid <= Cardinality(Damaged(content[f], base))

CachesExact ==
    /\ \A a \in Rotated : ExactEntry(cache[a], a)
    /\ reading = "stamped" => stamp.size <= Len(content[stamp.file])
    /\ KnownExact(active)

\* Up to where a file was written, it says what it said.
LEMMA SameLines ==
    ASSUME content \in Seq(Seq(Pieces)), Grown, NEW f \in Files, NEW n \in 0 .. Len(content[f])
    PROVE  /\ \A i \in Ends(content'[f]) : i <= n => i \in Ends(content[f])
           /\ \A i \in Ends(content[f]) :
                 /\ i \in Ends(content'[f]) /\ content'[f][i] = content[f][i]
                 /\ ValidEnd(content'[f], i) <=> ValidEnd(content[f], i)
           /\ n > 0 => content'[f][n] = content[f][n]
<1>. DEFINE
    c == content[f]
    d == content'[f]
<1>1. c \in Seq(Pieces) /\ Len(c) \in Nat
  BY FileType
<1>2. Len(c) <= Len(d) /\ \A i \in 1 .. Len(c) : d[i] = c[i]
  BY DEF Grown
<1>3. \A i \in Ends(c) : i \in Ends(d)
  BY EndsStay
<1>. HIDE DEF c, d
<1>4. n \in 0 .. Len(c)
  BY DEF c
<1>5. ASSUME NEW i \in Ends(d), i <= n
      PROVE  i \in Ends(c)
  <2>1. i \in 1 .. Len(c)
    BY <1>1, <1>4, <1>5 DEF Ends
  <2>. QED
    BY <1>2, <1>5, <2>1 DEF Ends
<1>6. ASSUME NEW i \in Ends(c)
      PROVE  d[i] = c[i] /\ (ValidEnd(d, i) <=> ValidEnd(c, i))
  <2>1. i \in 1 .. Len(c) /\ d[i] = c[i]
    BY <1>2 DEF Ends
  <2>2. i > 1 => d[i - 1] = c[i - 1]
    BY <1>1, <1>2, <2>1
  <2>3. i > 2 => d[i - 2] = c[i - 2]
    BY <1>1, <1>2, <2>1
  <2>. QED
    BY <2>1, <2>2, <2>3 DEF ValidEnd
<1>7. n > 0 => d[n] = c[n]
  BY <1>1, <1>2, <1>4
<1>. QED
  BY <1>3, <1>5, <1>6, <1>7 DEF c, d

\* A file that has not grown has not changed.
LEMMA SameFileSameText ==
    ASSUME content \in Seq(Seq(Pieces)), Grown, NEW f \in Files, Len(content'[f]) = Len(content[f])
    PROVE  content'[f] = content[f]
<1>1. Len(content) \in Nat /\ Len(content') \in Nat /\ f \in 1 .. Len(content')
  BY LenProperties DEF Grown, Files
<1>2. content'[f] \in Seq(Pieces) /\ content[f] \in Seq(Pieces)
  BY <1>1, LenProperties DEF Grown, Files
<1>3. \A i \in 1 .. Len(content[f]) : content'[f][i] = content[f][i]
  BY DEF Grown
<1>. QED
  BY <1>2, <1>3, SeqEqual

\* A file that has left an age does not come back to it.
LEMMA GoneStays ==
    ASSUME Aging, NEW f \in Files, NEW a \in Rotated, Gone(f, a)
    PROVE  \A b \in 0 .. a : dir'[b] # f
<1>1. \A b \in 0 .. a : b \in Ages /\ \A c \in 0 .. b : c \in 0 .. a
  BY LogAssumption DEF Ages, Rotated
<1>. QED
  BY <1>1 DEF Aging, Gone

\* What is cached stays exact, whatever is written: a file that grows no longer
\* has the size of the stamp.
LEMMA ExactEntryStays ==
    ASSUME content \in Seq(Seq(Pieces)), Written, NEW a \in Rotated,
           NEW entry \in [stamp : Stamps, records : Seq(Records), invalid : Nat],
           entry.stamp.file \in 0 .. Len(content), ExactEntry(entry, a)
    PROVE  ExactEntry(entry, a)'
<1>. USE DEF Written
<1>1. SUFFICES ASSUME NEW f, f = entry.stamp.file, NEW size, size = entry.stamp.size
               PROVE  \/ f = NoFile
                      \/ \A b \in 0 .. a : dir'[b] # f
                      \/ /\ size <= Len(content'[f])
                         /\ size = Len(content'[f]) =>
                              entry.records = Parse(content'[f]) /\ entry.invalid = Invalid(content'[f])
  BY DEF ExactEntry, Gone
<1>2. CASE f = NoFile
  BY <1>2
<1>3. CASE f # NoFile /\ Gone(f, a)
  <2>1. f \in Files
    BY <1>1, <1>3, LenProperties DEF Files, NoFile
  <2>. QED
    BY <1>3, <2>1, GoneStays
<1>4. CASE f # NoFile /\ ~Gone(f, a)
  <2>1. f \in Files
    BY <1>1, <1>4, LenProperties DEF Files, NoFile
  <2>2. size <= Len(content[f])
        /\ (size = Len(content[f]) => entry.records = Parse(content[f]) /\ entry.invalid = Invalid(content[f]))
    BY <1>1, <1>4 DEF ExactEntry
  <2>3. Len(content[f]) <= Len(content'[f]) /\ Len(content[f]) \in Nat /\ size \in Nat
        /\ Len(content'[f]) \in Nat
    <3>1. f \in 1 .. Len(content')
      BY <2>1, LenProperties DEF Grown, Files
    <3>2. content'[f] \in Seq(Pieces)
      BY <3>1, LenProperties DEF Grown
    <3>. QED
      BY <1>1, <2>1, <3>2, FileType, LenProperties DEF Grown, Stamps
  <2>4. ASSUME size = Len(content'[f])
        PROVE  content'[f] = content[f] /\ size = Len(content[f])
    BY <2>1, <2>2, <2>3, <2>4, SameFileSameText
  <2>. QED
    BY <2>2, <2>3, <2>4
<1>. QED
  BY <1>2, <1>3, <1>4

LEMMA KnownExactStays ==
    ASSUME content \in Seq(Seq(Pieces)), Written, NEW known \in KnownType, KnownWell(known),
           KnownExact(known)
    PROVE  KnownExact(known)'
<1>. USE DEF Written
<1>1. CASE known = NoActive
  BY <1>1 DEF KnownExact
<1>2. CASE known # NoActive
  <2>1. PICK f, base : f = known.identity /\ base = known.offset - Len(known.tail)
    OBVIOUS
  <2>2. f \in Files /\ base \in 0 .. Len(content[f])
    <3>1. known.identity \in Files /\ known.offset \in 0 .. Len(content[known.identity])
          /\ Len(known.tail) <= known.offset /\ Len(known.tail) \in Nat
      BY <1>2, LenProperties DEF KnownWell, KnownType
    <3>. QED
      BY <2>1, <3>1, FileType
  <2>3. /\ base = 0 \/ content[f][base].end
        /\ Covers(known.records, content[f], base)
        /\ known.invalid <= Cardinality(Damaged(content[f], base))
    BY <1>2, <2>1 DEF KnownExact
  <2>4. /\ \A i \in Ends(content'[f]) : i <= base => i \in Ends(content[f])
        /\ \A i \in Ends(content[f]) :
              /\ i \in Ends(content'[f]) /\ content'[f][i] = content[f][i]
              /\ ValidEnd(content'[f], i) <=> ValidEnd(content[f], i)
        /\ base > 0 => content'[f][base] = content[f][base]
    BY <2>2, SameLines
  <2>5. base = 0 \/ content'[f][base].end
    BY <2>2, <2>3, <2>4
  <2>6. \A i \in Ends(content'[f]) : i <= base /\ ValidEnd(content'[f], i) =>
            \E k \in 1 .. Len(known.records) : known.records[k] = content'[f][i].record
    BY <2>3, <2>4 DEF Covers
  <2>7. {i \in Ends(content'[f]) : i <= base /\ ~ValidEnd(content'[f], i)} = Damaged(content[f], base)
    <3>1. \A i : i \in Ends(content'[f]) /\ i <= base /\ ~ValidEnd(content'[f], i)
                 <=> i \in Ends(content[f]) /\ i <= base /\ ~ValidEnd(content[f], i)
      BY <2>4
    <3>. QED
      BY <3>1 DEF Damaged
  <2>8. known.invalid <= Cardinality({i \in Ends(content'[f]) : i <= base /\ ~ValidEnd(content'[f], i)})
    BY <2>3, <2>7
  <2>. QED
    BY <2>1, <2>5, <2>6, <2>8 DEF KnownExact, Covers, Damaged
<1>. QED
  BY <1>1, <1>2

LEMMA WrittenKeepsExact ==
    ASSUME OrderInv, CachesExact, Written
    PROVE  CachesExact'
<1>1. /\ content \in Seq(Seq(Pieces)) /\ active \in KnownType /\ KnownWell(active) /\ Progress
      /\ cache \in [Rotated -> [stamp : Stamps, records : Seq(Records), invalid : Nat]]
      /\ \A a \in Rotated : cache[a].stamp.file \in 0 .. Len(content)
      /\ stamp \in Stamps
  BY DEF OrderInv, TypeOK, KnownType, CacheHonest, HonestEntry
<1>2. cache' = cache /\ reading' = reading /\ stamp' = stamp /\ active' = active
  BY DEF Written, readerVars
<1>3. \A a \in Rotated : \A entry \in [stamp : Stamps, records : Seq(Records), invalid : Nat] :
          entry.stamp.file \in 0 .. Len(content) /\ ExactEntry(entry, a) => ExactEntry(entry, a)'
  BY <1>1, ExactEntryStays
<1>4. \A a \in Rotated : cache[a] \in [stamp : Stamps, records : Seq(Records), invalid : Nat]
  BY <1>1
<1>5. (\A a \in Rotated : ExactEntry(cache[a], a))'
  BY <1>1, <1>2, <1>3, <1>4 DEF CachesExact, ExactEntry, Rotated
<1>6. \A known \in KnownType : KnownWell(known) /\ KnownExact(known) => KnownExact(known)'
  BY <1>1, KnownExactStays
<1>7. KnownExact(active)'
  BY <1>1, <1>2, <1>6 DEF CachesExact, KnownExact
<1>8. ASSUME reading = "stamped"
      PROVE  stamp.size <= Len(content'[stamp.file])
  <2>1. stamp.file \in Files /\ stamp.size <= Len(content[stamp.file]) /\ stamp.size \in Nat
    BY <1>1, <1>8 DEF Progress, CachesExact, Stamps
  <2>2. Len(content[stamp.file]) <= Len(content'[stamp.file]) /\ stamp.file \in 1 .. Len(content')
    BY <1>1, <2>1, LenProperties DEF Written, Grown, Files
  <2>3. Len(content'[stamp.file]) \in Nat /\ Len(content[stamp.file]) \in Nat
    <3>1. content'[stamp.file] \in Seq(Pieces)
      BY <2>2, LenProperties DEF Written, Grown
    <3>. QED
      BY <1>1, <2>1, <3>1, FileType, LenProperties
  <2>. QED
    BY <2>1, <2>2, <2>3
<1>. QED
  BY <1>2, <1>5, <1>7, <1>8 DEF CachesExact

\* The whole lines behind the end of a line: what they say in d they say in c,
\* whether they are damaged or not.
LEMMA WholeLines ==
    ASSUME NEW c \in Seq(Pieces), NEW b \in 0 .. Len(c), b = 0 \/ c[b].end,
           NEW d, d = SubSeq(c, b + 1, Len(c))
    PROVE  /\ \A i \in Ends(Whole(d)) :
                 /\ i \in 1 .. Cut(d) /\ b + i \in Ends(c) /\ Whole(d)[i] = c[b + i]
                 /\ ValidEnd(Whole(d), i) <=> ValidEnd(c, b + i)
           /\ \A j \in Ends(c) : j > b => j - b \in Ends(Whole(d)) /\ j <= b + Cut(d)
           /\ Cut(d) = 0 \/ c[b + Cut(d)].end
<1>. DEFINE
    w == Whole(d)
    n == Cut(d)
<1>1. Len(c) \in Nat /\ b \in Nat /\ b <= Len(c)
  BY LenProperties
<1>2. d \in Seq(Pieces) /\ Len(d) = Len(c) - b /\ \A i \in 1 .. Len(d) : d[i] = c[b + i]
  BY <1>1, PartFacts
<1>3. n \in Ends(d) \cup {0} /\ \A m \in Ends(d) : m <= n
  BY <1>2, CutFacts
<1>4. n \in 0 .. Len(c) - b /\ n \in Nat /\ w \in Seq(Pieces) /\ Len(w) = n
      /\ \A i \in 1 .. n : w[i] = c[b + i]
  <2>1. Cut(d) \in 0 .. Len(c) - b /\ Whole(d) \in Seq(Pieces) /\ Len(Whole(d)) = Cut(d)
        /\ \A i \in 1 .. Cut(d) : Whole(d)[i] = c[b + i]
    BY BehindWhole
  <2>. QED
    BY <1>1, <2>1
<1>. HIDE DEF w, n
<1>5. ASSUME NEW i \in Ends(w)
      PROVE  i \in 1 .. n /\ b + i \in Ends(c) /\ w[i] = c[b + i]
  <2>1. i \in 1 .. n /\ w[i].end
    BY <1>4 DEF Ends
  <2>2. b + i \in 1 .. Len(c)
    BY <1>1, <1>4, <2>1
  <2>. QED
    BY <1>4, <2>1, <2>2 DEF Ends
<1>6. ASSUME NEW i \in Ends(w)
      PROVE  ValidEnd(w, i) <=> ValidEnd(c, b + i)
  <2>1. i \in 1 .. n /\ w[i] = c[b + i]
    BY <1>5, <1>6
  <2>2. CASE i = 1
    <3>1. ~ValidEnd(w, i)
      BY <2>2 DEF ValidEnd
    <3>2. b > 0 => c[(b + i) - 1] # [record |-> c[b + i].record, end |-> FALSE]
      <4>1. (b + i) - 1 = b
        BY <1>1, <2>2
      <4>2. b > 0 => c[b].end
        OBVIOUS
      <4>. QED
        BY <4>1, <4>2
    <3>3. ~ValidEnd(c, b + i)
      BY <1>1, <2>2, <3>2 DEF ValidEnd
    <3>. QED
      BY <3>1, <3>3
  <2>3. CASE i = 2
    <3>1. i - 1 \in 1 .. n /\ b + (i - 1) = (b + i) - 1 /\ (b + i) - 2 = b /\ ~ (i > 2)
          /\ i > 1 /\ b + i > 1
      BY <1>1, <1>4, <2>1, <2>3
    <3>2. w[i - 1] = c[(b + i) - 1]
      BY <1>4, <3>1
    <3>3. b + i > 2 => c[(b + i) - 2].end
      BY <1>1, <2>3, <3>1
    <3>. QED
      BY <2>1, <3>1, <3>2, <3>3 DEF ValidEnd
  <2>4. CASE i > 2
    <3>1. /\ i - 1 \in 1 .. n /\ b + (i - 1) = (b + i) - 1 /\ i > 1 /\ b + i > 1
          /\ i - 2 \in 1 .. n /\ b + (i - 2) = (b + i) - 2 /\ b + i > 2
      BY <1>1, <1>4, <2>1, <2>4
    <3>2. w[i - 1] = c[(b + i) - 1] /\ w[i - 2] = c[(b + i) - 2]
      BY <1>4, <3>1
    <3>. QED
      BY <2>1, <2>4, <3>1, <3>2 DEF ValidEnd
  <2>. QED
    BY <1>4, <2>1, <2>2, <2>3, <2>4
<1>7. ASSUME NEW j \in Ends(c), j > b
      PROVE  j - b \in Ends(w) /\ j <= b + n
  <2>1. j \in 1 .. Len(c) /\ c[j].end
    BY DEF Ends
  <2>2. j - b \in 1 .. Len(d) /\ b + (j - b) = j
    BY <1>1, <1>2, <1>7, <2>1
  <2>3. j - b \in Ends(d)
    BY <1>2, <2>1, <2>2 DEF Ends
  <2>4. j - b <= n
    BY <1>3, <2>3
  <2>5. j - b \in 1 .. n
    BY <1>4, <2>2, <2>4
  <2>6. w[j - b] = c[j]
    BY <1>4, <2>2, <2>5
  <2>. QED
    BY <1>1, <1>4, <2>1, <2>4, <2>5, <2>6 DEF Ends
<1>8. n = 0 \/ c[b + n].end
  <2>1. CASE n \in Ends(d)
    BY <1>2, <2>1 DEF Ends
  <2>. QED
    BY <1>3, <2>1
<1>. QED
  BY <1>5, <1>6, <1>7, <1>8 DEF w, n

\* No line is left over of whole lines.
LEMMA WholeHasNoRest ==
    ASSUME NEW d \in Seq(Pieces)
    PROVE  Rest(Whole(d)) = <<>>
<1>. DEFINE
    w == Whole(d)
    n == Cut(d)
<1>1. n \in Ends(d) \cup {0} /\ n \in 0 .. Len(d) /\ Len(d) \in Nat
  BY CutFacts, LenProperties
<1>2. w \in Seq(Pieces) /\ Len(w) = n /\ \A i \in 1 .. n : w[i] = d[i]
  <2>. DEFINE s == SubSeq(d, 0 + 1, n)
  <2>1. 0 \in 0 .. n /\ n \in 0 .. Len(d)
    BY <1>1
  <2>. HIDE DEF n
  <2>2. s \in Seq(Pieces) /\ Len(s) = n - 0 /\ \A i \in 1 .. n - 0 : s[i] = d[0 + i]
    BY <2>1, PartFacts
  <2>3. w = s
    BY <1>1 DEF Whole, n
  <2>. HIDE DEF s, w
  <2>. QED
    BY <1>1, <2>2, <2>3
<1>. HIDE DEF w, n
<1>3. Cut(w) \in 0 .. n /\ \A m \in Ends(w) : m <= Cut(w)
  BY <1>1, <1>2, CutFacts
<1>4. n # 0 => n \in Ends(w)
  BY <1>1, <1>2 DEF Ends
<1>5. Cut(w) = n
  BY <1>1, <1>3, <1>4
<1>6. Rest(w) = SubSeq(w, n + 1, n)
  BY <1>2, <1>5 DEF Rest
<1>7. SubSeq(w, n + 1, n) = <<>>
  <2>1. n \in 0 .. Len(w) /\ n \in 0 .. n /\ n - n = 0
    BY <1>1, <1>2
  <2>2. SubSeq(w, n + 1, n) \in Seq(Pieces) /\ Len(SubSeq(w, n + 1, n)) = 0
    BY <1>2, <2>1, PartFacts
  <2>. QED
    BY <2>2, EmptySeq
<1>. QED
  BY <1>6, <1>7 DEF w

\* The damaged lines add up.
LEMMA DamageAdds ==
    ASSUME NEW c \in Seq(Pieces), NEW b \in 0 .. Len(c), b = 0 \/ c[b].end,
           NEW d, d = SubSeq(c, b + 1, Len(c))
    PROVE  Cardinality(Damaged(c, b)) + Invalid(Whole(d)) <= Cardinality(Damaged(c, b + Cut(d)))
<1>. DEFINE
    w == Whole(d)
    n == Cut(d)
    S == {i \in Ends(w) : ~ValidEnd(w, i)}
    T == Damaged(c, b + n) \ Damaged(c, b)
    move == [i \in S |-> b + i]
<1>1. Len(c) \in Nat /\ b \in Nat /\ d \in Seq(Pieces) /\ n \in Nat /\ \A i \in Ends(c) : i \in Nat
  <2>1. Len(c) \in Nat /\ b \in Nat /\ d \in Seq(Pieces)
    BY PartFacts, LenProperties
  <2>2. n \in 0 .. Len(d) /\ Len(d) \in Nat
    BY <2>1, CutFacts, LenProperties
  <2>. QED
    BY <2>1, <2>2 DEF Ends
<1>2. Invalid(w) = Cardinality(S)
  <2>1. Rest(w) = <<>>
    BY <1>1, WholeHasNoRest
  <2>2. Cardinality(S) \in Nat
    <3>1. w \in Seq(Pieces)
      BY BehindWhole
    <3>2. S \subseteq Ends(w)
      OBVIOUS
    <3>. HIDE DEF S, w
    <3>. QED
      BY <3>1, <3>2, EndsFinite
  <2>3. Invalid(w) = Cardinality(S) + (IF Rest(w) = <<>> THEN 0 ELSE 1)
    BY DEF Invalid
  <2>. HIDE DEF S, w
  <2>. QED
    BY <2>1, <2>2, <2>3
<1>3. \A i \in S : i \in 1 .. n /\ b + i \in Ends(c) /\ ~ValidEnd(c, b + i)
  BY WholeLines
<1>4. \A i \in S : b + i \in T
  <2>1. ASSUME NEW i \in S
        PROVE  b + i \in T
    <3>1. i \in 1 .. n /\ b + i \in Ends(c) /\ ~ValidEnd(c, b + i)
      BY <1>3
    <3>. HIDE DEF n
    <3>2. b + i <= b + n /\ ~ (b + i <= b)
      BY <1>1, <3>1
    <3>. QED
      BY <3>1, <3>2 DEF Damaged
  <2>. QED
    BY <2>1
<1>5. /\ IsFiniteSet(Damaged(c, b)) /\ IsFiniteSet(Damaged(c, b + n))
      /\ Cardinality(Damaged(c, b)) \in Nat /\ Cardinality(Damaged(c, b + n)) \in Nat
      /\ IsFiniteSet(T) /\ Cardinality(T) \in Nat
  <2>1. Damaged(c, b) \subseteq Ends(c) /\ Damaged(c, b + n) \subseteq Ends(c) /\ T \subseteq Ends(c)
    BY DEF Damaged
  <2>. HIDE DEF T, n
  <2>. QED
    BY <2>1, EndsFinite
<1>6. Cardinality(T) = Cardinality(Damaged(c, b + n)) - Cardinality(Damaged(c, b))
  <2>1. Damaged(c, b + n) \cap Damaged(c, b) = Damaged(c, b)
    <3>. HIDE DEF n
    <3>1. b <= b + n
      BY <1>1
    <3>2. \A i \in Ends(c) : i <= b => i <= b + n
      BY <1>1, <3>1
    <3>. QED
      BY <3>2 DEF Damaged
  <2>2. Cardinality(T) = Cardinality(Damaged(c, b + n)) - Cardinality(Damaged(c, b + n) \cap Damaged(c, b))
    BY <1>5, FS_Difference
  <2>. QED
    BY <2>1, <2>2
<1>7. Cardinality(S) <= Cardinality(T)
  <2>1. \A i \in S : i \in Nat
    BY <1>3
  <2>. HIDE DEF S, T
  <2>2. move \in [S -> T]
    BY <1>4
  <2>3. \A i, j \in S : move[i] = move[j] => i = j
    BY <1>1, <2>1
  <2>. HIDE DEF move
  <2>4. move \in Injection(S, T)
    BY <2>2, <2>3 DEF Injection, IsInjective
  <2>. QED
    BY <1>5, <2>4, FS_Injection
<1>8. Cardinality(S) \in Nat
  <2>1. w \in Seq(Pieces) /\ S \subseteq Ends(w)
    BY BehindWhole
  <2>. HIDE DEF S, w
  <2>. QED
    BY <2>1, EndsFinite
<1>. HIDE DEF S, T, w
<1>9. Invalid(w) <= Cardinality(T)
  BY <1>2, <1>7
<1>10. Invalid(w) \in Nat
  BY <1>2, <1>8
<1>. HIDE DEF n
<1>11. Cardinality(Damaged(c, b)) + Invalid(w) <= Cardinality(Damaged(c, b + n))
  BY <1>5, <1>6, <1>9, <1>10
<1>. QED
  BY <1>11 DEF w, n

\* What a part has, the whole has.
LEMMA ConcatCovers ==
    ASSUME NEW s \in Seq(Records), NEW t \in Seq(Records)
    PROVE  /\ \A k \in 1 .. Len(s) : k \in 1 .. Len(s \o t) /\ (s \o t)[k] = s[k]
           /\ \A k \in 1 .. Len(t) : Len(s) + k \in 1 .. Len(s \o t) /\ (s \o t)[Len(s) + k] = t[k]
<1>. DEFINE u == s \o t
<1>1. /\ Len(u) = Len(s) + Len(t) /\ Len(s) \in Nat /\ Len(t) \in Nat
      /\ \A k \in 1 .. Len(s) + Len(t) : u[k] = IF k <= Len(s) THEN s[k] ELSE t[k - Len(s)]
  BY ConcatProperties, LenProperties
<1>. HIDE DEF u
<1>2. \A k \in 1 .. Len(s) : k \in 1 .. Len(u) /\ u[k] = s[k]
  BY <1>1
<1>3. \A k \in 1 .. Len(t) : Len(s) + k \in 1 .. Len(u) /\ u[Len(s) + k] = t[k]
  <2>1. ASSUME NEW k \in 1 .. Len(t)
        PROVE  Len(s) + k \in 1 .. Len(u) /\ u[Len(s) + k] = t[k]
    <3>1. Len(s) + k \in 1 .. Len(s) + Len(t) /\ ~ (Len(s) + k <= Len(s)) /\ (Len(s) + k) - Len(s) = k
      BY <1>1
    <3>. QED
      BY <1>1, <3>1
  <2>. QED
    BY <2>1
<1>. QED
  BY <1>2, <1>3 DEF u

\* After reading on, what is known is exact, and all whole lines are in it.
LEMMA ReadOnExact ==
    ASSUME content \in Seq(Seq(Pieces)), NEW f \in Files, NEW known \in KnownType,
           KnownWell(known), KnownExact(known), known = NoActive \/ known.identity = f
    PROVE  /\ KnownExact(ReadOn(f, known))
           /\ Covers(ReadOn(f, known).records, content[f], Len(content[f]))
           /\ ReadOn(f, known).invalid <= Cardinality(Damaged(content[f], Len(content[f])))
           /\ IsFiniteSet(Damaged(content[f], Len(content[f])))
<1>. DEFINE
    c == content[f]
    base == known.offset - Len(known.tail)
    data == known.tail \o SubSeq(c, known.offset + 1, Len(c))
    whole == Whole(data)
    upto == base + Cut(data)
    new == known.records \o Parse(whole)
<1>1. /\ c \in Seq(Pieces) /\ base \in 0 .. Len(c) /\ data = SubSeq(c, base + 1, Len(c))
  BY KnownPart
<1>2. /\ base = 0 \/ c[base].end
      /\ Covers(known.records, c, base)
      /\ known.invalid <= Cardinality(Damaged(c, base))
  <2>1. CASE known = NoActive
    <3>1. base = 0 /\ known.invalid = 0
      <4>1. known.offset = 0 /\ known.tail = <<>> /\ known.invalid = 0 /\ Len(known.tail) = 0
        BY <2>1 DEF NoActive
      <4>. HIDE DEF c
      <4>2. base = 0 - 0
        BY <4>1
      <4>. QED
        BY <4>1, <4>2
    <3>2. \A i \in Ends(c) : ~ (i <= 0)
      BY <1>1, LenProperties DEF Ends
    <3>3. Cardinality(Damaged(c, base)) \in Nat
      <4>1. Damaged(c, base) \subseteq Ends(c)
        BY DEF Damaged
      <4>. QED
        BY <1>1, <4>1, EndsFinite
    <3>. HIDE DEF base, c
    <3>. QED
      BY <3>1, <3>2, <3>3 DEF Covers
  <2>2. CASE known # NoActive
    BY <2>2 DEF KnownExact
  <2>. QED
    BY <2>1, <2>2
<1>3. Len(c) \in Nat /\ known.records \in Seq(Records) /\ known.invalid \in Nat
  BY <1>1, LenProperties DEF KnownType
<1>4. ReadOn(f, known) = [identity |-> f, offset |-> Len(c), tail |-> Rest(data), records |-> new,
                          invalid |-> known.invalid + Invalid(whole)]
  BY DEF ReadOn
<1>. HIDE DEF base, data, c
<1>5. /\ Cut(data) \in 0 .. Len(c) - base /\ whole \in Seq(Pieces)
      /\ Len(Rest(data)) = Len(c) - upto
  BY <1>1, BehindWhole, BehindRest
<1>6. /\ \A i \in Ends(whole) :
            /\ i \in 1 .. Cut(data) /\ base + i \in Ends(c) /\ whole[i] = c[base + i]
            /\ ValidEnd(whole, i) <=> ValidEnd(c, base + i)
      /\ \A j \in Ends(c) : j > base => j - base \in Ends(whole) /\ j <= upto
      /\ Cut(data) = 0 \/ c[upto].end
  <2>1. \A i \in Ends(whole) :
            /\ i \in 1 .. Cut(data) /\ base + i \in Ends(c) /\ whole[i] = c[base + i]
            /\ ValidEnd(whole, i) <=> ValidEnd(c, base + i)
    <3>1. ASSUME NEW i \in Ends(Whole(data))
          PROVE  /\ i \in 1 .. Cut(data) /\ base + i \in Ends(c) /\ Whole(data)[i] = c[base + i]
                 /\ ValidEnd(Whole(data), i) <=> ValidEnd(c, base + i)
      <4>1. i \in 1 .. Cut(data) /\ base + i \in Ends(c) /\ Whole(data)[i] = c[base + i]
        BY <1>1, <1>2, WholeLines
      <4>2. ValidEnd(Whole(data), i) <=> ValidEnd(c, base + i)
        BY <1>1, <1>2, WholeLines
      <4>. QED
        BY <4>1, <4>2
    <3>. QED
      BY <3>1
  <2>2. \A j \in Ends(c) : j > base => j - base \in Ends(whole) /\ j <= upto
    BY <1>1, <1>2, WholeLines
  <2>3. Cut(data) = 0 \/ c[upto].end
    BY <1>1, <1>2, WholeLines
  <2>. QED
    BY <2>1, <2>2, <2>3
<1>7. Cardinality(Damaged(c, base)) + Invalid(whole) <= Cardinality(Damaged(c, upto))
  BY <1>1, <1>2, DamageAdds
<1>. DEFINE parsed == Parse(whole)
<1>8. parsed \in Seq(Records) /\ \A i \in Ends(whole) : ValidEnd(whole, i) =>
          \E k \in 1 .. Len(parsed) : parsed[k] = whole[i].record
  <2>. HIDE DEF whole
  <2>1. PICK p \in [1 .. Len(parsed) -> {n \in Ends(whole) : ValidEnd(whole, n)}] :
            /\ \A k \in 1 .. Len(parsed) : parsed[k] = whole[p[k]].record
            /\ \A n \in Ends(whole) : ValidEnd(whole, n) => \E k \in 1 .. Len(parsed) : p[k] = n
    BY <1>5, ParseFacts
  <2>2. parsed \in Seq(Records)
    BY <1>5, ParseFacts
  <2>. HIDE DEF parsed
  <2>. QED
    BY <2>1, <2>2
<1>9. Invalid(whole) \in Nat
  BY <1>5, InvalidType
<1>. HIDE DEF whole, parsed
<1>10. base \in Nat /\ upto \in Nat /\ base <= upto /\ upto <= Len(c)
       /\ \A i \in Ends(c) : i \in Nat /\ i <= Len(c) /\ (i <= base \/ i > base)
  <2>1. base \in Nat /\ Cut(data) \in Nat /\ Cut(data) <= Len(c) - base
    BY <1>1, <1>3, <1>5
  <2>. QED
    BY <1>3, <2>1 DEF Ends
<1>. HIDE DEF upto
<1>11. \A i \in Ends(c) : i <= upto
  BY <1>6, <1>10
<1>12. new = known.records \o parsed
  BY DEF parsed
<1>. HIDE DEF new
<1>13. \A j \in Ends(c) : ValidEnd(c, j) => \E k \in 1 .. Len(new) : new[k] = c[j].record
  <2>1. /\ \A k \in 1 .. Len(known.records) : k \in 1 .. Len(new) /\ new[k] = known.records[k]
        /\ \A k \in 1 .. Len(parsed) :
              Len(known.records) + k \in 1 .. Len(new) /\ new[Len(known.records) + k] = parsed[k]
    BY <1>3, <1>8, <1>12, ConcatCovers
  <2>2. ASSUME NEW j \in Ends(c), ValidEnd(c, j)
        PROVE  \E k \in 1 .. Len(new) : new[k] = c[j].record
    <3>1. CASE j <= base
      <4>1. PICK k \in 1 .. Len(known.records) : known.records[k] = c[j].record
        BY <1>2, <2>2, <3>1 DEF Covers
      <4>. QED
        BY <2>1, <4>1
    <3>2. CASE j > base
      <4>1. j - base \in Ends(whole) /\ base + (j - base) = j
        BY <1>6, <1>10, <3>2
      <4>2. ValidEnd(whole, j - base) /\ whole[j - base].record = c[j].record
        BY <1>6, <2>2, <4>1
      <4>3. PICK k \in 1 .. Len(parsed) : parsed[k] = c[j].record
        BY <1>8, <4>1, <4>2
      <4>. QED
        BY <2>1, <4>3
    <3>. QED
      BY <1>10, <3>1, <3>2
  <2>. QED
    BY <2>2
<1>14. Covers(new, c, upto) /\ Covers(new, c, Len(c))
  BY <1>13 DEF Covers
<1>15. /\ IsFiniteSet(Damaged(c, Len(c))) /\ IsFiniteSet(Damaged(c, base))
       /\ Cardinality(Damaged(c, base)) \in Nat /\ Cardinality(Damaged(c, upto)) \in Nat
  <2>1. Damaged(c, base) \subseteq Ends(c) /\ Damaged(c, upto) \subseteq Ends(c)
        /\ Damaged(c, Len(c)) \subseteq Ends(c)
    BY DEF Damaged
  <2>. QED
    BY <1>1, <2>1, EndsFinite
<1>16. Damaged(c, upto) = Damaged(c, Len(c))
  <2>1. \A i \in Ends(c) : i <= upto <=> i <= Len(c)
    BY <1>10, <1>11
  <2>. QED
    BY <2>1 DEF Damaged
<1>17. known.invalid + Invalid(whole) <= Cardinality(Damaged(c, upto))
  BY <1>2, <1>3, <1>7, <1>9, <1>15
<1>. DEFINE r == ReadOn(f, known)
<1>18. /\ r.identity = f /\ r.offset = Len(c) /\ r.tail = Rest(data) /\ r.records = new
       /\ r.invalid = known.invalid + Invalid(whole)
  BY <1>4 DEF whole
<1>. HIDE DEF r
<1>19. r.offset - Len(r.tail) = upto
  BY <1>3, <1>5, <1>10, <1>18 DEF upto
<1>20. upto = 0 \/ c[upto].end
  BY <1>2, <1>3, <1>5, <1>6, <1>10 DEF upto
<1>21. KnownExact(r)
  BY <1>14, <1>17, <1>18, <1>19, <1>20 DEF KnownExact, c
<1>22. Covers(r.records, c, Len(c)) /\ r.invalid <= Cardinality(Damaged(c, Len(c)))
  BY <1>14, <1>16, <1>17, <1>18
<1>. QED
  BY <1>15, <1>21, <1>22 DEF r, c

\* What the reader knows of the active file when it has read on.
LEMMA ActiveAfterExact ==
    ASSUME OrderInv, KnownExact(active), dir[0] # NoFile
    PROVE  LET f == dir[0]
               known == ActiveAfter(f)
           IN  /\ KnownExact(known)
               /\ Covers(known.records, content[f], Len(content[f]))
               /\ known.invalid <= Cardinality(Damaged(content[f], Len(content[f])))
               /\ IsFiniteSet(Damaged(content[f], Len(content[f])))
<1>. DEFINE
    f == dir[0]
    old == IF SameFile(f) THEN active ELSE NoActive
<1>1. /\ content \in Seq(Seq(Pieces)) /\ KnownWell(active) /\ active \in KnownType
      /\ f \in Files
  <2>1. TypeOK
    BY DEF OrderInv
  <2>2. f \in 0 .. Len(content) /\ Len(content) \in Nat
    BY <2>1, WriterFacts, LogAssumption
  <2>. QED
    BY <2>1, <2>2 DEF OrderInv, TypeOK, KnownType, Files, NoFile
<1>2. NoActive \in KnownType /\ KnownWell(NoActive) /\ KnownExact(NoActive)
  <2>1. Len(content) \in Nat
    BY <1>1, LenProperties
  <2>. QED
    BY <2>1 DEF NoActive, KnownType, KnownWell, KnownExact, NoFile
<1>3. old \in KnownType /\ KnownWell(old) /\ KnownExact(old) /\ (old = NoActive \/ old.identity = f)
  BY <1>1, <1>2 DEF SameFile
<1>4. ActiveAfter(f) = ReadOn(f, old)
  BY DEF ActiveAfter
<1>. HIDE DEF old, f
<1>. QED
  BY <1>1, <1>3, <1>4, ReadOnExact DEF f

\* As long as nothing is written, all that was exact is.
LEMMA ReadKeepsExact ==
    ASSUME UNCHANGED writerVars
    PROVE  /\ \A a \in Rotated : \A entry : ExactEntry(entry, a) => ExactEntry(entry, a)'
           /\ \A known : KnownExact(known) => KnownExact(known)'
           /\ content' = content
<1>1. content' = content /\ dir' = dir
  BY DEF writerVars
<1>2. \A a \in Rotated : \A entry : ExactEntry(entry, a) => ExactEntry(entry, a)'
  BY <1>1 DEF ExactEntry, Gone
<1>3. \A known : KnownExact(known) => KnownExact(known)'
  BY <1>1 DEF KnownExact
<1>. QED
  BY <1>1, <1>2, <1>3

LEMMA ReadRotatedExact ==
    ASSUME OrderInv, CachesExact, ReadRotated
    PROVE  CachesExact'
<1>. DEFINE
    o == Oldest
    data == content[dir[o]]
    entry == [stamp |-> stamp, records |-> Parse(data), invalid |-> Invalid(data)]
<1>1. TypeOK /\ Progress
  BY DEF OrderInv
<1>2. /\ reading = "stamped" /\ reading' = "rotated"
      /\ \/ cache' = cache
         \/ dir[o] # NoFile /\ cache' = [cache EXCEPT ![o] = entry]
      /\ active' = active /\ UNCHANGED writerVars
  BY DEF ReadRotated
<1>3. /\ left \cap Rotated # {} /\ stamp.file \in Files
      /\ \A a \in left : (\A b \in left : b <= a) => \A b \in 0 .. a : b < a => dir[b] # stamp.file
      /\ stamp.size <= Len(content[stamp.file])
  BY <1>1, <1>2 DEF Progress, CachesExact
<1>4. o \in left /\ o \in Rotated /\ (\A b \in left : b <= o)
  BY <1>1, <1>3, OldestFacts DEF TypeOK
<1>5. ExactEntry(entry, o)
  <2>1. entry.stamp = stamp /\ entry.records = Parse(data) /\ entry.invalid = Invalid(data)
    OBVIOUS
  <2>2. CASE dir[o] = stamp.file
    BY <1>3, <2>1, <2>2 DEF ExactEntry
  <2>3. CASE dir[o] # stamp.file
    <3>1. \A b \in 0 .. o : b < o \/ b = o
      BY <1>4, LogAssumption DEF Rotated
    <3>2. Gone(stamp.file, o)
      <4>. HIDE DEF o
      <4>. QED
        BY <1>3, <1>4, <2>3, <3>1 DEF Gone
    <3>. QED
      BY <2>1, <3>2 DEF ExactEntry
  <2>. QED
    BY <2>2, <2>3
<1>. HIDE DEF entry, o
<1>6. \A a \in Rotated : ExactEntry(cache'[a], a)
  <2>1. \A a \in Rotated : ExactEntry(cache[a], a)
    BY DEF CachesExact
  <2>2. CASE cache' = cache
    BY <2>1, <2>2
  <2>3. CASE cache' = [cache EXCEPT ![o] = entry]
    <3>1. \A a \in Rotated : cache'[a] = IF a = o THEN entry ELSE cache[a]
      BY <1>1, <2>3 DEF TypeOK
    <3>. QED
      BY <1>5, <2>1, <3>1
  <2>. QED
    BY <1>2, <2>2, <2>3
<1>7. (\A a \in Rotated : ExactEntry(cache[a], a))'
  <2>1. \A a \in Rotated : \A e : ExactEntry(e, a) => ExactEntry(e, a)'
    BY <1>2, ReadKeepsExact
  <2>. QED
    BY <1>6, <2>1 DEF ExactEntry, Rotated
<1>8. KnownExact(active)'
  <2>1. \A known : KnownExact(known) => KnownExact(known)'
    BY <1>2, ReadKeepsExact
  <2>. QED
    BY <1>2, <2>1 DEF CachesExact, KnownExact
<1>. QED
  BY <1>2, <1>7, <1>8 DEF CachesExact

LEMMA ReadActiveExact ==
    ASSUME OrderInv, CachesExact, ReadActive
    PROVE  CachesExact'
<1>1. /\ reading' = "done"
      /\ cache' = [a \in Rotated |-> IF a \in listed THEN cache[a] ELSE NoCache]
      /\ \/ active' = NoActive
         \/ active' = active
         \/ dir[0] # NoFile /\ active' = ActiveAfter(dir[0])
      /\ UNCHANGED writerVars
  BY DEF ReadActive, Deliver
<1>2. \A a \in Rotated : ExactEntry(NoCache, a)
  BY DEF ExactEntry, NoCache, NoStamp
<1>3. \A a \in Rotated : ExactEntry(cache'[a], a)
  BY <1>1, <1>2 DEF CachesExact
<1>4. (\A a \in Rotated : ExactEntry(cache[a], a))'
  <2>1. \A a \in Rotated : \A e : ExactEntry(e, a) => ExactEntry(e, a)'
    BY <1>1, ReadKeepsExact
  <2>. QED
    BY <1>3, <2>1 DEF ExactEntry, Rotated
<1>5. ASSUME NEW known, KnownExact(known), active' = known
      PROVE  KnownExact(active)'
  <2>1. KnownExact(known)'
    BY <1>1, <1>5, ReadKeepsExact
  <2>. QED
    BY <1>5, <2>1 DEF KnownExact
<1>6. KnownExact(active)'
  <2>1. CASE active' = NoActive
    BY <1>5, <2>1 DEF KnownExact
  <2>2. CASE active' = active
    BY <1>5, <2>2 DEF CachesExact
  <2>3. CASE dir[0] # NoFile /\ active' = ActiveAfter(dir[0])
    <3>1. KnownExact(ActiveAfter(dir[0]))
      BY <2>3, ActiveAfterExact DEF CachesExact
    <3>. QED
      BY <1>5, <2>3, <3>1
  <2>. QED
    BY <1>1, <2>1, <2>2, <2>3
<1>. QED
  BY <1>1, <1>4, <1>6 DEF CachesExact

LEMMA ReadStepExact ==
    ASSUME OrderInv, CachesExact, Read
    PROVE  CachesExact'
<1>1. ASSUME UNCHANGED writerVars, cache' = cache, active' = active,
             reading' = "stamped" => stamp'.size <= Len(content[stamp'.file])
      PROVE  CachesExact'
  <2>1. /\ \A a \in Rotated : \A entry : ExactEntry(entry, a) => ExactEntry(entry, a)'
        /\ \A known : KnownExact(known) => KnownExact(known)'
        /\ content' = content
    BY <1>1, ReadKeepsExact
  <2>2. (\A a \in Rotated : ExactEntry(cache[a], a))'
    BY <1>1, <2>1 DEF CachesExact, ExactEntry, Rotated
  <2>3. KnownExact(active)'
    BY <1>1, <2>1 DEF CachesExact, KnownExact
  <2>. QED
    BY <1>1, <2>1, <2>2, <2>3 DEF CachesExact
<1>2. CASE BeginRead
  BY <1>1, <1>2 DEF BeginRead
<1>3. CASE StatRotated
  <2>1. /\ UNCHANGED writerVars /\ cache' = cache /\ active' = active
        /\ \/ reading' = "rotated"
           \/ dir[Oldest] # NoFile /\ stamp' = StampOf(dir[Oldest])
    BY <1>3 DEF StatRotated
  <2>2. ASSUME dir[Oldest] # NoFile, stamp' = StampOf(dir[Oldest])
        PROVE  stamp'.size <= Len(content[stamp'.file])
    <3>1. stamp'.size = Len(content[dir[Oldest]]) /\ stamp'.file = dir[Oldest]
      BY <2>2 DEF StampOf
    <3>2. Len(content[dir[Oldest]]) \in Nat
      <4>1. Oldest \in Ages
        BY <1>3, OldestFacts DEF StatRotated, OrderInv, TypeOK
      <4>2. dir[Oldest] \in Files /\ content \in Seq(Seq(Pieces))
        <5>. DEFINE o == Oldest
        <5>1. /\ Len(content) \in Nat /\ dir \in [Ages -> 0 .. Len(content)]
              /\ content \in Seq(Seq(Pieces))
          BY WriterFacts, LogAssumption DEF OrderInv
        <5>. HIDE DEF o
        <5>2. o \in Ages /\ dir[o] # NoFile
          BY <2>2, <4>1 DEF o
        <5>3. dir[o] \in Files
          BY <5>1, <5>2 DEF Files, NoFile
        <5>. QED
          BY <5>1, <5>3 DEF o
      <4>. QED
        BY <4>2, FileType
    <3>. QED
      BY <3>1, <3>2
  <2>. QED
    BY <1>1, <2>1, <2>2
<1>4. CASE ReadRotated
  BY <1>4, ReadRotatedExact
<1>5. CASE ReadActive
  BY <1>5, ReadActiveExact
<1>. QED
  BY <1>2, <1>3, <1>4, <1>5 DEF Read

-----------------------------------------------------------------------------
\* Reads that no rotation disturbs.

\* A record that has been read, or will be.
Within(records, r) == \E k \in 1 .. Len(records) : records[k] = r

Ahead(a, r) ==
    \E i \in Ends(content[dir[a]]) :
        ValidEnd(content[dir[a]], i) /\ content[dir[a]][i].record = r

\* While no file moves, all that could be read has been read or is still to be read.
QuietSoFar ==
    quiet =>
        /\ writer.at \in {"ready", "line", "drop"}
        /\ reading \in {"rotated", "stamped"} =>
              /\ listed = {a \in Ages : dir[a] # NoFile}
              /\ result.skipped = 0
              /\ \A r \in before : Within(result.records, r) \/ \E a \in left : Ahead(a, r)

LEMMA QuietWrite ==
    ASSUME Write, quiet'
    PROVE  /\ quiet /\ dir' = dir /\ writer'.at \in {"ready", "line", "drop"} /\ before' = before
<1>1. ASSUME quiet' = FALSE PROVE FALSE
  BY <1>1
<1>2. CASE BeginLine
  BY <1>2 DEF BeginLine, historyVars, Ready
<1>3. CASE EndLine
  BY <1>3 DEF EndLine, historyVars, Ready
<1>4. CASE BeginRotation
  BY <1>4 DEF BeginRotation, historyVars, Ready
<1>. QED
  BY <1>1, <1>2, <1>3, <1>4 DEF Write, DropOldest, MoveFile, OpenNew, RotationFails, Crash

LEMMA WrittenKeepsQuiet ==
    ASSUME OrderInv, QuietSoFar, QuietReadsComplete, Write, Written
    PROVE  QuietSoFar' /\ QuietReadsComplete'
<1>1. /\ reading' = reading /\ listed' = listed /\ left' = left /\ result' = result
  BY DEF Written, readerVars
<1>2. before' = before
  BY DEF Write, BeginLine, EndLine, BeginRotation, DropOldest, MoveFile, OpenNew, RotationFails, Crash,
         historyVars
<1>3. QuietReadsComplete'
  BY <1>1, <1>2, QuietWrite DEF QuietReadsComplete, Delivered
<1>4. SUFFICES ASSUME quiet'
               PROVE  QuietSoFar'
  BY <1>3 DEF QuietSoFar
<1>5. quiet /\ dir' = dir /\ writer'.at \in {"ready", "line", "drop"}
  BY <1>4, QuietWrite
<1>6. ASSUME reading \in {"rotated", "stamped"}, NEW a \in left, NEW r, Ahead(a, r)
      PROVE  Ahead(a, r)'
  <2>1. listed = {b \in Ages : dir[b] # NoFile} /\ left \subseteq listed
    BY <1>5, <1>6 DEF QuietSoFar, OrderInv, TypeOK
  <2>2. a \in Ages /\ dir[a] # NoFile
    BY <2>1
  <2>3. /\ content \in Seq(Seq(Pieces)) /\ Len(content) \in Nat
        /\ dir \in [Ages -> 0 .. Len(content)]
    BY WriterFacts, LogAssumption DEF OrderInv
  <2>4. PICK f : f = dir[a]
    OBVIOUS
  <2>5. f \in Files
    BY <2>2, <2>3, <2>4 DEF Files, NoFile
  <2>6. PICK i \in Ends(content[f]) : ValidEnd(content[f], i) /\ content[f][i].record = r
    BY <1>6, <2>4 DEF Ahead
  <2>7. 0 \in 0 .. Len(content[f])
    BY <2>3, <2>5, FileType
  <2>8. i \in Ends(content'[f]) /\ content'[f][i] = content[f][i] /\ ValidEnd(content'[f], i)
    BY <2>3, <2>5, <2>6, <2>7, SameLines DEF Written
  <2>. QED
    BY <1>5, <2>4, <2>6, <2>8 DEF Ahead
<1>7. (reading \in {"rotated", "stamped"} =>
              /\ listed = {a \in Ages : dir[a] # NoFile}
              /\ result.skipped = 0)'
  BY <1>1, <1>5 DEF QuietSoFar
<1>8. ASSUME reading \in {"rotated", "stamped"}, NEW r \in before
      PROVE  Within(result.records, r) \/ \E a \in left : Ahead(a, r)'
  <2>1. Within(result.records, r) \/ \E a \in left : Ahead(a, r)
    BY <1>5, <1>8 DEF QuietSoFar
  <2>. QED
    BY <1>6, <1>8, <2>1
<1>9. (reading \in {"rotated", "stamped"} =>
          \A r \in before : Within(result.records, r) \/ \E a \in left : Ahead(a, r))'
  BY <1>1, <1>2, <1>8 DEF Within, Ahead
<1>. QED
  BY <1>5, <1>7, <1>9 DEF QuietSoFar

\* All that can be read is ahead when a read begins.
LEMMA BeginReadQuiet ==
    ASSUME OrderInv, BeginRead
    PROVE  QuietSoFar' /\ QuietReadsComplete'
<1>1. /\ reading' = "rotated" /\ listed' = {a \in Ages : dir[a] # NoFile} /\ left' = listed'
      /\ result' = NoResult /\ before' = OnDisk
      /\ (quiet' => writer.at \in {"ready", "line"})
      /\ content' = content /\ dir' = dir /\ writer' = writer
  BY DEF BeginRead, writerVars
<1>2. /\ content \in Seq(Seq(Pieces)) /\ Len(content) \in Nat
      /\ dir \in [Ages -> 0 .. Len(content)]
  BY WriterFacts, LogAssumption DEF OrderInv
<1>3. ASSUME NEW r \in OnDisk
      PROVE  \E a \in listed' : Ahead(a, r)
  <2>1. PICK a \in Ages : dir[a] # NoFile /\ r \in Range(Parse(content[dir[a]]))
    BY <1>3 DEF OnDisk
  <2>2. PICK c : c = content[dir[a]]
    OBVIOUS
  <2>3. c \in Seq(Pieces)
    <3>1. dir[a] \in Files
      BY <1>2, <2>1 DEF Files, NoFile
    <3>. QED
      BY <1>2, <2>2, <3>1, FileType
  <2>4. PICK p \in [1 .. Len(Parse(c)) -> {n \in Ends(c) : ValidEnd(c, n)}] :
            \A k \in 1 .. Len(Parse(c)) : Parse(c)[k] = c[p[k]].record
    BY <2>3, ParseFacts
  <2>5. PICK k \in 1 .. Len(Parse(c)) : Parse(c)[k] = r
    <3>1. Parse(c) \in Seq(Records) /\ r \in Range(Parse(c))
      BY <2>1, <2>2, <2>3, ParseFacts
    <3>2. DOMAIN Parse(c) = 1 .. Len(Parse(c))
      BY <3>1, LenProperties
    <3>. QED
      BY <3>1, <3>2 DEF Range
  <2>6. p[k] \in Ends(c) /\ ValidEnd(c, p[k]) /\ c[p[k]].record = r
    BY <2>4, <2>5
  <2>7. Ahead(a, r)
    BY <2>2, <2>6 DEF Ahead
  <2>. QED
    BY <1>1, <2>1, <2>7
<1>4. \A r \in OnDisk : \E a \in listed' : Ahead(a, r)'
  BY <1>1, <1>3 DEF Ahead
<1>5. QuietSoFar'
  <2>1. result'.skipped = 0
    BY <1>1 DEF NoResult
  <2>2. (\A r \in before : Within(result.records, r) \/ \E a \in left : Ahead(a, r))'
    BY <1>1, <1>4
  <2>. QED
    BY <1>1, <2>1, <2>2 DEF QuietSoFar
<1>6. QuietReadsComplete'
  BY <1>1 DEF QuietReadsComplete, Delivered
<1>. QED
  BY <1>5, <1>6

\* One file more, of which every valid line is in the entry.
LEMMA CollectQuiet ==
    ASSUME OrderInv, QuietSoFar, reading \in {"rotated", "stamped"}, left \cap Rotated # {},
           UNCHANGED writerVars, UNCHANGED historyVars, listed' = listed, reading' = "rotated", quiet,
           NEW entry, entry.records \in Seq(Records), Collect(entry),
           Covers(entry.records, content[dir[Oldest]], Len(content[dir[Oldest]]))
    PROVE  QuietSoFar'
<1>. DEFINE o == Oldest
<1>1. o \in left /\ o \in Ages
  BY OldestFacts DEF OrderInv, TypeOK
<1>2. /\ content' = content /\ dir' = dir /\ writer' = writer /\ before' = before /\ quiet' = quiet
      /\ left' = left \ {o}
      /\ result' = [result EXCEPT !.records = @ \o entry.records, !.invalid = @ + entry.invalid]
  BY DEF writerVars, historyVars, Collect
<1>3. /\ writer.at \in {"ready", "line", "drop"}
      /\ listed = {a \in Ages : dir[a] # NoFile} /\ result.skipped = 0
      /\ \A r \in before : Within(result.records, r) \/ \E a \in left : Ahead(a, r)
  BY DEF QuietSoFar
<1>4. result.records \in Seq(Records) /\ result'.skipped = result.skipped
      /\ result'.records = result.records \o entry.records
  BY <1>2 DEF OrderInv, TypeOK
<1>5. ASSUME NEW r, Within(result.records, r) \/ Within(entry.records, r)
      PROVE  Within(result'.records, r)
  <2>1. PICK s, t : s = result.records /\ t = entry.records
    OBVIOUS
  <2>2. s \in Seq(Records) /\ t \in Seq(Records) /\ result'.records = s \o t
    BY <1>4, <2>1
  <2>3. Within(s, r) => Within(s \o t, r)
    BY <2>2, ConcatCovers DEF Within
  <2>4. Within(t, r) => Within(s \o t, r)
    BY <2>2, ConcatCovers DEF Within
  <2>. QED
    BY <1>5, <2>1, <2>2, <2>3, <2>4
<1>. HIDE DEF o
<1>6. ASSUME NEW r, Ahead(o, r)
      PROVE  Within(entry.records, r)
  <2>1. PICK c : c = content[dir[o]]
    OBVIOUS
  <2>2. PICK i \in Ends(c) : ValidEnd(c, i) /\ c[i].record = r
    BY <1>6, <2>1 DEF Ahead
  <2>3. i <= Len(c)
    <3>1. dir[o] \in Files /\ content \in Seq(Seq(Pieces))
      <4>1. /\ Len(content) \in Nat /\ dir \in [Ages -> 0 .. Len(content)]
            /\ content \in Seq(Seq(Pieces))
        BY WriterFacts, LogAssumption DEF OrderInv
      <4>2. o \in listed
        BY <1>1 DEF OrderInv, TypeOK
      <4>3. dir[o] # NoFile
        BY <1>3, <4>2
      <4>. QED
        BY <1>1, <4>1, <4>3 DEF Files, NoFile
    <3>2. Len(c) \in Nat
      BY <2>1, <3>1, FileType
    <3>. QED
      BY <2>2, <3>2 DEF Ends
  <2>4. Covers(entry.records, c, Len(c))
    BY <2>1 DEF o
  <2>. QED
    BY <2>2, <2>3, <2>4 DEF Covers, Within
<1>7. ASSUME NEW r \in before
      PROVE  Within(result'.records, r) \/ \E a \in left' : Ahead(a, r)
  <2>1. CASE Within(result.records, r)
    BY <1>5, <2>1
  <2>2. ASSUME NEW a \in left, Ahead(a, r)
        PROVE  Within(result'.records, r) \/ \E b \in left' : Ahead(b, r)
    <3>1. CASE a = o
      BY <1>5, <1>6, <2>2, <3>1
    <3>2. CASE a # o
      BY <1>2, <2>2, <3>2
    <3>. QED
      BY <3>1, <3>2
  <2>. QED
    BY <1>3, <2>1, <2>2
<1>8. (\A r \in before : Within(result.records, r) \/ \E a \in left : Ahead(a, r))'
  <2>1. \A a, r : Ahead(a, r) => Ahead(a, r)'
    BY <1>2 DEF Ahead
  <2>2. \A r \in before' : Within(result'.records, r) \/ \E a \in left' : Ahead(a, r)'
    BY <1>2, <1>7, <2>1
  <2>. QED
    BY <2>2
<1>. QED
  BY <1>2, <1>3, <1>4, <1>8 DEF QuietSoFar

\* Whatever is parsed covers its file.
LEMMA ParseCovers ==
    ASSUME NEW data \in Seq(Pieces)
    PROVE  Covers(Parse(data), data, Len(data))
<1>1. PICK p \in [1 .. Len(Parse(data)) -> {n \in Ends(data) : ValidEnd(data, n)}] :
          /\ \A k \in 1 .. Len(Parse(data)) : Parse(data)[k] = data[p[k]].record
          /\ \A n \in Ends(data) : ValidEnd(data, n) => \E k \in 1 .. Len(Parse(data)) : p[k] = n
  BY ParseFacts
<1>. QED
  BY <1>1 DEF Covers

LEMMA OldestFile ==
    ASSUME OrderInv, left \cap Rotated # {}, dir[Oldest] # NoFile
    PROVE  /\ Oldest \in left /\ Oldest \in Rotated /\ Oldest \in Ages
           /\ dir[Oldest] \in Files /\ content[dir[Oldest]] \in Seq(Pieces)
           /\ Len(content[dir[Oldest]]) \in Nat
<1>. DEFINE o == Oldest
<1>1. o \in left /\ o \in Rotated /\ o \in Ages
  BY OldestFacts DEF OrderInv, TypeOK
<1>2. /\ Len(content) \in Nat /\ dir \in [Ages -> 0 .. Len(content)]
      /\ content \in Seq(Seq(Pieces))
  BY WriterFacts, LogAssumption DEF OrderInv
<1>3. dir[o] # NoFile
  OBVIOUS
<1>. HIDE DEF o
<1>4. dir[o] \in Files
  BY <1>1, <1>2, <1>3 DEF Files, NoFile
<1>5. content[dir[o]] \in Seq(Pieces) /\ Len(content[dir[o]]) \in Nat
  BY <1>2, <1>4, FileType
<1>. QED
  BY <1>1, <1>4, <1>5 DEF o

\* A file whose stamp fits is in the cache as it is.
LEMMA CacheHit ==
    ASSUME OrderInv, CachesExact, left \cap Rotated # {}, dir[Oldest] # NoFile,
           cache[Oldest].stamp = StampOf(dir[Oldest])
    PROVE  /\ cache[Oldest].records = Parse(content[dir[Oldest]])
           /\ cache[Oldest].invalid = Invalid(content[dir[Oldest]])
<1>. DEFINE o == Oldest
<1>1. o \in Rotated /\ dir[o] \in Files
  BY OldestFile
<1>2. ExactEntry(cache[o], o)
  <2>. HIDE DEF o
  <2>. QED
    BY <1>1 DEF CachesExact
<1>3. cache[o].stamp.file = dir[o] /\ cache[o].stamp.size = Len(content[dir[o]])
  BY DEF StampOf
<1>4. dir[o] # NoFile /\ ~Gone(dir[o], o)
  <2>1. o \in 0 .. o
    BY <1>1, LogAssumption DEF Rotated
  <2>. QED
    BY <2>1 DEF Gone
<1>. HIDE DEF o
<1>5. cache[o].records = Parse(content[dir[o]]) /\ cache[o].invalid = Invalid(content[dir[o]])
  BY <1>2, <1>3, <1>4 DEF ExactEntry
<1>. QED
  BY <1>5 DEF o

\* While no file moves, every file that was listed is there.
LEMMA QuietOldest ==
    ASSUME OrderInv, QuietSoFar, quiet, reading \in {"rotated", "stamped"}, left \cap Rotated # {}
    PROVE  dir[Oldest] # NoFile
<1>1. Oldest \in left /\ left \subseteq listed
  BY OldestFacts DEF OrderInv, TypeOK
<1>2. listed = {a \in Ages : dir[a] # NoFile}
  BY DEF QuietSoFar
<1>. QED
  BY <1>1, <1>2

LEMMA StatRotatedQuiet ==
    ASSUME OrderInv, CachesExact, QuietSoFar, StatRotated
    PROVE  QuietSoFar' /\ QuietReadsComplete'
<1>. DEFINE o == Oldest
<1>1. /\ reading = "rotated" /\ left \cap Rotated # {}
      /\ UNCHANGED writerVars /\ UNCHANGED historyVars /\ listed' = listed
  BY DEF StatRotated
<1>2. reading' # "done"
  BY <1>1 DEF StatRotated
<1>3. QuietReadsComplete'
  BY <1>2 DEF QuietReadsComplete, Delivered
<1>4. SUFFICES ASSUME quiet
               PROVE  QuietSoFar'
  BY <1>1, <1>3 DEF QuietSoFar, historyVars
<1>5. dir[o] # NoFile
  BY <1>1, <1>4, QuietOldest
<1>6. CASE reading' = reading /\ cache[o].stamp = StampOf(dir[o]) /\ Collect(cache[o])
  <2>1. cache[o].records = Parse(content[dir[o]]) /\ content[dir[o]] \in Seq(Pieces)
    BY <1>1, <1>5, <1>6, CacheHit, OldestFile
  <2>2. PICK entry : entry = cache[o]
    OBVIOUS
  <2>3. entry.records \in Seq(Records) /\ Covers(entry.records, content[dir[o]], Len(content[dir[o]]))
    BY <2>1, <2>2, ParseFacts, ParseCovers
  <2>4. Collect(entry)
    BY <1>6, <2>2
  <2>. QED
    BY <1>1, <1>4, <1>6, <2>3, <2>4, CollectQuiet
<1>7. CASE reading' = "stamped" /\ UNCHANGED <<left, result>>
  <2>1. content' = content /\ dir' = dir /\ writer' = writer /\ before' = before /\ quiet' = quiet
    BY <1>1 DEF writerVars, historyVars
  <2>2. \A a, r : Ahead(a, r) => Ahead(a, r)'
    BY <2>1 DEF Ahead
  <2>3. \A r \in before' : Within(result'.records, r) \/ \E a \in left' : Ahead(a, r)'
    BY <1>1, <1>4, <1>7, <2>1, <2>2 DEF QuietSoFar
  <2>4. (\A r \in before : Within(result.records, r) \/ \E a \in left : Ahead(a, r))'
    BY <2>3
  <2>5. /\ writer'.at \in {"ready", "line", "drop"}
        /\ listed' = {a \in Ages : dir'[a] # NoFile} /\ result'.skipped = 0
    BY <1>1, <1>4, <1>7, <2>1 DEF QuietSoFar
  <2>. QED
    BY <2>4, <2>5 DEF QuietSoFar
<1>. QED
  BY <1>1, <1>5, <1>6, <1>7 DEF StatRotated

LEMMA ReadRotatedQuiet ==
    ASSUME OrderInv, QuietSoFar, ReadRotated
    PROVE  QuietSoFar' /\ QuietReadsComplete'
<1>. DEFINE
    o == Oldest
    data == content[dir[o]]
<1>1. /\ reading = "stamped" /\ reading' = "rotated"
      /\ UNCHANGED writerVars /\ UNCHANGED historyVars /\ listed' = listed
      /\ \/ dir[o] = NoFile
         \/ Collect([stamp |-> stamp, records |-> Parse(data), invalid |-> Invalid(data)])
  BY DEF ReadRotated
<1>2. left \cap Rotated # {}
  BY <1>1 DEF OrderInv, Progress
<1>3. QuietReadsComplete'
  BY <1>1 DEF QuietReadsComplete, Delivered
<1>4. SUFFICES ASSUME quiet
               PROVE  QuietSoFar'
  BY <1>1, <1>3 DEF QuietSoFar, historyVars
<1>5. dir[o] # NoFile
  BY <1>1, <1>2, <1>4, QuietOldest
<1>6. data \in Seq(Pieces)
  BY <1>2, <1>5, OldestFile
<1>7. PICK entry : entry = [stamp |-> stamp, records |-> Parse(data), invalid |-> Invalid(data)]
  OBVIOUS
<1>8. entry.records = Parse(data) /\ Collect(entry)
  BY <1>1, <1>5, <1>7
<1>9. entry.records \in Seq(Records) /\ Covers(entry.records, data, Len(data))
  <2>. HIDE DEF data
  <2>. QED
    BY <1>6, <1>8, ParseFacts, ParseCovers
<1>. QED
  BY <1>1, <1>2, <1>4, <1>8, <1>9, CollectQuiet

LEMMA ReadActiveQuiet ==
    ASSUME OrderInv, CachesExact, QuietSoFar, ReadActive
    PROVE  QuietSoFar' /\ QuietReadsComplete'
<1>1. /\ reading = "rotated" /\ reading' = "done" /\ left \cap Rotated = {}
      /\ UNCHANGED writerVars /\ UNCHANGED historyVars /\ listed' = listed
      /\ \/ 0 \notin listed
         \/ dir[0] = NoFile
         \/ Deliver(ActiveAfter(dir[0]), result.skipped)
  BY DEF ReadActive
<1>2. content' = content /\ dir' = dir /\ writer' = writer /\ before' = before /\ quiet' = quiet
  BY <1>1 DEF writerVars, historyVars
<1>3. QuietSoFar'
  BY <1>1, <1>2 DEF QuietSoFar
<1>4. SUFFICES ASSUME quiet
               PROVE  result'.skipped = 0 /\ before \subseteq Range(result'.records)
  BY <1>2, <1>3 DEF QuietReadsComplete
<1>5. /\ writer.at \in {"ready", "line", "drop"}
      /\ listed = {a \in Ages : dir[a] # NoFile} /\ result.skipped = 0
      /\ \A r \in before : Within(result.records, r) \/ \E a \in left : Ahead(a, r)
  BY <1>1, <1>4 DEF QuietSoFar
<1>6. dir[0] # NoFile /\ 0 \in listed /\ left \subseteq {0}
  <2>1. 0 \in Ages /\ \A a \in Ages : a = 0 \/ a \in Rotated
    BY LogAssumption DEF Ages, Rotated
  <2>2. dir[0] # NoFile
    BY <1>5 DEF OrderInv, Aged
  <2>3. left \subseteq Ages
    BY DEF OrderInv, TypeOK
  <2>. QED
    BY <1>1, <1>5, <2>1, <2>2, <2>3
<1>. DEFINE
    c == content[dir[0]]
    known == ActiveAfter(dir[0])
<1>7. known.records \in Seq(Records) /\ Covers(known.records, c, Len(c))
      /\ c \in Seq(Pieces) /\ Len(c) \in Nat
  <2>1. known \in KnownType /\ dir[0] \in Files
    BY <1>6, ActiveAfterFacts
  <2>2. known.records \in Seq(Records)
    BY <2>1 DEF KnownType
  <2>3. c \in Seq(Pieces) /\ Len(c) \in Nat
    BY <2>1, FileType DEF OrderInv, TypeOK
  <2>4. Covers(known.records, c, Len(c))
    BY <1>6, ActiveAfterExact DEF CachesExact
  <2>. QED
    BY <2>2, <2>3, <2>4
<1>8. Deliver(known, 0)
  BY <1>1, <1>5, <1>6
<1>. HIDE DEF known
<1>9. result' = [records |-> result.records \o known.records, skipped |-> 0,
                 invalid |-> result.invalid + known.invalid, readable |-> TRUE]
  <2>1. Cardinality(listed) # 0
    <3>1. IsFiniteSet(Ages) /\ listed \subseteq Ages
      BY LogAssumption, FS_Interval DEF Ages, OrderInv, TypeOK
    <3>2. IsFiniteSet(listed)
      BY <3>1, FS_Subset
    <3>. QED
      BY <1>6, <3>2, FS_EmptySet
  <2>. QED
    BY <1>8, <2>1 DEF Deliver
<1>10. result.records \in Seq(Records)
  BY DEF OrderInv, TypeOK
<1>11. PICK s, t : s = result.records /\ t = known.records
  OBVIOUS
<1>12. s \in Seq(Records) /\ t \in Seq(Records) /\ result'.records = s \o t /\ s \o t \in Seq(Records)
  BY <1>7, <1>9, <1>10, <1>11, ConcatProperties
<1>13. ASSUME NEW r \in before
       PROVE  Within(s \o t, r)
  <2>1. CASE Within(s, r)
    BY <1>12, <2>1, ConcatCovers DEF Within
  <2>2. CASE Ahead(0, r)
    <3>1. PICK i \in Ends(c) : ValidEnd(c, i) /\ c[i].record = r
      BY <2>2 DEF Ahead
    <3>2. i <= Len(c)
      BY <1>7, <3>1 DEF Ends
    <3>. HIDE DEF c
    <3>3. PICK k \in 1 .. Len(t) : t[k] = r
      BY <1>7, <1>11, <3>1, <3>2 DEF Covers
    <3>. QED
      BY <1>12, <3>3, ConcatCovers DEF Within
  <2>. QED
    BY <1>5, <1>6, <1>11, <1>13, <2>1, <2>2
<1>14. before \subseteq Range(s \o t)
  <2>1. DOMAIN (s \o t) = 1 .. Len(s \o t)
    BY <1>12, LenProperties
  <2>. QED
    BY <1>13, <2>1 DEF Within, Range
<1>. QED
  BY <1>9, <1>12, <1>14

LEMMA ReadStepQuiet ==
    ASSUME OrderInv, CachesExact, QuietSoFar, Read
    PROVE  QuietSoFar' /\ QuietReadsComplete'
BY BeginReadQuiet, StatRotatedQuiet, ReadRotatedQuiet, ReadActiveQuiet DEF Read

-----------------------------------------------------------------------------
\* Torn lines.

\* A line that has begun is the last thing in the active file ...
LineBegun ==
    writer.at = "line" =>
        LET data == content[dir[0]] IN
        data # <<>> /\ data[Len(data)] = [record |-> written, end |-> FALSE]

\* ... so that an end follows its own beginning.
EndsFollow ==
    \A f \in Files : \A i \in Ends(content[f]) :
        i > 1 /\ content[f][i - 1] = [record |-> content[f][i].record, end |-> FALSE]

\* The j-th piece of f is a beginning that will never be ended.
IsTorn(f, j) ==
    /\ j \in 1 .. Len(content[f])
    /\ ~content[f][j].end
    /\ j < Len(content[f]) => ~content[f][j + 1].end
    /\ j = Len(content[f]) => ~ (writer.at = "line" /\ f = dir[0])

Torn == {t \in Files \X Nat : IsTorn(t[1], t[2])}
TornIn(f) == {t \in Torn : t[1] = f}
TornBelow(g) == {t \in Torn : t[1] < g}

\* Only a crash tears a line.
TornCounted == IsFiniteSet(Torn) /\ Cardinality(Torn) <= crashes

\* Every invalid line that has been counted was torn, in a file that is no longer to be read.
InvalidCounted ==
    reading \in {"rotated", "stamped"} =>
        /\ result.invalid <= Cardinality(Torn)
        /\ \A a \in left : \A b \in 0 .. a : dir[b] # NoFile =>
              result.invalid <= Cardinality(TornBelow(dir[b]))

TornInv == LineBegun /\ EndsFollow /\ TornCounted /\ InvalidCounted

LEMMA ShiftedInto ==
    ASSUME NEW S \in SUBSET Nat, NEW T, IsFiniteSet(T), NEW f, \A i \in S : <<f, i - 2>> \in T
    PROVE  IsFiniteSet(S) /\ Cardinality(S) <= Cardinality(T)
           /\ Cardinality(S) \in Nat /\ Cardinality(T) \in Nat
<1>. DEFINE move == [i \in S |-> <<f, i - 2>>]
<1>1. move \in [S -> T]
  OBVIOUS
<1>2. ASSUME NEW i \in S, NEW j \in S, move[i] = move[j]
      PROVE  i = j
  <2>1. <<f, i - 2>> = <<f, j - 2>>
    BY <1>2
  <2>2. i - 2 = j - 2
    BY <2>1
  <2>. QED
    BY <2>2
<1>. HIDE DEF move
<1>3. move \in Injection(S, T)
  BY <1>1, <1>2 DEF Injection, IsInjective
<1>. QED
  BY <1>3, FS_Injection, FS_CardinalityType

LEMMA TwoParts ==
    ASSUME NEW U, IsFiniteSet(U), NEW A \in SUBSET U, NEW B \in SUBSET U, A \cap B = {}
    PROVE  /\ Cardinality(A) + Cardinality(B) <= Cardinality(U)
           /\ Cardinality(A) \in Nat /\ Cardinality(B) \in Nat /\ Cardinality(U) \in Nat
<1>1. IsFiniteSet(A) /\ IsFiniteSet(B)
  BY FS_Subset
<1>2. Cardinality(A \cup B) = Cardinality(A) + Cardinality(B) - Cardinality(A \cap B)
  BY <1>1, FS_Union
<1>3. Cardinality(A \cap B) = 0
  BY FS_EmptySet
<1>4. Cardinality(A) \in Nat /\ Cardinality(B) \in Nat /\ Cardinality(U) \in Nat
  BY <1>1, FS_CardinalityType
<1>5. Cardinality(A \cup B) <= Cardinality(U)
  BY FS_Subset
<1>. QED
  BY <1>2, <1>3, <1>4, <1>5

\* What is torn in f comes on top of what is torn below.
LEMMA TornAdds ==
    ASSUME IsFiniteSet(Torn), NEW f \in Nat
    PROVE  /\ Cardinality(TornBelow(f)) + Cardinality(TornIn(f)) <= Cardinality(Torn)
           /\ \A g \in Nat : f < g =>
                 Cardinality(TornBelow(f)) + Cardinality(TornIn(f)) <= Cardinality(TornBelow(g))
           /\ \A g \in Nat : Cardinality(TornBelow(g)) \in Nat
           /\ Cardinality(TornIn(f)) \in Nat /\ Cardinality(Torn) \in Nat
<1>1. \A t \in Torn : t[1] \in Nat
  BY DEF Torn, Files
<1>2. TornBelow(f) \in SUBSET Torn /\ TornIn(f) \in SUBSET Torn
  BY DEF TornBelow, TornIn
<1>3. TornBelow(f) \cap TornIn(f) = {}
  BY <1>1 DEF TornBelow, TornIn
<1>4. ASSUME NEW g \in Nat
      PROVE  IsFiniteSet(TornBelow(g)) /\ Cardinality(TornBelow(g)) \in Nat
  <2>1. TornBelow(g) \in SUBSET Torn
    BY DEF TornBelow
  <2>. QED
    BY <2>1, FS_Subset, FS_CardinalityType
<1>5. ASSUME NEW g \in Nat, f < g
      PROVE  Cardinality(TornBelow(f)) + Cardinality(TornIn(f)) <= Cardinality(TornBelow(g))
  <2>1. TornBelow(f) \in SUBSET TornBelow(g) /\ TornIn(f) \in SUBSET TornBelow(g)
    BY <1>1, <1>5 DEF TornBelow, TornIn
  <2>. QED
    BY <1>3, <1>4, <2>1, TwoParts
<1>. QED
  BY <1>2, <1>3, <1>4, <1>5, TwoParts

\* Every damaged line of f follows what was torn.
LEMMA DamageIsTorn ==
    ASSUME content \in Seq(Seq(Pieces)), EndsFollow, NEW f \in Files,
           NEW i \in Ends(content[f]), ~ValidEnd(content[f], i)
    PROVE  i \in Nat /\ <<f, i - 2>> \in TornIn(f)
<1>. DEFINE c == content[f]
<1>1. c \in Seq(Pieces) /\ Len(c) \in Nat
  BY FileType
<1>2. i \in 1 .. Len(c) /\ i > 1 /\ c[i - 1] = [record |-> c[i].record, end |-> FALSE]
  BY DEF EndsFollow, Ends
<1>3. i > 2 /\ ~c[i - 2].end
  BY <1>2 DEF ValidEnd
<1>. HIDE DEF c
<1>4. i - 2 \in 1 .. Len(c) /\ i - 2 \in Nat /\ (i - 2) + 1 = i - 1 /\ i - 2 # Len(c)
  BY <1>1, <1>2, <1>3
<1>5. ~c[(i - 2) + 1].end
  BY <1>2, <1>4
<1>6. IsTorn(f, i - 2)
  BY <1>3, <1>4, <1>5 DEF IsTorn, c
<1>. QED
  BY <1>2, <1>4, <1>6 DEF TornIn, Torn

LEMMA DamagedTorn ==
    ASSUME content \in Seq(Seq(Pieces)), EndsFollow, IsFiniteSet(Torn), NEW f \in Files
    PROVE  Cardinality(Damaged(content[f], Len(content[f]))) <= Cardinality(TornIn(f))
<1>. DEFINE S == Damaged(content[f], Len(content[f]))
<1>1. \A i \in S : i \in Nat /\ <<f, i - 2>> \in TornIn(f)
  BY DamageIsTorn DEF Damaged
<1>2. IsFiniteSet(TornIn(f))
  BY FS_Subset DEF TornIn
<1>. HIDE DEF S
<1>3. S \in SUBSET Nat
  BY <1>1
<1>4. Cardinality(S) <= Cardinality(TornIn(f))
  BY <1>1, <1>2, <1>3, ShiftedInto
<1>. QED
  BY <1>4 DEF S

\* And what is left over at the end of a file was torn, unless it is being written.
LEMMA InvalidTorn ==
    ASSUME content \in Seq(Seq(Pieces)), EndsFollow, IsFiniteSet(Torn), NEW f \in Files,
           ~ (writer.at = "line" /\ f = dir[0])
    PROVE  Invalid(content[f]) <= Cardinality(TornIn(f))
<1>. DEFINE
    c == content[f]
    S == {n \in Ends(c) : ~ValidEnd(c, n)}
<1>1. c \in Seq(Pieces) /\ Len(c) \in Nat
  BY FileType
<1>2. IsFiniteSet(TornIn(f))
  BY FS_Subset DEF TornIn
<1>3. \A i \in S : i \in Nat /\ <<f, i - 2>> \in TornIn(f)
  BY DamageIsTorn
<1>4. Invalid(c) = Cardinality(S) + (IF Rest(c) = <<>> THEN 0 ELSE 1)
  BY DEF Invalid
<1>5. S \in SUBSET Nat /\ IsFiniteSet(S) /\ Cardinality(S) \in Nat /\ (\A i \in S : i <= Len(c))
  <2>1. S \subseteq Ends(c) /\ \A i \in Ends(c) : i <= Len(c)
    BY <1>1 DEF Ends
  <2>2. IsFiniteSet(S) /\ Cardinality(S) \in Nat
    <3>. HIDE DEF S
    <3>. QED
      BY <1>1, <2>1, EndsFinite
  <2>. QED
    BY <1>3, <2>1, <2>2
<1>. HIDE DEF S
<1>6. CASE Rest(c) = <<>>
  <2>1. Cardinality(S) <= Cardinality(TornIn(f))
    BY <1>2, <1>3, <1>5, ShiftedInto
  <2>. QED
    BY <1>4, <1>5, <1>6, <2>1
<1>7. CASE Rest(c) # <<>>
  <2>1. Len(c) \in 1 .. Len(c) /\ ~c[Len(c)].end
    <3>1. Cut(c) \in 0 .. Len(c) /\ \A m \in Ends(c) : m <= Cut(c)
      BY <1>1, CutFacts
    <3>2. Cut(c) # Len(c)
      <4>1. SUFFICES ASSUME Cut(c) = Len(c) PROVE Rest(c) = <<>>
        BY <1>7
      <4>2. Rest(c) = SubSeq(c, Len(c) + 1, Len(c))
        BY <4>1 DEF Rest
      <4>3. Len(c) \in 0 .. Len(c) /\ Len(c) - Len(c) = 0
        BY <1>1
      <4>. HIDE DEF c
      <4>4. SubSeq(c, Len(c) + 1, Len(c)) \in Seq(Pieces) /\ Len(SubSeq(c, Len(c) + 1, Len(c))) = 0
        BY <1>1, <4>3, PartFacts
      <4>. QED
        BY <4>2, <4>4, EmptySeq
    <3>. HIDE DEF c
    <3>3. Len(c) \in 1 .. Len(c) /\ Len(c) \notin Ends(c)
      BY <1>1, <3>1, <3>2
    <3>. QED
      BY <3>3 DEF Ends
  <2>2. IsTorn(f, Len(c))
    BY <1>1, <2>1 DEF IsTorn
  <2>3. <<f, Len(c)>> \in TornIn(f)
    BY <1>1, <2>2 DEF TornIn, Torn
  <2>. HIDE DEF c
  <2>. DEFINE
      x == Len(c) + 2
      All == S \cup {x}
  <2>4. x \in Nat /\ x - 2 = Len(c) /\ x \notin S
    BY <1>1, <1>5
  <2>. HIDE DEF x
  <2>5. All \in SUBSET Nat /\ \A i \in All : <<f, i - 2>> \in TornIn(f)
    BY <1>3, <1>5, <2>3, <2>4
  <2>6. Cardinality(All) = Cardinality(S) + 1
    BY <1>5, <2>4, FS_AddElement
  <2>. HIDE DEF All
  <2>7. Cardinality(All) <= Cardinality(TornIn(f))
    BY <1>2, <2>5, ShiftedInto
  <2>. QED
    BY <1>4, <1>5, <1>7, <2>6, <2>7 DEF c
<1>. QED
  BY <1>6, <1>7

\* What appending a piece to the active file does.
LEMMA Appended ==
    ASSUME OrderInv, dir[0] # NoFile, NEW p \in Pieces, AppendTo(dir[0], p),
           NEW f, f = dir[0]
    PROVE  /\ f \in Files /\ Files' = Files
           /\ \A g \in Files : g # f => content'[g] = content[g]
           /\ Len(content[f]) \in Nat /\ Len(content'[f]) = Len(content[f]) + 1
           /\ \A i \in 1 .. Len(content[f]) : content'[f][i] = content[f][i]
           /\ content'[f][Len(content[f]) + 1] = p
<1>1. /\ content \in Seq(Seq(Pieces)) /\ Len(content) \in Nat
      /\ dir \in [Ages -> 0 .. Len(content)] /\ 0 \in Ages
  BY WriterFacts, LogAssumption DEF OrderInv
<1>2. f \in Files /\ content[f] \in Seq(Pieces) /\ Len(content[f]) \in Nat
  <2>1. f \in Files
    BY <1>1 DEF Files, NoFile
  <2>. QED
    BY <1>1, <2>1, FileType
<1>3. /\ Append(content[f], p) \in Seq(Pieces) /\ Len(Append(content[f], p)) = Len(content[f]) + 1
      /\ \A i \in 1 .. Len(content[f]) : Append(content[f], p)[i] = content[f][i]
      /\ Append(content[f], p)[Len(content[f]) + 1] = p
  BY <1>2, AppendProperties
<1>4. content' = [content EXCEPT ![f] = Append(content[f], p)]
  BY DEF AppendTo
<1>5. /\ content' \in Seq(Seq(Pieces)) /\ Len(content') = Len(content)
      /\ content'[f] = Append(content[f], p)
      /\ \A g \in Files : g # f => content'[g] = content[g]
  BY <1>1, <1>2, <1>3, <1>4, ExceptSeq DEF Files
<1>. QED
  BY <1>2, <1>3, <1>5 DEF Files

\* A line begins: nothing is torn, nothing mended.
LEMMA BeginLineTears ==
    ASSUME OrderInv, LineBegun, EndsFollow, BeginLine
    PROVE  LineBegun' /\ EndsFollow' /\ Torn' = Torn
<1>. DEFINE p == [record |-> written + 1, end |-> FALSE]
<1>. PICK f, L : f = dir[0] /\ L = Len(content[f])
  OBVIOUS
<1>1. TypeOK /\ Aged
  BY DEF OrderInv
<1>2. /\ writer.at = "ready" /\ written < MaxRecords /\ f # NoFile
      /\ AppendTo(f, p) /\ written' = written + 1 /\ writer'.at = "line" /\ dir' = dir
  BY <1>1 DEF BeginLine, Ready, Aged
<1>3. p \in Pieces /\ p.end = FALSE
  BY <1>1, <1>2, WriterFacts, LogAssumption DEF Pieces, Records
<1>. HIDE DEF p
<1>4. /\ f \in Files /\ Files' = Files
      /\ \A g \in Files : g # f => content'[g] = content[g]
      /\ L \in Nat /\ Len(content'[f]) = L + 1
      /\ \A i \in 1 .. L : content'[f][i] = content[f][i]
      /\ content'[f][L + 1] = p
  BY <1>2, <1>3, Appended
<1>5. dir'[0] = f
  BY <1>2
<1>6. LineBegun'
  <2>1. content'[f] # <<>> /\ content'[f][Len(content'[f])] = [record |-> written', end |-> FALSE]
    BY <1>2, <1>4 DEF p
  <2>. QED
    BY <1>5, <2>1 DEF LineBegun
<1>7. ASSUME NEW g \in Files
      PROVE  /\ \A i \in Ends(content'[g]) :
                   i > 1 /\ content'[g][i - 1] = [record |-> content'[g][i].record, end |-> FALSE]
             /\ \A j \in Nat : IsTorn(g, j)' <=> IsTorn(g, j)
  <2>1. CASE g # f
    <3>1. content'[g] = content[g]
      BY <1>4, <2>1
    <3>2. \A j \in Nat : IsTorn(g, j)' <=> IsTorn(g, j)
      BY <1>2, <1>5, <2>1, <3>1 DEF IsTorn
    <3>. QED
      BY <3>1, <3>2 DEF EndsFollow
  <2>2. CASE g = f
    <3>1. ASSUME NEW i \in Ends(content'[f])
          PROVE  i > 1 /\ content'[f][i - 1] = [record |-> content'[f][i].record, end |-> FALSE]
      <4>1. i \in 1 .. L + 1 /\ content'[f][i].end
        BY <1>4, <3>1 DEF Ends
      <4>2. i # L + 1
        BY <1>3, <1>4, <4>1
      <4>3. i \in 1 .. L
        BY <1>4, <4>1, <4>2
      <4>4. i \in Ends(content[f])
        BY <1>4, <4>1, <4>3 DEF Ends
      <4>5. i > 1 /\ content[f][i - 1] = [record |-> content[f][i].record, end |-> FALSE]
        BY <1>4, <4>4 DEF EndsFollow
      <4>6. i - 1 \in 1 .. L
        BY <1>4, <4>3, <4>5
      <4>. QED
        BY <1>4, <4>3, <4>5, <4>6
    <3>2. ASSUME NEW j \in Nat
          PROVE  IsTorn(f, j)' <=> IsTorn(f, j)
      <4>1. IsTorn(f, j) <=> /\ j \in 1 .. L /\ ~content[f][j].end
                             /\ j < L => ~content[f][j + 1].end
        BY <1>2 DEF IsTorn
      <4>2. IsTorn(f, j)' <=> /\ j \in 1 .. L + 1 /\ ~content'[f][j].end
                              /\ j < L + 1 => ~content'[f][j + 1].end
                              /\ j # L + 1
        BY <1>2, <1>4, <1>5 DEF IsTorn
      <4>3. CASE j \in 1 .. L
        <5>1. content'[f][j] = content[f][j] /\ j < L + 1 /\ j # L + 1 /\ j \in 1 .. L + 1
          BY <1>4, <4>3
        <5>2. CASE j < L
          <6>1. content'[f][j + 1] = content[f][j + 1]
            BY <1>4, <4>3, <5>2
          <6>. QED
            BY <4>1, <4>2, <4>3, <5>1, <5>2, <6>1
        <5>3. CASE j = L
          <6>1. ~content'[f][j + 1].end
            BY <1>3, <1>4, <5>3
          <6>. QED
            BY <1>4, <4>1, <4>2, <4>3, <5>1, <5>3, <6>1
        <5>. QED
          BY <1>4, <4>3, <5>2, <5>3
      <4>4. CASE j \notin 1 .. L
        BY <1>4, <4>1, <4>2, <4>4
      <4>. QED
        BY <4>3, <4>4
    <3>. QED
      BY <2>2, <3>1, <3>2
  <2>. QED
    BY <2>1, <2>2
<1>8. EndsFollow'
  BY <1>4, <1>7 DEF EndsFollow
<1>9. Torn' = Torn
  <2>1. Torn' = {t \in Files \X Nat : IsTorn(t[1], t[2])'}
    BY <1>4 DEF Torn
  <2>2. \A t \in Files \X Nat : IsTorn(t[1], t[2])' <=> IsTorn(t[1], t[2])
    BY <1>7
  <2>. QED
    BY <2>1, <2>2 DEF Torn
<1>. QED
  BY <1>6, <1>8, <1>9

\* It ends: again, nothing is torn or mended.
LEMMA EndLineTears ==
    ASSUME OrderInv, LineBegun, EndsFollow, EndLine
    PROVE  LineBegun' /\ EndsFollow' /\ Torn' = Torn
<1>. DEFINE p == [record |-> written, end |-> TRUE]
<1>. PICK f, L : f = dir[0] /\ L = Len(content[f])
  OBVIOUS
<1>1. TypeOK /\ Aged
  BY DEF OrderInv
<1>2. /\ writer.at = "line" /\ written >= 1 /\ f # NoFile
      /\ AppendTo(f, p) /\ written' = written /\ writer'.at = "ready" /\ dir' = dir
  BY <1>1 DEF EndLine, Ready, Aged
<1>3. p \in Pieces /\ p.end = TRUE /\ p.record = written
  BY <1>1, <1>2, WriterFacts, LogAssumption DEF Pieces, Records
<1>. HIDE DEF p
<1>4. /\ f \in Files /\ Files' = Files
      /\ \A g \in Files : g # f => content'[g] = content[g]
      /\ L \in Nat /\ Len(content'[f]) = L + 1
      /\ \A i \in 1 .. L : content'[f][i] = content[f][i]
      /\ content'[f][L + 1] = p
  BY <1>2, <1>3, Appended
<1>5. dir'[0] = f
  BY <1>2
<1>6. L \in 1 .. L /\ content[f][L] = [record |-> written, end |-> FALSE]
  <2>1. content[f] # <<>> /\ content[f][L] = [record |-> written, end |-> FALSE]
    BY <1>2 DEF LineBegun
  <2>2. content[f] \in Seq(Pieces)
    BY <1>1, <1>4, FileType DEF TypeOK
  <2>3. L # 0
    BY <2>1, <2>2, EmptySeq
  <2>. QED
    BY <1>4, <2>1, <2>3
<1>7. LineBegun'
  BY <1>2 DEF LineBegun
<1>8. ASSUME NEW g \in Files
      PROVE  /\ \A i \in Ends(content'[g]) :
                   i > 1 /\ content'[g][i - 1] = [record |-> content'[g][i].record, end |-> FALSE]
             /\ \A j \in Nat : IsTorn(g, j)' <=> IsTorn(g, j)
  <2>1. CASE g # f
    <3>1. content'[g] = content[g]
      BY <1>4, <2>1
    <3>2. \A j \in Nat : IsTorn(g, j)' <=> IsTorn(g, j)
      BY <1>2, <1>5, <2>1, <3>1 DEF IsTorn
    <3>. QED
      BY <3>1, <3>2 DEF EndsFollow
  <2>2. CASE g = f
    <3>1. ASSUME NEW i \in Ends(content'[f])
          PROVE  i > 1 /\ content'[f][i - 1] = [record |-> content'[f][i].record, end |-> FALSE]
      <4>1. i \in 1 .. L + 1 /\ content'[f][i].end
        BY <1>4, <3>1 DEF Ends
      <4>2. CASE i = L + 1
        <5>1. i > 1 /\ i - 1 = L
          BY <1>4, <1>6, <4>2
        <5>2. content'[f][i - 1] = [record |-> written, end |-> FALSE]
          BY <1>4, <1>6, <5>1
        <5>. QED
          BY <1>3, <1>4, <4>2, <5>1, <5>2
      <4>3. CASE i \in 1 .. L
        <5>1. i \in Ends(content[f])
          BY <1>4, <4>1, <4>3 DEF Ends
        <5>2. i > 1 /\ content[f][i - 1] = [record |-> content[f][i].record, end |-> FALSE]
          BY <1>4, <5>1 DEF EndsFollow
        <5>3. i - 1 \in 1 .. L
          BY <1>4, <4>3, <5>2
        <5>. QED
          BY <1>4, <4>3, <5>2, <5>3
      <4>. QED
        BY <1>4, <4>1, <4>2, <4>3
    <3>2. ASSUME NEW j \in Nat
          PROVE  IsTorn(f, j)' <=> IsTorn(f, j)
      <4>1. IsTorn(f, j) <=> /\ j \in 1 .. L /\ ~content[f][j].end
                             /\ j < L => ~content[f][j + 1].end
                             /\ j # L
        BY <1>2 DEF IsTorn
      <4>2. IsTorn(f, j)' <=> /\ j \in 1 .. L + 1 /\ ~content'[f][j].end
                              /\ j < L + 1 => ~content'[f][j + 1].end
        BY <1>2, <1>4 DEF IsTorn
      <4>3. CASE j \in 1 .. L
        <5>1. content'[f][j] = content[f][j] /\ j < L + 1 /\ j \in 1 .. L + 1
          BY <1>4, <4>3
        <5>2. CASE j < L
          <6>1. j + 1 \in 1 .. L /\ j # L
            <7>1. L \in Nat
              BY <1>4
            <7>. QED
              BY <4>3, <5>2, <7>1
          <6>2. content'[f][j + 1] = content[f][j + 1]
            BY <1>4, <6>1
          <6>. QED
            BY <4>1, <4>2, <4>3, <5>1, <5>2, <6>1, <6>2
        <5>3. CASE j = L
          <6>1. content'[f][j + 1].end
            BY <1>3, <1>4, <5>3
          <6>. QED
            BY <4>1, <4>2, <5>1, <5>3, <6>1
        <5>. QED
          BY <1>4, <4>3, <5>2, <5>3
      <4>4. CASE j = L + 1
        BY <1>3, <1>4, <4>1, <4>2, <4>4
      <4>5. CASE j \notin 1 .. L + 1
        BY <1>4, <4>1, <4>2, <4>5
      <4>. QED
        BY <1>4, <4>3, <4>4, <4>5
    <3>. QED
      BY <2>2, <3>1, <3>2
  <2>. QED
    BY <2>1, <2>2
<1>9. EndsFollow'
  BY <1>4, <1>8 DEF EndsFollow
<1>10. Torn' = Torn
  <2>1. Torn' = {t \in Files \X Nat : IsTorn(t[1], t[2])'}
    BY <1>4 DEF Torn
  <2>2. \A t \in Files \X Nat : IsTorn(t[1], t[2])' <=> IsTorn(t[1], t[2])
    BY <1>8
  <2>. QED
    BY <2>1, <2>2 DEF Torn
<1>. QED
  BY <1>7, <1>9, <1>10

\* A file may be opened, but nothing is written: only a line that was being
\* written can be torn now.
LEMMA OtherTears ==
    ASSUME OrderInv, EndsFollow, writer'.at # "line",
           \/ content' = content
           \/ writer.at # "line" /\ content' = Append(content, <<>>)
    PROVE  /\ LineBegun' /\ EndsFollow'
           /\ Torn \subseteq Torn'
           /\ Torn' \subseteq Torn \cup
                 (IF writer.at = "line" THEN {<<dir[0], Len(content[dir[0]])>>} ELSE {})
<1>1. /\ content \in Seq(Seq(Pieces)) /\ Len(content) \in Nat /\ <<>> \in Seq(Pieces) /\ Len(<<>>) = 0
  BY WriterFacts, LogAssumption DEF OrderInv
<1>2. /\ Len(content') \in Nat /\ Len(content) <= Len(content')
      /\ \A g \in Files : g \in Files' /\ content'[g] = content[g]
      /\ \A g \in Files' : g \in Files \/ (content'[g] = <<>> /\ writer.at # "line")
  <2>1. CASE content' = content
    BY <1>1, <2>1 DEF Files
  <2>2. CASE writer.at # "line" /\ content' = Append(content, <<>>)
    <3>1. /\ Len(content') = Len(content) + 1
          /\ \A g \in 1 .. Len(content) : content'[g] = content[g]
          /\ content'[Len(content) + 1] = <<>>
      BY <1>1, <2>2, AppendProperties
    <3>. QED
      BY <1>1, <2>2, <3>1 DEF Files
  <2>. QED
    BY <2>1, <2>2
<1>3. LineBegun'
  BY DEF LineBegun
<1>4. Ends(<<>>) = {}
  BY <1>1 DEF Ends
<1>5. EndsFollow'
  <2>1. ASSUME NEW g \in Files', NEW i \in Ends(content'[g])
        PROVE  i > 1 /\ content'[g][i - 1] = [record |-> content'[g][i].record, end |-> FALSE]
    <3>1. g \in Files /\ content'[g] = content[g]
      BY <1>2, <1>4, <2>1
    <3>. QED
      BY <2>1, <3>1 DEF EndsFollow
  <2>. QED
    BY <2>1 DEF EndsFollow
<1>6. ASSUME NEW g \in Files, NEW j \in Nat, IsTorn(g, j)
      PROVE  IsTorn(g, j)'
  BY <1>2, <1>6 DEF IsTorn
<1>7. ASSUME NEW g \in Files', NEW j \in Nat, IsTorn(g, j)'
      PROVE  g \in Files /\ (IsTorn(g, j) \/ (writer.at = "line" /\ g = dir[0] /\ j = Len(content[g])))
  <2>1. content'[g] # <<>>
    BY <1>1, <1>7 DEF IsTorn
  <2>2. g \in Files /\ content'[g] = content[g]
    BY <1>2, <2>1
  <2>. QED
    BY <1>7, <2>2 DEF IsTorn
<1>8. Torn' = {t \in Files' \X Nat : IsTorn(t[1], t[2])'}
  BY DEF Torn
<1>9. Torn \subseteq Torn'
  <2>1. ASSUME NEW t \in Torn
        PROVE  t \in Torn'
    <3>1. t \in Files \X Nat /\ IsTorn(t[1], t[2])
      BY DEF Torn
    <3>2. t \in Files' \X Nat /\ t[1] \in Files /\ t[2] \in Nat
      BY <1>2, <3>1
    <3>. QED
      BY <1>6, <1>8, <3>1, <3>2
  <2>. QED
    BY <2>1
<1>10. ASSUME NEW t \in Torn'
       PROVE  t \in Torn \/ (writer.at = "line" /\ t = <<dir[0], Len(content[dir[0]])>>)
  <2>1. PICK g, j : g = t[1] /\ j = t[2]
    OBVIOUS
  <2>2. t = <<g, j>> /\ g \in Files' /\ j \in Nat /\ IsTorn(g, j)'
    BY <1>8, <1>10, <2>1
  <2>3. g \in Files /\ (IsTorn(g, j) \/ (writer.at = "line" /\ g = dir[0] /\ j = Len(content[g])))
    BY <1>7, <2>2
  <2>. QED
    BY <2>2, <2>3 DEF Torn
<1>. QED
  BY <1>3, <1>5, <1>9, <1>10

\* Nothing is mended, and only a crash can tear a line.
LEMMA WriteTears ==
    ASSUME OrderInv, TornInv, Write
    PROVE  LineBegun' /\ EndsFollow' /\ Torn \subseteq Torn' /\ TornCounted' /\ crashes <= crashes'
<1>1. TypeOK /\ Aged /\ LineBegun /\ EndsFollow /\ TornCounted
  BY DEF OrderInv, TornInv
<1>2. crashes \in Nat /\ Cardinality(Torn) \in Nat /\ IsFiniteSet(Torn) /\ Cardinality(Torn) <= crashes
  BY <1>1, WriterFacts, LogAssumption, FS_CardinalityType DEF TornCounted
<1>3. ASSUME Torn' = Torn, crashes' = crashes
      PROVE  Torn \subseteq Torn' /\ TornCounted' /\ crashes <= crashes'
  BY <1>2, <1>3 DEF TornCounted
<1>4. CASE BeginLine
  <2>1. crashes' = crashes
    BY <1>4 DEF BeginLine
  <2>. QED
    BY <1>1, <1>3, <1>4, <2>1, BeginLineTears
<1>5. CASE EndLine
  <2>1. crashes' = crashes
    BY <1>5 DEF EndLine
  <2>. QED
    BY <1>1, <1>3, <1>5, <2>1, EndLineTears
<1>6. ASSUME writer.at # "line", writer'.at # "line", crashes' = crashes,
             content' = content \/ content' = Append(content, <<>>)
      PROVE  LineBegun' /\ EndsFollow' /\ Torn \subseteq Torn' /\ TornCounted' /\ crashes <= crashes'
  <2>1. LineBegun' /\ EndsFollow' /\ Torn \subseteq Torn' /\ Torn' \subseteq Torn
    BY <1>1, <1>6, OtherTears
  <2>2. Torn' = Torn
    BY <2>1
  <2>. QED
    BY <1>3, <1>6, <2>1, <2>2
<1>7. CASE BeginRotation
  BY <1>6, <1>7 DEF BeginRotation, Ready
<1>8. CASE DropOldest
  BY <1>6, <1>8 DEF DropOldest
<1>9. CASE MoveFile
  <2>1. writer.at = "move" /\ content' = content /\ crashes' = crashes
    BY <1>9 DEF MoveFile
  <2>2. writer'.at # "line"
    BY <1>1, <1>9, <2>1 DEF MoveFile, Ready, TypeOK
  <2>. QED
    BY <1>6, <2>1, <2>2
<1>10. CASE OpenNew
  BY <1>6, <1>10 DEF OpenNew, OpenActive, Ready
<1>11. CASE RotationFails
  BY <1>6, <1>11 DEF RotationFails, OpenActive, Ready
<1>12. CASE Crash
  <2>. DEFINE x == <<dir[0], Len(content[dir[0]])>>
  <2>1. writer' = Ready /\ writer'.at # "line" /\ crashes' = crashes + 1
    BY <1>12 DEF Crash, Ready
  <2>2. \/ content' = content
        \/ writer.at # "line" /\ content' = Append(content, <<>>)
    BY <1>1, <1>12 DEF Crash, OpenActive, Aged
  <2>3. /\ LineBegun' /\ EndsFollow' /\ Torn \subseteq Torn' /\ Torn' \subseteq Torn \cup {x}
    BY <1>1, <2>1, <2>2, OtherTears
  <2>. HIDE DEF x
  <2>4. IsFiniteSet(Torn \cup {x}) /\ Cardinality(Torn \cup {x}) <= crashes + 1
        /\ Cardinality(Torn \cup {x}) \in Nat
    <3>1. IsFiniteSet(Torn \cup {x})
      BY <1>2, FS_AddElement
    <3>2. \/ Cardinality(Torn \cup {x}) = Cardinality(Torn)
          \/ Cardinality(Torn \cup {x}) = Cardinality(Torn) + 1
      BY <1>2, FS_AddElement
    <3>. QED
      BY <1>2, <3>1, <3>2
  <2>5. IsFiniteSet(Torn') /\ Cardinality(Torn') <= Cardinality(Torn \cup {x}) /\ Cardinality(Torn') \in Nat
    BY <2>3, <2>4, FS_Subset, FS_CardinalityType
  <2>6. TornCounted'
    BY <1>2, <2>1, <2>4, <2>5 DEF TornCounted
  <2>. QED
    BY <1>2, <2>1, <2>3, <2>6
<1>. QED
  BY <1>4, <1>5, <1>7, <1>8, <1>9, <1>10, <1>11, <1>12 DEF Write

\* Whatever is written, what was counted stays counted.
LEMMA WrittenKeepsTorn ==
    ASSUME OrderInv, OrderInv', TornInv, OnlyTornLinesInvalid, Write, Written
    PROVE  TornInv' /\ OnlyTornLinesInvalid'
<1>1. LineBegun' /\ EndsFollow' /\ Torn \subseteq Torn' /\ TornCounted' /\ crashes <= crashes'
  BY WriteTears
<1>2. reading' = reading /\ result' = result /\ left' = left
  BY DEF Written, readerVars
<1>3. /\ crashes \in Nat /\ crashes' \in Nat /\ result.invalid \in Nat
      /\ content \in Seq(Seq(Pieces)) /\ Len(content) \in Nat /\ Len(content') \in Nat
      /\ dir' \in [Ages -> 0 .. Len(content')] /\ left \subseteq Ages
  <2>1. TypeOK /\ TypeOK'
    BY DEF OrderInv
  <2>2. crashes' \in 0 .. MaxCrashes /\ content' \in Seq(Seq(Pieces)) /\ dir' \in [Ages -> 0 .. Len(content')]
    BY <2>1 DEF TypeOK
  <2>3. crashes \in Nat /\ content \in Seq(Seq(Pieces)) /\ Len(content) \in Nat
    BY <2>1, WriterFacts, LogAssumption
  <2>4. result.invalid \in Nat /\ left \subseteq Ages
    BY <2>1 DEF TypeOK
  <2>. QED
    BY <2>2, <2>3, <2>4, LenProperties
<1>4. OnlyTornLinesInvalid'
  BY <1>1, <1>2, <1>3 DEF OnlyTornLinesInvalid, Delivered
<1>5. IsFiniteSet(Torn) /\ IsFiniteSet(Torn')
  BY <1>1 DEF TornInv, TornCounted
<1>6. /\ Cardinality(Torn) \in Nat /\ Cardinality(Torn') \in Nat
      /\ Cardinality(Torn) <= Cardinality(Torn')
  BY <1>1, <1>5, FS_Subset, FS_CardinalityType
<1>7. ASSUME reading \in {"rotated", "stamped"}
      PROVE  result.invalid <= Cardinality(Torn')
  BY <1>3, <1>6, <1>7 DEF TornInv, InvalidCounted
<1>8. ASSUME reading \in {"rotated", "stamped"}, NEW a \in left, NEW b \in 0 .. a, dir'[b] # NoFile,
             NEW g, g = dir'[b]
      PROVE  result.invalid <= Cardinality({t \in Torn' : t[1] < g})
  <2>1. b \in Ages /\ \A c \in 0 .. b : c \in 0 .. a
    BY <1>3, LogAssumption DEF Ages
  <2>2. g \in 1 .. Len(content')
    BY <1>3, <1>8, <2>1 DEF NoFile
  <2>3. IsFiniteSet({t \in Torn' : t[1] < g}) /\ Cardinality({t \in Torn' : t[1] < g}) \in Nat
    <3>1. {t \in Torn' : t[1] < g} \in SUBSET Torn'
      OBVIOUS
    <3>. QED
      BY <1>5, <3>1, FS_Subset, FS_CardinalityType
  <2>4. CASE g \in Files
    <3>1. PICK c \in 0 .. b : dir[c] = g
      BY <1>8, <2>1, <2>4 DEF Written, Aging
    <3>2. result.invalid <= Cardinality(TornBelow(g))
      <4>1. dir[c] # NoFile
        BY <2>4, <3>1 DEF Files, NoFile
      <4>. QED
        BY <1>8, <2>1, <3>1, <4>1 DEF TornInv, InvalidCounted
    <3>3. TornBelow(g) \in SUBSET {t \in Torn' : t[1] < g}
      BY <1>1 DEF TornBelow
    <3>4. Cardinality(TornBelow(g)) \in Nat
      BY <1>5, <2>2, TornAdds
    <3>5. Cardinality(TornBelow(g)) <= Cardinality({t \in Torn' : t[1] < g})
      BY <2>3, <3>3, FS_Subset
    <3>. QED
      BY <1>3, <2>3, <3>2, <3>4, <3>5
  <2>5. CASE g \notin Files
    <3>1. \A f \in Files : f < g
      BY <1>3, <2>2, <2>5 DEF Files
    <3>2. Torn \in SUBSET {t \in Torn' : t[1] < g}
      BY <1>1, <3>1 DEF Torn
    <3>3. Cardinality(Torn) <= Cardinality({t \in Torn' : t[1] < g})
      BY <2>3, <3>2, FS_Subset
    <3>. QED
      BY <1>3, <1>6, <1>8, <2>3, <3>3 DEF TornInv, InvalidCounted
  <2>. QED
    BY <2>4, <2>5
<1>9. InvalidCounted'
  BY <1>2, <1>7, <1>8 DEF InvalidCounted, TornBelow
<1>. QED
  BY <1>1, <1>4, <1>9 DEF TornInv

\* The reader tears nothing.
LEMMA ReadTears ==
    ASSUME TornInv, UNCHANGED writerVars
    PROVE  /\ LineBegun' /\ EndsFollow' /\ TornCounted' /\ Torn' = Torn
           /\ dir' = dir /\ crashes' = crashes
<1>1. content' = content /\ dir' = dir /\ writer' = writer /\ written' = written /\ crashes' = crashes
  BY DEF writerVars
<1>2. Torn' = Torn
  BY <1>1 DEF Torn, IsTorn, Files
<1>3. LineBegun' /\ EndsFollow' /\ TornCounted'
  BY <1>1, <1>2 DEF TornInv, LineBegun, EndsFollow, TornCounted, Files
<1>. QED
  BY <1>1, <1>2, <1>3

\* One file more: what is invalid in it was torn, in a file below all that are left.
LEMMA CollectTorn ==
    ASSUME OrderInv, TornInv, reading \in {"rotated", "stamped"}, left \cap Rotated # {},
           UNCHANGED writerVars, reading' \in {"rotated", "stamped"}, dir[Oldest] # NoFile,
           NEW entry, Collect(entry), entry.invalid = Invalid(content[dir[Oldest]])
    PROVE  TornInv'
<1>. PICK o, f : o = Oldest /\ f = dir[Oldest]
  OBVIOUS
<1>1. o \in left /\ o \in Rotated /\ o \in Ages /\ (\A b \in left : b <= o) /\ f = dir[o]
  BY OldestFacts DEF OrderInv, TypeOK
<1>2. f \in Files /\ f \in Nat /\ content \in Seq(Seq(Pieces)) /\ Invalid(content[f]) \in Nat
  <2>1. f \in Files /\ content[f] \in Seq(Pieces)
    BY OldestFile
  <2>2. content \in Seq(Seq(Pieces)) /\ f \in Nat
    BY <2>1 DEF OrderInv, TypeOK, Files
  <2>3. Invalid(content[f]) \in Nat
    BY <2>1, InvalidType
  <2>. QED
    BY <2>1, <2>2, <2>3
<1>3. /\ Len(content) \in Nat /\ dir \in [Ages -> 0 .. Len(content)]
      /\ \A a, b \in Ages : a < b /\ dir[a] # NoFile /\ dir[b] # NoFile => dir[b] < dir[a]
  BY WriterFacts, LogAssumption DEF OrderInv, Aged
<1>4. ~ (writer.at = "line" /\ f = dir[0])
  <2>1. 0 \in Ages /\ 0 < o
    BY <1>1, LogAssumption DEF Ages, Rotated
  <2>2. writer.at = "line" => dir[0] # NoFile /\ f # NoFile
    BY DEF OrderInv, Aged
  <2>3. dir[0] \in Nat
    BY <1>3, <2>1
  <2>. QED
    BY <1>1, <1>2, <1>3, <2>1, <2>2, <2>3
<1>5. IsFiniteSet(Torn) /\ EndsFollow
  BY DEF TornInv, TornCounted
<1>6. Invalid(content[f]) <= Cardinality(TornIn(f))
  BY <1>2, <1>4, <1>5, InvalidTorn
<1>7. /\ Cardinality(TornBelow(f)) + Cardinality(TornIn(f)) <= Cardinality(Torn)
      /\ \A g \in Nat : f < g =>
            Cardinality(TornBelow(f)) + Cardinality(TornIn(f)) <= Cardinality(TornBelow(g))
      /\ \A g \in Nat : Cardinality(TornBelow(g)) \in Nat
      /\ Cardinality(TornIn(f)) \in Nat /\ Cardinality(Torn) \in Nat
  BY <1>2, <1>5, TornAdds
<1>8. result.invalid \in Nat /\ result.invalid <= Cardinality(TornBelow(f))
  <2>1. o \in 0 .. o
    BY <1>1, LogAssumption DEF Rotated
  <2>2. result.invalid <= Cardinality(TornBelow(dir[o]))
    BY <1>1, <2>1 DEF TornInv, InvalidCounted
  <2>. QED
    BY <1>1, <2>2 DEF OrderInv, TypeOK
<1>9. result'.invalid = result.invalid + Invalid(content[f]) /\ left' = left \ {o}
  <2>1. result' = [result EXCEPT !.records = @ \o entry.records, !.invalid = @ + entry.invalid]
    BY DEF Collect
  <2>2. result'.invalid = result.invalid + entry.invalid
    BY <2>1 DEF OrderInv, TypeOK
  <2>. QED
    BY <2>2 DEF Collect
<1>10. result'.invalid <= Cardinality(TornBelow(f)) + Cardinality(TornIn(f)) /\ result'.invalid \in Nat
  <2>1. Cardinality(TornBelow(f)) \in Nat
    BY <1>2, <1>7
  <2>2. Cardinality(TornIn(f)) \in Nat
    BY <1>7
  <2>. PICK i, t, u : i = Invalid(content[f]) /\ t = Cardinality(TornIn(f)) /\ u = Cardinality(TornBelow(f))
    OBVIOUS
  <2>3. i \in Nat /\ t \in Nat /\ u \in Nat /\ i <= t
    BY <1>2, <1>6, <2>1, <2>2
  <2>4. result.invalid \in Nat /\ result.invalid <= u /\ result'.invalid = result.invalid + i
    BY <1>8, <1>9
  <2>5. result'.invalid <= u + t /\ result'.invalid \in Nat
    BY <2>3, <2>4
  <2>. QED
    BY <2>5
<1>11. result'.invalid <= Cardinality(Torn)
  <2>1. Cardinality(TornBelow(f)) \in Nat
    BY <1>2, <1>7
  <2>. QED
    BY <1>7, <1>10, <2>1
<1>12. ASSUME NEW a \in left', NEW b \in 0 .. a, dir[b] # NoFile
       PROVE  result'.invalid <= Cardinality(TornBelow(dir[b]))
  <2>1. a \in left /\ a # o /\ a <= o
    BY <1>1, <1>9
  <2>2. left \subseteq Ages
    BY DEF OrderInv, TypeOK
  <2>7. a \in 0 .. BackupCount /\ o \in 0 .. BackupCount
    BY <1>1, <2>1, <2>2 DEF Ages
  <2>8. b \in 0 .. BackupCount /\ b < o
    BY <1>12, <2>1, <2>7, LogAssumption
  <2>9. b \in Ages /\ b < o
    BY <2>8 DEF Ages
  <2>3. f < dir[b] /\ dir[b] \in Nat
    BY <1>1, <1>2, <1>3, <1>12, <2>9 DEF Files, NoFile
  <2>4. Cardinality(TornBelow(f)) \in Nat /\ Cardinality(TornBelow(dir[b])) \in Nat
        /\ Cardinality(TornBelow(f)) + Cardinality(TornIn(f)) <= Cardinality(TornBelow(dir[b]))
    BY <1>2, <1>7, <2>3
  <2>. QED
    BY <1>7, <1>10, <2>4
<1>13. LineBegun' /\ EndsFollow' /\ TornCounted' /\ Torn' = Torn /\ dir' = dir
  BY ReadTears
<1>14. InvalidCounted'
  <2>1. \A a \in left' : \A b \in 0 .. a : dir'[b] # NoFile =>
            result'.invalid <= Cardinality({t \in Torn' : t[1] < dir'[b]})
    BY <1>12, <1>13 DEF TornBelow
  <2>2. result'.invalid <= Cardinality(Torn')
    BY <1>11, <1>13
  <2>. QED
    BY <2>1, <2>2 DEF InvalidCounted, TornBelow
<1>. QED
  BY <1>13, <1>14 DEF TornInv

\* Nothing more was counted.
LEMMA NothingCounted ==
    ASSUME TornInv, reading \in {"rotated", "stamped"}, UNCHANGED writerVars,
           result'.invalid = result.invalid, left' \subseteq left
    PROVE  TornInv'
<1>1. LineBegun' /\ EndsFollow' /\ TornCounted' /\ Torn' = Torn /\ dir' = dir
  BY ReadTears
<1>2. InvalidCounted'
  <2>1. \A a \in left' : \A b \in 0 .. a : dir'[b] # NoFile =>
            result'.invalid <= Cardinality({t \in Torn' : t[1] < dir'[b]})
    BY <1>1 DEF TornInv, InvalidCounted, TornBelow
  <2>2. result'.invalid <= Cardinality(Torn')
    BY <1>1 DEF TornInv, InvalidCounted
  <2>. QED
    BY <2>1, <2>2 DEF InvalidCounted, TornBelow
<1>. QED
  BY <1>1, <1>2 DEF TornInv

LEMMA SkipCountsNothing ==
    ASSUME TypeOK, Skip
    PROVE  result'.invalid = result.invalid /\ left' \subseteq left
BY DEF Skip, TypeOK

LEMMA ReadActiveTorn ==
    ASSUME OrderInv, CachesExact, TornInv, ReadActive
    PROVE  TornInv' /\ OnlyTornLinesInvalid'
<1>1. TypeOK
  BY DEF OrderInv
<1>2. /\ reading = "rotated" /\ reading' = "done" /\ UNCHANGED writerVars
      /\ \/ 0 \notin listed /\ Deliver(NoActive, result.skipped)
         \/ 0 \in listed /\ Deliver(active, result.skipped + 1)
         \/ 0 \in listed /\ dir[0] # NoFile /\ Deliver(ActiveAfter(dir[0]), result.skipped)
  BY DEF ReadActive
<1>3. /\ LineBegun' /\ EndsFollow' /\ TornCounted' /\ crashes' = crashes
  BY <1>2, ReadTears
<1>4. TornInv'
  BY <1>2, <1>3 DEF TornInv, InvalidCounted
<1>5. /\ crashes \in Nat /\ Cardinality(Torn) \in Nat /\ IsFiniteSet(Torn) /\ Cardinality(Torn) <= crashes
      /\ result.invalid \in Nat /\ result.invalid <= Cardinality(Torn) /\ result.skipped \in Nat
  <2>1. IsFiniteSet(Torn) /\ Cardinality(Torn) <= crashes /\ result.invalid <= Cardinality(Torn)
    BY <1>2 DEF TornInv, TornCounted, InvalidCounted
  <2>2. result.invalid \in Nat /\ result.skipped \in 0 .. Cardinality(listed) /\ Cardinality(listed) \in Nat
    BY <1>1, LeftFacts DEF TypeOK
  <2>. QED
    BY <1>1, <2>1, <2>2, WriterFacts, LogAssumption, FS_CardinalityType
<1>6. ASSUME NEW known, NEW skipped, Deliver(known, skipped),
             skipped = 0 => known.invalid \in Nat /\ result.invalid + known.invalid <= crashes
      PROVE  OnlyTornLinesInvalid'
  <2>1. CASE skipped = Cardinality(listed) /\ listed # {}
    BY <1>6, <2>1 DEF Deliver, OnlyTornLinesInvalid, Delivered, NoResult
  <2>2. CASE ~ (skipped = Cardinality(listed) /\ listed # {})
    <3>1. result' = [records  |-> result.records \o known.records, skipped  |-> skipped,
                     invalid  |-> result.invalid + known.invalid, readable |-> TRUE]
      BY <1>6, <2>2 DEF Deliver
    <3>2. result'.skipped = skipped /\ result'.invalid = result.invalid + known.invalid
      BY <3>1
    <3>. QED
      BY <1>3, <1>6, <3>2 DEF OnlyTornLinesInvalid
  <2>. QED
    BY <2>1, <2>2
<1>7. CASE 0 \notin listed /\ Deliver(NoActive, result.skipped)
  <2>1. NoActive.invalid = 0
    BY DEF NoActive
  <2>2. NoActive.invalid \in Nat /\ result.invalid + NoActive.invalid <= crashes
    BY <1>5, <2>1
  <2>. QED
    BY <1>4, <1>6, <1>7, <2>2
<1>8. CASE 0 \in listed /\ Deliver(active, result.skipped + 1)
  <2>1. result.skipped + 1 # 0
    BY <1>5
  <2>. QED
    BY <1>4, <1>6, <1>8, <2>1
<1>9. CASE 0 \in listed /\ dir[0] # NoFile /\ Deliver(ActiveAfter(dir[0]), result.skipped)
  <2>. PICK f, known : f = dir[0] /\ known = ActiveAfter(f)
    OBVIOUS
  <2>1. f \in Files /\ f \in Nat /\ known.invalid \in Nat
    <3>1. f \in Files /\ known \in KnownType
      BY <1>9, ActiveAfterFacts
    <3>. QED
      BY <3>1 DEF Files, KnownType
  <2>2. known.invalid <= Cardinality(Damaged(content[f], Len(content[f])))
        /\ IsFiniteSet(Damaged(content[f], Len(content[f])))
    BY <1>9, ActiveAfterExact DEF CachesExact
  <2>3. Cardinality(Damaged(content[f], Len(content[f]))) <= Cardinality(TornIn(f))
    BY <1>1, <1>5, <2>1, DamagedTorn DEF TornInv, TypeOK
  <2>4. /\ Cardinality(TornBelow(f)) + Cardinality(TornIn(f)) <= Cardinality(Torn)
        /\ Cardinality(TornBelow(f)) \in Nat /\ Cardinality(TornIn(f)) \in Nat
    BY <1>5, <2>1, TornAdds
  <2>5. result.invalid <= Cardinality(TornBelow(f))
    <3>1. 0 \in left /\ 0 \in 0 .. 0
      BY <1>2, <1>9 DEF OrderInv, Progress
    <3>. QED
      BY <1>2, <1>9, <3>1 DEF TornInv, InvalidCounted
  <2>6. known.invalid <= Cardinality(TornIn(f))
    BY <2>1, <2>2, <2>3, <2>4, FS_CardinalityType
  <2>7. result.invalid + known.invalid <= crashes
    BY <1>5, <2>1, <2>4, <2>5, <2>6
  <2>. QED
    BY <1>4, <1>6, <1>9, <2>1, <2>7
<1>. QED
  BY <1>2, <1>7, <1>8, <1>9

LEMMA ReadStepTorn ==
    ASSUME OrderInv, CachesExact, TornInv, Read
    PROVE  TornInv' /\ OnlyTornLinesInvalid'
<1>1. TypeOK
  BY DEF OrderInv
<1>2. ASSUME reading' # "done"
      PROVE  OnlyTornLinesInvalid'
  BY <1>2 DEF OnlyTornLinesInvalid, Delivered
<1>3. CASE BeginRead
  <2>1. reading' = "rotated" /\ result' = NoResult /\ UNCHANGED writerVars
    BY <1>3 DEF BeginRead
  <2>2. /\ LineBegun' /\ EndsFollow' /\ TornCounted'
    BY <2>1, ReadTears
  <2>3. IsFiniteSet(Torn')
    BY <2>2 DEF TornCounted
  <2>4. Cardinality(Torn') \in Nat /\ \A g : Cardinality({t \in Torn' : t[1] < g}) \in Nat
    <3>1. \A g : {t \in Torn' : t[1] < g} \in SUBSET Torn'
      OBVIOUS
    <3>. QED
      BY <2>3, <3>1, FS_Subset, FS_CardinalityType
  <2>5. result'.invalid = 0
    BY <2>1 DEF NoResult
  <2>6. InvalidCounted'
    BY <2>4, <2>5 DEF InvalidCounted, TornBelow
  <2>. QED
    BY <1>2, <2>1, <2>2, <2>6 DEF TornInv
<1>4. CASE StatRotated
  <2>1. /\ reading = "rotated" /\ reading' \in {"rotated", "stamped"} /\ left \cap Rotated # {}
        /\ UNCHANGED writerVars
    BY <1>4 DEF StatRotated
  <2>2. \/ Skip
        \/ /\ dir[Oldest] # NoFile /\ cache[Oldest].stamp = StampOf(dir[Oldest])
           /\ Collect(cache[Oldest])
        \/ UNCHANGED <<left, result>>
    BY <1>4 DEF StatRotated
  <2>3. CASE Skip
    BY <1>1, <1>2, <2>1, <2>3, SkipCountsNothing, NothingCounted
  <2>4. CASE /\ dir[Oldest] # NoFile /\ cache[Oldest].stamp = StampOf(dir[Oldest])
             /\ Collect(cache[Oldest])
    <3>1. PICK entry : entry = cache[Oldest]
      OBVIOUS
    <3>2. entry.invalid = Invalid(content[dir[Oldest]]) /\ Collect(entry)
      BY <2>1, <2>4, <3>1, CacheHit
    <3>. QED
      BY <1>2, <2>1, <2>4, <3>2, CollectTorn
  <2>5. CASE UNCHANGED <<left, result>>
    BY <1>2, <2>1, <2>5, NothingCounted
  <2>. QED
    BY <2>2, <2>3, <2>4, <2>5
<1>5. CASE ReadRotated
  <2>. DEFINE data == content[dir[Oldest]]
  <2>1. /\ reading = "stamped" /\ reading' = "rotated" /\ UNCHANGED writerVars
        /\ \/ Skip
           \/ /\ dir[Oldest] # NoFile
              /\ Collect([stamp |-> stamp, records |-> Parse(data), invalid |-> Invalid(data)])
    BY <1>5 DEF ReadRotated
  <2>2. left \cap Rotated # {}
    BY <2>1 DEF OrderInv, Progress
  <2>3. CASE Skip
    BY <1>1, <1>2, <2>1, <2>3, SkipCountsNothing, NothingCounted
  <2>4. CASE /\ dir[Oldest] # NoFile
             /\ Collect([stamp |-> stamp, records |-> Parse(data), invalid |-> Invalid(data)])
    <3>1. PICK entry : entry = [stamp |-> stamp, records |-> Parse(data), invalid |-> Invalid(data)]
      OBVIOUS
    <3>2. entry.invalid = Invalid(data) /\ Collect(entry)
      BY <2>4, <3>1
    <3>. QED
      BY <1>2, <2>1, <2>2, <2>4, <3>2, CollectTorn
  <2>. QED
    BY <2>1, <2>3, <2>4
<1>6. CASE ReadActive
  BY <1>6, ReadActiveTorn
<1>. QED
  BY <1>3, <1>4, <1>5, <1>6 DEF Read

-----------------------------------------------------------------------------
\* Nothing else is lost.

LossInv == CachesExact /\ QuietSoFar /\ TornInv /\ NothingElseLost

LEMMA InitLoss == Init => LossInv
<1>. SUFFICES ASSUME Init PROVE LossInv
  OBVIOUS
<1>1. /\ content = << <<>> >> /\ Len(content) = 1 /\ content[1] = <<>> /\ Len(content[1]) = 0
      /\ writer.at = "ready" /\ crashes = 0 /\ reading = "idle" /\ quiet = FALSE
      /\ active = NoActive /\ cache = [a \in Rotated |-> NoCache]
  BY DEF Init, Ready
<1>2. Files = {1}
  BY <1>1 DEF Files
<1>3. CachesExact
  <2>1. NoCache.stamp.file = NoFile
    BY DEF NoCache, NoStamp
  <2>. QED
    BY <1>1, <2>1 DEF CachesExact, ExactEntry, KnownExact
<1>4. Torn = {}
  BY <1>1, <1>2 DEF Torn, IsTorn
<1>5. TornCounted
  BY <1>1, <1>4, FS_EmptySet DEF TornCounted
<1>6. LineBegun /\ EndsFollow /\ InvalidCounted
  BY <1>1, <1>2 DEF LineBegun, EndsFollow, Ends, InvalidCounted
<1>7. QuietSoFar /\ NothingElseLost
  BY <1>1 DEF QuietSoFar, NothingElseLost, QuietReadsComplete, OnlyTornLinesInvalid, Delivered
<1>. QED
  BY <1>3, <1>5, <1>6, <1>7 DEF LossInv, TornInv

LEMMA IdleLoss ==
    ASSUME LossInv, UNCHANGED vars
    PROVE  LossInv'
<1>1. /\ content' = content /\ dir' = dir /\ written' = written /\ writer' = writer /\ crashes' = crashes
      /\ reading' = reading /\ listed' = listed /\ left' = left /\ stamp' = stamp /\ cache' = cache
      /\ active' = active /\ result' = result /\ quiet' = quiet /\ before' = before
  BY DEF vars, writerVars, readerVars, historyVars
<1>2. CachesExact'
  BY <1>1 DEF LossInv, CachesExact, ExactEntry, KnownExact, Gone, Covers, Damaged
<1>3. QuietSoFar'
  BY <1>1 DEF LossInv, QuietSoFar, Within, Ahead
<1>4. LineBegun' /\ EndsFollow' /\ TornCounted' /\ Torn' = Torn
  BY <1>1, ReadTears DEF LossInv, writerVars
<1>5. InvalidCounted'
  BY <1>1, <1>4 DEF LossInv, TornInv, InvalidCounted, TornBelow
<1>6. NothingElseLost'
  BY <1>1 DEF LossInv, NothingElseLost, QuietReadsComplete, OnlyTornLinesInvalid, Delivered
<1>. QED
  BY <1>2, <1>3, <1>4, <1>5, <1>6 DEF LossInv, TornInv

LEMMA WriteLoss ==
    ASSUME OrderInv, LossInv, Write
    PROVE  LossInv'
<1>1. OrderInv' /\ Written
  BY WriteStep
<1>2. CachesExact'
  BY <1>1, WrittenKeepsExact DEF LossInv
<1>3. QuietSoFar' /\ QuietReadsComplete'
  BY <1>1, WrittenKeepsQuiet DEF LossInv, NothingElseLost
<1>4. TornInv' /\ OnlyTornLinesInvalid'
  BY <1>1, WrittenKeepsTorn DEF LossInv, NothingElseLost
<1>. QED
  BY <1>2, <1>3, <1>4 DEF LossInv, NothingElseLost

LEMMA ReadLoss ==
    ASSUME OrderInv, LossInv, Read
    PROVE  LossInv'
<1>1. CachesExact'
  BY ReadStepExact DEF LossInv
<1>2. QuietSoFar' /\ QuietReadsComplete'
  BY ReadStepQuiet DEF LossInv
<1>3. TornInv' /\ OnlyTornLinesInvalid'
  BY ReadStepTorn DEF LossInv
<1>. QED
  BY <1>1, <1>2, <1>3 DEF LossInv, NothingElseLost

\* What the caches know, what a quiet read has yet to find and what was torn account
\* for all that a snapshot misses, in every reachable state
\* (metrics.LogReader._read_rotated and _read_active_increment).
THEOREM LossInvariance == Spec => []LossInv
<1>1. OrderInv /\ LossInv /\ [Next]_vars => LossInv'
  BY WriteLoss, ReadLoss, IdleLoss DEF Next
<1>. QED
  BY OrderInvariance, InitLoss, <1>1, PTL DEF Spec

\* A snapshot during which no file moved has every record that could be read when it
\* began, and a snapshot that skipped no file finds at most one invalid line for each
\* time the gateway was killed (metrics.LogReader._read_locked).
THEOREM NothingIsLost == Spec => []NothingElseLost
<1>1. LossInv => NothingElseLost
  BY DEF LossInv
<1>. QED
  BY LossInvariance, <1>1, PTL

-----------------------------------------------------------------------------
\* The summaries.

Data == {Logged[r] : r \in Records}

\* The sequence s has what was logged for each record of R, once.
Lists(s, R) ==
    /\ s \in Seq(Data)
    /\ \E f : /\ \A k \in 1 .. Len(s) : f[k] \in R /\ s[k] = Logged[f[k]]
              /\ \A k, l \in 1 .. Len(s) : f[k] = f[l] => k = l
              /\ \A r \in R : \E k \in 1 .. Len(s) : f[k] = r

\* Where in s, and which of the records in R, one of C is.
Found(s, C) == {i \in 1 .. Len(s) : s[i] \in C}
Among(R, C) == {r \in R : Logged[r] \in C}

\* Keeping some of what is listed lists some of the records.
LEMMA ListsKept ==
    ASSUME NEW R, NEW s, Lists(s, R), NEW C
    PROVE  Lists(Kept(s, Found(s, C)), Among(R, C))
<1>. DEFINE
    I == Found(s, C)
    u == Kept(s, I)
    Q == Among(R, C)
<1>. USE DEF Found, Among
<1>1. s \in Seq(Data)
  BY DEF Lists
<1>2. PICK f : /\ \A k \in 1 .. Len(s) : f[k] \in R /\ s[k] = Logged[f[k]]
               /\ \A k, l \in 1 .. Len(s) : f[k] = f[l] => k = l
               /\ \A r \in R : \E k \in 1 .. Len(s) : f[k] = r
  BY DEF Lists
<1>3. I \in SUBSET (1 .. Len(s))
  OBVIOUS
<1>4. u \in Seq(Data) /\ \E p : Picks(p, u, s, I)
  <2>. HIDE DEF I
  <2>. QED
    BY <1>1, <1>3, KeptElements
<1>5. PICK p : Picks(p, u, s, I)
  BY <1>4
<1>6. Len(u) \in Nat
  BY <1>4, LenProperties
<1>. HIDE DEF u
<1>7. /\ \A k \in 1 .. Len(u) : p[k] \in I /\ u[k] = s[p[k]]
      /\ \A k, l \in 1 .. Len(u) : p[k] = p[l] => k = l
      /\ \A i \in I : \E k \in 1 .. Len(u) : p[k] = i
  <2>1. \A k, l \in 1 .. Len(u) : p[k] = p[l] => k = l
    <3>1. \A k \in 1 .. Len(u) : p[k] \in Int
      BY <1>5 DEF Picks
    <3>2. \A k, l \in 1 .. Len(u) : k < l => p[k] < p[l]
      BY <1>5 DEF Picks
    <3>. QED
      BY <3>1, <3>2
  <2>. HIDE DEF I
  <2>. QED
    BY <1>5, <2>1 DEF Picks
<1>. DEFINE g == [k \in 1 .. Len(u) |-> f[p[k]]]
<1>8. \A k \in 1 .. Len(u) : g[k] \in Q /\ u[k] = Logged[g[k]]
  BY <1>2, <1>7
<1>9. \A k, l \in 1 .. Len(u) : g[k] = g[l] => k = l
  BY <1>2, <1>7
<1>10. \A r \in Q : \E k \in 1 .. Len(u) : g[k] = r
  <2>1. SUFFICES ASSUME NEW r \in R, Logged[r] \in C
                 PROVE  \E k \in 1 .. Len(u) : g[k] = r
    OBVIOUS
  <2>2. PICK i \in 1 .. Len(s) : f[i] = r
    BY <1>2
  <2>3. i \in I
    BY <1>2, <2>1, <2>2
  <2>. QED
    BY <1>7, <2>2, <2>3
<1>. HIDE DEF g, Q, I
<1>11. Lists(u, Q)
  BY <1>4, <1>8, <1>9, <1>10 DEF Lists
<1>. QED
  BY <1>11 DEF u, Q, I

\* As many entries of a list are so as records.
LEMMA ListsCount ==
    ASSUME NEW R, NEW s, Lists(s, R), NEW C
    PROVE  /\ IsFiniteSet(Among(R, C)) /\ Cardinality(Among(R, C)) \in Nat
           /\ Cardinality(Found(s, C)) = Cardinality(Among(R, C))
<1>. DEFINE
    counted == Found(s, C)
    Q == Among(R, C)
<1>. USE DEF Found, Among
<1>1. Len(s) \in Nat
  BY LenProperties DEF Lists
<1>2. PICK f : /\ \A k \in 1 .. Len(s) : f[k] \in R /\ s[k] = Logged[f[k]]
               /\ \A k, l \in 1 .. Len(s) : f[k] = f[l] => k = l
               /\ \A r \in R : \E k \in 1 .. Len(s) : f[k] = r
  BY DEF Lists
<1>. DEFINE g == [k \in counted |-> f[k]]
<1>3. g \in [counted -> Q]
  BY <1>2
<1>4. \A k, l \in counted : g[k] = g[l] => k = l
  BY <1>2
<1>5. \A r \in Q : \E k \in counted : g[k] = r
  <2>1. SUFFICES ASSUME NEW r \in R, Logged[r] \in C
                 PROVE  \E k \in counted : g[k] = r
    OBVIOUS
  <2>2. PICK k \in 1 .. Len(s) : f[k] = r
    BY <1>2
  <2>3. k \in counted
    BY <1>2, <2>1, <2>2
  <2>. QED
    BY <2>2, <2>3
<1>6. counted \in SUBSET (1 .. Len(s))
  OBVIOUS
<1>. HIDE DEF g, counted, Q
<1>7. IsFiniteSet(counted)
  BY <1>1, <1>6, PositionsFinite
<1>8. IsFiniteSet(Q) /\ Cardinality(Q) = Cardinality(counted) /\ Cardinality(counted) \in Nat
  BY <1>3, <1>4, <1>5, <1>7, EquallyMany
<1>. QED
  BY <1>8 DEF counted, Q

\* A list is as long as its records are many.
LEMMA ListsLength ==
    ASSUME NEW R, NEW s, Lists(s, R)
    PROVE  IsFiniteSet(R) /\ Cardinality(R) = Len(s) /\ Len(s) \in Nat
<1>. DEFINE C == {Logged[r] : r \in R}
<1>1. Len(s) \in Nat
  BY LenProperties DEF Lists
<1>2. Among(R, C) = R
  BY DEF Among
<1>3. Found(s, C) = 1 .. Len(s)
  <2>1. \A k \in 1 .. Len(s) : \E r \in R : s[k] = Logged[r]
    BY DEF Lists
  <2>2. \A k \in 1 .. Len(s) : s[k] \in C
    BY <2>1
  <2>. HIDE DEF C
  <2>. QED
    BY <2>2 DEF Found
<1>. HIDE DEF C
<1>4. IsFiniteSet(R) /\ Cardinality(1 .. Len(s)) = Cardinality(R)
  <2>1. /\ IsFiniteSet(Among(R, C))
        /\ Cardinality(Found(s, C)) = Cardinality(Among(R, C))
    BY ListsCount
  <2>. QED
    BY <1>2, <1>3, <2>1
<1>5. Cardinality(1 .. Len(s)) = Len(s)
  BY <1>1, FS_Interval
<1>. QED
  BY <1>1, <1>4, <1>5

\* How many of the first n have each key.
CountedBy(P, n, key) == [p \in P |-> Cardinality({i \in 1 .. n : key[i] = p})]

\* Counting under each of P what is under it counts everything.
LEMMA TotalCounts ==
    ASSUME NEW P, NEW n \in Nat, NEW key, \A i \in 1 .. n : key[i] \in P
    PROVE  Total(CountedBy(P, n, key)) = n
<1>. DEFINE
    own(p, m) == {i \in 1 .. m : key[i] = p}
    counted(m) == UNION {{p} \X (1 .. Cardinality(own(p, m))) : p \in P}
    Q == {m \in Nat : m <= n => IsFiniteSet(counted(m)) /\ Cardinality(counted(m)) = m}
<1>1. \A m \in Nat : \A p : IsFiniteSet(own(p, m)) /\ Cardinality(own(p, m)) \in Nat
  <2>1. \A m \in Nat : \A p : own(p, m) \in SUBSET (1 .. m)
    OBVIOUS
  <2>. HIDE DEF own
  <2>. QED
    BY <2>1, PositionsFinite
<1>2. 0 \in Q
  <2>1. \A p : own(p, 0) = {}
    OBVIOUS
  <2>2. \A p : Cardinality(own(p, 0)) = 0
    <3>. HIDE DEF own
    <3>. QED
      BY <2>1, FS_EmptySet
  <2>3. counted(0) = {}
    <3>. HIDE DEF own
    <3>. QED
      BY <2>2
  <2>. HIDE DEF counted
  <2>. QED
    BY <2>3, FS_EmptySet
<1>3. ASSUME NEW m \in Nat, m \in Q PROVE m + 1 \in Q
  <2>. SUFFICES ASSUME m + 1 <= n
                PROVE  /\ IsFiniteSet(counted(m + 1)) /\ Cardinality(counted(m + 1)) = m + 1
    OBVIOUS
  <2>1. m <= n /\ m + 1 \in 1 .. n /\ m \notin 1 .. 0 /\ m + 1 \notin 1 .. m
        /\ \A i : i \in 1 .. m + 1 <=> i \in 1 .. m \/ i = m + 1
    OBVIOUS
  <2>2. IsFiniteSet(counted(m)) /\ Cardinality(counted(m)) = m
    <3>. HIDE DEF counted
    <3>. QED
      BY <1>3, <2>1
  <2>. DEFINE new == key[m + 1]
              k == Cardinality(own(new, m))
  <2>3. new \in P /\ k \in Nat
    <3>. HIDE DEF own
    <3>. QED
      BY <1>1, <2>1
  <2>4. \A p : p # new => own(p, m + 1) = own(p, m)
    BY <2>1
  <2>5. own(new, m + 1) = own(new, m) \cup {m + 1} /\ m + 1 \notin own(new, m)
    BY <2>1
  <2>. HIDE DEF own, new
  <2>6. Cardinality(own(new, m + 1)) = k + 1
    BY <1>1, <2>5, FS_AddElement
  <2>7. 1 .. k + 1 = (1 .. k) \cup {k + 1} /\ k + 1 \notin 1 .. k
    BY <2>3
  <2>8. counted(m + 1) = counted(m) \cup {<<new, k + 1>>}
    <3>1. \A p \in P : p # new => Cardinality(own(p, m + 1)) = Cardinality(own(p, m))
      BY <2>4
    <3>2. Cardinality(own(new, m)) = k
      OBVIOUS
    <3>. HIDE DEF k
    <3>3. \A p \in P : \A i : i \in 1 .. Cardinality(own(p, m + 1)) <=>
                          i \in 1 .. Cardinality(own(p, m)) \/ (p = new /\ i = k + 1)
      <4>1. ASSUME NEW p \in P, p # new, NEW i
            PROVE  i \in 1 .. Cardinality(own(p, m + 1)) <=> i \in 1 .. Cardinality(own(p, m))
        BY <3>1, <4>1
      <4>2. ASSUME NEW i
            PROVE  i \in 1 .. Cardinality(own(new, m + 1)) <=>
                   i \in 1 .. Cardinality(own(new, m)) \/ i = k + 1
        BY <2>6, <2>7, <3>2
      <4>. QED
        BY <4>1, <4>2
    <3>4. \A x : x \in counted(m + 1) <=>
                 \E p \in P : \E i \in 1 .. Cardinality(own(p, m + 1)) : x = <<p, i>>
      OBVIOUS
    <3>5. \A x : x \in counted(m) <=>
                 \E p \in P : \E i \in 1 .. Cardinality(own(p, m)) : x = <<p, i>>
      OBVIOUS
    <3>. HIDE DEF counted
    <3>. QED
      BY <2>3, <3>3, <3>4, <3>5
  <2>9. <<new, k + 1>> \notin counted(m)
    <3>1. \A x : x \in counted(m) => \E p \in P : \E i \in 1 .. Cardinality(own(p, m)) : x = <<p, i>>
      OBVIOUS
    <3>2. \A p, i : <<new, k + 1>> = <<p, i>> => p = new /\ i = k + 1
      OBVIOUS
    <3>3. k + 1 \notin 1 .. Cardinality(own(new, m))
      BY <2>7
    <3>. HIDE DEF counted, k
    <3>. QED
      BY <3>1, <3>2, <3>3
  <2>. HIDE DEF counted, k
  <2>. QED
    BY <2>2, <2>8, <2>9, FS_AddElement
<1>. HIDE DEF Q
<1>4. \A m \in Nat : m \in Q
  BY <1>2, <1>3, AllNaturals
<1>5. Cardinality(counted(n)) = n
  <2>1. n \in Q /\ n <= n
    BY <1>4
  <2>. HIDE DEF own, counted
  <2>. QED
    BY <2>1 DEF Q
<1>6. Total(CountedBy(P, n, key)) = Cardinality(counted(n))
  <2>. DEFINE counts == CountedBy(P, n, key)
  <2>1. DOMAIN counts = P /\ \A p \in P : counts[p] = Cardinality(own(p, n))
    BY DEF CountedBy
  <2>. HIDE DEF counts, own
  <2>2. UNION {{p} \X (1 .. counts[p]) : p \in DOMAIN counts} = counted(n)
    <3>1. {{p} \X (1 .. counts[p]) : p \in DOMAIN counts}
              = {{p} \X (1 .. Cardinality(own(p, n))) : p \in P}
      BY <2>1, Zenon
    <3>. QED
      BY <3>1, Zenon
  <2>. HIDE DEF counted
  <2>3. Total(counts) = Cardinality(counted(n))
    BY <2>2 DEF Total
  <2>. QED
    BY <2>3 DEF counts
<1>. QED
  BY <1>5, <1>6

\* What the fields of what is logged may be.
LEMMA DataType ==
    ASSUME NEW x \in Data
    PROVE  /\ x.startedAt \in Nat \cup {NotGiven}
           /\ x.duration \in Nat \cup {NotGiven}
           /\ x.status \in (Nat \ {0}) \cup {NotGiven}
           /\ x.completed \in BOOLEAN
  BY MonitorAssumption DEF Data

\* What is read of distinct records lists them.
LEMMA AllListed ==
    ASSUME NEW rs \in Seq(Records), \A k, l \in 1 .. Len(rs) : rs[k] = rs[l] => k = l
    PROVE  Lists([i \in DOMAIN rs |-> Logged[rs[i]]], Range(rs))
<1>. DEFINE recs == [i \in DOMAIN rs |-> Logged[rs[i]]]
<1>1. Len(rs) \in Nat /\ DOMAIN rs = 1 .. Len(rs) /\ \A i \in 1 .. Len(rs) : rs[i] \in Records
  BY LenProperties
<1>2. \A i \in 1 .. Len(rs) : Logged[rs[i]] \in Data
  BY <1>1 DEF Data
<1>3. recs \in Seq(Data) /\ Len(recs) = Len(rs)
  <2>. HIDE DEF Data
  <2>. QED
    BY <1>1, <1>2, IsASeq
<1>4. /\ \A k \in 1 .. Len(rs) : rs[k] \in Range(rs) /\ recs[k] = Logged[rs[k]]
      /\ \A r \in Range(rs) : \E k \in 1 .. Len(rs) : rs[k] = r
  BY <1>1 DEF Range
<1>. HIDE DEF recs, Data
<1>5. Lists(recs, Range(rs))
  BY <1>3, <1>4 DEF Lists
<1>. QED
  BY <1>5 DEF recs

\* What summaries select from what was read.
InWindowData(w) == {x \in Data : InWindow(x, Now, w)}
InferenceData == {x \in Data : x.inference}
ErrorData == {x \in Data : IsOperationalError(x)}
ServedData == {x \in Data : ~IsOperationalError(x)}
RunningData(w) == {x \in Data : Overlaps(x, Now, w)}
TimedData == {x \in Data : x["duration"] # NotGiven}

InWindowRecords(recs, w) == Filtered(recs, LAMBDA r : InWindow(r, Now, w))
RequestRecords(recs, w) == Filtered(InWindowRecords(recs, w), LAMBDA r : r.inference)
ServedRecords(recs, w) == Filtered(RequestRecords(recs, w), LAMBDA r : ~IsOperationalError(r))
RunningRecords(recs, w) == Filtered(recs, LAMBDA r : Overlaps(r, Now, w))
TimedRecords(recs, w) == Filtered(ServedRecords(recs, w), LAMBDA r : r["duration"] # NotGiven)

Selected(R, w) == {r \in R : InWindow(Logged[r], Now, w) /\ Logged[r].inference}

\* The selections list what they are of.
LEMMA SelectionsList ==
    ASSUME NEW R \in SUBSET Records, NEW recs, Lists(recs, R), NEW w
    PROVE  /\ Lists(RequestRecords(recs, w), Selected(R, w))
           /\ Lists(TimedRecords(recs, w),
                    {r \in Selected(R, w) : Logged[r].duration # NotGiven /\
                                            ~IsOperationalError(Logged[r])})
           /\ Lists(RunningRecords(recs, w), {r \in R : Overlaps(Logged[r], Now, w)})
<1>1. ASSUME NEW s, NEW Q, Lists(s, Q)
      PROVE  DOMAIN s = 1 .. Len(s) /\ \A i \in 1 .. Len(s) : s[i] \in Data
  BY <1>1, LenProperties DEF Lists
<1>2. \A r \in R : Logged[r] \in Data
  BY DEF Data
<1>3. Lists(InWindowRecords(recs, w), Among(R, InWindowData(w)))
  <2>1. InWindowRecords(recs, w) = Kept(recs, Found(recs, InWindowData(w)))
    <3>1. {i \in DOMAIN recs : InWindow(recs[i], Now, w)} = Found(recs, InWindowData(w))
      BY <1>1 DEF Found, InWindowData
    <3>. QED
      BY <3>1 DEF InWindowRecords, Filtered
  <2>. QED
    BY <2>1, ListsKept
<1>. DEFINE
    s1 == InWindowRecords(recs, w)
    R1 == Among(R, InWindowData(w))
    s2 == RequestRecords(recs, w)
    s3 == ServedRecords(recs, w)
<1>4. Lists(s2, Selected(R, w))
  <2>1. s2 = Kept(s1, Found(s1, InferenceData))
    <3>1. {i \in DOMAIN s1 : s1[i].inference} = Found(s1, InferenceData)
      BY <1>1, <1>3 DEF Found, InferenceData
    <3>. QED
      BY <3>1 DEF RequestRecords, Filtered
  <2>2. Among(R1, InferenceData) = Selected(R, w)
    BY <1>2 DEF Among, InferenceData, InWindowData, Selected
  <2>. HIDE DEF s1, R1, s2
  <2>3. Lists(Kept(s1, Found(s1, InferenceData)), Among(R1, InferenceData))
    BY <1>3, ListsKept DEF s1, R1
  <2>. QED
    BY <2>1, <2>2, <2>3
<1>. DEFINE R3 == Among(Selected(R, w), ServedData)
<1>5. Lists(s3, R3)
  <2>1. s3 = Kept(s2, Found(s2, ServedData))
    <3>1. {i \in DOMAIN s2 : ~IsOperationalError(s2[i])} = Found(s2, ServedData)
      BY <1>1, <1>4 DEF Found, ServedData
    <3>. QED
      BY <3>1 DEF ServedRecords, Filtered
  <2>. HIDE DEF s2, s3
  <2>. QED
    BY <1>4, <2>1, ListsKept
<1>6. Lists(TimedRecords(recs, w),
            {r \in Selected(R, w) : Logged[r].duration # NotGiven /\ ~IsOperationalError(Logged[r])})
  <2>1. TimedRecords(recs, w) = Kept(s3, Found(s3, TimedData))
    <3>1. {i \in DOMAIN s3 : s3[i]["duration"] # NotGiven} = Found(s3, TimedData)
      BY <1>1, <1>5 DEF Found, TimedData
    <3>. QED
      BY <3>1 DEF TimedRecords, Filtered
  <2>2. Among(R3, TimedData) =
            {r \in Selected(R, w) : Logged[r].duration # NotGiven /\ ~IsOperationalError(Logged[r])}
    BY <1>2 DEF Among, ServedData, TimedData, Selected
  <2>. HIDE DEF s3, R3
  <2>3. Lists(Kept(s3, Found(s3, TimedData)), Among(R3, TimedData))
    BY <1>5, ListsKept
  <2>. QED
    BY <2>1, <2>2, <2>3
<1>7. Lists(RunningRecords(recs, w), {r \in R : Overlaps(Logged[r], Now, w)})
  <2>1. RunningRecords(recs, w) = Kept(recs, Found(recs, RunningData(w)))
    <3>1. {i \in DOMAIN recs : Overlaps(recs[i], Now, w)} = Found(recs, RunningData(w))
      BY <1>1 DEF Found, RunningData
    <3>. QED
      BY <3>1 DEF RunningRecords, Filtered
  <2>2. Among(R, RunningData(w)) = {r \in R : Overlaps(Logged[r], Now, w)}
    BY <1>2 DEF Among, RunningData
  <2>. QED
    BY <2>1, <2>2, ListsKept
<1>. QED
  BY <1>4, <1>6, <1>7

\* Where in s each kind is.
ErrorsIn(s) == {i \in DOMAIN s : IsOperationalError(s[i])}
RefusedIn(s) == {i \in DOMAIN s : IsClientError(s[i])}
ProvidersIn(s) == [p \in {s[i].provider : i \in DOMAIN s} |->
                      Cardinality({i \in DOMAIN s : s[i].provider = p})]

DurationsOf(s) == [i \in DOMAIN s |-> s[i]["duration"]]
SpansOf(s) == [i \in DOMAIN s |-> [from |-> s[i].startedAt, to |-> s[i].startedAt + s[i].duration]]

\* What a summary is made of.
LEMMA SummaryParts ==
    ASSUME NEW recs, NEW w
    PROVE  LET requests == RequestRecords(recs, w)
               summary == Summary(recs, Now, w)
           IN  /\ summary.count = Len(requests)
               /\ summary.operationalErrors = Cardinality(ErrorsIn(requests))
               /\ summary.clientErrors = Cardinality(RefusedIn(requests))
               /\ summary.providers = ProvidersIn(requests)
               /\ summary.total = LatencySummary(DurationsOf(TimedRecords(recs, w)))
               /\ summary.maxConcurrency = MaxOverlap(SpansOf(RunningRecords(recs, w)))
<1>1. InWindowRecords(recs, w) = Filtered(recs, LAMBDA r : InWindow(r, Now, w))
  BY DEF InWindowRecords
<1>2. RequestRecords(recs, w) = Filtered(InWindowRecords(recs, w), LAMBDA r : r.inference)
  BY DEF RequestRecords
<1>3. ServedRecords(recs, w) = Filtered(RequestRecords(recs, w), LAMBDA r : ~IsOperationalError(r))
  BY DEF ServedRecords
<1>4. RunningRecords(recs, w) = Filtered(recs, LAMBDA r : Overlaps(r, Now, w))
  BY DEF RunningRecords
<1>5. DurationsOf(TimedRecords(recs, w)) = Values(ServedRecords(recs, w), "duration")
  BY DEF DurationsOf, TimedRecords, Values
<1>. DEFINE
    requests == RequestRecords(recs, w)
    summary == Summary(recs, Now, w)
<1>6. summary.count = Len(requests)
  BY <1>1, <1>2 DEF Summary
<1>7. /\ summary.operationalErrors = Cardinality(ErrorsIn(requests))
      /\ summary.clientErrors = Cardinality(RefusedIn(requests))
  BY <1>1, <1>2 DEF Summary, CountBy, ErrorsIn, RefusedIn
<1>8. summary.providers = ProvidersIn(requests)
  BY <1>1, <1>2 DEF Summary, CountBy, ProvidersIn
<1>9. summary.total = LatencySummary(DurationsOf(TimedRecords(recs, w)))
  BY <1>1, <1>2, <1>3, <1>5 DEF Summary
<1>10. summary.maxConcurrency = MaxOverlap(SpansOf(RunningRecords(recs, w)))
  BY <1>4 DEF Summary, SpansOf
<1>. QED
  BY <1>6, <1>7, <1>8, <1>9, <1>10

\* Three sets with nothing in common.
LEMMA ThreeParts ==
    ASSUME NEW A, NEW B, NEW C, IsFiniteSet(A), IsFiniteSet(B), IsFiniteSet(C),
           A \cap B = {}, (A \cup B) \cap C = {}
    PROVE  Cardinality(A \cup B \cup C) = Cardinality(A) + Cardinality(B) + Cardinality(C)
<1>. DEFINE D == A \cup B
<1>1. Cardinality({}) = 0
  BY FS_EmptySet
<1>2. Cardinality(A) \in Nat /\ Cardinality(B) \in Nat /\ Cardinality(C) \in Nat
  BY FS_CardinalityType
<1>3. IsFiniteSet(D) /\ Cardinality(D) = Cardinality(A) + Cardinality(B) - Cardinality(A \cap B)
  BY FS_Union
<1>4. D \cap C = {}
  OBVIOUS
<1>. HIDE DEF D
<1>5. Cardinality(D \cup C) = Cardinality(D) + Cardinality(C) - Cardinality(D \cap C)
  BY <1>3, FS_Union
<1>6. Cardinality(D \cup C) = Cardinality(A) + Cardinality(B) + Cardinality(C)
  <2>1. Cardinality(A \cap B) = 0 /\ Cardinality(D \cap C) = 0
    BY <1>1, <1>4, Zenon
  <2>. QED
    BY <1>2, <1>3, <1>5, <2>1
<1>. QED
  BY <1>6 DEF D

\* Each request is counted once: under its provider, and as an error, as a client's or as served.
LEMMA EachCountedOnce ==
    ASSUME NEW R \in SUBSET Records, NEW recs, Lists(recs, R), NEW w
    PROVE  LET summary == Summary(recs, Now, w)
               served == {r \in Selected(R, w) : Logged[r].completed /\ Logged[r].status \in 1 .. 399}
           IN  /\ summary.count = Cardinality(Selected(R, w))
               /\ Total(summary.providers) = summary.count
               /\ summary.operationalErrors + summary.clientErrors + Cardinality(served)
                      = summary.count
<1>. DEFINE
    requests == RequestRecords(recs, w)
    summary == Summary(recs, Now, w)
    Q == Selected(R, w)
    served == {r \in Q : Logged[r].completed /\ Logged[r].status \in 1 .. 399}
    failed == {r \in Q : IsOperationalError(Logged[r])}
    refused == {r \in Q : IsClientError(Logged[r])}
    n == Len(requests)
<1>1. Lists(requests, Q)
  BY SelectionsList
<1>2. /\ n \in Nat /\ DOMAIN requests = 1 .. n /\ \A i \in 1 .. n : requests[i] \in Data
      /\ IsFiniteSet(Q) /\ Cardinality(Q) = n
  <2>. HIDE DEF requests, Q
  <2>1. requests \in Seq(Data)
    BY <1>1 DEF Lists
  <2>2. n \in Nat /\ DOMAIN requests = 1 .. n /\ \A i \in 1 .. n : requests[i] \in Data
    BY <2>1, LenProperties
  <2>. QED
    BY <1>1, <2>2, ListsLength
<1>3. summary.count = n
  BY SummaryParts
<1>4. Total(summary.providers) = n
  <2>. DEFINE key == [i \in 1 .. n |-> requests[i].provider]
              P == {requests[i].provider : i \in DOMAIN requests}
  <2>1. \A i \in 1 .. n : key[i] \in P
    BY <1>2
  <2>2. summary.providers = CountedBy(P, n, key)
    <3>1. \A p : {i \in DOMAIN requests : requests[i].provider = p} = {i \in 1 .. n : key[i] = p}
      BY <1>2
    <3>2. summary.providers = ProvidersIn(requests)
      BY SummaryParts
    <3>. HIDE DEF key, n, summary, requests
    <3>. QED
      BY <3>1, <3>2 DEF ProvidersIn, CountedBy
  <2>. HIDE DEF key, P, n, summary
  <2>. QED
    BY <1>2, <2>1, <2>2, TotalCounts
<1>5. /\ summary.operationalErrors = Cardinality(failed)
      /\ summary.clientErrors = Cardinality(refused)
  <2>. DEFINE Refused == {x \in Data : IsClientError(x)}
  <2>1. ErrorsIn(requests) = Found(requests, ErrorData) /\ RefusedIn(requests) = Found(requests, Refused)
    BY <1>2 DEF Found, ErrorData, ErrorsIn, RefusedIn
  <2>2. Among(Q, ErrorData) = failed /\ Among(Q, Refused) = refused
    BY DEF Among, ErrorData, Data, Selected
  <2>3. /\ summary.operationalErrors = Cardinality(Found(requests, ErrorData))
        /\ summary.clientErrors = Cardinality(Found(requests, Refused))
    BY <2>1, SummaryParts
  <2>. HIDE DEF Refused, Q, requests, failed, refused, summary
  <2>. QED
    BY <1>1, <2>2, <2>3, ListsCount
<1>6. /\ failed \cup refused \cup served = Q
      /\ failed \cap refused = {} /\ (failed \cup refused) \cap served = {}
  <2>1. \A r \in Q : Logged[r] \in Data
    BY DEF Data, Selected
  <2>2. ASSUME NEW x \in Data
        PROVE  /\ IsOperationalError(x) \/ IsClientError(x) \/ (x.completed /\ x.status \in 1 .. 399)
               /\ ~(IsOperationalError(x) /\ IsClientError(x))
               /\ ~(IsOperationalError(x) /\ (x.completed /\ x.status \in 1 .. 399))
               /\ ~(IsClientError(x) /\ (x.completed /\ x.status \in 1 .. 399))
    <3>1. /\ x.status \in (Nat \ {0}) \cup {NotGiven} /\ x.completed \in BOOLEAN
      BY DataType
    <3>. QED
      BY <3>1 DEF IsOperationalError, IsClientError, NotGiven
  <2>. HIDE DEF Q
  <2>. QED
    BY <2>1, <2>2
<1>7. /\ IsFiniteSet(failed) /\ IsFiniteSet(refused) /\ IsFiniteSet(served)
      /\ Cardinality(failed) \in Nat /\ Cardinality(refused) \in Nat /\ Cardinality(served) \in Nat
  <2>1. failed \in SUBSET Q /\ refused \in SUBSET Q /\ served \in SUBSET Q
    OBVIOUS
  <2>. HIDE DEF failed, refused, served, Q
  <2>. QED
    BY <1>2, <2>1, FS_Subset, FS_CardinalityType
<1>8. Cardinality(failed) + Cardinality(refused) + Cardinality(served) = n
  <2>. HIDE DEF failed, refused, served, Q, n
  <2>. QED
    BY <1>2, <1>6, <1>7, ThreeParts
<1>. QED
  BY <1>2, <1>3, <1>4, <1>5, <1>8

\* The most that run at once do so at some time of the window.
LEMMA MostAtOnce ==
    ASSUME NEW R \in SUBSET Records, NEW recs, Lists(recs, R), NEW w \in Nat
    PROVE  LET Running(t) == {r \in R :
                    /\ Logged[r].event = "request" /\ Logged[r].inference
                    /\ NotGiven \notin {Logged[r].startedAt, Logged[r].duration}
                    /\ Logged[r].startedAt <= t
                    /\ t < Logged[r].startedAt + Logged[r].duration}
           IN  Summary(recs, Now, w).maxConcurrency =
                   Max({Cardinality(Running(t)) : t \in Max({0, Now - w}) .. Now})
<1>. DEFINE
    Running(t) == {r \in R :
        /\ Logged[r].event = "request" /\ Logged[r].inference
        /\ NotGiven \notin {Logged[r].startedAt, Logged[r].duration}
        /\ Logged[r].startedAt <= t
        /\ t < Logged[r].startedAt + Logged[r].duration}
    from == Max({0, Now - w})
    u == RunningRecords(recs, w)
    Q == {r \in R : Overlaps(Logged[r], Now, w)}
    s == SpansOf(u)
    At(t) == {x \in Data : x.startedAt <= t /\ t < x.startedAt + x.duration}
<1>1. Now \in Nat
  BY MonitorAssumption
<1>2. from \in Nat /\ from <= Now /\ Now - w <= from /\ (from = 0 \/ from = Now - w)
  <2>1. CASE Now - w <= 0
    <3>1. from = 0
      BY <1>1, <2>1, MaxIs
    <3>. QED
      BY <1>1, <2>1, <3>1
  <2>2. CASE ~(Now - w <= 0)
    <3>1. from = Now - w
      BY <1>1, <2>2, MaxIs
    <3>. QED
      BY <1>1, <2>2, <3>1
  <2>. QED
    BY <2>1, <2>2
<1>3. Lists(u, Q)
  BY SelectionsList
<1>4. \A r \in R : Logged[r] \in Data
  BY DEF Data
<1>5. /\ Len(u) \in Nat /\ DOMAIN u = 1 .. Len(u)
      /\ \A i \in 1 .. Len(u) : /\ u[i] \in Data
                                /\ u[i].startedAt \in Nat /\ u[i].duration \in Nat
  <2>1. u \in Seq(Data) /\ \A i \in 1 .. Len(u) : \E r \in Q : u[i] = Logged[r]
    BY <1>3 DEF Lists
  <2>2. \A r \in Q : Logged[r].startedAt \in Nat /\ Logged[r].duration \in Nat
    BY <1>4, DataType DEF Overlaps
  <2>. HIDE DEF Q, u
  <2>. QED
    BY <2>1, <2>2, LenProperties
<1>. HIDE DEF u
<1>6. /\ s \in Seq(Interval) /\ Len(s) = Len(u)
      /\ \A i \in 1 .. Len(u) : /\ s[i].from = u[i].startedAt
                                /\ s[i].to = u[i].startedAt + u[i].duration
                                /\ s[i].from <= s[i].to
  <2>1. \A i \in 1 .. Len(u) :
            [from |-> u[i].startedAt, to |-> u[i].startedAt + u[i].duration] \in Interval
    BY <1>5 DEF Interval
  <2>2. s \in Seq(Interval) /\ Len(s) = Len(u)
    BY <1>5, <2>1, IsASeq DEF SpansOf
  <2>3. \A i \in 1 .. Len(u) : s[i] = [from |-> u[i].startedAt, to |-> u[i].startedAt + u[i].duration]
    BY <1>5 DEF SpansOf
  <2>4. ASSUME NEW i \in 1 .. Len(u)
        PROVE  /\ s[i].from = u[i].startedAt
               /\ s[i].to = u[i].startedAt + u[i].duration
               /\ s[i].from <= s[i].to
    <3>1. s[i].from = u[i].startedAt /\ s[i].to = u[i].startedAt + u[i].duration
      <4>1. s[i] = [from |-> u[i].startedAt, to |-> u[i].startedAt + u[i].duration]
        BY <2>3
      <4>. HIDE DEF s
      <4>. QED
        BY <4>1
    <3>2. u[i].startedAt \in Nat /\ u[i].duration \in Nat
      BY <1>5
    <3>. QED
      BY <3>1, <3>2
  <2>. HIDE DEF s
  <2>. QED
    BY <2>2, <2>4
<1>. HIDE DEF s
<1>7. /\ \A t \in Int : Cardinality(RunningAt(s, t)) <= MaxOverlap(s)
      /\ \E t \in Int : MaxOverlap(s) = Cardinality(RunningAt(s, t))
  BY <1>6, OverlapFacts
<1>8. ASSUME NEW t \in Int
      PROVE  /\ IsFiniteSet(Among(Q, At(t))) /\ Cardinality(Among(Q, At(t))) \in Nat
             /\ Cardinality(RunningAt(s, t)) = Cardinality(Among(Q, At(t)))
  <2>1. RunningAt(s, t) = Found(u, At(t))
    BY <1>5, <1>6 DEF RunningAt, Found
  <2>. HIDE DEF At, Q
  <2>. QED
    BY <1>3, <2>1, ListsCount
<1>9. \A t \in Int : \A r : r \in Among(Q, At(t)) <=>
          /\ r \in R /\ Overlaps(Logged[r], Now, w)
          /\ Logged[r].startedAt <= t /\ t < Logged[r].startedAt + Logged[r].duration
  BY <1>4 DEF Among
<1>10. ASSUME NEW r \in R
       PROVE  /\ Logged[r].startedAt \in Int /\ Logged[r].duration \in Int
              /\ Logged[r].startedAt # NotGiven => Logged[r].startedAt >= 0
              /\ Overlaps(Logged[r], Now, w) <=>
                    /\ Logged[r].event = "request" /\ Logged[r].inference
                    /\ Logged[r].startedAt # NotGiven /\ Logged[r].duration # NotGiven
                    /\ Logged[r].startedAt <= Now
                    /\ Logged[r].startedAt + Logged[r].duration > Now - w
              /\ \A t \in Int : r \in Running(t) <=>
                    /\ Logged[r].event = "request" /\ Logged[r].inference
                    /\ Logged[r].startedAt # NotGiven /\ Logged[r].duration # NotGiven
                    /\ Logged[r].startedAt <= t /\ t < Logged[r].startedAt + Logged[r].duration
  <2>1. Logged[r].startedAt \in Nat \cup {NotGiven} /\ Logged[r].duration \in Nat \cup {NotGiven}
    BY <1>4, DataType
  <2>2. /\ Logged[r].startedAt \in Int /\ Logged[r].duration \in Int
        /\ Logged[r].startedAt # NotGiven => Logged[r].startedAt >= 0
    BY <2>1 DEF NotGiven
  <2>3. Overlaps(Logged[r], Now, w) <=>
            /\ Logged[r].event = "request" /\ Logged[r].inference
            /\ Logged[r].startedAt # NotGiven /\ Logged[r].duration # NotGiven
            /\ Logged[r].startedAt <= Now
            /\ Logged[r].startedAt + Logged[r].duration > Now - w
    BY DEF Overlaps
  <2>4. \A t \in Int : r \in Running(t) <=>
            /\ Logged[r].event = "request" /\ Logged[r].inference
            /\ Logged[r].startedAt # NotGiven /\ Logged[r].duration # NotGiven
            /\ Logged[r].startedAt <= t /\ t < Logged[r].startedAt + Logged[r].duration
    OBVIOUS
  <2>. QED
    BY <2>2, <2>3, <2>4
<1>11. \A t : Running(t) \subseteq R
  OBVIOUS
<1>. HIDE DEF Running, Q, At
\* In the window the two agree ...
<1>12. ASSUME NEW t \in from .. Now
       PROVE  Running(t) = Among(Q, At(t))
  <2>1. t \in Int /\ Now - w <= t /\ t <= Now
    BY <1>1, <1>2
  <2>2. ASSUME NEW r \in R, r \in Running(t)
        PROVE  r \in Among(Q, At(t))
    BY <1>1, <1>9, <1>10, <2>1, <2>2
  <2>3. ASSUME NEW r \in R, r \in Among(Q, At(t))
        PROVE  r \in Running(t)
    BY <1>9, <1>10, <2>1, <2>3
  <2>. QED
    BY <1>9, <1>11, <2>1, <2>2, <2>3
\* ... and no more of what overlaps it run outside.
<1>13. ASSUME NEW t \in Int
       PROVE  \E v \in from .. Now : Among(Q, At(t)) \subseteq Among(Q, At(v))
  <2>1. CASE t < from
    <3>1. from \in from .. Now /\ from \in Int
      BY <1>1, <1>2
    <3>2. ASSUME NEW r \in Among(Q, At(t))
          PROVE  r \in Among(Q, At(from))
      <4>1. /\ r \in R /\ Overlaps(Logged[r], Now, w)
            /\ Logged[r].startedAt <= t /\ t < Logged[r].startedAt + Logged[r].duration
        BY <1>9, <3>2
      <4>2. Logged[r].startedAt <= from /\ from < Logged[r].startedAt + Logged[r].duration
        <5>. DEFINE a == Logged[r].startedAt
                    e == Logged[r].duration
        <5>1. /\ a \in Int /\ e \in Int /\ a >= 0 /\ a <= Now /\ a + e > Now - w
              /\ a <= t /\ t < a + e
          BY <1>10, <4>1
        <5>. HIDE DEF a, e
        <5>2. a <= from /\ from < a + e
          BY <1>1, <1>2, <2>1, <5>1
        <5>. QED
          BY <5>2 DEF a, e
      <4>. QED
        BY <1>9, <3>1, <4>1, <4>2
    <3>. QED
      BY <3>1, <3>2
  <2>2. CASE t > Now
    <3>1. Now \in from .. Now /\ Now \in Int
      BY <1>1, <1>2
    <3>2. ASSUME NEW r \in Among(Q, At(t))
          PROVE  r \in Among(Q, At(Now))
      <4>1. /\ r \in R /\ Overlaps(Logged[r], Now, w)
            /\ Logged[r].startedAt <= t /\ t < Logged[r].startedAt + Logged[r].duration
        BY <1>9, <3>2
      <4>2. Logged[r].startedAt <= Now /\ Now < Logged[r].startedAt + Logged[r].duration
        <5>. DEFINE a == Logged[r].startedAt
                    e == Logged[r].duration
        <5>1. /\ a \in Int /\ e \in Int /\ a >= 0 /\ a <= Now /\ a + e > Now - w
              /\ a <= t /\ t < a + e
          BY <1>10, <4>1
        <5>. HIDE DEF a, e
        <5>2. a <= Now /\ Now < a + e
          BY <1>1, <1>2, <2>2, <5>1
        <5>. QED
          BY <5>2 DEF a, e
      <4>. QED
        BY <1>9, <3>1, <4>1, <4>2
    <3>. QED
      BY <3>1, <3>2
  <2>3. CASE ~(t < from) /\ ~(t > Now)
    <3>1. t \in from .. Now
      BY <1>1, <1>2, <2>3
    <3>. QED
      BY <3>1
  <2>. QED
    BY <2>1, <2>2, <2>3
<1>. HIDE DEF from
<1>. DEFINE T == {Cardinality(Running(t)) : t \in from .. Now}
<1>14. \A t \in from .. Now : t \in Int
  BY <1>1, <1>2
<1>15. T \in SUBSET Int
  <2>1. \A t \in from .. Now : Cardinality(Running(t)) \in Int
    BY <1>8, <1>12, <1>14
  <2>. QED
    BY <2>1
<1>16. MaxOverlap(s) \in Int
  BY <1>7, <1>8
<1>17. \A k \in T : k <= MaxOverlap(s)
  <2>1. \A t \in from .. Now : Cardinality(Running(t)) <= MaxOverlap(s)
    BY <1>7, <1>8, <1>12, <1>14
  <2>. QED
    BY <2>1
<1>18. MaxOverlap(s) \in T
  <2>1. PICK t \in Int : MaxOverlap(s) = Cardinality(Among(Q, At(t)))
    BY <1>7, <1>8
  <2>2. PICK v \in from .. Now : Among(Q, At(t)) \subseteq Among(Q, At(v))
    BY <1>13
  <2>3. Cardinality(Among(Q, At(t))) <= Cardinality(Among(Q, At(v)))
    BY <1>8, <1>14, <2>2, FS_Subset
  <2>4. Cardinality(Among(Q, At(v))) <= MaxOverlap(s) /\ Cardinality(Among(Q, At(v))) \in Nat
    BY <1>7, <1>8, <1>14
  <2>5. Cardinality(Running(v)) = MaxOverlap(s)
    BY <1>12, <1>16, <2>1, <2>3, <2>4
  <2>. QED
    BY <2>5
<1>19. Max(T) = MaxOverlap(s)
  <2>. HIDE DEF T
  <2>. QED
    BY <1>15, <1>17, <1>18, MaxIs
<1>20. Summary(recs, Now, w).maxConcurrency = MaxOverlap(s)
  BY SummaryParts DEF s, u
<1>. QED
  BY <1>19, <1>20 DEF T, Running, from

\* No more than a twentieth took longer than the percentile, and not all that took as
\* long can be spared.
LEMMA PercentileHolds ==
    ASSUME NEW R \in SUBSET Records, NEW recs, Lists(recs, R), NEW w,
           Summary(recs, Now, w).total # <<>>
    PROVE  LET timed == {r \in Selected(R, w) : Logged[r].duration # NotGiven /\
                                                ~IsOperationalError(Logged[r])}
               v == Summary(recs, Now, w).total[2]
           IN  /\ 20 * Cardinality({r \in timed : Logged[r].duration > v}) <= Cardinality(timed)
               /\ 20 * Cardinality({r \in timed : Logged[r].duration >= v}) > Cardinality(timed)
<1>. DEFINE
    timed == {r \in Selected(R, w) : Logged[r].duration # NotGiven /\ ~IsOperationalError(Logged[r])}
    u == TimedRecords(recs, w)
    s == DurationsOf(u)
    v == Summary(recs, Now, w).total[2]
    Above == {x \in Data : x.duration > v}
    Least == {x \in Data : x.duration >= v}
<1>1. Lists(u, timed)
  BY SelectionsList
<1>2. \A r \in timed : Logged[r] \in Data /\ Logged[r].duration \in Int
  BY DataType DEF Selected, Data, NotGiven
<1>3. Among(timed, Above) = {r \in timed : Logged[r].duration > v}
  <2>. HIDE DEF timed, v
  <2>. QED
    BY <1>2 DEF Among
<1>4. Among(timed, Least) = {r \in timed : Logged[r].duration >= v}
  <2>. HIDE DEF timed, v
  <2>. QED
    BY <1>2 DEF Among
<1>. HIDE DEF timed, u
<1>5. /\ Len(u) \in Nat /\ DOMAIN u = 1 .. Len(u)
      /\ \A i \in 1 .. Len(u) : u[i] \in Data /\ u[i].duration \in Int
  <2>1. u \in Seq(Data) /\ \A i \in 1 .. Len(u) : \E r \in timed : u[i] = Logged[r]
    BY <1>1 DEF Lists
  <2>. QED
    BY <1>2, <2>1, LenProperties
<1>6. /\ s \in Seq(Int) /\ Len(s) = Len(u)
      /\ \A i \in 1 .. Len(u) : s[i] = u[i].duration
  <2>1. s = [i \in 1 .. Len(u) |-> u[i].duration]
    BY <1>5 DEF DurationsOf
  <2>. HIDE DEF s
  <2>. QED
    BY <1>5, <2>1, IsASeq
<1>7. s # <<>> /\ v = Percentile(s, 95)
  <2>1. Summary(recs, Now, w).total = LatencySummary(s)
    BY SummaryParts DEF u
  <2>2. LatencySummary(s) # <<>>
    BY <2>1
  <2>3. v = LatencySummary(s)[2]
    BY <2>1
  <2>. HIDE DEF s, v
  <2>4. s # <<>> /\ LatencySummary(s) = <<Percentile(s, 50), Percentile(s, 95)>>
    BY <2>2 DEF LatencySummary
  <2>. QED
    BY <2>3, <2>4
<1>. HIDE DEF s, v
<1>8. /\ 100 * Cardinality({i \in 1 .. Len(s) : s[i] > v}) <= (100 - 95) * Len(s)
      /\ 100 * Cardinality({i \in 1 .. Len(s) : s[i] >= v}) > (100 - 95) * Len(s)
  <2>1. LET p == Percentile(s, 95) IN
        /\ p \in Int
        /\ 100 * Cardinality({i \in 1 .. Len(s) : s[i] > p}) <= (100 - 95) * Len(s)
        /\ 100 * Cardinality({i \in 1 .. Len(s) : s[i] >= p}) > (100 - 95) * Len(s)
    <3>1. 95 \in 1 .. 100
      OBVIOUS
    <3>. QED
      BY <1>6, <1>7, <3>1, PercentileFacts
  <2>. QED
    BY <1>7, <2>1
<1>9. /\ {i \in 1 .. Len(s) : s[i] > v} = Found(u, Above)
      /\ {i \in 1 .. Len(s) : s[i] >= v} = Found(u, Least)
  <2>1. \A i \in 1 .. Len(u) : /\ s[i] > v <=> u[i] \in Above
                               /\ s[i] >= v <=> u[i] \in Least
    BY <1>5, <1>6
  <2>. HIDE DEF Above, Least
  <2>. QED
    BY <1>6, <2>1 DEF Found
<1>. HIDE DEF Above, Least
<1>10. /\ Cardinality(Found(u, Above)) = Cardinality(Among(timed, Above))
       /\ Cardinality(Found(u, Least)) = Cardinality(Among(timed, Least))
       /\ Cardinality(Among(timed, Above)) \in Nat /\ Cardinality(Among(timed, Least)) \in Nat
  BY <1>1, ListsCount
<1>11. Cardinality(timed) = Len(u)
  BY <1>1, ListsLength
<1>12. /\ 100 * Cardinality(Among(timed, Above)) <= 5 * Cardinality(timed)
       /\ 100 * Cardinality(Among(timed, Least)) > 5 * Cardinality(timed)
  <2>1. /\ Cardinality({i \in 1 .. Len(s) : s[i] > v}) = Cardinality(Among(timed, Above))
        /\ Cardinality({i \in 1 .. Len(s) : s[i] >= v}) = Cardinality(Among(timed, Least))
    BY <1>9, <1>10
  <2>. QED
    BY <1>5, <1>6, <1>8, <1>11, <2>1
<1>13. /\ 20 * Cardinality(Among(timed, Above)) <= Cardinality(timed)
       /\ 20 * Cardinality(Among(timed, Least)) > Cardinality(timed)
  BY <1>5, <1>10, <1>11, <1>12
<1>. QED
  BY <1>3, <1>4, <1>13 DEF timed, v

\* What OrderInv says of a snapshot is enough for its summaries.
LEMMA SummariesOfSnapshot == OrderInv => SummaryAccountsForAll
<1>. DEFINE
    rs == result.records
    R == Range(rs)
    recs == [i \in DOMAIN rs |-> Logged[rs[i]]]
<1>. SUFFICES ASSUME OrderInv, Delivered, result.skipped = 0, NEW w \in Windows
              PROVE  LET summary == Summaries[w]
                         served == {r \in Requests(w) : Logged[r].completed /\ Logged[r].status \in 1 .. 399}
                         Running(t) == {r \in Range(result.records) :
                             /\ Logged[r].event = "request" /\ Logged[r].inference
                             /\ NotGiven \notin {Logged[r].startedAt, Logged[r].duration}
                             /\ Logged[r].startedAt <= t
                             /\ t < Logged[r].startedAt + Logged[r].duration}
                         timed == {r \in Requests(w) : Logged[r].duration # NotGiven /\
                                                       ~IsOperationalError(Logged[r])}
                     IN  /\ summary.count = Cardinality(Requests(w))
                         /\ Total(summary.providers) = summary.count
                         /\ summary.operationalErrors + summary.clientErrors + Cardinality(served)
                                = summary.count
                         /\ summary.maxConcurrency =
                                Max({Cardinality(Running(t)) : t \in Max({0, Now - w}) .. Now})
                         /\ summary.total # <<>> =>
                                LET Above(v) == Cardinality({r \in timed : Logged[r].duration > v})
                                    Least(v) == Cardinality({r \in timed : Logged[r].duration >= v})
                                IN  /\ 20 * Above(summary.total[2]) <= Cardinality(timed)
                                    /\ 20 * Least(summary.total[2]) > Cardinality(timed)
  BY DEF SummaryAccountsForAll
<1>1. rs \in Seq(Records) /\ \A k, l \in 1 .. Len(rs) : rs[k] = rs[l] => k = l
  <2>1. rs \in Seq(Records)
    BY DEF OrderInv, TypeOK
  <2>2. \A k, l \in 1 .. Len(rs) : k < l => rs[k] < rs[l]
    BY DEF OrderInv, CleanSnapshotsOrdered
  <2>3. Len(rs) \in Nat /\ \A k \in 1 .. Len(rs) : rs[k] \in Int
    <3>1. Len(rs) \in Nat /\ \A k \in 1 .. Len(rs) : rs[k] \in Records
      BY <2>1, LenProperties
    <3>. QED
      BY <3>1 DEF Records
  <2>. HIDE DEF rs
  <2>. QED
    BY <2>1, <2>2, <2>3
<1>2. R \in SUBSET Records
  <2>1. DOMAIN rs = 1 .. Len(rs) /\ \A k \in 1 .. Len(rs) : rs[k] \in Records
    BY <1>1, LenProperties
  <2>. QED
    BY <2>1 DEF Range
<1>3. Lists(recs, R)
  BY <1>1, AllListed
<1>4. w \in Nat
  BY MonitorAssumption
<1>5. Summaries[w] = Summary(recs, Now, w)
  BY DEF Summaries
<1>6. Requests(w) = Selected(R, w)
  BY DEF Requests, Selected
<1>. HIDE DEF rs, recs
<1>7. LET summary == Summary(recs, Now, w)
          served == {r \in Selected(R, w) : Logged[r].completed /\ Logged[r].status \in 1 .. 399}
      IN  /\ summary.count = Cardinality(Selected(R, w))
          /\ Total(summary.providers) = summary.count
          /\ summary.operationalErrors + summary.clientErrors + Cardinality(served)
                 = summary.count
  BY <1>2, <1>3, EachCountedOnce
<1>8. LET Running(t) == {r \in R :
              /\ Logged[r].event = "request" /\ Logged[r].inference
              /\ NotGiven \notin {Logged[r].startedAt, Logged[r].duration}
              /\ Logged[r].startedAt <= t
              /\ t < Logged[r].startedAt + Logged[r].duration}
      IN  Summary(recs, Now, w).maxConcurrency =
              Max({Cardinality(Running(t)) : t \in Max({0, Now - w}) .. Now})
  BY <1>2, <1>3, <1>4, MostAtOnce
<1>9. Summary(recs, Now, w).total # <<>> =>
          LET timed == {r \in Selected(R, w) : Logged[r].duration # NotGiven /\
                                               ~IsOperationalError(Logged[r])}
              v == Summary(recs, Now, w).total[2]
          IN  /\ 20 * Cardinality({r \in timed : Logged[r].duration > v}) <= Cardinality(timed)
              /\ 20 * Cardinality({r \in timed : Logged[r].duration >= v}) > Cardinality(timed)
  BY <1>2, <1>3, PercentileHolds
<1>. QED
  BY <1>5, <1>6, <1>7, <1>8, <1>9 DEF rs

\* Whatever rotations a clean snapshot was read through, its summaries account for each
\* request in it once, and say truly how many ran at once and how long they took.
THEOREM SummariesAccountForAll == Spec => []SummaryAccountsForAll
  BY OrderInvariance, SummariesOfSnapshot, PTL

=============================================================================
