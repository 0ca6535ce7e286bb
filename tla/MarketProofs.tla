---------------------------- MODULE MarketProofs ----------------------------
(***************************************************************************)
(* Proofs about the backtest's data, for any file in order of time, any    *)
(* bucket lengths that divide each other, any lookbacks and settings.      *)
(*                                                                         *)
(* The one thing to know of a series is BarsOf: each bar sits where a      *)
(* bucket may start and summarises the rows of its bucket.  It is shown of *)
(* ResampleOhlcv by induction over the rows; what a bar that has ended can *)
(* hold, and that it stays, follow from it.  The mirror image is carried   *)
(* from the rows through every indicator to the decision, and the averages *)
(* are unrolled into weighted sums, where no division rounds.              *)
(***************************************************************************)
EXTENDS MarketData, ListProofs

-----------------------------------------------------------------------------
(* Where buckets start.                                                    *)

LEMMA Multiples ==
  ASSUME NEW p \in Int, NEW q \in Int, NEW b \in Nat, p < q
  PROVE  p * b + b <= q * b
<1>1. (q - p - 1) \in Nat
  OBVIOUS
<1>2. (q - p - 1) * b \in Nat
  BY <1>1
<1>3. (q - p - 1) * b = q * b - p * b - b
  OBVIOUS
<1> QED
  BY <1>2, <1>3

LEMMA Division ==
  ASSUME NEW a \in Int, NEW b \in Nat \ {0}
  PROVE  a \div b \in Int /\ (a \div b) * b <= a /\ a < (a \div b) * b + b
OBVIOUS

LEMMA Quotient ==
  ASSUME NEW a \in Int, NEW b \in Nat \ {0}, NEW q \in Int,
         q * b <= a, a < q * b + b
  PROVE  a \div b = q
<1> DEFINE r == a \div b
<1>1. r \in Int /\ r * b <= a /\ a < r * b + b
  BY Division
<1> HIDE DEF r
<1>2. b \in Nat /\ q * b \in Int /\ r * b \in Int
  BY <1>1
<1>3. ~ (r < q)
  <2>1. r < q => r * b + b <= q * b
    BY <1>1, Multiples
  <2> QED
    BY <1>1, <1>2, <2>1
<1>4. ~ (q < r)
  <2>1. q < r => q * b + b <= r * b
    BY <1>1, Multiples
  <2> QED
    BY <1>1, <1>2, <2>1
<1>5. r = q
  BY <1>1, <1>3, <1>4
<1> QED
  BY <1>5 DEF r

(* T is where a bucket of b minutes may start. *)
Grid(T, b) == \E q \in Int : T = q * b

LEMMA StartBounds ==
  ASSUME NEW t \in Int, NEW b \in Nat \ {0}
  PROVE  /\ BucketStart(t, b) \in Int /\ Grid(BucketStart(t, b), b)
         /\ BucketStart(t, b) <= t /\ t < BucketStart(t, b) + b
<1>1. t \div b \in Int /\ (t \div b) * b <= t /\ t < (t \div b) * b + b
  BY Division
<1>2. (t \div b) * b \in Int
  BY <1>1
<1> QED
  BY <1>1, <1>2 DEF BucketStart, Grid

LEMMA StartIs ==
  ASSUME NEW t \in Int, NEW b \in Nat \ {0}, NEW T, Grid(T, b), T <= t, t < T + b
  PROVE  BucketStart(t, b) = T
<1>1. PICK q \in Int : T = q * b
  BY DEF Grid
<1>2. t \div b = q
  BY <1>1, Quotient
<1> QED
  BY <1>1, <1>2 DEF BucketStart

LEMMA GridStep ==
  ASSUME NEW b \in Nat \ {0}, NEW S, NEW T, Grid(S, b), Grid(T, b), S < T
  PROVE  S + b <= T
<1>1. PICK p \in Int, q \in Int : S = p * b /\ T = q * b
  BY DEF Grid
<1>2. b \in Nat /\ S \in Int /\ T \in Int
  BY <1>1
<1>3. p < q
  <2>1. p = q => S = T
    BY <1>1
  <2>2. q < p => T + b <= S
    BY <1>1, <1>2, Multiples
  <2> QED
    BY <1>1, <1>2, <2>1, <2>2
<1>4. p * b + b <= q * b
  BY <1>2, <1>3, Multiples
<1> QED
  BY <1>1, <1>4

LEMMA StartOrder ==
  ASSUME NEW t \in Int, NEW u \in Int, NEW b \in Nat \ {0}, t <= u
  PROVE  /\ BucketStart(t, b) <= BucketStart(u, b)
         /\ BucketStart(t, b) # BucketStart(u, b)
              => BucketStart(t, b) + b <= BucketStart(u, b)
<1> DEFINE S == BucketStart(t, b)
           T == BucketStart(u, b)
<1>1. /\ S \in Int /\ Grid(S, b) /\ S <= t /\ t < S + b
      /\ T \in Int /\ Grid(T, b) /\ T <= u /\ u < T + b
  BY StartBounds
<1> HIDE DEF S, T
<1>2. ~ (T < S)
  <2>1. T < S => T + b <= S
    BY <1>1, GridStep
  <2> QED
    BY <1>1, <2>1
<1>3. S # T => S + b <= T
  <2>1. S < T => S + b <= T
    BY <1>1, GridStep
  <2> QED
    BY <1>1, <1>2, <2>1
<1> QED
  BY <1>1, <1>2, <1>3 DEF S, T

LEMMA FinerGrid ==
  ASSUME NEW T, NEW a \in Nat \ {0}, NEW b \in Nat \ {0}, b % a = 0, Grid(T, b)
  PROVE  Grid(T, a)
<1>1. PICK q \in Int : T = q * b
  BY DEF Grid
<1>2. b \div a \in Int /\ b = (b \div a) * a
  OBVIOUS
<1> DEFINE k == b \div a
<1>3. k \in Int /\ T = q * (k * a)
  BY <1>1, <1>2
<1> HIDE DEF k
<1>4. q * (k * a) = (q * k) * a /\ q * k \in Int
  BY <1>3
<1> QED
  BY <1>3, <1>4 DEF Grid

(* The M15 bucket of an M5 bar is that of each of its rows. *)
LEMMA StartOfStart ==
  ASSUME NEW t \in Int, NEW a \in Nat \ {0}, NEW b \in Nat \ {0}, b % a = 0
  PROVE  BucketStart(BucketStart(t, a), b) = BucketStart(t, b)
<1> DEFINE S == BucketStart(t, a)
           T == BucketStart(t, b)
<1>1. /\ S \in Int /\ Grid(S, a) /\ S <= t /\ t < S + a
      /\ T \in Int /\ Grid(T, b) /\ T <= t /\ t < T + b
  BY StartBounds
<1> HIDE DEF S, T
<1>2. T <= S
  <2>1. S < T => S + a <= T
    BY <1>1, FinerGrid, GridStep
  <2> QED
    BY <1>1, <2>1
<1>3. S < T + b
  BY <1>1
<1>4. BucketStart(S, b) = T
  BY <1>1, <1>2, <1>3, StartIs
<1> QED
  BY <1>4 DEF S, T

-----------------------------------------------------------------------------
(* Rows and bars: one row more.                                            *)

Rows == [time : Int, open : Int, high : Int, low : Int, close : Int, volume : Int]

(* Rows and bars are records of one type.                                  *)
LEMMA MergedType ==
  ASSUME NEW bar \in Rows, NEW row \in Rows
  PROVE  /\ Merged(bar, row) \in Rows
         /\ Merged(bar, row).time = bar.time /\ Merged(bar, row).open = bar.open
         /\ Merged(bar, row).close = row.close
         /\ Merged(bar, row).volume = bar.volume + row.volume
         /\ Merged(bar, row).high = (IF bar.high >= row.high THEN bar.high ELSE row.high)
         /\ Merged(bar, row).low = (IF bar.low <= row.low THEN bar.low ELSE row.low)
<1>1. /\ bar.high \in Int /\ row.high \in Int /\ bar.low \in Int /\ row.low \in Int
  BY DEF Rows
<1> DEFINE h == Max({bar.high, row.high})
           l == Min({bar.low, row.low})
<1>2. /\ h = (IF bar.high >= row.high THEN bar.high ELSE row.high)
      /\ l = (IF bar.low <= row.low THEN bar.low ELSE row.low)
  BY <1>1, MaxOfTwo, MinOfTwo
<1>3. Merged(bar, row) = [bar EXCEPT !.high = h, !.low = l, !.close = row.close,
                                     !.volume = bar.volume + row.volume]
  BY DEF Merged
<1> HIDE DEF h, l
<1>4. h \in Int /\ l \in Int
  BY <1>1, <1>2
<1>5. bar.volume + row.volume \in Int /\ row.close \in Int
  BY DEF Rows
<1> DEFINE v == bar.volume + row.volume
           c == row.close
           m == [bar EXCEPT !.high = h, !.low = l, !.close = c, !.volume = v]
<1> HIDE DEF v, c
<1>6. h \in Int /\ l \in Int /\ c \in Int /\ v \in Int
  BY <1>4, <1>5 DEF v, c
<1>7. m \in Rows
  BY <1>6 DEF Rows
<1>8. /\ m.time = bar.time /\ m.open = bar.open /\ m.high = h
      /\ m.low = l /\ m.close = c /\ m.volume = v
  BY <1>6 DEF Rows
<1> HIDE DEF m
<1> QED
  BY <1>2, <1>3, <1>7, <1>8 DEF m, v, c

Started(row, start) == [row EXCEPT !.time = start]

LEMMA StartedType ==
  ASSUME NEW row \in Rows, NEW start \in Int
  PROVE  /\ Started(row, start) \in Rows
         /\ Started(row, start).time = start
         /\ Started(row, start).open = row.open
         /\ Started(row, start).high = row.high
         /\ Started(row, start).low = row.low
         /\ Started(row, start).close = row.close
         /\ Started(row, start).volume = row.volume
BY DEF Started, Rows

(* A row opens a bar, or joins the last one. *)
LEMMA AddRowOpens ==
  ASSUME NEW bars \in Seq(Rows), NEW row \in Rows, NEW start \in Int,
         bars = <<>> \/ bars[Len(bars)].time # start
  PROVE  AddRow(bars, row, start) = Append(bars, Started(row, start))
<1>1. bars = <<>> => Len(bars) = 0
  BY EmptySeq
<1> QED
  BY <1>1 DEF AddRow, Started

LEMMA AddRowJoins ==
  ASSUME NEW front \in Seq(Rows), NEW bar \in Rows, NEW row \in Rows
  PROVE  AddRow(Append(front, bar), row, bar.time) = Append(front, Merged(bar, row))
<1> DEFINE n == Len(front)
           p == Append(front, bar)
           m == Merged(bar, row)
           q == Append(front, m)
<1>1. m \in Rows
  BY MergedType
<1> HIDE DEF m
<1>2. /\ n \in Nat /\ p \in Seq(Rows) /\ Len(p) = n + 1 /\ p[n + 1] = bar
      /\ \A k \in 1 .. n : p[k] = front[k]
      /\ DOMAIN p = 1 .. n + 1
  BY LenProperties, AppendProperties
<1>3. /\ q \in Seq(Rows) /\ Len(q) = n + 1 /\ q[n + 1] = m
      /\ \A k \in 1 .. n : q[k] = front[k]
      /\ DOMAIN q = 1 .. n + 1
  BY <1>1, LenProperties, AppendProperties
<1> HIDE DEF p, q, n
<1>4. AddRow(p, row, bar.time) = [p EXCEPT ![n + 1] = Merged(@, row)]
  <2>1. ~ (Len(p) = 0 \/ p[Len(p)].time # bar.time)
    BY <1>2
  <2>2. AddRow(p, row, bar.time) = [p EXCEPT ![Len(p)] = Merged(@, row)]
    BY <2>1 DEF AddRow
  <2> QED
    BY <1>2, <2>2
<1> DEFINE r == [p EXCEPT ![n + 1] = Merged(@, row)]
<1>5. r = [k \in 1 .. n + 1 |-> IF k = n + 1 THEN m ELSE p[k]]
  BY <1>2 DEF m
<1>6. r \in Seq(Rows) /\ Len(r) = n + 1
  <2>1. \A k \in 1 .. n + 1 : p[k] \in Rows
    BY <1>2, ElementOfSeq
  <2>2. \A k \in 1 .. n + 1 : (IF k = n + 1 THEN m ELSE p[k]) \in Rows
    BY <1>1, <2>1
  <2>3. r \in [1 .. n + 1 -> Rows]
    <3> HIDE DEF r, Rows
    <3> QED
      BY <1>5, <2>2
  <2>4. n + 1 \in Nat
    BY <1>2
  <2> HIDE DEF r, Rows
  <2> QED
    BY <2>3, <2>4, SeqDef, LenProperties
<1>7. ASSUME NEW k \in 1 .. n + 1 PROVE r[k] = q[k]
  <2>1. CASE k = n + 1
    BY <1>3, <1>5, <2>1
  <2>2. CASE k # n + 1
    <3>1. k \in 1 .. n
      BY <1>2, <2>2
    <3> HIDE DEF r
    <3> QED
      BY <1>2, <1>3, <1>5, <2>2, <3>1
  <2> QED
    BY <2>1, <2>2
<1>8. r = q
  <2> HIDE DEF r
  <2> QED
    BY <1>3, <1>6, <1>7, SeqEqual
<1> QED
  BY <1>4, <1>8 DEF p, q, m

LEMMA AddRowType ==
  ASSUME NEW bars \in Seq(Rows), NEW row \in Rows, NEW start \in Int
  PROVE  AddRow(bars, row, start) \in Seq(Rows)
<1>1. CASE bars = <<>> \/ bars[Len(bars)].time # start
  <2>1. Started(row, start) \in Rows
    BY StartedType
  <2> QED
    BY <1>1, <2>1, AddRowOpens, AppendProperties
<1>2. CASE ~ (bars = <<>> \/ bars[Len(bars)].time # start)
  <2>1. PICK front \in Seq(Rows) : \E b \in Rows : bars = Append(front, b)
    BY <1>2, SequenceEmptyOrAppend
  <2>2. PICK bar \in Rows : bars = Append(front, bar)
    BY <2>1
  <2>3. bars[Len(bars)] = bar
    BY <2>2, AppendProperties
  <2>4. AddRow(bars, row, start) = Append(front, Merged(bar, row))
    BY <1>2, <2>2, <2>3, AddRowJoins
  <2> QED
    BY <2>4, MergedType, AppendProperties
<1> QED
  BY <1>1, <1>2

-----------------------------------------------------------------------------
(* Resampling, row by row.                                                 *)

(* H holds the bars after each of the rows of s. *)
Resamples(H, s, length) ==
  /\ H \in [0 .. Len(s) -> Seq(Rows)] /\ H[0] = <<>>
  /\ \A n \in 1 .. Len(s) :
       H[n] = AddRow(H[n - 1], s[n], BucketStart(s[n].time, length))

(* Resampling as a history: the bars after each row.                       *)
LEMMA ResampleHistory ==
  ASSUME NEW s \in Seq(Rows), NEW length \in Nat \ {0}
  PROVE  \E H : Resamples(H, s, length) /\ H[Len(s)] = ResampleOhlcv(s, length)
<1> DEFINE N == Len(s)
           V == Seq(Rows)
           Step(v, n) == AddRow(v, s[n], BucketStart(s[n].time, length))
           step == [n \in 1 .. N |-> [v \in V |-> Step(v, n)]]
           Adding(it) == it = [t \in SUBSET (1 .. N) |->
                            IF t = {} THEN <<>> ELSE Step(it[t \ {Max(t)}], Max(t))]
           chosen == CHOOSE it : Adding(it)
<1>1. N \in Nat /\ DOMAIN s = 1 .. N /\ \A n \in 1 .. N : s[n] \in Rows
  BY LenProperties, ElementOfSeq
<1>2. ResampleOhlcv(s, length) = chosen[1 .. N]
  BY <1>1 DEF ResampleOhlcv, FoldLeft, MapThenFoldSet
<1>3. <<>> \in V /\ step \in [1 .. N -> [V -> V]]
  <2>1. ASSUME NEW n \in 1 .. N, NEW v \in V PROVE Step(v, n) \in V
    <3>1. s[n] \in Rows /\ s[n].time \in Int
      BY <1>1 DEF Rows
    <3>2. BucketStart(s[n].time, length) \in Int
      BY <3>1, StartBounds
    <3> QED
      BY <3>1, <3>2, AddRowType
  <2> HIDE DEF Step
  <2>2. step \in [1 .. N -> [V -> V]]
    BY <2>1
  <2> QED
    BY <2>2, EmptySeq
<1> HIDE DEF Step
<1>4. ASSUME NEW t \in SUBSET (1 .. N), t # {}, NEW v \in V
      PROVE  step[Max(t)][v] = Step(v, Max(t))
  <2>1. Max(t) \in 1 .. N
    BY <1>1, <1>4, MaxOfPositions
  <2> QED
    BY <2>1
<1> HIDE DEF V
<1>5. \E it : Adding(it)
  <2>1. PICK it : Solves(it, V, <<>>, N, step)
    <3>1. N \in Nat
      BY <1>1
    <3> HIDE DEF step, N
    <3> QED
      BY <1>3, <3>1, FoldExists, Zenon
  <2>2. ASSUME NEW t \in SUBSET (1 .. N), t # {}
        PROVE  step[Max(t)][it[t \ {Max(t)}]] = Step(it[t \ {Max(t)}], Max(t))
    <3>1. it[t \ {Max(t)}] \in V
      BY <2>1 DEF Solves
    <3> HIDE DEF step, N
    <3> QED
      BY <1>4, <2>2, <3>1
  <2>3. it = [t \in SUBSET (1 .. N) |->
                IF t = {} THEN <<>> ELSE step[Max(t)][it[t \ {Max(t)}]]]
    <3> HIDE DEF step
    <3> QED
      BY <2>1 DEF Solves
  <2>4. Adding(it)
    <3> HIDE DEF step, N
    <3> QED
      BY <2>2, <2>3
  <2> QED
    BY <2>4
<1>6. Adding(chosen)
  <2> HIDE DEF Adding
  <2> QED
    BY <1>5
<1>7. PICK H : History(H, V, N, <<>>, step) /\ H[N] = chosen[1 .. N]
  <2> HIDE DEF chosen
  <2>1. N \in Nat /\ chosen[{}] = <<>>
    BY <1>1, <1>6
  <2>2. ASSUME NEW t \in SUBSET (1 .. N), t # {}, chosen[t \ {Max(t)}] \in V
        PROVE  chosen[t] = step[Max(t)][chosen[t \ {Max(t)}]]
    <3>1. chosen[t] = Step(chosen[t \ {Max(t)}], Max(t))
      BY <1>6, <2>2
    <3> HIDE DEF step, N
    <3> QED
      BY <1>4, <2>2, <3>1
  <2> HIDE DEF step, N
  <2>3. Unwinds(chosen, V, <<>>, N, step)
    BY <1>3, <2>1, <2>2 DEF Unwinds
  <2> QED
    BY <2>3, FoldHistory
<1>8. ASSUME NEW n \in 1 .. N PROVE H[n] = Step(H[n - 1], n)
  <2>1. n - 1 \in 0 .. N /\ H[n - 1] \in V
    <3> HIDE DEF step, chosen
    <3> QED
      BY <1>1, <1>7 DEF History
  <2>2. H[n] = step[n][H[n - 1]]
    <3> HIDE DEF step, N
    <3> QED
      BY <1>7 DEF Takes, History
  <2> QED
    BY <2>1, <2>2
<1>9. H[0] = <<>> /\ H[N] = ResampleOhlcv(s, length)
  BY <1>2, <1>7 DEF Takes, History
<1>10. Resamples(H, s, length)
  <2> HIDE DEF step, chosen, Adding
  <2> QED
    BY <1>7, <1>8, <1>9 DEF Resamples, History, Step, V
<1> QED
  BY <1>9, <1>10

LEMMA ResampleEmpty ==
  ASSUME NEW length \in Nat \ {0}
  PROVE  ResampleOhlcv(<<>>, length) = <<>>
<1>1. <<>> \in Seq(Rows) /\ Len(<<>>) = 0
  BY EmptySeq
<1>2. PICK H : Resamples(H, <<>>, length) /\ H[Len(<<>>)] = ResampleOhlcv(<<>>, length)
  BY <1>1, ResampleHistory
<1> QED
  BY <1>1, <1>2 DEF Resamples

LEMMA ResampleType ==
  ASSUME NEW s \in Seq(Rows), NEW length \in Nat \ {0}
  PROVE  ResampleOhlcv(s, length) \in Seq(Rows)
<1>1. Len(s) \in 0 .. Len(s)
  BY LenProperties
<1>2. PICK H : Resamples(H, s, length) /\ H[Len(s)] = ResampleOhlcv(s, length)
  BY ResampleHistory
<1> QED
  BY <1>1, <1>2 DEF Resamples

(* Resampling one row more.                                                *)
LEMMA ResampleAppend ==
  ASSUME NEW s \in Seq(Rows), NEW x \in Rows, NEW length \in Nat \ {0}
  PROVE  ResampleOhlcv(Append(s, x), length) =
           AddRow(ResampleOhlcv(s, length), x, BucketStart(x.time, length))
<1> DEFINE r == Append(s, x)
           n == Len(s)
<1>1. /\ r \in Seq(Rows) /\ Len(r) = n + 1 /\ n \in Nat /\ r[n + 1] = x
      /\ \A k \in 1 .. n : r[k] = s[k]
  BY AppendProperties, LenProperties
<1>2. PICK G : Resamples(G, s, length) /\ G[n] = ResampleOhlcv(s, length)
  BY ResampleHistory
<1> HIDE DEF r
<1>3. PICK H : Resamples(H, r, length) /\ H[Len(r)] = ResampleOhlcv(r, length)
  BY <1>1, ResampleHistory
<1> HIDE DEF n
<1> DEFINE A == {k \in Nat : k <= n => G[k] = H[k]}
<1>4. 0 \in A
  BY <1>2, <1>3 DEF Resamples
<1>5. ASSUME NEW k \in Nat, k \in A PROVE k + 1 \in A
  <2> SUFFICES ASSUME k + 1 <= n PROVE G[k + 1] = H[k + 1]
    OBVIOUS
  <2>1. k + 1 \in 1 .. n /\ k + 1 \in 1 .. n + 1 /\ (k + 1) - 1 = k /\ G[k] = H[k]
    BY <1>1, <1>5
  <2>2. G[k + 1] = AddRow(G[k], s[k + 1], BucketStart(s[k + 1].time, length))
    BY <1>2, <2>1 DEF Resamples, n
  <2>3. H[k + 1] = AddRow(H[k], r[k + 1], BucketStart(r[k + 1].time, length))
    BY <1>1, <1>3, <2>1 DEF Resamples
  <2> QED
    BY <1>1, <2>1, <2>2, <2>3
<1>6. Nat \subseteq A
  <2> HIDE DEF A
  <2> QED
    BY <1>4, <1>5, SetInduction
<1>7. G[n] = H[n]
  BY <1>1, <1>6
<1>8. n + 1 \in 1 .. n + 1 /\ (n + 1) - 1 = n
  BY <1>1
<1>9. H[n + 1] = AddRow(H[n], r[n + 1], BucketStart(r[n + 1].time, length))
  BY <1>1, <1>3, <1>8 DEF Resamples
<1> QED
  BY <1>1, <1>2, <1>3, <1>7, <1>9 DEF r

-----------------------------------------------------------------------------
(* A bar is the summary of its rows.                                       *)

Volumes(rows) == [i \in DOMAIN rows |-> rows[i].volume]

LEMMA VolumesAppend ==
  ASSUME NEW s \in Seq(Rows), NEW x \in Rows
  PROVE  /\ Volumes(s) \in Seq(Int) /\ Volumes(Append(s, x)) \in Seq(Int)
         /\ Volumes(Append(s, x)) = Append(Volumes(s), x.volume)
<1> DEFINE n == Len(s)
           r == Append(s, x)
<1>1. /\ n \in Nat /\ DOMAIN s = 1 .. n /\ \A k \in 1 .. n : s[k] \in Rows
      /\ DOMAIN r = 1 .. n + 1 /\ r[n + 1] = x
      /\ \A k \in 1 .. n : r[k] = s[k]
  BY LenProperties, AppendProperties, ElementOfSeq
<1> HIDE DEF n, r
<1>2. x.volume \in Int /\ \A k \in 1 .. n : s[k].volume \in Int
  <2>1. \A e \in Rows : e.volume \in Int
    BY DEF Rows
  <2> QED
    BY <1>1, <2>1
<1>3. /\ Volumes(s) \in Seq(Int) /\ Len(Volumes(s)) = n
      /\ \A k \in 1 .. n : Volumes(s)[k] = s[k].volume
  <2>1. Volumes(s) \in [1 .. n -> Int]
    BY <1>1, <1>2 DEF Volumes
  <2> QED
    BY <1>1, <2>1, SeqDef, LenProperties DEF Volumes
<1>4. \A k \in 1 .. n + 1 : r[k].volume \in Int
  BY <1>1, <1>2
<1>5. /\ Volumes(r) \in Seq(Int) /\ Len(Volumes(r)) = n + 1
      /\ \A k \in 1 .. n + 1 : Volumes(r)[k] = r[k].volume
  <2>1. Volumes(r) \in [1 .. n + 1 -> Int] /\ n + 1 \in Nat
    BY <1>1, <1>4 DEF Volumes
  <2> QED
    BY <1>1, <2>1, SeqDef, LenProperties DEF Volumes
<1> DEFINE q == Append(Volumes(s), x.volume)
<1>6. /\ q \in Seq(Int) /\ Len(q) = n + 1 /\ q[n + 1] = x.volume
      /\ \A k \in 1 .. n : q[k] = Volumes(s)[k]
  BY <1>2, <1>3, AppendProperties
<1> HIDE DEF q
<1>7. ASSUME NEW k \in 1 .. n + 1 PROVE Volumes(r)[k] = q[k]
  <2>1. CASE k = n + 1
    BY <1>1, <1>5, <1>6, <2>1
  <2>2. CASE k # n + 1
    <3>1. k \in 1 .. n
      BY <1>1, <2>2
    <3> QED
      BY <1>1, <1>3, <1>5, <1>6, <3>1, ZenonT(60)
  <2> QED
    BY <2>1, <2>2
<1>8. Volumes(r) = q
  BY <1>5, <1>6, <1>7, SeqEqual
<1> QED
  BY <1>3, <1>5, <1>8 DEF q, r

(* The bar is the summary of the rows. *)
Covers(bar, rows) ==
  /\ Len(rows) >= 1
  /\ bar.open = rows[1].open /\ bar.close = rows[Len(rows)].close
  /\ \E i \in 1 .. Len(rows) : bar.high = rows[i].high
  /\ \A i \in 1 .. Len(rows) : rows[i].high <= bar.high
  /\ \E i \in 1 .. Len(rows) : bar.low = rows[i].low
  /\ \A i \in 1 .. Len(rows) : bar.low <= rows[i].low
  /\ bar.volume = Sum(Volumes(rows))

LEMMA CoversOne ==
  ASSUME NEW x \in Rows, NEW start \in Int
  PROVE  Covers(Started(x, start), Append(<<>>, x))
<1> DEFINE s == <<>>
           r == Append(s, x)
<1>1. s \in Seq(Rows) /\ Len(s) = 0
  BY EmptySeq
<1>2. Len(r) = 1 /\ r[1] = x
  BY <1>1, AppendProperties
<1>3. Sum(Volumes(r)) = x.volume
  <2>1. Volumes(s) \in Seq(Int) /\ Volumes(r) = Append(Volumes(s), x.volume)
    BY <1>1, VolumesAppend
  <2>2. Volumes(s) = <<>>
    BY <1>1 DEF Volumes
  <2>3. x.volume \in Int
    BY DEF Rows
  <2> HIDE DEF s
  <2>4. Sum(Volumes(r)) = 0 + x.volume
    BY <2>1, <2>2, <2>3, SumAppend, SumEmpty
  <2> QED
    BY <2>3, <2>4
<1> DEFINE b == Started(x, start)
<1>4. /\ b.open = x.open /\ b.high = x.high /\ b.low = x.low /\ b.close = x.close
      /\ b.volume = x.volume /\ x.high \in Int /\ x.low \in Int
  BY StartedType DEF Rows
<1> HIDE DEF s, r, b
<1>5. Covers(b, r)
  BY <1>2, <1>3, <1>4 DEF Covers
<1> QED
  BY <1>5 DEF b, r, s

LEMMA CoversMore ==
  ASSUME NEW bar \in Rows, NEW rows \in Seq(Rows), NEW x \in Rows, Covers(bar, rows)
  PROVE  Covers(Merged(bar, x), Append(rows, x))
<1> DEFINE n == Len(rows)
           r == Append(rows, x)
           b == Merged(bar, x)
<1>1. /\ n \in Nat /\ Len(r) = n + 1 /\ r[n + 1] = x
      /\ \A k \in 1 .. n : r[k] = rows[k]
  BY LenProperties, AppendProperties
<1>2. /\ b.open = bar.open /\ b.close = x.close /\ b.volume = bar.volume + x.volume
      /\ b.high = (IF bar.high >= x.high THEN bar.high ELSE x.high)
      /\ b.low = (IF bar.low <= x.low THEN bar.low ELSE x.low)
  BY MergedType
<1>3. /\ bar.high \in Int /\ x.high \in Int /\ bar.low \in Int /\ x.low \in Int
      /\ bar.volume \in Int /\ x.volume \in Int
  BY DEF Rows
<1>4. \A k \in 1 .. n : rows[k].high \in Int /\ rows[k].low \in Int
  <2>1. \A e \in Rows : e.high \in Int /\ e.low \in Int
    BY DEF Rows
  <2>2. \A k \in 1 .. n : rows[k] \in Rows
    BY <1>1, ElementOfSeq
  <2> QED
    BY <2>1, <2>2
<1>5. Sum(Volumes(r)) = Sum(Volumes(rows)) + x.volume
  <2>1. Volumes(rows) \in Seq(Int) /\ Volumes(r) = Append(Volumes(rows), x.volume)
    BY VolumesAppend
  <2> QED
    BY <1>3, <2>1, SumAppend
<1>6. /\ n >= 1 /\ bar.open = rows[1].open /\ bar.volume = Sum(Volumes(rows))
      /\ (\E k \in 1 .. n : bar.high = rows[k].high)
      /\ (\A k \in 1 .. n : rows[k].high <= bar.high)
      /\ (\E k \in 1 .. n : bar.low = rows[k].low)
      /\ \A k \in 1 .. n : bar.low <= rows[k].low
  BY DEF Covers
<1> HIDE DEF n, r, b
<1>7. /\ Len(r) >= 1 /\ b.open = r[1].open /\ b.close = r[Len(r)].close
      /\ b.volume = Sum(Volumes(r))
  <2>1. 1 \in 1 .. n /\ n + 1 >= 1
    BY <1>1, <1>6
  <2> QED
    BY <1>1, <1>2, <1>5, <1>6, <2>1
<1>8. /\ \E k \in 1 .. n + 1 : b.high = r[k].high
      /\ \E k \in 1 .. n + 1 : b.low = r[k].low
  <2>1. PICK k \in 1 .. n : bar.high = rows[k].high
    BY <1>6
  <2>2. PICK j \in 1 .. n : bar.low = rows[j].low
    BY <1>6
  <2>3. k \in 1 .. n + 1 /\ j \in 1 .. n + 1 /\ n + 1 \in 1 .. n + 1
    BY <1>1
  <2> QED
    BY <1>1, <1>2, <2>1, <2>2, <2>3
<1>9. ASSUME NEW k \in 1 .. n + 1 PROVE r[k].high <= b.high /\ b.low <= r[k].low
  <2>1. CASE k = n + 1
    BY <1>1, <1>2, <1>3, <2>1
  <2>2. CASE k # n + 1
    <3>1. k \in 1 .. n
      BY <1>1, <2>2
    <3>2. /\ r[k].high = rows[k].high /\ r[k].low = rows[k].low
          /\ rows[k].high <= bar.high /\ bar.low <= rows[k].low
          /\ rows[k].high \in Int /\ rows[k].low \in Int
      BY <1>1, <1>4, <1>6, <3>1
    <3> QED
      BY <1>2, <1>3, <3>2
  <2> QED
    BY <2>1, <2>2
<1>10. Covers(b, r)
  BY <1>1, <1>7, <1>8, <1>9 DEF Covers
<1> QED
  BY <1>10 DEF b, r

-----------------------------------------------------------------------------
(* What resampling rows in order of time gives.                            *)

Sorted(s) == \A i, j \in 1 .. Len(s) : i <= j => s[i].time <= s[j].time

(* The rows a bucket takes. *)
Within(start, length) == {r \in Rows : start <= r.time /\ r.time < start + length}

(* The bars are those of the rows: each where a bucket may start and the   *)
(* summary of the rows of its bucket, a bucket or more apart, and the last *)
(* one that of the last row.                                               *)
BarsOf(bars, rows, length) ==
  /\ \A i \in 1 .. Len(bars) :
       /\ Grid(bars[i].time, length)
       /\ Covers(bars[i], Kept(rows, Within(bars[i].time, length)))
  /\ \A i, j \in 1 .. Len(bars) : i < j => bars[i].time + length <= bars[j].time
  /\ rows # <<>> => /\ bars # <<>>
                    /\ bars[Len(bars)].time
                         = BucketStart(rows[Len(rows)].time, length)

LEMMA SortedAppend ==
  ASSUME NEW s \in Seq(Rows), NEW x \in Rows, Sorted(Append(s, x))
  PROVE  Sorted(s) /\ \A i \in 1 .. Len(s) : s[i].time <= x.time
<1> DEFINE n == Len(s)
           r == Append(s, x)
<1>1. /\ n \in Nat /\ Len(r) = n + 1 /\ r[n + 1] = x
      /\ \A k \in 1 .. n : r[k] = s[k]
  BY LenProperties, AppendProperties
<1>2. \A i, j \in 1 .. n + 1 : i <= j => r[i].time <= r[j].time
  BY <1>1 DEF Sorted
<1> HIDE DEF n, r
<1>3. ASSUME NEW i \in 1 .. n
      PROVE  s[i].time <= x.time /\ \A j \in 1 .. n : i <= j => s[i].time <= s[j].time
  <2>1. i \in 1 .. n + 1 /\ n + 1 \in 1 .. n + 1 /\ i <= n + 1
        /\ \A j \in 1 .. n : j \in 1 .. n + 1
    BY <1>1
  <2> QED
    BY <1>1, <1>2, <2>1
<1> QED
  BY <1>3 DEF Sorted, n

LEMMA TimeIsInt == \A r \in Rows : r.time \in Int
BY DEF Rows

LEMMA BarsOfEmpty ==
  ASSUME NEW length \in Nat \ {0}
  PROVE  BarsOf(ResampleOhlcv(<<>>, length), <<>>, length)
<1> DEFINE b == ResampleOhlcv(<<>>, length)
<1>1. b = <<>> /\ Len(b) = 0
  BY ResampleEmpty
<1> HIDE DEF b
<1>2. BarsOf(b, <<>>, length)
  BY <1>1 DEF BarsOf
<1> QED
  BY <1>2 DEF b

(* A bar that ended before row x keeps its rows. *)
LEMMA EarlierBar ==
  ASSUME NEW s \in Seq(Rows), NEW x \in Rows, NEW length \in Nat \ {0},
         NEW T \in Int, T + length <= x.time
  PROVE  Kept(Append(s, x), Within(T, length)) = Kept(s, Within(T, length))
<1>1. x \notin Within(T, length)
  BY TimeIsInt DEF Within
<1> QED
  BY <1>1, KeptAppend

(* A row past the last bucket opens a bar of its own.                      *)
LEMMA RowOpensBar ==
  ASSUME NEW s \in Seq(Rows), NEW x \in Rows, NEW length \in Nat \ {0},
         NEW bars \in Seq(Rows), BarsOf(bars, s, length), Sorted(Append(s, x)),
         bars = <<>> \/ bars[Len(bars)].time # BucketStart(x.time, length)
  PROVE  BarsOf(AddRow(bars, x, BucketStart(x.time, length)), Append(s, x), length)
<1> DEFINE S == BucketStart(x.time, length)
           n == Len(bars)
           new == Started(x, S)
           r == Append(bars, new)
           rows == Append(s, x)
<1>1. x.time \in Int /\ S \in Int /\ Grid(S, length) /\ S <= x.time /\ x.time < S + length
  BY StartBounds, TimeIsInt
<1>2. new \in Rows /\ new.time = S
  BY <1>1, StartedType
<1>3. AddRow(bars, x, S) = r
  BY <1>1, AddRowOpens
<1>4. /\ r \in Seq(Rows) /\ Len(r) = n + 1 /\ r[n + 1] = new /\ n \in Nat
      /\ \A k \in 1 .. n : r[k] = bars[k] /\ bars[k] \in Rows /\ bars[k].time \in Int
  <2> HIDE DEF new
  <2> QED
    BY <1>2, AppendProperties, LenProperties, ElementOfSeq, TimeIsInt
<1>5. /\ rows \in Seq(Rows) /\ Len(rows) = Len(s) + 1 /\ rows[Len(rows)] = x
      /\ Len(s) \in Nat
  BY AppendProperties, LenProperties
<1>6. Sorted(s) /\ \A i \in 1 .. Len(s) : s[i].time <= x.time
  BY SortedAppend
<1>7. ASSUME NEW k \in 1 .. n PROVE bars[k].time + length <= S
  <2>1. bars # <<>> /\ n \in 1 .. n
    BY <1>4, <1>7, EmptySeq
  <2>2. s # <<>>
    <3>1. CASE s = <<>>
      <4>1. Covers(bars[n], Kept(<<>>, Within(bars[n].time, length)))
        BY <2>1, <3>1 DEF BarsOf
      <4>2. Kept(<<>>, Within(bars[n].time, length)) = <<>> /\ Len(<<>>) = 0
        BY KeptEmpty
      <4> QED
        BY <4>1, <4>2 DEF Covers
    <3> QED
      BY <3>1
  <2>3. bars[n].time = BucketStart(s[Len(s)].time, length) /\ Len(s) \in 1 .. Len(s)
    BY <1>5, <2>2, EmptySeq DEF BarsOf
  <2>4. s[Len(s)].time \in Int /\ s[Len(s)].time <= x.time
    BY <1>6, <2>3, TimeIsInt, ElementOfSeq
  <2>5. bars[n].time + length <= S
    <3>1. bars[n].time # S
      BY <2>1
    <3> HIDE DEF n
    <3> QED
      BY <1>1, <2>3, <2>4, <3>1, StartOrder
  <2>6. CASE k = n
    BY <2>5, <2>6
  <2>7. CASE k # n
    <3>1. bars[k].time + length <= bars[n].time
      BY <1>4, <2>1, <2>7 DEF BarsOf
    <3> HIDE DEF S, n
    <3> QED
      BY <1>1, <1>4, <2>1, <2>5, <3>1
  <2> QED
    BY <2>6, <2>7
<1>8. Kept(rows, Within(S, length)) = Append(<<>>, x)
  <2>1. x \in Within(S, length)
    BY <1>1 DEF Within
  <2>2. ASSUME NEW i \in 1 .. Len(s) PROVE s[i] \notin Within(S, length)
    <3>1. s # <<>>
      BY <1>5, <2>2, EmptySeq
    <3>2. bars # <<>> /\ bars[n].time = BucketStart(s[Len(s)].time, length)
      BY <3>1 DEF BarsOf
    <3>3. n \in 1 .. n /\ Len(s) \in 1 .. Len(s)
      BY <1>4, <1>5, <2>2, <3>2, EmptySeq
    <3>4. /\ s[i].time \in Int /\ s[Len(s)].time \in Int
          /\ s[i].time <= s[Len(s)].time
      <4>1. i <= Len(s)
        BY <1>5, <2>2
      <4> QED
        BY <1>6, <2>2, <3>3, <4>1, TimeIsInt, ElementOfSeq DEF Sorted
    <3>5. s[Len(s)].time < bars[n].time + length
      <4> HIDE DEF n
      <4> QED
        BY <3>2, <3>4, StartBounds
    <3>6. bars[n].time + length <= S /\ bars[n].time \in Int
      BY <1>4, <1>7, <3>3
    <3>7. s[i].time < S
      <4> HIDE DEF n, S
      <4> QED
        BY <1>1, <3>4, <3>5, <3>6
    <3> HIDE DEF S
    <3> QED
      BY <1>1, <3>4, <3>7 DEF Within
  <2>3. Kept(s, Within(S, length)) = <<>>
    BY <2>2, KeptNone
  <2> DEFINE W == Within(S, length)
  <2>4. x \in W /\ Kept(s, W) = <<>>
    BY <2>1, <2>3
  <2> HIDE DEF W
  <2>5. Kept(Append(s, x), W) = Append(<<>>, x)
    BY <2>4, KeptAppend
  <2> QED
    BY <2>5 DEF W
<1>9. Covers(new, Kept(rows, Within(S, length)))
  <2>1. Covers(new, Append(<<>>, x))
    BY <1>1, CoversOne
  <2> HIDE DEF new, rows, S
  <2> QED
    BY <1>8, <2>1
<1>10. ASSUME NEW k \in 1 .. n
       PROVE  /\ Grid(bars[k].time, length)
              /\ Covers(bars[k], Kept(rows, Within(bars[k].time, length)))
  <2>1. Kept(rows, Within(bars[k].time, length)) = Kept(s, Within(bars[k].time, length))
    <3>1. bars[k].time \in Int /\ bars[k].time + length <= x.time
      <4>1. bars[k].time \in Int /\ bars[k].time + length <= S
        BY <1>4, <1>7
      <4> HIDE DEF S
      <4> QED
        BY <1>1, <4>1
    <3> QED
      BY <3>1, EarlierBar
  <2>2. /\ Grid(bars[k].time, length)
        /\ Covers(bars[k], Kept(s, Within(bars[k].time, length)))
    BY DEF BarsOf
  <2> HIDE DEF rows
  <2> QED
    BY <2>1, <2>2
<1>11. \A i, j \in 1 .. n : i < j => bars[i].time + length <= bars[j].time
  BY DEF BarsOf
<1> HIDE DEF S, n, new, r, rows
<1>12. ASSUME NEW i \in 1 .. n + 1
       PROVE  /\ Grid(r[i].time, length)
              /\ Covers(r[i], Kept(rows, Within(r[i].time, length)))
              /\ \A j \in 1 .. n + 1 : i < j => r[i].time + length <= r[j].time
  <2>1. CASE i = n + 1
    <3>1. r[i] = new /\ \A j \in 1 .. n + 1 : ~ (i < j)
      BY <1>4, <2>1
    <3> QED
      BY <1>1, <1>2, <1>9, <3>1
  <2>2. CASE i # n + 1
    <3>1. i \in 1 .. n /\ r[i] = bars[i]
      BY <1>4, <2>2
    <3>2. ASSUME NEW j \in 1 .. n + 1, i < j PROVE r[i].time + length <= r[j].time
      <4>1. CASE j = n + 1
        BY <1>2, <1>4, <1>7, <3>1, <4>1
      <4>2. CASE j # n + 1
        <5>1. j \in 1 .. n /\ r[j] = bars[j]
          BY <1>4, <4>2
        <5> QED
          BY <1>11, <3>1, <3>2, <5>1
      <4> QED
        BY <4>1, <4>2
    <3> QED
      BY <1>10, <3>1, <3>2
  <2> QED
    BY <2>1, <2>2
<1>13. r # <<>> /\ r[Len(r)].time = S
  <2>1. Len(r) # 0
    BY <1>4
  <2> QED
    BY <1>2, <1>4, <2>1, EmptySeq
<1>14. BarsOf(r, rows, length)
  BY <1>4, <1>5, <1>12, <1>13 DEF BarsOf, S
<1> QED
  BY <1>3, <1>14 DEF r, rows, S

(* A row in the last bucket joins its bar.                                 *)
LEMMA RowJoinsBar ==
  ASSUME NEW s \in Seq(Rows), NEW x \in Rows, NEW length \in Nat \ {0},
         NEW front \in Seq(Rows), NEW bar \in Rows,
         BarsOf(Append(front, bar), s, length), Sorted(Append(s, x)),
         bar.time = BucketStart(x.time, length)
  PROVE  BarsOf(AddRow(Append(front, bar), x, bar.time), Append(s, x), length)
<1> DEFINE n == Len(front)
           bars == Append(front, bar)
           new == Merged(bar, x)
           r == Append(front, new)
           rows == Append(s, x)
           W == Within(bar.time, length)
<1>1. /\ x.time \in Int /\ bar.time \in Int /\ Grid(bar.time, length)
      /\ bar.time <= x.time /\ x.time < bar.time + length
  BY StartBounds, TimeIsInt
<1>2. new \in Rows /\ new.time = bar.time
  BY MergedType
<1>3. AddRow(bars, x, bar.time) = r
  BY AddRowJoins
<1>4. /\ r \in Seq(Rows) /\ Len(r) = n + 1 /\ r[n + 1] = new /\ n \in Nat
      /\ \A k \in 1 .. n : r[k] = front[k] /\ front[k].time \in Int
  <2> HIDE DEF new
  <2> QED
    BY <1>2, AppendProperties, LenProperties, ElementOfSeq, TimeIsInt
<1>5. /\ Len(bars) = n + 1 /\ bars[n + 1] = bar
      /\ \A k \in 1 .. n : bars[k] = front[k]
  BY AppendProperties
<1>6. /\ rows # <<>> /\ rows[Len(rows)] = x
  BY AppendProperties
<1>7. /\ \A i \in 1 .. n + 1 :
           /\ Grid(bars[i].time, length)
           /\ Covers(bars[i], Kept(s, Within(bars[i].time, length)))
      /\ \A i, j \in 1 .. n + 1 : i < j => bars[i].time + length <= bars[j].time
  <2> HIDE DEF bars, n
  <2> QED
    BY <1>5 DEF BarsOf, bars
<1>8. Covers(new, Kept(rows, W))
  <2>1. Kept(s, W) \in Seq(Rows)
    BY KeptType
  <2>2. Covers(bar, Kept(s, W))
    <3>1. n + 1 \in 1 .. n + 1
      BY <1>4
    <3> HIDE DEF bars, n
    <3> QED
      BY <1>5, <1>7, <3>1
  <2>3. x \in W
    BY <1>1 DEF Within
  <2> HIDE DEF W
  <2>4. Kept(rows, W) = Append(Kept(s, W), x)
    BY <2>3, KeptAppend
  <2>5. Covers(new, Append(Kept(s, W), x))
    BY <2>1, <2>2, CoversMore
  <2> HIDE DEF new, rows
  <2> QED
    BY <2>4, <2>5
<1>9. ASSUME NEW k \in 1 .. n
      PROVE  /\ Grid(front[k].time, length)
             /\ Covers(front[k], Kept(rows, Within(front[k].time, length)))
             /\ front[k].time + length <= bar.time
  <2>1. k \in 1 .. n + 1 /\ n + 1 \in 1 .. n + 1 /\ k < n + 1
    BY <1>4
  <2>2. front[k].time + length <= bar.time /\ front[k].time \in Int
        /\ Grid(front[k].time, length)
        /\ Covers(front[k], Kept(s, Within(front[k].time, length)))
    <3> HIDE DEF bars, n
    <3> QED
      BY <1>4, <1>5, <1>7, <2>1
  <2>3. front[k].time + length <= x.time
    BY <1>1, <2>2
  <2>4. Kept(rows, Within(front[k].time, length))
          = Kept(s, Within(front[k].time, length))
    BY <2>2, <2>3, EarlierBar
  <2> HIDE DEF rows
  <2> QED
    BY <2>2, <2>4
<1>10. \A i, j \in 1 .. n : i < j => front[i].time + length <= front[j].time
  <2>1. \A i \in 1 .. n : i \in 1 .. n + 1
    BY <1>4
  <2> HIDE DEF bars, n
  <2> QED
    BY <1>5, <1>7, <2>1
<1> HIDE DEF n, bars, new, r, rows
<1>11. ASSUME NEW i \in 1 .. n + 1
       PROVE  /\ Grid(r[i].time, length)
              /\ Covers(r[i], Kept(rows, Within(r[i].time, length)))
              /\ \A j \in 1 .. n + 1 : i < j => r[i].time + length <= r[j].time
  <2>1. CASE i = n + 1
    <3>1. r[i] = new /\ \A j \in 1 .. n + 1 : ~ (i < j)
      BY <1>4, <2>1
    <3> QED
      BY <1>1, <1>2, <1>8, <3>1
  <2>2. CASE i # n + 1
    <3>1. i \in 1 .. n /\ r[i] = front[i]
      BY <1>4, <2>2
    <3>2. ASSUME NEW j \in 1 .. n + 1, i < j PROVE r[i].time + length <= r[j].time
      <4>1. CASE j = n + 1
        BY <1>2, <1>4, <1>9, <3>1, <4>1
      <4>2. CASE j # n + 1
        <5>1. j \in 1 .. n /\ r[j] = front[j]
          BY <1>4, <4>2
        <5> QED
          BY <1>10, <3>1, <3>2, <5>1
      <4> QED
        BY <4>1, <4>2
    <3> QED
      BY <1>9, <3>1, <3>2
  <2> QED
    BY <2>1, <2>2
<1>12. r # <<>> /\ r[Len(r)].time = BucketStart(x.time, length)
  <2>1. Len(r) # 0
    BY <1>4
  <2> QED
    BY <1>2, <1>4, <2>1, EmptySeq
<1>13. BarsOf(r, rows, length)
  BY <1>4, <1>6, <1>11, <1>12 DEF BarsOf
<1> QED
  BY <1>3, <1>13 DEF r, rows, bars

(* Resampling rows that are in order of time gives their bars. *)
LEMMA BarsOfRows ==
  ASSUME NEW s \in Seq(Rows), Sorted(s), NEW length \in Nat \ {0}
  PROVE  BarsOf(ResampleOhlcv(s, length), s, length)
<1> DEFINE Q == {r \in Seq(Rows) : Sorted(r) => BarsOf(ResampleOhlcv(r, length), r, length)}
<1>1. <<>> \in Q
  BY EmptySeq, BarsOfEmpty
<1>2. ASSUME NEW r \in Seq(Rows), NEW x \in Rows, r \in Q
      PROVE  Append(r, x) \in Q
  <2> SUFFICES ASSUME Sorted(Append(r, x))
               PROVE  BarsOf(ResampleOhlcv(Append(r, x), length), Append(r, x), length)
    BY AppendProperties
  <2> DEFINE bars == ResampleOhlcv(r, length)
             S == BucketStart(x.time, length)
  <2>1. ResampleOhlcv(Append(r, x), length) = AddRow(bars, x, S)
    BY ResampleAppend
  <2>2. bars \in Seq(Rows) /\ BarsOf(bars, r, length)
    BY <1>2, ResampleType, SortedAppend
  <2> HIDE DEF bars
  <2>3. CASE bars = <<>> \/ bars[Len(bars)].time # S
    BY <2>1, <2>2, <2>3, RowOpensBar
  <2>4. CASE ~ (bars = <<>> \/ bars[Len(bars)].time # S)
    <3>1. PICK front \in Seq(Rows) : \E b \in Rows : bars = Append(front, b)
      BY <2>2, <2>4, SequenceEmptyOrAppend
    <3>2. PICK bar \in Rows : bars = Append(front, bar)
      BY <3>1
    <3>3. bar.time = S
      BY <2>4, <3>2, AppendProperties
    <3>4. BarsOf(AddRow(Append(front, bar), x, bar.time), Append(r, x), length)
      BY <2>2, <3>2, <3>3, RowJoinsBar
    <3> HIDE DEF S
    <3> QED
      BY <2>1, <3>2, <3>3, <3>4
  <2> QED
    BY <2>3, <2>4
<1> HIDE DEF Q
<1>3. s \in Q
  BY <1>1, <1>2, SeqInduction
<1> QED
  BY <1>3 DEF Q

-----------------------------------------------------------------------------
(* Resampling in two steps.                                                *)

(* Rows may join a bar one by one, or one after they have been joined.     *)
LEMMA MergedTwice ==
  ASSUME NEW a \in Rows, NEW b \in Rows, NEW c \in Rows
  PROVE  Merged(Merged(a, b), c) = Merged(a, Merged(b, c))
<1> DEFINE p == Merged(Merged(a, b), c)
           q == Merged(a, Merged(b, c))
           ab == Merged(a, b)
           bc == Merged(b, c)
<1>1. /\ ab \in Rows /\ ab.time = a.time /\ ab.open = a.open /\ ab.close = b.close
      /\ ab.volume = a.volume + b.volume
      /\ ab.high = (IF a.high >= b.high THEN a.high ELSE b.high)
      /\ ab.low = (IF a.low <= b.low THEN a.low ELSE b.low)
  BY MergedType
<1>2. /\ bc \in Rows /\ bc.time = b.time /\ bc.open = b.open /\ bc.close = c.close
      /\ bc.volume = b.volume + c.volume
      /\ bc.high = (IF b.high >= c.high THEN b.high ELSE c.high)
      /\ bc.low = (IF b.low <= c.low THEN b.low ELSE c.low)
  BY MergedType
<1> HIDE DEF ab, bc
<1>3. /\ p \in Rows /\ p.time = ab.time /\ p.open = ab.open /\ p.close = c.close
      /\ p.volume = ab.volume + c.volume
      /\ p.high = (IF ab.high >= c.high THEN ab.high ELSE c.high)
      /\ p.low = (IF ab.low <= c.low THEN ab.low ELSE c.low)
  BY <1>1, MergedType DEF ab
<1>4. /\ q \in Rows /\ q.time = a.time /\ q.open = a.open /\ q.close = bc.close
      /\ q.volume = a.volume + bc.volume
      /\ q.high = (IF a.high >= bc.high THEN a.high ELSE bc.high)
      /\ q.low = (IF a.low <= bc.low THEN a.low ELSE bc.low)
  BY <1>2, MergedType DEF bc
<1> HIDE DEF p, q
<1>5. \A r \in {a, b, c} : r.high \in Int /\ r.low \in Int /\ r.volume \in Int
  BY DEF Rows
<1>6. /\ p.time = q.time /\ p.open = q.open /\ p.close = q.close
      /\ p.volume = q.volume /\ p.high = q.high /\ p.low = q.low
  BY <1>1, <1>2, <1>3, <1>4, <1>5
<1>7. p = q
  BY <1>3, <1>4, <1>6 DEF Rows
<1> QED
  BY <1>7 DEF p, q

LEMMA MergedStarted ==
  ASSUME NEW a \in Rows, NEW b \in Rows, NEW start \in Int
  PROVE  Merged(Started(a, start), b) = Started(Merged(a, b), start)
<1> DEFINE sa == Started(a, start)
           ab == Merged(a, b)
           p == Merged(sa, b)
           q == Started(ab, start)
<1>1. /\ sa \in Rows /\ sa.time = start /\ sa.open = a.open /\ sa.high = a.high
      /\ sa.low = a.low /\ sa.close = a.close /\ sa.volume = a.volume
  BY StartedType
<1>2. /\ ab \in Rows /\ ab.open = a.open /\ ab.close = b.close
      /\ ab.volume = a.volume + b.volume
      /\ ab.high = (IF a.high >= b.high THEN a.high ELSE b.high)
      /\ ab.low = (IF a.low <= b.low THEN a.low ELSE b.low)
  BY MergedType
<1> HIDE DEF sa, ab
<1>3. /\ p \in Rows /\ p.time = sa.time /\ p.open = sa.open /\ p.close = b.close
      /\ p.volume = sa.volume + b.volume
      /\ p.high = (IF sa.high >= b.high THEN sa.high ELSE b.high)
      /\ p.low = (IF sa.low <= b.low THEN sa.low ELSE b.low)
  BY <1>1, MergedType
<1>4. /\ q \in Rows /\ q.time = start /\ q.open = ab.open /\ q.high = ab.high
      /\ q.low = ab.low /\ q.close = ab.close /\ q.volume = ab.volume
  BY <1>2, StartedType
<1> HIDE DEF p, q
<1>5. /\ p.time = q.time /\ p.open = q.open /\ p.close = q.close
      /\ p.volume = q.volume /\ p.high = q.high /\ p.low = q.low
  BY <1>1, <1>2, <1>3, <1>4
<1>6. p = q
  BY <1>3, <1>4, <1>5 DEF Rows
<1> QED
  BY <1>6 DEF p, q, sa, ab

(* Two rows for one bucket are worth one row that merges them.             *)
LEMMA AddRowTwice ==
  ASSUME NEW bars \in Seq(Rows), NEW b \in Rows, NEW x \in Rows, NEW S \in Int
  PROVE  AddRow(AddRow(bars, b, S), x, S) = AddRow(bars, Merged(b, x), S)
<1> DEFINE m == Merged(b, x)
<1>1. m \in Rows
  BY MergedType
<1> HIDE DEF m
<1>2. CASE bars = <<>> \/ bars[Len(bars)].time # S
  <2> DEFINE sb == Started(b, S)
  <2>1. sb \in Rows /\ sb.time = S /\ Merged(sb, x) = Started(m, S)
    BY StartedType, MergedStarted DEF m
  <2>2. AddRow(bars, b, S) = Append(bars, sb)
    BY <1>2, AddRowOpens
  <2>3. AddRow(bars, m, S) = Append(bars, Started(m, S))
    BY <1>1, <1>2, AddRowOpens
  <2> HIDE DEF sb
  <2>4. AddRow(Append(bars, sb), x, sb.time) = Append(bars, Merged(sb, x))
    BY <2>1, AddRowJoins
  <2> QED
    BY <2>1, <2>2, <2>3, <2>4 DEF m
<1>3. CASE ~ (bars = <<>> \/ bars[Len(bars)].time # S)
  <2>1. PICK front \in Seq(Rows) : \E l \in Rows : bars = Append(front, l)
    BY <1>3, SequenceEmptyOrAppend
  <2>2. PICK l \in Rows : bars = Append(front, l)
    BY <2>1
  <2>3. l.time = S
    BY <1>3, <2>2, AppendProperties
  <2> DEFINE lb == Merged(l, b)
  <2>4. lb \in Rows /\ lb.time = S /\ Merged(lb, x) = Merged(l, m)
    BY <2>3, MergedType, MergedTwice DEF m
  <2>5. AddRow(bars, b, S) = Append(front, lb)
    BY <2>2, <2>3, AddRowJoins
  <2>6. AddRow(bars, m, S) = Append(front, Merged(l, m))
    BY <1>1, <2>2, <2>3, AddRowJoins
  <2> HIDE DEF lb
  <2>7. AddRow(Append(front, lb), x, lb.time) = Append(front, Merged(lb, x))
    BY <2>4, AddRowJoins
  <2> QED
    BY <2>4, <2>5, <2>6, <2>7 DEF m
<1> QED
  BY <1>2, <1>3

(* The time a row is stamped with does not matter once its bucket is known. *)
LEMMA AddStarted ==
  ASSUME NEW bars \in Seq(Rows), NEW x \in Rows, NEW T \in Int, NEW S \in Int
  PROVE  AddRow(bars, Started(x, T), S) = AddRow(bars, x, S)
<1> DEFINE y == Started(x, T)
<1>1. /\ y \in Rows /\ y.open = x.open /\ y.high = x.high /\ y.low = x.low
      /\ y.close = x.close /\ y.volume = x.volume
  BY StartedType
<1> HIDE DEF y
<1>2. CASE bars = <<>> \/ bars[Len(bars)].time # S
  <2> DEFINE p == Started(y, S)
             q == Started(x, S)
  <2>1. /\ p \in Rows /\ p.time = S /\ p.open = y.open /\ p.high = y.high
        /\ p.low = y.low /\ p.close = y.close /\ p.volume = y.volume
    BY <1>1, StartedType
  <2>2. /\ q \in Rows /\ q.time = S /\ q.open = x.open /\ q.high = x.high
        /\ q.low = x.low /\ q.close = x.close /\ q.volume = x.volume
    BY StartedType
  <2> HIDE DEF p, q
  <2>3. p = q
    BY <1>1, <2>1, <2>2 DEF Rows
  <2>4. AddRow(bars, y, S) = Append(bars, p) /\ AddRow(bars, x, S) = Append(bars, q)
    BY <1>1, <1>2, AddRowOpens DEF p, q
  <2> QED
    BY <2>3, <2>4 DEF y
<1>3. CASE ~ (bars = <<>> \/ bars[Len(bars)].time # S)
  <2>1. PICK front \in Seq(Rows) : \E l \in Rows : bars = Append(front, l)
    BY <1>3, SequenceEmptyOrAppend
  <2>2. PICK l \in Rows : bars = Append(front, l)
    BY <2>1
  <2>3. l.time = S
    BY <1>3, <2>2, AppendProperties
  <2>4. Merged(l, y) = Merged(l, x)
    BY <1>1 DEF Merged
  <2>5. /\ AddRow(bars, y, S) = Append(front, Merged(l, y))
        /\ AddRow(bars, x, S) = Append(front, Merged(l, x))
    BY <1>1, <2>2, <2>3, AddRowJoins
  <2> QED
    BY <2>4, <2>5 DEF y
<1> QED
  BY <1>2, <1>3

(* Resampling in two steps is resampling in one, when the larger bucket is *)
(* a number of the smaller ones: for any rows, in any order.               *)
LEMMA ResampleTwice ==
  ASSUME NEW s \in Seq(Rows), NEW a \in Nat \ {0}, NEW b \in Nat \ {0}, b % a = 0
  PROVE  ResampleOhlcv(ResampleOhlcv(s, a), b) = ResampleOhlcv(s, b)
<1> DEFINE Q == {r \in Seq(Rows) :
                   ResampleOhlcv(ResampleOhlcv(r, a), b) = ResampleOhlcv(r, b)}
<1>1. <<>> \in Q
  BY EmptySeq, ResampleEmpty
<1>2. ASSUME NEW r \in Seq(Rows), NEW x \in Rows, r \in Q
      PROVE  Append(r, x) \in Q
  <2> DEFINE fine == ResampleOhlcv(r, a)
             coarse == ResampleOhlcv(r, b)
             S == BucketStart(x.time, a)
             T == BucketStart(x.time, b)
  <2>1. Append(r, x) \in Seq(Rows) /\ x.time \in Int
    BY AppendProperties, TimeIsInt
  <2>2. S \in Int /\ T \in Int /\ BucketStart(S, b) = T
    BY <2>1, StartBounds, StartOfStart
  <2>3. /\ ResampleOhlcv(Append(r, x), a) = AddRow(fine, x, S)
        /\ ResampleOhlcv(Append(r, x), b) = AddRow(coarse, x, T)
    BY ResampleAppend
  <2>4. fine \in Seq(Rows) /\ coarse \in Seq(Rows) /\ ResampleOhlcv(fine, b) = coarse
    BY <1>2, ResampleType
  <2> HIDE DEF fine, coarse, S, T
  <2>5. ResampleOhlcv(AddRow(fine, x, S), b) = AddRow(coarse, x, T)
    <3>1. CASE fine = <<>> \/ fine[Len(fine)].time # S
      <4> DEFINE y == Started(x, S)
      <4>1. y \in Rows /\ y.time = S /\ AddRow(coarse, y, T) = AddRow(coarse, x, T)
        BY <2>2, <2>4, StartedType, AddStarted
      <4>2. AddRow(fine, x, S) = Append(fine, y)
        BY <2>2, <2>4, <3>1, AddRowOpens
      <4> HIDE DEF y
      <4>3. ResampleOhlcv(Append(fine, y), b) = AddRow(coarse, y, T)
        BY <2>2, <2>4, <4>1, ResampleAppend
      <4> QED
        BY <4>1, <4>2, <4>3
    <3>2. CASE ~ (fine = <<>> \/ fine[Len(fine)].time # S)
      <4>1. PICK front \in Seq(Rows) : \E l \in Rows : fine = Append(front, l)
        BY <2>4, <3>2, SequenceEmptyOrAppend
      <4>2. PICK l \in Rows : fine = Append(front, l)
        BY <4>1
      <4>3. l.time = S
        BY <3>2, <4>2, AppendProperties
      <4> DEFINE m == Merged(l, x)
                 before == ResampleOhlcv(front, b)
      <4>4. m \in Rows /\ m.time = S /\ before \in Seq(Rows)
        BY <4>3, MergedType, ResampleType
      <4>5. AddRow(fine, x, S) = Append(front, m)
        BY <4>2, <4>3, AddRowJoins
      <4>6. AddRow(AddRow(before, l, T), x, T) = AddRow(before, m, T)
        BY <2>2, <4>4, AddRowTwice
      <4> HIDE DEF m
      <4>7. ResampleOhlcv(Append(front, m), b) = AddRow(before, m, T)
        BY <2>2, <4>4, ResampleAppend
      <4>8. coarse = AddRow(before, l, T)
        BY <2>2, <2>4, <4>2, <4>3, ResampleAppend
      <4> QED
        BY <4>5, <4>6, <4>7, <4>8
    <3> QED
      BY <3>1, <3>2
  <2> QED
    BY <2>1, <2>3, <2>5
<1> HIDE DEF Q
<1>3. s \in Q
  BY <1>1, <1>2, SeqInduction
<1> QED
  BY <1>3 DEF Q

-----------------------------------------------------------------------------
(* The file, in order of time.                                             *)

(* Rows that follow each other still do when some of them are left out.    *)
LEMMA SortedKept ==
  ASSUME NEW s \in Seq(Rows), Sorted(s), NEW U
  PROVE  Sorted(Kept(s, U))
<1> DEFINE Q == {r \in Seq(Rows) : Sorted(r) => Sorted(Kept(r, U))}
<1>1. <<>> \in Q
  <2>1. Kept(<<>>, U) = <<>>
    BY KeptEmpty
  <2> QED
    BY <2>1, EmptySeq
<1>2. ASSUME NEW r \in Seq(Rows), NEW x \in Rows, r \in Q
      PROVE  Append(r, x) \in Q
  <2> SUFFICES ASSUME Sorted(Append(r, x)) PROVE Sorted(Kept(Append(r, x), U))
    BY AppendProperties
  <2> DEFINE k == Kept(r, U)
             n == Len(k)
             p == Append(k, x)
  <2>1. Sorted(r) /\ (\A i \in 1 .. Len(r) : r[i].time <= x.time) /\ Sorted(k)
    BY <1>2, SortedAppend
  <2>2. /\ k \in Seq(Rows) /\ ToSet(k) = ToSet(r) \cap U
        /\ n \in Nat /\ DOMAIN k = 1 .. n /\ DOMAIN r = 1 .. Len(r)
    BY KeptType, KeptMembers, LenProperties
  <2>3. ASSUME NEW i \in 1 .. n PROVE k[i].time <= x.time
    <3>1. k[i] \in ToSet(k)
      BY <2>2 DEF ToSet
    <3>2. k[i] \in ToSet(r)
      BY <2>2, <3>1
    <3>3. PICK j \in 1 .. Len(r) : k[i] = r[j]
      BY <2>2, <3>2 DEF ToSet
    <3> HIDE DEF k
    <3> QED
      BY <2>1, <3>3
  <2>4. /\ Len(p) = n + 1 /\ p[n + 1] = x /\ \A i \in 1 .. n : p[i] = k[i]
    <3> HIDE DEF k
    <3> QED
      BY <2>2, AppendProperties
  <2>5. \A i, j \in 1 .. n : i <= j => k[i].time <= k[j].time
    BY <2>1 DEF Sorted
  <2> HIDE DEF k, n, p
  <2>6. ASSUME NEW i \in 1 .. n + 1, NEW j \in 1 .. n + 1, i <= j
        PROVE  p[i].time <= p[j].time
    <3>1. CASE i = n + 1
      <4>1. j = i /\ p[i] = x /\ x.time \in Int
        BY <2>2, <2>4, <2>6, <3>1, TimeIsInt
      <4> QED
        BY <4>1
    <3>2. CASE i # n + 1
      <4>1. i \in 1 .. n /\ p[i] = k[i]
        BY <2>2, <2>4, <3>2
      <4>2. CASE j = n + 1
        BY <2>3, <2>4, <4>1, <4>2
      <4>3. CASE j # n + 1
        <5>1. j \in 1 .. n /\ p[j] = k[j]
          BY <2>2, <2>4, <4>3
        <5> QED
          BY <2>5, <2>6, <4>1, <5>1
      <4> QED
        BY <4>2, <4>3
    <3> QED
      BY <3>1, <3>2
  <2>7. Sorted(p)
    BY <2>4, <2>6 DEF Sorted
  <2>8. Kept(Append(r, x), U) = IF x \in U THEN p ELSE k
    BY KeptAppend DEF k, p
  <2> QED
    BY <2>1, <2>7, <2>8 DEF k
<1> HIDE DEF Q
<1>3. s \in Q
  BY <1>1, <1>2, SeqInduction
<1> QED
  BY <1>3 DEF Q

(* The steps from one row to the next never go back in time.               *)
LEMMA SumGrows ==
  ASSUME NEW s \in Seq(Nat), NEW i \in 1 .. Len(s), NEW j \in 1 .. Len(s), i <= j
  PROVE  /\ Sum(SubSeq(s, 1, i)) \in Int
         /\ Sum(SubSeq(s, 1, i)) <= Sum(SubSeq(s, 1, j))
<1> DEFINE A == {n \in Nat : i + n <= Len(s) =>
                   Sum(SubSeq(s, 1, i)) <= Sum(SubSeq(s, 1, i + n))}
<1>1. Len(s) \in Nat /\ i \in Nat /\ j \in Nat
  BY LenProperties
<1>2. s \in Seq(Int)
  <2>1. s \in [1 .. Len(s) -> Nat]
    BY LenProperties
  <2>2. s \in [1 .. Len(s) -> Int]
    BY <2>1
  <2> QED
    BY <1>1, <2>2, SeqDef
<1>3. ASSUME NEW k \in 1 .. Len(s)
      PROVE  SubSeq(s, 1, k) \in Seq(Int) /\ Sum(SubSeq(s, 1, k)) \in Int
  <2>1. 1 \in Int /\ k \in Int /\ 1 <= 1 /\ 1 <= k + 1 /\ k <= Len(s)
    BY <1>1
  <2>2. SubSeq(s, 1, k) \in Seq(Int)
    BY <1>2, <2>1, SliceOf
  <2> QED
    BY <2>2, SumType
<1>4. 0 \in A
  <2>1. i + 0 = i
    BY <1>1
  <2> QED
    BY <1>3, <2>1
<1>5. ASSUME NEW n \in Nat, n \in A PROVE n + 1 \in A
  <2> SUFFICES ASSUME i + (n + 1) <= Len(s)
               PROVE  Sum(SubSeq(s, 1, i)) <= Sum(SubSeq(s, 1, i + (n + 1)))
    OBVIOUS
  <2> DEFINE m == i + n
  <2>1. /\ m + 1 = i + (n + 1) /\ m \in 1 .. Len(s) /\ m + 1 \in 1 .. Len(s)
        /\ m \in Int /\ 1 \in Int /\ 1 <= 1 /\ 1 <= m + 1 /\ m + 1 <= Len(s)
        /\ m <= Len(s)
    BY <1>1
  <2>2. Sum(SubSeq(s, 1, i)) <= Sum(SubSeq(s, 1, m))
    BY <1>5, <2>1
  <2> HIDE DEF m
  <2>3. SubSeq(s, 1, m + 1) = Append(SubSeq(s, 1, m), s[m + 1])
    BY <1>2, <2>1, SliceGrows
  <2>4. s[m + 1] \in Nat
    BY <2>1, ElementOfSeq
  <2> DEFINE p == SubSeq(s, 1, m)  x == s[m + 1]
  <2>5. p \in Seq(Int) /\ x \in Int /\ x >= 0 /\ Sum(p) \in Int
    BY <1>3, <2>1, <2>4
  <2> HIDE DEF p, x
  <2>6. Sum(Append(p, x)) = Sum(p) + x
    BY <2>5, SumAppend
  <2>7. Sum(p) <= Sum(Append(p, x))
    BY <2>5, <2>6
  <2>8. Sum(SubSeq(s, 1, m)) <= Sum(SubSeq(s, 1, m + 1))
    BY <2>3, <2>7, Zenon DEF p, x
  <2> QED
    BY <1>3, <2>1, <2>2, <2>8
<1>6. Nat \subseteq A
  <2> HIDE DEF A
  <2> QED
    BY <1>4, <1>5, SetInduction
<1>7. j - i \in Nat /\ i + (j - i) = j /\ j <= Len(s)
  BY <1>1
<1>8. j - i \in A
  <2> HIDE DEF A
  <2> QED
    BY <1>6, <1>7
<1>9. Sum(SubSeq(s, 1, i)) <= Sum(SubSeq(s, 1, j))
  BY <1>7, <1>8
<1> QED
  BY <1>3, <1>9

(* The file is in order of time, since steps are not negative.             *)
LEMMA FileIsSorted ==
  ASSUME NEW steps \in [1 .. NumRows -> Steps],
         NEW candles \in [1 .. NumRows -> Candles]
  PROVE  LoadOhlcvCsv(steps, candles) \in Seq(Rows)
         /\ Sorted(LoadOhlcvCsv(steps, candles))
<1> DEFINE Time(i) == StartDate * DayLength - LeadIn + Sum(SubSeq(steps, 1, i))
           f == LoadOhlcvCsv(steps, candles)
<1>1. /\ NumRows \in Nat /\ Steps \subseteq Nat /\ LeadIn \in Int
      /\ StartDate * DayLength \in Int
      /\ Candles \subseteq [open : Int, high : Int, low : Int, close : Int, volume : Int]
  BY MarketAssumption
<1>2. steps \in Seq(Nat) /\ Len(steps) = NumRows
  <2>1. steps \in [1 .. NumRows -> Nat]
    BY <1>1
  <2> QED
    BY <1>1, <2>1, SeqDef, LenProperties
<1>3. ASSUME NEW i \in 1 .. NumRows, NEW j \in 1 .. NumRows, i <= j
      PROVE  Time(i) \in Int /\ Time(i) <= Time(j)
  <2>1. /\ Sum(SubSeq(steps, 1, i)) \in Int /\ Sum(SubSeq(steps, 1, j)) \in Int
        /\ Sum(SubSeq(steps, 1, i)) <= Sum(SubSeq(steps, 1, j))
    <3>1. j <= j
      BY <1>1
    <3> QED
      BY <1>2, <1>3, <3>1, SumGrows
  <2> QED
    BY <1>1, <2>1
<1>4. f = [i \in 1 .. NumRows |-> Bar(Time(i), candles[i])]
  BY DEF LoadOhlcvCsv
<1>5. ASSUME NEW i \in 1 .. NumRows
      PROVE  Bar(Time(i), candles[i]) \in Rows /\ Bar(Time(i), candles[i]).time = Time(i)
  <2>1. Time(i) \in Int
    BY <1>1, <1>3
  <2>2. candles[i] \in [open : Int, high : Int, low : Int, close : Int, volume : Int]
    BY <1>1
  <2> HIDE DEF Time
  <2> QED
    BY <2>1, <2>2 DEF Bar, Rows
<1> HIDE DEF f, Time
<1>6. f \in [1 .. NumRows -> Rows] /\ \A i \in 1 .. NumRows : f[i].time = Time(i)
  BY <1>4, <1>5
<1>7. f \in Seq(Rows) /\ Len(f) = NumRows
  BY <1>1, <1>6, SeqDef, LenProperties
<1>8. Sorted(f)
  BY <1>3, <1>6, <1>7 DEF Sorted
<1> QED
  BY <1>7, <1>8 DEF f

-----------------------------------------------------------------------------
(* The invariant: the series are those of the file, and the clock is on    *)
(* one of the rows.                                                        *)

SeriesOfFile ==
  /\ file \in Seq(Rows) /\ Sorted(file)
  /\ m1 = FilterDateRange(file)
  /\ m5 = ResampleOhlcv(m1, M5Length)
  /\ m15 = ResampleOhlcv(m1, M15Length)

MarketInv == SeriesOfFile /\ index \in 1 .. Len(m1)

LEMMA MarketInit == Init => MarketInv
<1> SUFFICES ASSUME Init PROVE MarketInv
  OBVIOUS
<1>1. PICK steps \in [1 .. NumRows -> Steps] : \E c \in [1 .. NumRows -> Candles] :
        file = LoadOhlcvCsv(steps, c)
  BY DEF Init
<1>2. PICK candles \in [1 .. NumRows -> Candles] : file = LoadOhlcvCsv(steps, candles)
  BY <1>1
<1>3. file \in Seq(Rows) /\ Sorted(file)
  BY <1>2, FileIsSorted
<1>4. SeriesOfFile
  BY <1>3 DEF Init, SeriesOfFile
<1>5. index = 1 /\ m1 \in Seq(Rows) /\ m1 # <<>>
  BY <1>3, KeptType DEF Init, FilterDateRange
<1>6. index \in 1 .. Len(m1)
  BY <1>5, EmptySeq, LenProperties
<1> QED
  BY <1>4, <1>6 DEF MarketInv

LEMMA MarketStep == MarketInv /\ [Next]_vars => MarketInv'
<1> SUFFICES ASSUME MarketInv, [Next]_vars PROVE MarketInv'
  OBVIOUS
<1>1. CASE SetCurrentBar
  <2>1. m1 \in Seq(Rows) /\ Len(m1) \in Nat
    BY KeptType, LenProperties DEF MarketInv, SeriesOfFile, FilterDateRange
  <2>2. index' \in 1 .. Len(m1)
    BY <1>1, <2>1 DEF SetCurrentBar, MarketInv
  <2> QED
    BY <1>1, <2>2 DEF SetCurrentBar, MarketInv, SeriesOfFile
<1>2. CASE UNCHANGED vars
  BY <1>2 DEF vars, MarketInv, SeriesOfFile
<1> QED
  BY <1>1, <1>2 DEF Next

(* The state in every run of the replay. *)
THEOREM MarketInvariant == Spec => []MarketInv
<1> QED
  BY MarketInit, MarketStep, PTL DEF Spec

-----------------------------------------------------------------------------
(* What the loop is shown.                                                 *)

Starts(count, n) == IF count - n + 1 >= 1 THEN count - n + 1 ELSE 1

LEMMA LastBarsIs ==
  ASSUME NEW T, NEW s \in Seq(T), NEW n \in Nat
  PROVE  /\ LastBars(s, n) = SubSeq(s, Starts(Len(s), n), Len(s))
         /\ Starts(Len(s), n) \in 1 .. Len(s) + 1
<1>1. Len(s) \in Nat /\ Len(s) - n + 1 \in Int /\ 1 \in Int
  BY LenProperties
<1>2. Max({1, Len(s) - n + 1}) = IF 1 >= Len(s) - n + 1 THEN 1 ELSE Len(s) - n + 1
  BY <1>1, MaxOfTwo
<1>3. Max({1, Len(s) - n + 1}) = Starts(Len(s), n)
  BY <1>1, <1>2 DEF Starts
<1>4. LastBars(s, n) = SubSeq(s, Starts(Len(s), n), Len(s))
  BY <1>3 DEF LastBars
<1>5. Starts(Len(s), n) \in 1 .. Len(s) + 1
  BY <1>1 DEF Starts
<1> QED
  BY <1>4, <1>5

(* The bars of a slice are bars of the series. *)
LEMMA SliceMembers ==
  ASSUME NEW T, NEW s \in Seq(T), NEW a \in Int, NEW b \in Int,
         1 <= a, a <= b + 1, b <= Len(s), NEW x \in ToSet(SubSeq(s, a, b))
  PROVE  \E i \in a .. b : x = s[i]
<1>1. /\ DOMAIN SubSeq(s, a, b) = 1 .. b - a + 1
      /\ \A i \in 1 .. b - a + 1 : SubSeq(s, a, b)[i] = s[a + i - 1]
  BY SliceOf
<1>2. PICK i \in 1 .. b - a + 1 : x = SubSeq(s, a, b)[i]
  BY <1>1 DEF ToSet
<1>3. x = s[a + i - 1]
  BY <1>1, <1>2
<1>4. a + i - 1 \in a .. b
  OBVIOUS
<1> QED
  BY <1>3, <1>4

Series(timeframe) == IF timeframe = "M5" THEN m5 ELSE m15
LEMMA Limits ==
  /\ BarLookback \in Nat /\ VwapBarLookback \in Nat
  /\ \A timeframe \in Coarse \union {"M1"} :
       Limit(timeframe) \in Nat /\ Limit(timeframe) >= BarLookback
  /\ Limit("M5") >= VwapBarLookback /\ Limit("M1") = BarLookback
  /\ \A timeframe \in Coarse : Length(timeframe) \in Nat \ {0}
<1>1. /\ BarLookback \in Nat /\ VwapBarLookback \in Nat
      /\ BarLookback \in Int /\ VwapBarLookback \in Int
      /\ M5Length \in Nat \ {0} /\ M15Length \in Nat \ {0}
  BY MarketAssumption
<1>2. Max({BarLookback, VwapBarLookback}) =
        IF BarLookback >= VwapBarLookback THEN BarLookback ELSE VwapBarLookback
  BY <1>1, MaxOfTwo
<1> QED
  BY <1>1, <1>2 DEF Limit, Coarse, Length

LEMMA Frames ==
  /\ Frame("M1") = LastBars(Seen, BarLookback)
  /\ \A timeframe \in Coarse :
       Frame(timeframe) = LastBars(Closed(Series(timeframe), Length(timeframe)),
                                   Limit(timeframe))
BY DEF Frame, GetBars, Seen, Coarse, Series, Length, Limit

LEMMA SeriesTypes ==
  ASSUME MarketInv
  PROVE  /\ m1 \in Seq(Rows) /\ Sorted(m1) /\ Len(m1) \in Nat
         /\ index \in 1 .. Len(m1) /\ m1[index] \in Rows /\ Now \in Int
         /\ \A timeframe \in Coarse :
              /\ Series(timeframe) \in Seq(Rows)
              /\ BarsOf(Series(timeframe), m1, Length(timeframe))
<1>1. m1 \in Seq(Rows) /\ Sorted(m1) /\ index \in 1 .. Len(m1)
  BY KeptType, SortedKept DEF MarketInv, SeriesOfFile, FilterDateRange
<1>2. Len(m1) \in Nat /\ m1[index] \in Rows /\ Now \in Int
  BY <1>1, LenProperties, ElementOfSeq, TimeIsInt DEF Now
<1>3. M5Length \in Nat \ {0} /\ M15Length \in Nat \ {0}
  BY MarketAssumption
<1>4. /\ m5 \in Seq(Rows) /\ m15 \in Seq(Rows)
      /\ BarsOf(m5, m1, M5Length) /\ BarsOf(m15, m1, M15Length)
  BY <1>1, <1>3, ResampleType, BarsOfRows DEF MarketInv, SeriesOfFile
<1> QED
  BY <1>1, <1>2, <1>4 DEF Coarse, Series, Length

(* What has been read are the rows up to the clock.                        *)
LEMMA SeenIs ==
  ASSUME MarketInv
  PROVE  /\ Seen \in Seq(Rows) /\ Len(Seen) = index /\ DOMAIN Seen = 1 .. index
         /\ \A i \in 1 .. index : Seen[i] = m1[i]
<1>1. m1 \in Seq(Rows) /\ Len(m1) \in Nat /\ index \in 1 .. Len(m1)
  BY SeriesTypes
<1>2. 1 \in Int /\ index \in Int /\ 1 <= 1 /\ 1 <= index + 1 /\ index <= Len(m1)
  BY <1>1
<1>3. /\ Seen \in Seq(Rows) /\ Len(Seen) = index - 1 + 1
      /\ DOMAIN Seen = 1 .. index - 1 + 1
      /\ \A i \in 1 .. index - 1 + 1 : Seen[i] = m1[1 + i - 1]
  BY <1>1, <1>2, SliceOf DEF Seen
<1>4. index - 1 + 1 = index /\ \A i \in 1 .. index : 1 + i - 1 = i
  BY <1>2
<1> QED
  BY <1>3, <1>4

Ended(length, now) == {b \in Rows : b.time + length <= now}
Shut(bars, length, now) == Kept(bars, {b \in ToSet(bars) : b.time + length <= now})

(* The bars that have ended are the first ones.                            *)
LEMMA ShutIs ==
  ASSUME NEW bars \in Seq(Rows), NEW rows, NEW length \in Nat \ {0}, NEW now \in Int,
         BarsOf(bars, rows, length)
  PROVE  \E c \in 0 .. Len(bars) :
           /\ Shut(bars, length, now) = SubSeq(bars, 1, c)
           /\ \A i \in 1 .. Len(bars) : bars[i].time + length <= now <=> i <= c
<1> DEFINE W == Ended(length, now)
<1>1. Len(bars) \in Nat
  BY LenProperties
<1>2. ASSUME NEW i \in 1 .. Len(bars)
      PROVE  /\ bars[i] \in Rows /\ bars[i].time \in Int
             /\ bars[i] \in W <=> bars[i].time + length <= now
  BY ElementOfSeq, TimeIsInt DEF Ended
<1>3. ASSUME NEW i \in 1 .. Len(bars), NEW j \in 1 .. Len(bars), i <= j, bars[j] \in W
      PROVE  bars[i] \in W
  <2>1. bars[i].time <= bars[j].time
    <3>1. CASE i = j
      BY <1>2, <3>1
    <3>2. CASE i # j
      <4>1. bars[i].time + length <= bars[j].time
        BY <1>1, <1>3, <3>2 DEF BarsOf
      <4> QED
        BY <1>2, <4>1
    <3> QED
      BY <3>1, <3>2
  <2>2. bars[i].time + length <= now
    BY <1>2, <1>3, <2>1
  <2> QED
    BY <1>2, <2>2
<1>4. Shut(bars, length, now) = Kept(bars, W)
  <2>1. ToSet(bars) \subseteq Rows
    BY LenProperties, ElementOfSeq DEF ToSet
  <2> DEFINE U == {b \in ToSet(bars) : b.time + length <= now}
  <2>2. \A b \in ToSet(bars) : b \in U <=> b \in W
    BY <2>1 DEF Ended
  <2> HIDE DEF U, W
  <2>3. Kept(bars, U) = Kept(bars, W)
    BY <2>2, KeptAgrees
  <2> QED
    BY <2>3 DEF Shut, U
<1> HIDE DEF W
<1>5. PICK c \in 0 .. Len(bars) : /\ Kept(bars, W) = SubSeq(bars, 1, c)
                                  /\ \A i \in 1 .. Len(bars) : bars[i] \in W <=> i <= c
  BY <1>1, <1>3, KeptDown
<1>6. \A i \in 1 .. Len(bars) : bars[i].time + length <= now <=> i <= c
  BY <1>2, <1>5
<1> QED
  BY <1>4, <1>5, <1>6

(* The closed bars are a prefix of the series.                             *)
LEMMA ClosedIs ==
  ASSUME MarketInv, NEW timeframe \in Coarse
  PROVE  \E c \in 0 .. Len(Series(timeframe)) :
           /\ Closed(Series(timeframe), Length(timeframe))
                = SubSeq(Series(timeframe), 1, c)
           /\ \A i \in 1 .. Len(Series(timeframe)) :
                Series(timeframe)[i].time + Length(timeframe) <= Now <=> i <= c
<1> DEFINE bars == Series(timeframe)
           length == Length(timeframe)
<1>1. /\ bars \in Seq(Rows) /\ BarsOf(bars, m1, length) /\ Now \in Int
      /\ length \in Nat \ {0}
  BY SeriesTypes, Limits
<1>2. Closed(bars, length) = Shut(bars, length, Now)
  BY DEF Closed, Shut
<1> HIDE DEF bars, length
<1>3. PICK c \in 0 .. Len(bars) :
        /\ Shut(bars, length, Now) = SubSeq(bars, 1, c)
        /\ \A i \in 1 .. Len(bars) : bars[i].time + length <= Now <=> i <= c
  BY <1>1, ShutIs
<1> QED
  BY <1>2, <1>3 DEF bars, length

(* The rows a bucket shown to the loop takes have all been read.           *)
LEMMA ReadInFull ==
  ASSUME MarketInv, NEW length \in Nat, NEW T \in Int, T + length <= Now
  PROVE  Kept(m1, Within(T, length)) =
           Kept(Seen, {r \in ToSet(Seen) : r.time \in T .. T + length - 1})
<1> DEFINE W == Within(T, length)
           U == {r \in ToSet(Seen) : r.time \in T .. T + length - 1}
<1>1. /\ m1 \in Seq(Rows) /\ Sorted(m1) /\ Len(m1) \in Nat /\ index \in 1 .. Len(m1)
      /\ Now \in Int /\ Now = m1[index].time
  BY SeriesTypes DEF Now
<1>2. ASSUME NEW i \in index + 1 .. Len(m1) PROVE m1[i] \notin W
  <2>1. i \in 1 .. Len(m1) /\ index <= i
    BY <1>1
  <2>2. m1[i].time \in Int /\ m1[index].time <= m1[i].time
    BY <1>1, <2>1, ElementOfSeq, TimeIsInt DEF Sorted
  <2> QED
    BY <1>1, <2>2 DEF Within
<1>3. index \in 0 .. Len(m1)
  BY <1>1
<1>4. Kept(m1, W) = Kept(Seen, W)
  <2> HIDE DEF W
  <2> QED
    BY <1>1, <1>2, <1>3, KeptOfPrefix DEF Seen
<1>5. Seen \in Seq(Rows)
  BY SeenIs
<1>6. \A r \in ToSet(Seen) : r \in W <=> r \in U
  <2>1. ToSet(Seen) \subseteq Rows
    BY <1>5, LenProperties, ElementOfSeq DEF ToSet
  <2>2. ASSUME NEW r \in ToSet(Seen) PROVE r \in W <=> r \in U
    <3>1. r \in Rows /\ r.time \in Int
      BY <2>1, TimeIsInt
    <3> QED
      BY <3>1 DEF Within
  <2> QED
    BY <2>2
<1> HIDE DEF W, U
<1>7. Kept(Seen, W) = Kept(Seen, U)
  BY <1>5, <1>6, KeptAgrees
<1> QED
  BY <1>4, <1>7 DEF W, U

(* A summary, in the words of the property.                                *)
LEMMA Summary ==
  ASSUME NEW bar \in Rows, NEW rows \in Seq(Rows), Covers(bar, rows)
  PROVE  /\ bar.open = Head(rows).open /\ bar.close = Last(rows).close
         /\ bar.high = Max({r.high : r \in ToSet(rows)})
         /\ bar.low = Min({r.low : r \in ToSet(rows)})
         /\ bar.volume = Sum([i \in DOMAIN rows |-> rows[i].volume])
<1>1. DOMAIN rows = 1 .. Len(rows) /\ \A i \in 1 .. Len(rows) : rows[i] \in Rows
  BY LenProperties, ElementOfSeq
<1> DEFINE H == {r.high : r \in ToSet(rows)}
           L == {r.low : r \in ToSet(rows)}
<1>2. ToSet(rows) = {rows[i] : i \in 1 .. Len(rows)}
  BY <1>1 DEF ToSet
<1>3. H \in SUBSET Int /\ L \in SUBSET Int
  <2>1. \A r \in Rows : r.high \in Int /\ r.low \in Int
    BY DEF Rows
  <2> QED
    BY <1>1, <1>2, <2>1
<1>4. bar.high \in H /\ \A h \in H : h <= bar.high
  BY <1>2 DEF Covers
<1>5. bar.low \in L /\ \A l \in L : bar.low <= l
  BY <1>2 DEF Covers
<1> HIDE DEF H, L
<1>6. Max(H) = bar.high
  BY <1>3, <1>4, MaxIs
<1>7. Min(L) = bar.low
  BY <1>3, <1>5, MinIs
<1>8. Head(rows) = rows[1] /\ Last(rows) = rows[Len(rows)]
  BY DEF Last
<1>9. bar.open = rows[1].open /\ bar.close = rows[Len(rows)].close
  BY DEF Covers
<1>10. bar.volume = Sum([i \in DOMAIN rows |-> rows[i].volume])
  BY DEF Covers, Volumes
<1> QED
  BY <1>6, <1>7, <1>8, <1>9, <1>10 DEF H, L

(* A bar in a frame is one of the series, and its rows are read.           *)
LEMMA ShownBar ==
  ASSUME MarketInv, NEW timeframe \in Coarse, NEW bar \in ToSet(Frame(timeframe))
  PROVE  /\ bar \in Rows /\ bar.time \in Int
         /\ bar.time + Length(timeframe) <= Now
         /\ Covers(bar, Kept(m1, Within(bar.time, Length(timeframe))))
<1> DEFINE bars == Series(timeframe)
           length == Length(timeframe)
<1>1. /\ bars \in Seq(Rows) /\ BarsOf(bars, m1, length) /\ Len(bars) \in Nat
      /\ Limit(timeframe) \in Nat
  BY SeriesTypes, Limits, LenProperties
<1>2. PICK c \in 0 .. Len(bars) :
        /\ Closed(bars, length) = SubSeq(bars, 1, c)
        /\ \A i \in 1 .. Len(bars) : bars[i].time + length <= Now <=> i <= c
  BY ClosedIs
<1>3. Frame(timeframe) = LastBars(Closed(bars, length), Limit(timeframe))
  BY Frames
<1> HIDE DEF bars, length
<1> DEFINE shut == SubSeq(bars, 1, c)
<1>4. /\ 1 \in Int /\ c \in Int /\ 1 <= 1 /\ 1 <= c + 1 /\ c <= Len(bars) /\ c \in Nat
  BY <1>1
<1>5. shut \in Seq(Rows) /\ Len(shut) = c
  <2>1. shut \in Seq(Rows) /\ Len(shut) = c - 1 + 1
    BY <1>1, <1>4, SliceOf
  <2> QED
    BY <1>4, <2>1
<1> DEFINE a == Starts(c, Limit(timeframe))
<1>6. Frame(timeframe) = SubSeq(shut, a, c) /\ a \in 1 .. c + 1
  <2> HIDE DEF shut
  <2> QED
    BY <1>1, <1>2, <1>3, <1>5, LastBarsIs DEF shut
<1> HIDE DEF a
<1>7. bar \in ToSet(shut)
  <2>1. a \in Int /\ 1 <= a /\ a <= c + 1 /\ c <= Len(shut) /\ DOMAIN shut = 1 .. c
    BY <1>4, <1>5, <1>6, LenProperties
  <2> HIDE DEF shut
  <2>2. PICK i \in a .. c : bar = shut[i]
    BY <1>4, <1>5, <1>6, <2>1, SliceMembers
  <2>3. i \in 1 .. c
    BY <1>4, <1>6
  <2> QED
    BY <2>1, <2>2, <2>3 DEF ToSet
<1>8. PICK i \in 1 .. c : bar = bars[i]
  BY <1>1, <1>4, <1>7, SliceMembers
<1>9. i \in 1 .. Len(bars) /\ i <= c
  BY <1>4
<1>10. bar \in Rows /\ bar.time \in Int
  BY <1>1, <1>8, <1>9, ElementOfSeq, TimeIsInt
<1>11. bar.time + length <= Now /\ Covers(bar, Kept(m1, Within(bar.time, length)))
  BY <1>1, <1>2, <1>8, <1>9 DEF BarsOf
<1> QED
  BY <1>10, <1>11 DEF length

(* Hence no frame looks ahead.                                             *)
LEMMA LooksBack == MarketInv => NoLookahead
<1> SUFFICES ASSUME MarketInv, NEW timeframe \in Coarse, NEW bar \in ToSet(Frame(timeframe))
             PROVE  LET rows == Kept(Seen, {r \in ToSet(Seen) : r.time \in
                                   bar.time .. bar.time + Length(timeframe) - 1})
                    IN  /\ bar.open = Head(rows).open /\ bar.close = Last(rows).close
                        /\ bar.high = Max({r.high : r \in ToSet(rows)})
                        /\ bar.low = Min({r.low : r \in ToSet(rows)})
                        /\ bar.volume = Sum([i \in DOMAIN rows |-> rows[i].volume])
  BY DEF NoLookahead
<1> DEFINE rows == Kept(Seen, {r \in ToSet(Seen) : r.time \in
                                 bar.time .. bar.time + Length(timeframe) - 1})
<1>1. /\ bar \in Rows /\ bar.time \in Int /\ bar.time + Length(timeframe) <= Now
      /\ Covers(bar, Kept(m1, Within(bar.time, Length(timeframe))))
  BY ShownBar
<1>2. Length(timeframe) \in Nat
  BY Limits
<1>3. Kept(m1, Within(bar.time, Length(timeframe))) = rows
  BY <1>1, <1>2, ReadInFull
<1>4. rows \in Seq(Rows)
  BY SeenIs, KeptType
<1> HIDE DEF rows
<1>5. Covers(bar, rows)
  BY <1>1, <1>3
<1>6. /\ bar.open = Head(rows).open /\ bar.close = Last(rows).close
      /\ bar.high = Max({r.high : r \in ToSet(rows)})
      /\ bar.low = Min({r.low : r \in ToSet(rows)})
      /\ bar.volume = Sum([i \in DOMAIN rows |-> rows[i].volume])
  BY <1>1, <1>4, <1>5, Summary
<1> QED
  BY <1>6 DEF rows

(* No bar the loop is shown holds anything it has not read. *)
THEOREM LooksBackOnly == Spec => []NoLookahead
<1> QED
  BY MarketInvariant, LooksBack, PTL

-----------------------------------------------------------------------------
(* From one iteration to the next.                                         *)

LEMMA LastOfPrefix ==
  ASSUME NEW T, NEW s \in Seq(T), NEW n \in Nat, NEW p \in 0 .. Len(s)
  PROVE  /\ LastBars(SubSeq(s, 1, p), n) = SubSeq(s, Starts(p, n), p)
         /\ Starts(p, n) \in 1 .. p + 1
<1> DEFINE u == SubSeq(s, 1, p)
           a == Starts(p, n)
<1>1. /\ Len(s) \in Nat /\ p \in Int /\ 1 \in Int /\ 1 <= 1 /\ 1 <= p + 1
      /\ p <= Len(s) /\ p - 1 + 1 = p
  BY LenProperties
<1>2. u \in Seq(T) /\ Len(u) = p
  <2>1. u \in Seq(T) /\ Len(u) = p - 1 + 1
    BY <1>1, SliceOf
  <2> QED
    BY <1>1, <2>1
<1> HIDE DEF u, a
<1>3. LastBars(u, n) = SubSeq(u, a, p) /\ a \in 1 .. p + 1
  BY <1>2, LastBarsIs DEF a
<1>4. a \in Int /\ 1 <= a /\ a <= p + 1 /\ p <= p - 1 + 1 /\ 1 + a - 1 = a /\ 1 + p - 1 = p
  BY <1>1, <1>3
<1>5. SubSeq(u, a, p) = SubSeq(s, 1 + a - 1, 1 + p - 1)
  BY <1>1, <1>4, SliceOfSlice DEF u
<1> QED
  BY <1>3, <1>4, <1>5 DEF u, a

(* When the window moves on over the series, what is left of the one is    *)
(* how the other begins, and what follows is later than all of the one.    *)
LEMMA WindowMoves ==
  ASSUME NEW s \in Seq(Rows), NEW n \in Nat, NEW apart \in Int,
         \A i, j \in 1 .. Len(s) : i < j => s[i].time + apart <= s[j].time,
         NEW p \in 0 .. Len(s), NEW q \in 0 .. Len(s), p <= q,
         NEW f, f = LastBars(SubSeq(s, 1, p), n),
         NEW g, g = LastBars(SubSeq(s, 1, q), n)
  PROVE  Continues(f, g, n, apart)
<1> DEFINE a == Starts(p, n)
           b == Starts(q, n)
<1> HIDE DEF a, b
<1>1. /\ f = SubSeq(s, a, p) /\ a \in 1 .. p + 1
      /\ g = SubSeq(s, b, q) /\ b \in 1 .. q + 1
  BY LastOfPrefix DEF a, b
<1>2. /\ Len(s) \in Nat /\ p \in Int /\ q \in Int /\ p <= Len(s) /\ q <= Len(s)
      /\ a <= b /\ (b > a => b = q - n + 1)
  BY LenProperties DEF Starts, a, b
<1>3. /\ a \in Int /\ b \in Int /\ 1 <= a /\ 1 <= b /\ a <= p + 1 /\ b <= q + 1
  BY <1>1, <1>2
<1>4. /\ f \in Seq(Rows) /\ Len(f) = p - a + 1
      /\ \A i \in 1 .. p - a + 1 : f[i] = s[a + i - 1]
      /\ g \in Seq(Rows) /\ Len(g) = q - b + 1
      /\ \A i \in 1 .. q - b + 1 : g[i] = s[b + i - 1]
  <2>1. /\ SubSeq(s, a, p) \in Seq(Rows) /\ Len(SubSeq(s, a, p)) = p - a + 1
        /\ \A i \in 1 .. p - a + 1 : SubSeq(s, a, p)[i] = s[a + i - 1]
    BY <1>2, <1>3, SliceOf
  <2>2. /\ SubSeq(s, b, q) \in Seq(Rows) /\ Len(SubSeq(s, b, q)) = q - b + 1
        /\ \A i \in 1 .. q - b + 1 : SubSeq(s, b, q)[i] = s[b + i - 1]
    BY <1>2, <1>3, SliceOf
  <2> QED
    BY <1>1, <2>1, <2>2
<1>5. ASSUME NEW i \in 1 .. Len(g), b + i - 1 > p, NEW bar \in ToSet(f)
      PROVE  bar.time + apart <= g[i].time
  <2>1. PICK k \in 1 .. Len(f) : bar = f[k]
    <3>1. DOMAIN f = 1 .. Len(f)
      BY <1>4, LenProperties
    <3> QED
      BY <3>1 DEF ToSet
  <2>2. /\ bar = s[a + k - 1] /\ g[i] = s[b + i - 1]
        /\ a + k - 1 \in 1 .. Len(s) /\ b + i - 1 \in 1 .. Len(s)
        /\ a + k - 1 < b + i - 1
    BY <1>2, <1>3, <1>4, <1>5, <2>1
  <2> DEFINE u == a + k - 1
             v == b + i - 1
  <2> HIDE DEF u, v
  <2>3. s[u].time + apart <= s[v].time
    BY <2>2 DEF u, v
  <2> QED
    BY <2>2, <2>3 DEF u, v
<1>6. CASE b <= p + 1
  <2> DEFINE m == p - b + 1
  <2>1. /\ m \in 0 .. Len(f) /\ m <= Len(g) /\ (m < Len(f) => Len(g) = n)
        /\ m \in Int /\ Len(f) - m + 1 = b - a + 1
    <3>1. /\ a \in Int /\ b \in Int /\ p \in Int /\ q \in Int /\ n \in Int
          /\ a <= b /\ (b > a => b = q - n + 1) /\ p <= q /\ b <= p + 1
          /\ Len(f) = p - a + 1 /\ Len(g) = q - b + 1
      BY <1>2, <1>3, <1>4, <1>6
    <3>2. m < Len(f) => Len(g) = n
      BY <3>1
    <3> QED
      BY <3>1, <3>2
  <2>2. SubSeq(f, b - a + 1, Len(f)) = SubSeq(s, b, p)
    <3> DEFINE i == b - a + 1
               j == Len(f)
    <3>1. /\ i \in Int /\ j \in Int /\ 1 <= i /\ i <= j + 1 /\ j <= p - a + 1
          /\ a + i - 1 = b /\ a + j - 1 = p
      BY <1>2, <1>3, <1>4, <1>6
    <3> HIDE DEF i, j
    <3>2. SubSeq(SubSeq(s, a, p), i, j) = SubSeq(s, a + i - 1, a + j - 1)
      BY <1>2, <1>3, <3>1, SliceOfSlice
    <3> QED
      BY <1>1, <3>1, <3>2 DEF i, j
  <2>3. SubSeq(g, 1, m) = SubSeq(s, b, p)
    <3>1. /\ m \in Int /\ 1 \in Int /\ 1 <= 1 /\ 1 <= m + 1 /\ m <= q - b + 1
          /\ b + 1 - 1 = b /\ b + m - 1 = p
      BY <1>2, <1>3, <1>6
    <3> HIDE DEF m
    <3>2. SubSeq(SubSeq(s, b, q), 1, m) = SubSeq(s, b + 1 - 1, b + m - 1)
      BY <1>2, <1>3, <3>1, SliceOfSlice
    <3> QED
      BY <1>1, <3>1, <3>2
  <2>4. \A i \in m + 1 .. Len(g) : i \in 1 .. Len(g) /\ b + i - 1 > p
    BY <1>2, <1>3, <1>4, <1>6
  <2> HIDE DEF m
  <2>5. SubSeq(g, 1, m) = SubSeq(f, Len(f) - m + 1, Len(f))
    BY <2>1, <2>2, <2>3
  <2>6. \A i \in m + 1 .. Len(g) : \A bar \in ToSet(f) :
          bar.time + apart <= g[i].time
    BY <1>5, <2>4
  <2> QED
    BY <2>1, <2>5, <2>6 DEF Continues
<1>7. CASE ~ (b <= p + 1)
  <2>1. /\ 0 \in 0 .. Len(f) /\ 0 <= Len(g) /\ (0 < Len(f) => Len(g) = n)
        /\ Len(f) - 0 + 1 = Len(f) + 1
    BY <1>2, <1>3, <1>4, <1>7
  <2>2. SubSeq(g, 1, 0) = <<>> /\ SubSeq(f, Len(f) + 1, Len(f)) = <<>>
    BY <1>4, WholeSlice
  <2>3. SubSeq(g, 1, 0) = SubSeq(f, Len(f) - 0 + 1, Len(f))
    BY <2>1, <2>2
  <2>4. \A i \in 0 + 1 .. Len(g) : i \in 1 .. Len(g) /\ b + i - 1 > p
    BY <1>2, <1>3, <1>4, <1>7
  <2>5. \A i \in 0 + 1 .. Len(g) : \A bar \in ToSet(f) :
          bar.time + apart <= g[i].time
    BY <1>5, <2>4
  <2> QED
    BY <2>1, <2>3, <2>5 DEF Continues
<1> QED
  BY <1>6, <1>7

LEMMA NextFrames ==
  ASSUME m1' = m1, m5' = m5, m15' = m15
  PROVE  /\ Frame("M1")' = LastBars(SubSeq(m1, 1, index'), BarLookback)
         /\ \A timeframe \in Coarse :
              Frame(timeframe)' = LastBars(Shut(Series(timeframe), Length(timeframe),
                                                m1[index'].time),
                                           Limit(timeframe))
BY DEF Frame, GetBars, Coarse, Series, Length, Limit, Closed, Shut, Now

(* A frame of the next row goes on from this one. *)
LEMMA FramesMoveOn ==
  ASSUME MarketInv, index' \in 1 .. Len(m1), index <= index',
         m1' = m1, m5' = m5, m15' = m15,
         NEW timeframe \in Coarse \union {"M1"}
  PROVE  Continues(Frame(timeframe), Frame(timeframe)', Limit(timeframe),
                   Apart(timeframe))
<1> DEFINE f == Frame(timeframe)
           g == Frame(timeframe)'
           n == Limit(timeframe)
           apart == Apart(timeframe)
<1>1. /\ m1 \in Seq(Rows) /\ Sorted(m1) /\ Len(m1) \in Nat /\ index \in 1 .. Len(m1)
      /\ Now \in Int /\ Now = m1[index].time
  BY SeriesTypes DEF Now
<1>2. n \in Nat /\ BarLookback \in Nat
  BY Limits
<1>3. m1[index'].time \in Int /\ Now <= m1[index'].time
  BY <1>1, ElementOfSeq, TimeIsInt DEF Sorted
<1>4. CASE timeframe = "M1"
  <2>1. index \in 0 .. Len(m1) /\ index' \in 0 .. Len(m1) /\ n = BarLookback
    BY <1>1, <1>4, Limits
  <2>2. /\ f = LastBars(SubSeq(m1, 1, index), n)
        /\ g = LastBars(SubSeq(m1, 1, index'), n)
    BY <1>4, <2>1, Frames, NextFrames DEF Seen
  <2>3. apart = 0 /\ apart \in Int
    BY <1>4 DEF Apart
  <2>4. \A i \in 1 .. Len(m1) : m1[i].time \in Int
    BY <1>1, ElementOfSeq, TimeIsInt
  <2>5. \A i, j \in 1 .. Len(m1) : i < j => m1[i].time + apart <= m1[j].time
    BY <1>1, <2>3, <2>4 DEF Sorted
  <2> HIDE DEF f, g, n, apart
  <2>6. Continues(f, g, n, apart)
    BY <1>1, <1>2, <2>1, <2>2, <2>3, <2>5, WindowMoves
  <2> QED
    BY <2>6 DEF f, g, n, apart
<1>5. CASE timeframe \in Coarse
  <2> DEFINE bars == Series(timeframe)
             length == Length(timeframe)
             later == m1[index'].time
  <2>1. /\ bars \in Seq(Rows) /\ BarsOf(bars, m1, length) /\ length \in Nat \ {0}
        /\ Len(bars) \in Nat
    BY <1>5, SeriesTypes, Limits, LenProperties
  <2>2. /\ f = LastBars(Closed(bars, length), n)
        /\ g = LastBars(Shut(bars, length, later), n)
    BY <1>5, Frames, NextFrames
  <2>3. Closed(bars, length) = Shut(bars, length, Now)
    BY DEF Closed, Shut
  <2>4. later \in Int /\ Now \in Int /\ Now <= later
    BY <1>1, <1>3
  <2>5. apart = length
    BY <1>5 DEF Apart, Coarse
  <2> HIDE DEF f, g, n, bars, length, later, apart
  <2>6. PICK p \in 0 .. Len(bars) :
          /\ Shut(bars, length, Now) = SubSeq(bars, 1, p)
          /\ \A i \in 1 .. Len(bars) : bars[i].time + length <= Now <=> i <= p
    BY <2>1, <2>4, ShutIs
  <2>7. PICK q \in 0 .. Len(bars) :
          /\ Shut(bars, length, later) = SubSeq(bars, 1, q)
          /\ \A i \in 1 .. Len(bars) : bars[i].time + length <= later <=> i <= q
    BY <2>1, <2>4, ShutIs
  <2>8. p <= q
    <3>1. CASE p = 0
      BY <2>1, <3>1
    <3>2. CASE p # 0
      <4>1. p \in 1 .. Len(bars) /\ p <= p
        BY <2>1, <3>2
      <4>2. bars[p].time \in Int /\ bars[p].time + length <= Now
        BY <2>1, <2>6, <4>1, ElementOfSeq, TimeIsInt
      <4>3. bars[p].time + length <= later
        BY <2>1, <2>4, <4>2
      <4> QED
        BY <2>7, <4>1, <4>3
    <3> QED
      BY <3>1, <3>2
  <2>9. f = LastBars(SubSeq(bars, 1, p), n) /\ g = LastBars(SubSeq(bars, 1, q), n)
    BY <2>2, <2>3, <2>6, <2>7
  <2>10. apart \in Int /\ \A i, j \in 1 .. Len(bars) :
                             i < j => bars[i].time + apart <= bars[j].time
    BY <2>1, <2>5 DEF BarsOf
  <2>11. Continues(f, g, n, apart)
    BY <1>2, <2>1, <2>8, <2>9, <2>10, WindowMoves
  <2> QED
    BY <2>11 DEF f, g, n, apart
<1> QED
  BY <1>4, <1>5

(* The frames of the next iteration go on from those of this one. *)
THEOREM ShownIsFinal == Spec => ShownBarsAreFinal
<1> DEFINE Final ==
             \A timeframe \in Coarse \union {"M1"} :
               Continues(Frame(timeframe), Frame(timeframe)', Limit(timeframe),
                         Apart(timeframe))
<1>1. MarketInv /\ [Next]_vars => [Final]_vars
  <2> SUFFICES ASSUME MarketInv, SetCurrentBar PROVE Final
    BY DEF Next
  <2>1. Len(m1) \in Nat /\ index \in 1 .. Len(m1)
    BY SeriesTypes
  <2>2. index' \in 1 .. Len(m1) /\ index <= index' /\ m1' = m1 /\ m5' = m5 /\ m15' = m15
    BY <2>1 DEF SetCurrentBar
  <2> QED
    BY <2>2, FramesMoveOn
<1>2. Spec => [][Final]_vars
  <2> HIDE DEF Final
  <2> QED
    BY <1>1, MarketInvariant, PTL DEF Spec
<1> QED
  BY <1>2 DEF ShownBarsAreFinal

-----------------------------------------------------------------------------
(* The chosen days.                                                        *)

(* The range in minutes and the range in days.                             *)
LEMMA DaysInMinutes ==
  ASSUME NEW t \in Int, NEW first \in Int, NEW last \in Int, NEW day \in Nat \ {0}
  PROVE  /\ t \div day \in first .. last
              => first * day <= t /\ t <= last * day + day
         /\ first * day <= t /\ t <= last * day + day /\ t \div day \notin first .. last
              => t = (last + 1) * day
<1> DEFINE d == t \div day
           p == first * day
           q == last * day
           m == d * day
<1>1. d \in Int /\ m <= t /\ t < m + day
  BY Division
<1> HIDE DEF d
<1>2. p \in Int /\ q \in Int /\ m \in Int /\ day \in Nat /\ (last + 1) * day = q + day
  BY <1>1
<1>3. (d < first => m + day <= p) /\ (first < d => p + day <= m)
      /\ (d < last => m + day <= q) /\ (last < d => q + day <= m)
  BY <1>1, <1>2, Multiples
<1>4. (d = first => m = p) /\ (d = last => m = q)
  OBVIOUS
<1> HIDE DEF p, q, m
<1>5. d \in first .. last => p <= t /\ t <= q + day
  BY <1>1, <1>2, <1>3, <1>4
<1>6. p <= t /\ t <= q + day /\ d \notin first .. last => t = q + day
  BY <1>1, <1>2, <1>3, <1>4
<1> QED
  BY <1>2, <1>5, <1>6 DEF d, p, q

(* The range keeps the chosen days and at most one midnight more.          *)
LEMMA RangeIsInclusive == MarketInv => RangeInclusive
<1> SUFFICES ASSUME MarketInv PROVE RangeInclusive
  OBVIOUS
<1> DEFINE U == {r \in ToSet(file) : /\ r.time >= StartDate * DayLength
                                     /\ r.time <= EndDate * DayLength + DayLength}
<1>1. file \in Seq(Rows) /\ m1 = Kept(file, U)
  BY DEF MarketInv, SeriesOfFile, FilterDateRange
<1>2. ToSet(m1) = U
  <2>1. U \subseteq ToSet(file)
    OBVIOUS
  <2> HIDE DEF U
  <2>2. ToSet(Kept(file, U)) = ToSet(file) \cap U
    BY <1>1, KeptMembers
  <2> QED
    BY <1>1, <2>1, <2>2
<1>3. StartDate \in Int /\ EndDate \in Int /\ DayLength \in Nat \ {0}
  BY MarketAssumption
<1>4. ASSUME NEW r \in ToSet(file)
      PROVE  /\ Date(r) \in StartDate .. EndDate => r \in U
             /\ r \in U /\ Date(r) \notin StartDate .. EndDate
                  => r.time = (EndDate + 1) * DayLength
  <2>1. r.time \in Int
    BY <1>1, LenProperties, ElementOfSeq, TimeIsInt DEF ToSet
  <2> DEFINE t == r.time
  <2>2. /\ t \div DayLength \in StartDate .. EndDate
              => StartDate * DayLength <= t /\ t <= EndDate * DayLength + DayLength
        /\ StartDate * DayLength <= t /\ t <= EndDate * DayLength + DayLength
           /\ t \div DayLength \notin StartDate .. EndDate
             => t = (EndDate + 1) * DayLength
    BY <1>3, <2>1, DaysInMinutes
  <2>3. r \in U <=> StartDate * DayLength <= t /\ t <= EndDate * DayLength + DayLength
    <3>1. StartDate * DayLength \in Int
      BY <1>3
    <3> QED
      BY <2>1, <3>1
  <2>4. Date(r) = t \div DayLength
    BY DEF Date
  <2> HIDE DEF U
  <2>5. /\ Date(r) \in StartDate .. EndDate => r \in U
        /\ r \in U /\ Date(r) \notin StartDate .. EndDate
             => t = (EndDate + 1) * DayLength
    <3>1. t \in Int
      BY <2>1
    <3> HIDE DEF t
    <3> QED
      BY <1>3, <2>2, <2>3, <2>4, <3>1
  <2> QED
    BY <2>5
<1> HIDE DEF U
<1>5. /\ {r \in ToSet(file) : Date(r) \in StartDate .. EndDate} \subseteq ToSet(m1)
      /\ \A r \in ToSet(m1) \ {r \in ToSet(file) : Date(r) \in StartDate .. EndDate} :
           r.time = (EndDate + 1) * DayLength
  <2>1. \A r \in U : r \in ToSet(file)
    BY DEF U
  <2> QED
    BY <1>2, <1>4, <2>1
<1> QED
  BY <1>5 DEF RangeInclusive

(* Resampling in two steps is resampling once.                             *)
LEMMA SeriesAgree == MarketInv => ResamplingComposes
<1> SUFFICES ASSUME MarketInv PROVE ResamplingComposes
  OBVIOUS
<1>1. /\ m1 \in Seq(Rows) /\ m5 = ResampleOhlcv(m1, M5Length)
      /\ m15 = ResampleOhlcv(m1, M15Length)
  BY SeriesTypes DEF MarketInv, SeriesOfFile
<1>2. M5Length \in Nat \ {0} /\ M15Length \in Nat \ {0} /\ M15Length % M5Length = 0
  BY MarketAssumption
<1> QED
  BY <1>1, <1>2, ResampleTwice DEF ResamplingComposes

(* The series the backtest runs on are those of the chosen days. *)
THEOREM BarsAreTheFiles == Spec => []BarsMatchFile
<1>1. MarketInv => BarsMatchFile
  BY RangeIsInclusive, SeriesAgree DEF BarsMatchFile
<1> QED
  BY <1>1, MarketInvariant, PTL

-----------------------------------------------------------------------------
(* The session VWAP.                                                       *)

(* What a VWAP is the average of.                                          *)
OfDate(d) == {r \in Rows : Date(r) = d}

Session(bars) == Kept(bars, {b \in ToSet(bars) : Date(b) = Date(Last(bars))})

LEMMA VwapOfSession ==
  ASSUME NEW p, NEW q, Session(p) = Session(q)
  PROVE  Vwap(p) = Vwap(q)
BY DEF Vwap, Session

LEMMA SessionIs ==
  ASSUME NEW bars \in Seq(Rows), bars # <<>>
  PROVE  Session(bars) = Kept(bars, OfDate(Date(bars[Len(bars)])))
<1> DEFINE d == Date(Last(bars))
           U == {b \in ToSet(bars) : Date(b) = d}
           V == OfDate(d)
<1>1. d = Date(bars[Len(bars)])
  BY DEF Last
<1>2. ToSet(bars) \subseteq Rows
  BY LenProperties, ElementOfSeq DEF ToSet
<1> HIDE DEF d
<1>3. \A b \in ToSet(bars) : b \in U <=> b \in V
  BY <1>2 DEF OfDate
<1> HIDE DEF U, V
<1>4. Kept(bars, U) = Kept(bars, V)
  BY <1>3, KeptAgrees
<1> QED
  BY <1>1, <1>4 DEF Session, U, V, d

(* The last n bars are enough when the bars before them are of other days. *)
LEMMA SessionOfWindow ==
  ASSUME NEW s \in Seq(Rows), NEW n \in Nat, s # <<>>, LastBars(s, n) # <<>>,
         \A i \in 1 .. Len(s) - n : Date(s[i]) # Date(s[Len(s)])
  PROVE  Vwap(LastBars(s, n)) = Vwap(s)
<1> DEFINE a == Starts(Len(s), n)
           w == SubSeq(s, a, Len(s))
           D == OfDate(Date(s[Len(s)]))
<1>1. LastBars(s, n) = w /\ a \in 1 .. Len(s) + 1 /\ Len(s) \in Nat
  BY LastBarsIs, LenProperties
<1>2. \A i \in 1 .. a - 1 : i \in 1 .. Len(s) - n
  BY <1>1 DEF Starts
<1>3. \A i \in 1 .. a - 1 : s[i] \notin D
  BY <1>2 DEF OfDate
<1> HIDE DEF a, D
<1>4. Kept(s, D) = Kept(w, D)
  BY <1>1, <1>3, KeptOfSuffix
<1>5. /\ w \in Seq(Rows) /\ Len(w) = Len(s) - a + 1
      /\ \A i \in 1 .. Len(s) - a + 1 : w[i] = s[a + i - 1]
  <2>1. a \in Int /\ Len(s) \in Int /\ 1 <= a /\ a <= Len(s) + 1 /\ Len(s) <= Len(s)
    BY <1>1
  <2> QED
    BY <2>1, SliceOf
<1>6. w # <<>>
  BY <1>1
<1> HIDE DEF w
<1>7. Len(w) # 0
  BY <1>5, <1>6, EmptySeq
<1>8. w[Len(w)] = s[Len(s)]
  <2> DEFINE k == Len(s) - a + 1
  <2>1. k \in 1 .. Len(s) - a + 1 /\ a + k - 1 = Len(s) /\ Len(w) = k
    BY <1>1, <1>5, <1>7
  <2> HIDE DEF k
  <2>2. w[k] = s[a + k - 1]
    BY <1>5, <2>1
  <2> QED
    BY <2>1, <2>2
<1>9. Session(w) = Session(s)
  BY <1>4, <1>5, <1>6, <1>8, SessionIs DEF D
<1> QED
  BY <1>1, <1>9, VwapOfSession

(* Bars a bucket or more apart: n bars back is n buckets back.             *)
LEMMA Spacing ==
  ASSUME NEW bars \in Seq(Rows), NEW rows, NEW length \in Nat \ {0},
         BarsOf(bars, rows, length),
         NEW i \in 1 .. Len(bars), NEW j \in 1 .. Len(bars), i <= j
  PROVE  bars[i].time + (j - i) * length <= bars[j].time
<1> DEFINE A == {n \in Nat : i + n <= Len(bars) =>
                    bars[i].time + n * length <= bars[i + n].time}
<1>1. Len(bars) \in Nat /\ i \in Nat /\ j \in Nat /\ j <= Len(bars) /\ length \in Nat
  BY LenProperties
<1>2. \A k \in 1 .. Len(bars) : bars[k].time \in Int
  BY ElementOfSeq, TimeIsInt
<1>3. 0 \in A
  <2>1. i + 0 = i /\ 0 * length = 0
    BY <1>1
  <2> QED
    BY <1>2, <2>1
<1>4. ASSUME NEW n \in Nat, n \in A PROVE n + 1 \in A
  <2> SUFFICES ASSUME i + (n + 1) <= Len(bars)
               PROVE  bars[i].time + (n + 1) * length <= bars[i + (n + 1)].time
    OBVIOUS
  <2> DEFINE m == i + n
             x == n * length
  <2>1. /\ i + (n + 1) = m + 1 /\ m \in 1 .. Len(bars) /\ m + 1 \in 1 .. Len(bars)
        /\ m < m + 1 /\ m <= Len(bars) /\ x \in Int /\ (n + 1) * length = x + length
    BY <1>1
  <2>2. bars[i].time + x <= bars[m].time
    BY <1>4, <2>1
  <2> HIDE DEF m, x
  <2>3. bars[m].time + length <= bars[m + 1].time
    BY <2>1 DEF BarsOf
  <2>4. bars[i].time \in Int /\ bars[m].time \in Int /\ bars[m + 1].time \in Int
    BY <1>2, <2>1
  <2>5. bars[i].time + (x + length) <= bars[m + 1].time
    BY <1>1, <2>1, <2>2, <2>3, <2>4
  <2> QED
    BY <2>1, <2>5
<1>5. Nat \subseteq A
  <2> HIDE DEF A
  <2> QED
    BY <1>3, <1>4, SetInduction
<1>6. j - i \in Nat /\ i + (j - i) = j
  BY <1>1
<1>7. j - i \in A
  <2> HIDE DEF A
  <2> QED
    BY <1>5, <1>6
<1> QED
  BY <1>1, <1>6, <1>7

(* Times a day or more apart have different dates.                         *)
LEMMA DaysApart ==
  ASSUME NEW t \in Int, NEW u \in Int, NEW day \in Nat \ {0}, t + day <= u
  PROVE  t \div day # u \div day
<1> DEFINE d == t \div day
           e == u \div day
<1>1. /\ d \in Int /\ d * day <= t /\ e \in Int /\ u < e * day + day
  BY Division
<1> HIDE DEF d, e
<1>2. d = e => FALSE
  <2> SUFFICES ASSUME d = e PROVE FALSE
    OBVIOUS
  <2> DEFINE m == d * day
  <2>1. m \in Int /\ m <= t /\ u < m + day
    BY <1>1
  <2> HIDE DEF m
  <2> QED
    BY <2>1
<1> QED
  BY <1>2 DEF d, e

LEMMA EarlierDay ==
  ASSUME NEW t \in Int, NEW u \in Int, NEW day \in Nat \ {0}, t <= u
  PROVE  t \div day <= u \div day
<1> DEFINE d == t \div day
           e == u \div day
<1>1. /\ d \in Int /\ d * day <= t /\ e \in Int /\ u < e * day + day
  BY Division
<1> HIDE DEF d, e
<1>2. e < d => e * day + day <= d * day
  BY <1>1, Multiples
<1>3. e * day \in Int /\ d * day \in Int
  BY <1>1
<1>4. d <= e
  BY <1>1, <1>2, <1>3
<1> QED
  BY <1>4 DEF d, e

(* VWAP_BAR_LOOKBACK bars reach back a day.                                *)
LEMMA DayOfBars ==
  ASSUME MarketInv, Frame("M5") # <<>>
  PROVE  Vwap(Frame("M5")) = Vwap(GetBars("M5", Len(m5)))
<1> DEFINE C == Closed(m5, M5Length)
           n == Limit("M5")
<1>1. /\ m5 \in Seq(Rows) /\ BarsOf(m5, m1, M5Length) /\ Len(m5) \in Nat
      /\ M5Length \in Nat \ {0} /\ DayLength \in Nat \ {0}
      /\ n \in Nat /\ n >= VwapBarLookback /\ VwapBarLookback \in Nat
      /\ VwapBarLookback * M5Length = DayLength
  BY SeriesTypes, Limits, LenProperties, MarketAssumption
     DEF Coarse, Series, Length
<1>2. PICK c \in 0 .. Len(m5) : C = SubSeq(m5, 1, c)
  BY ClosedIs DEF Coarse, Series, Length
<1>3. Frame("M5") = LastBars(C, n) /\ GetBars("M5", Len(m5)) = LastBars(C, Len(m5))
  BY Frames DEF Coarse, Series, Length, GetBars
<1> HIDE DEF C, n
<1>4. /\ C \in Seq(Rows) /\ Len(C) = c /\ \A i \in 1 .. c : C[i] = m5[i]
  <2>1. 1 \in Int /\ c \in Int /\ 1 <= 1 /\ 1 <= c + 1 /\ c <= Len(m5)
        /\ c - 1 + 1 = c /\ \A i \in 1 .. c : 1 + i - 1 = i
    BY <1>1
  <2>2. /\ C \in Seq(Rows) /\ Len(C) = c - 1 + 1
        /\ \A i \in 1 .. c - 1 + 1 : C[i] = m5[1 + i - 1]
    BY <1>1, <1>2, <2>1, SliceOf
  <2> QED
    BY <2>1, <2>2
<1>5. LastBars(C, Len(m5)) = C
  <2>1. LastBars(C, Len(m5)) = SubSeq(C, Starts(c, Len(m5)), c)
    BY <1>1, <1>4, LastBarsIs
  <2>2. Starts(c, Len(m5)) = 1
    BY <1>1 DEF Starts
  <2>3. SubSeq(C, 1, c) = C
    BY <1>4, WholeSlice
  <2> QED
    BY <2>1, <2>2, <2>3
<1>6. c # 0
  <2>1. CASE c = 0
    <3>1. LastBars(C, n) = SubSeq(C, Starts(0, n), 0) /\ Starts(0, n) \in 1 .. 0 + 1
      BY <1>1, <1>4, <2>1, LastBarsIs
    <3>2. Starts(0, n) = 1
      BY <3>1
    <3>3. SubSeq(C, 1, 0) = <<>>
      BY <1>4, WholeSlice
    <3> QED
      BY <1>3, <3>1, <3>2, <3>3
  <2> QED
    BY <2>1
<1>7. C # <<>> /\ c \in 1 .. Len(m5)
  <2>1. c \in 1 .. Len(m5)
    BY <1>1, <1>6
  <2> QED
    BY <1>4, <1>6, <2>1, EmptySeq
<1>8. ASSUME NEW i \in 1 .. Len(C) - n PROVE Date(C[i]) # Date(C[Len(C)])
  <2>1. /\ i \in 1 .. c /\ i \in 1 .. Len(m5) /\ i <= c
        /\ c - i \in Int /\ VwapBarLookback <= c - i /\ Len(C) \in 1 .. c
    BY <1>1, <1>4, <1>7
  <2>2. m5[i].time + (c - i) * M5Length <= m5[c].time
    BY <1>1, <1>7, <2>1, Spacing
  <2> DEFINE k == c - i
             far == k * M5Length
             t == m5[i].time
             u == m5[c].time
  <2>3. t \in Int /\ u \in Int
    BY <1>1, <1>7, <2>1, ElementOfSeq, TimeIsInt
  <2>4. DayLength <= far /\ far \in Int
    <3>1. k \in Int /\ VwapBarLookback \in Int /\ M5Length \in Nat
      BY <1>1, <2>1
    <3>2. VwapBarLookback < k => VwapBarLookback * M5Length + M5Length <= far
      <4> HIDE DEF k
      <4> QED
        BY <3>1, Multiples
    <3>3. VwapBarLookback = k => VwapBarLookback * M5Length = far
      OBVIOUS
    <3>4. far \in Int
      BY <3>1
    <3> HIDE DEF far
    <3>5. DayLength <= far
      BY <1>1, <2>1, <3>1, <3>2, <3>3, <3>4
    <3> QED
      BY <3>4, <3>5
  <2>5. t + DayLength <= u
    <3>1. t + far <= u
      BY <2>2
    <3> HIDE DEF t, u, far
    <3> QED
      BY <1>1, <2>3, <2>4, <3>1
  <2>6. t \div DayLength # u \div DayLength
    <3> HIDE DEF t, u
    <3> QED
      BY <1>1, <2>3, <2>5, DaysApart
  <2>7. C[i] = m5[i] /\ C[Len(C)] = m5[c]
    BY <1>4, <2>1
  <2> QED
    BY <2>6, <2>7 DEF Date
<1>9. Vwap(LastBars(C, n)) = Vwap(C)
  <2>1. LastBars(C, n) # <<>>
    BY <1>3
  <2> QED
    BY <1>1, <1>4, <1>7, <1>8, <2>1, SessionOfWindow
<1> QED
  BY <1>3, <1>5, <1>9

(* As long as the day so far fits into bar_lookback.                       *)
LEMMA DayOfRows ==
  ASSUME MarketInv,
         Len(Kept(Seen, {r \in ToSet(Seen) : Date(r) = Date(m1[index])})) <= BarLookback
  PROVE  Vwap(Frame("M1")) = Vwap(Seen)
<1> DEFINE n == BarLookback
           d == Date(m1[index])
           U == {r \in ToSet(Seen) : Date(r) = d}
           D == OfDate(d)
<1>1. /\ m1 \in Seq(Rows) /\ Sorted(m1) /\ Len(m1) \in Nat /\ index \in 1 .. Len(m1)
      /\ n \in Nat /\ DayLength \in Nat \ {0}
  BY SeriesTypes, Limits, MarketAssumption
<1>2. /\ Seen \in Seq(Rows) /\ Len(Seen) = index /\ DOMAIN Seen = 1 .. index
      /\ \A i \in 1 .. index : Seen[i] = m1[i]
  BY SeenIs
<1>3. index \in 1 .. index /\ Seen[index] = m1[index]
  BY <1>1, <1>2
<1>4. Kept(Seen, U) = Kept(Seen, D)
  <2>1. ToSet(Seen) \subseteq Rows
    BY <1>2, ElementOfSeq DEF ToSet
  <2> HIDE DEF d
  <2>2. \A r \in ToSet(Seen) : r \in U <=> r \in D
    BY <2>1 DEF OfDate
  <2> HIDE DEF U, D
  <2> QED
    BY <1>2, <2>2, KeptAgrees
<1>5. ASSUME NEW i \in 1 .. index, NEW j \in 1 .. index, i <= j, Seen[i] \in D
      PROVE  Seen[j] \in D
  <2> DEFINE t == Seen[i].time
             u == Seen[j].time
             v == Seen[index].time
  <2>1. /\ i \in 1 .. Len(m1) /\ j \in 1 .. Len(m1) /\ j <= index
    BY <1>1
  <2>2. t \in Int /\ u \in Int /\ v \in Int /\ Seen[j] \in Rows
    BY <1>2, <1>3, ElementOfSeq, TimeIsInt
  <2>3. t <= u /\ u <= v
    BY <1>1, <1>2, <1>3, <1>5, <2>1 DEF Sorted
  <2>4. t \div DayLength = v \div DayLength
    BY <1>3, <1>5 DEF OfDate, Date
  <2>5. /\ t \div DayLength <= u \div DayLength /\ u \div DayLength <= v \div DayLength
        /\ t \div DayLength \in Int /\ u \div DayLength \in Int
    <3> HIDE DEF t, u, v
    <3> QED
      BY <1>1, <2>2, <2>3, EarlierDay, Division
  <2>6. u \div DayLength = v \div DayLength
    <3> HIDE DEF t, u, v
    <3> QED
      BY <2>4, <2>5
  <2> QED
    BY <1>3, <2>2, <2>6 DEF OfDate, Date
<1>6. Seen[index] \in D
  BY <1>2, <1>3, ElementOfSeq DEF OfDate
<1> HIDE DEF D, d
<1>7. PICK a \in 1 .. index + 1 : /\ Kept(Seen, D) = SubSeq(Seen, a, index)
                                  /\ \A i \in 1 .. index : Seen[i] \in D <=> a <= i
  BY <1>2, <1>5, KeptUp
<1>8. Len(Kept(Seen, D)) = index - a + 1 /\ a <= index
  <2>1. a <= index
    BY <1>3, <1>6, <1>7
  <2>2. /\ a \in Int /\ index \in Int /\ 1 <= a /\ a <= index + 1 /\ index <= Len(Seen)
    BY <1>1, <1>2, <1>7
  <2> QED
    BY <1>2, <1>7, <2>1, <2>2, SliceOf
<1>9. index - a + 1 <= n
  BY <1>4, <1>8 DEF U, d
<1>10. ASSUME NEW i \in 1 .. Len(Seen) - n PROVE Date(Seen[i]) # Date(Seen[Len(Seen)])
  <2>1. i \in 1 .. index /\ ~ (a <= i)
    BY <1>1, <1>2, <1>9
  <2>2. Seen[i] \notin D /\ Seen[i] \in Rows
    BY <1>2, <1>7, <2>1, ElementOfSeq
  <2>3. Date(Seen[Len(Seen)]) = d
    BY <1>2, <1>3 DEF d
  <2> QED
    BY <2>2, <2>3 DEF OfDate, D
<1>11. Seen # <<>> /\ LastBars(Seen, n) # <<>>
  <2>1. Len(Seen) # 0
    BY <1>1, <1>2
  <2> DEFINE b == Starts(index, n)
  <2>2. LastBars(Seen, n) = SubSeq(Seen, b, index) /\ b \in 1 .. index + 1
    BY <1>1, <1>2, LastBarsIs
  <2>3. b <= index
    BY <1>1, <1>8, <1>9 DEF Starts
  <2> HIDE DEF b
  <2>4. Len(SubSeq(Seen, b, index)) = index - b + 1
    <3>1. b \in Int /\ index \in Int /\ 1 <= b /\ b <= index + 1 /\ index <= Len(Seen)
      BY <1>1, <1>2, <2>2
    <3> QED
      BY <1>2, <3>1, SliceOf
  <2>5. Len(SubSeq(Seen, b, index)) # 0
    BY <1>1, <2>2, <2>3, <2>4
  <2> QED
    BY <1>2, <2>1, <2>2, <2>5, EmptySeq
<1>12. Vwap(LastBars(Seen, n)) = Vwap(Seen)
  BY <1>1, <1>2, <1>10, <1>11, SessionOfWindow
<1> QED
  BY <1>12, Frames

(* What the loop calls the session VWAP is that of the session. *)
THEOREM SessionVwap == Spec => []VwapIsSession
<1>1. MarketInv => VwapIsSession
  BY DayOfBars, DayOfRows DEF VwapIsSession
<1> QED
  BY <1>1, MarketInvariant, PTL

-----------------------------------------------------------------------------
(* The averages.                                                           *)

(* f averages xs: each value from the one before.                          *)
Averages(f, xs, a, b) ==
  /\ f \in [1 .. Len(xs) -> Int]
  /\ Len(xs) >= 1 => f[1] = xs[1]
  /\ \A i \in 2 .. Len(xs) : f[i] = ((b - a) * f[i - 1] + a * xs[i]) \div b

(* The recursive average is an integer and satisfies its recursion.        *)
LEMMA EwmAverages ==
  ASSUME NEW xs \in Seq(Int), NEW a \in Int, NEW b \in Nat \ {0}
  PROVE  Averages(Ewm(xs, a, b), xs, a, b)
<1> DEFINE N == Len(xs)
           Next1(v, i) == ((b - a) * v + a * xs[i]) \div b
           Averaging(f) == f = [i \in DOMAIN xs |->
                                  IF i = 1 THEN xs[1] ELSE Next1(f[i - 1], i)]
           chosen == CHOOSE f : Averaging(f)
           first == IF N = 0 THEN 0 ELSE xs[1]
           step == [n \in Nat |-> [v \in Int |-> IF n < N THEN Next1(v, n + 1) ELSE 0]]
<1>1. N \in Nat /\ DOMAIN xs = 1 .. N /\ \A i \in 1 .. N : xs[i] \in Int
  BY LenProperties, ElementOfSeq
<1>2. ASSUME NEW v \in Int, NEW i \in 1 .. N PROVE Next1(v, i) \in Int
  <2>1. xs[i] \in Int
    BY <1>1
  <2> DEFINE y == (b - a) * v + a * xs[i]
  <2>2. y \in Int
    BY <2>1
  <2> HIDE DEF y
  <2>3. y \div b \in Int
    BY <2>2, Division
  <2> QED
    BY <2>3 DEF y
<1> HIDE DEF Next1
<1>3. \E f : Averaging(f)
  <2>1. first \in Int /\ step \in [Nat -> [Int -> Int]]
    <3>1. ASSUME NEW n \in Nat, NEW v \in Int
          PROVE  (IF n < N THEN Next1(v, n + 1) ELSE 0) \in Int
      <4>1. n < N => n + 1 \in 1 .. N
        BY <1>1
      <4> QED
        BY <1>2, <4>1
    <3>2. first \in Int
      BY <1>1
    <3> QED
      BY <3>1, <3>2
  <2>2. PICK h : Follows(h, Int, first, step)
    <3> HIDE DEF step, first
    <3> QED
      BY <2>1, Recursion
  <2> DEFINE f == [i \in 1 .. N |-> h[i - 1]]
  <2>3. ASSUME NEW i \in 1 .. N, i # 1 PROVE f[i] = Next1(f[i - 1], i)
    <3>1. /\ i - 1 \in 1 .. N /\ i - 2 \in Nat /\ i - 1 \in Nat /\ i - 1 < N
          /\ (i - 2) + 1 = i - 1 /\ (i - 1) - 1 = i - 2 /\ (i - 1) + 1 = i
      BY <1>1, <2>3
    <3>2. h[i - 1] = step[i - 1][h[i - 2]] /\ h[i - 2] \in Int
      <4> HIDE DEF step, first
      <4> QED
        BY <2>2, <3>1 DEF Follows
    <3>3. step[i - 1][h[i - 2]] = Next1(h[i - 2], i)
      <4>1. step[i - 1][h[i - 2]] = Next1(h[i - 2], (i - 1) + 1)
        BY <3>1, <3>2
      <4> QED
        BY <3>1, <4>1
    <3>4. f[i] = h[i - 1] /\ f[i - 1] = h[i - 2]
      BY <3>1
    <3> QED
      BY <3>2, <3>3, <3>4
  <2>4. 1 \in 1 .. N => f[1] = xs[1]
    <3>1. 1 \in 1 .. N => h[0] = xs[1]
      BY <1>1, <2>2 DEF Follows
    <3> QED
      BY <3>1
  <2>5. f = [i \in 1 .. N |-> f[i]]
    OBVIOUS
  <2> HIDE DEF f, N
  <2>6. f = [i \in 1 .. N |-> IF i = 1 THEN xs[1] ELSE Next1(f[i - 1], i)]
    BY <2>3, <2>4, <2>5
  <2>7. Averaging(f)
    BY <1>1, <2>6
  <2> QED
    BY <2>7
<1>4. Averaging(chosen)
  <2> HIDE DEF Averaging
  <2> QED
    BY <1>3
<1>5. Ewm(xs, a, b) = chosen
  BY DEF Ewm, Next1
<1> HIDE DEF chosen
<1>6. /\ 1 \in 1 .. N => chosen[1] = xs[1]
      /\ \A i \in 1 .. N : i # 1 => chosen[i] = Next1(chosen[i - 1], i)
      /\ chosen = [i \in 1 .. N |-> chosen[i]]
  BY <1>1, <1>4
<1> DEFINE A == {n \in Nat : n + 1 <= N => chosen[n + 1] \in Int}
<1>7. 0 \in A
  <2>1. 0 + 1 <= N => 1 \in 1 .. N
    BY <1>1
  <2>2. 0 + 1 <= N => chosen[0 + 1] \in Int
    BY <1>1, <1>6, <2>1
  <2> QED
    BY <2>2
<1>8. ASSUME NEW n \in Nat, n \in A PROVE n + 1 \in A
  <2> SUFFICES ASSUME (n + 1) + 1 <= N PROVE chosen[(n + 1) + 1] \in Int
    OBVIOUS
  <2> DEFINE i == (n + 1) + 1
  <2>1. i \in 1 .. N /\ i # 1 /\ i - 1 = n + 1 /\ chosen[n + 1] \in Int
    BY <1>1, <1>8
  <2> HIDE DEF i
  <2>2. chosen[i] = Next1(chosen[n + 1], i)
    BY <1>6, <2>1
  <2>3. chosen[i] \in Int
    BY <1>2, <2>1, <2>2
  <2> QED
    BY <2>3 DEF i
<1>9. Nat \subseteq A
  <2> HIDE DEF A
  <2> QED
    BY <1>7, <1>8, SetInduction
<1>10. \A i \in 1 .. N : chosen[i] \in Int
  <2>1. ASSUME NEW i \in 1 .. N PROVE chosen[i] \in Int
    <3>1. i - 1 \in Nat /\ (i - 1) + 1 = i /\ i <= N
      BY <1>1
    <3>2. i - 1 \in A
      <4> HIDE DEF A
      <4> QED
        BY <1>9, <3>1
    <3> QED
      BY <3>1, <3>2
  <2> QED
    BY <2>1
<1>11. chosen \in [1 .. N -> Int]
  <2> HIDE DEF N
  <2> QED
    BY <1>6, <1>10
<1>12. \A i \in 2 .. N : chosen[i] = ((b - a) * chosen[i - 1] + a * xs[i]) \div b
  <2>1. \A i \in 2 .. N : i \in 1 .. N /\ i # 1
    BY <1>1
  <2> QED
    BY <1>6, <2>1 DEF Next1
<1>13. N >= 1 => chosen[1] = xs[1]
  BY <1>1, <1>6
<1> QED
  BY <1>5, <1>11, <1>12, <1>13 DEF Averages

-----------------------------------------------------------------------------
(* The stop.                                                               *)

LEMMA RowFields ==
  ASSUME NEW b \in Rows
  PROVE  /\ b.time \in Int /\ b.open \in Int /\ b.high \in Int /\ b.low \in Int
         /\ b.close \in Int /\ b.volume \in Int
BY DEF Rows

Ranges(bars) == TrueRanges(bars) \in Seq(Int) /\ Len(TrueRanges(bars)) = Len(bars)

LEMMA AbsType ==
  ASSUME NEW n \in Int
  PROVE  Abs(n) \in Nat /\ Abs(-n) = Abs(n)
BY DEF Abs

LEMMA TrueRangesType ==
  ASSUME NEW bars \in Seq(Rows)
  PROVE  Ranges(bars)
<1> DEFINE n == Len(bars)
           Range3(b, c) == Max({b.high - b.low, Abs(b.high - c), Abs(b.low - c)})
           t == TrueRanges(bars)
<1>1. n \in Nat /\ DOMAIN bars = 1 .. n
  BY LenProperties
<1>2. ASSUME NEW i \in 1 .. n
      PROVE  /\ bars[i].high \in Int /\ bars[i].low \in Int /\ bars[i].close \in Int
  <2>1. bars[i] \in Rows
    BY ElementOfSeq
  <2> QED
    BY <2>1, RowFields
<1>3. ASSUME NEW i \in 1 .. n, i # 1
      PROVE  Range3(bars[i], bars[i - 1].close) \in Int
  <2>1. i - 1 \in 1 .. n
    BY <1>3
  <2> DEFINE x == bars[i].high  y == bars[i].low  z == bars[i - 1].close
  <2>2. x \in Int /\ y \in Int /\ z \in Int
    BY <1>2, <2>1
  <2> HIDE DEF x, y, z
  <2>3. x - y \in Int /\ Abs(x - z) \in Int /\ Abs(y - z) \in Int
    <3>1. x - y \in Int /\ x - z \in Int /\ y - z \in Int
      BY <2>2
    <3>2. Abs(x - z) \in Nat /\ Abs(y - z) \in Nat
      BY <3>1, AbsType
    <3> QED
      BY <3>1, <3>2
  <2>4. Max({x - y, Abs(x - z), Abs(y - z)}) \in Int
    BY <2>3, MaxOfThree
  <2> QED
    BY <2>4 DEF x, y, z
<1>4. t = [i \in 1 .. n |-> IF i = 1 THEN bars[i].high - bars[i].low
                            ELSE Range3(bars[i], bars[i - 1].close)]
  BY <1>1 DEF TrueRanges
<1> HIDE DEF Range3, t, n
<1>5. t \in [1 .. n -> Int]
  BY <1>2, <1>3, <1>4
<1>6. t \in Seq(Int) /\ Len(t) = n
  BY <1>1, <1>5, SeqDef, LenProperties
<1> QED
  BY <1>6 DEF t, n, Ranges

LEMMA LastEwmIs ==
  ASSUME NEW xs \in Seq(Int), NEW a \in Int, NEW b \in Nat \ {0}, NEW m \in Nat \ {0}
  PROVE  /\ Len(xs) < m => LastEwm(xs, a, b, m) = NaN
         /\ ~ (Len(xs) < m) => /\ LastEwm(xs, a, b, m) = Ewm(xs, a, b)[Len(xs)]
                               /\ LastEwm(xs, a, b, m) \in Int
<1>1. Ewm(xs, a, b) \in [1 .. Len(xs) -> Int]
  BY EwmAverages DEF Averages
<1>2. ~ (Len(xs) < m) => Len(xs) \in 1 .. Len(xs)
  BY LenProperties
<1> QED
  BY <1>1, <1>2 DEF LastEwm

LEMMA SignalTypes ==
  /\ AtrPeriod \in Nat \ {0} /\ SwingLookback \in Nat \ {0} /\ SwingLookback \in Nat
  /\ EmaFast \in Nat \ {0} /\ EmaSlow \in Nat \ {0}
  /\ MacdFast \in Nat \ {0} /\ MacdSlow \in Nat \ {0} /\ MacdSignal \in Nat \ {0}
  /\ PullbackTolerance \in Int /\ AbnormalMultiple \in Int /\ MinAtrSpread \in Int
  /\ SlAtrBuffer \in Nat
  /\ NaN \notin Int /\ NaN # "BUY" /\ NaN # "SELL"
BY SignalsAssumption

(* A signal takes an ATR that is ready and wide enough for the cost.       *)
LEMMA SignalFires ==
  ASSUME NEW bars, NEW trend, NEW cost, DetectEntrySignal(bars, trend, cost) # NaN
  PROVE  /\ bars # <<>> /\ Atr(bars) # NaN /\ ~ (Atr(bars) < MinAtrSpread * cost)
         /\ DetectEntrySignal(bars, trend, cost) \in {"BUY", "SELL"}
<1> DEFINE side == DetectEntrySignal(bars, trend, cost)
           atr == Atr(bars)
<1>1. bars # <<>> /\ atr # NaN /\ ~ (atr < MinAtrSpread * cost)
  BY DEF DetectEntrySignal
<1>2. side \in {"BUY", "SELL", NaN}
  BY DEF DetectEntrySignal
<1> QED
  BY <1>1, <1>2

LEMMA DecisionIs ==
  ASSUME NEW m15bars, NEW m5bars, NEW m1bars, NEW cost,
         NEW d, d = Decide(m15bars, m5bars, m1bars, cost), d # NaN
  PROVE  /\ d.side \in {"BUY", "SELL"} /\ d.stop = CalculateStopLoss(m1bars, d.side)
         /\ m1bars # <<>> /\ Atr(m1bars) # NaN /\ ~ (Atr(m1bars) < MinAtrSpread * cost)
<1> DEFINE trend == IF DetectTrend(m15bars) = ConfirmTrend(m5bars)
                      THEN DetectTrend(m15bars) ELSE "NONE"
           side == DetectEntrySignal(m1bars, trend, cost)
<1>1. d = IF side = NaN THEN NaN
          ELSE [side |-> side, stop |-> CalculateStopLoss(m1bars, side)]
  BY DEF Decide
<1> HIDE DEF trend
<1>2. side # NaN /\ d.side = side /\ d.stop = CalculateStopLoss(m1bars, side)
  BY <1>1
<1> QED
  BY <1>2, SignalFires

(* The last bar of a window is the last bar.                               *)
LEMMA WindowEnd ==
  ASSUME NEW T, NEW s \in Seq(T), NEW n \in Nat \ {0}, s # <<>>, NEW w, w = LastBars(s, n)
  PROVE  w \in Seq(T) /\ w # <<>> /\ Len(w) \in 1 .. Len(w) /\ w[Len(w)] = s[Len(s)]
<1> DEFINE a == Starts(Len(s), n)
<1>1. w = SubSeq(s, a, Len(s)) /\ a \in 1 .. Len(s) + 1 /\ Len(s) \in Nat
  BY LastBarsIs, LenProperties
<1>2. Len(s) # 0
  BY EmptySeq
<1>3. a <= Len(s)
  BY <1>1, <1>2 DEF Starts
<1> HIDE DEF a
<1>4. /\ w \in Seq(T) /\ Len(w) = Len(s) - a + 1
      /\ \A i \in 1 .. Len(s) - a + 1 : w[i] = s[a + i - 1]
  <2>1. a \in Int /\ Len(s) \in Int /\ 1 <= a /\ a <= Len(s) + 1 /\ Len(s) <= Len(s)
    BY <1>1
  <2> QED
    BY <1>1, <2>1, SliceOf
<1>5. Len(w) \in 1 .. Len(w) /\ Len(w) # 0
  BY <1>1, <1>3, <1>4
<1>6. w # <<>>
  BY <1>5, EmptySeq
<1>7. w[Len(w)] = s[Len(s)]
  <2> DEFINE k == Len(s) - a + 1
  <2>1. k \in 1 .. Len(s) - a + 1 /\ a + k - 1 = Len(s) /\ Len(w) = k
    BY <1>1, <1>3, <1>4
  <2> HIDE DEF k
  <2>2. w[k] = s[a + k - 1]
    BY <1>4, <2>1
  <2> QED
    BY <2>1, <2>2
<1> QED
  BY <1>4, <1>5, <1>6, <1>7

LEMMA Beyond ==
  ASSUME NEW w \in Seq(Rows), w # <<>>, NEW buffer \in Int, buffer >= 1,
         NEW bar \in ToSet(w)
  PROVE  /\ bar.low \in Int /\ Min({w[i].low : i \in DOMAIN w}) - buffer < bar.low
         /\ Min({w[i].low : i \in DOMAIN w}) \in Int
         /\ bar.high \in Int /\ Max({w[i].high : i \in DOMAIN w}) + buffer > bar.high
         /\ Max({w[i].high : i \in DOMAIN w}) \in Int
<1> DEFINE n == Len(w)
           lows == [i \in 1 .. n |-> w[i].low]
           highs == [i \in 1 .. n |-> w[i].high]
           L == {w[i].low : i \in DOMAIN w}
           H == {w[i].high : i \in DOMAIN w}
<1>1. n \in Nat /\ DOMAIN w = 1 .. n /\ n # 0
  BY LenProperties, EmptySeq
<1>2. \A i \in 1 .. n : w[i].low \in Int /\ w[i].high \in Int
  <2>1. ASSUME NEW i \in 1 .. n PROVE w[i] \in Rows
    BY ElementOfSeq
  <2> QED
    BY <2>1, RowFields
<1>3. PICK i \in 1 .. n : bar = w[i]
  BY <1>1 DEF ToSet
<1>4. lows \in [1 .. n -> Int] /\ highs \in [1 .. n -> Int]
  BY <1>2
<1>5. /\ L = {lows[j] : j \in DOMAIN lows} /\ H = {highs[j] : j \in DOMAIN highs}
      /\ bar.low \in L /\ bar.high \in H
  BY <1>1, <1>3
<1> HIDE DEF lows, highs, L, H, n
<1>6. /\ lows \in Seq(Int) /\ highs \in Seq(Int) /\ lows # <<>> /\ highs # <<>>
  <2>1. lows \in Seq(Int) /\ highs \in Seq(Int) /\ Len(lows) = n /\ Len(highs) = n
    BY <1>1, <1>4, SeqDef, LenProperties
  <2> QED
    BY <1>1, <2>1, EmptySeq
<1>7. L \in SUBSET Int /\ Min(L) \in L /\ \A y \in L : Min(L) <= y
  BY <1>5, <1>6, ExtremesOfSeq
<1>8. H \in SUBSET Int /\ Max(H) \in H /\ \A y \in H : Max(H) >= y
  BY <1>5, <1>6, ExtremesOfSeq
<1>9. Min(L) \in Int /\ Max(H) \in Int /\ bar.low \in Int /\ bar.high \in Int
  BY <1>5, <1>7, <1>8
<1>10. Min(L) - buffer < bar.low /\ Max(H) + buffer > bar.high
  <2> DEFINE low == Min(L)  high == Max(H)  x == bar.low  y == bar.high
  <2>1. low \in Int /\ high \in Int /\ x \in Int /\ y \in Int /\ low <= x /\ high >= y
    BY <1>5, <1>7, <1>8, <1>9
  <2> HIDE DEF low, high, x, y
  <2>2. low - buffer < x /\ high + buffer > y
    BY <2>1
  <2> QED
    BY <2>2 DEF low, high, x, y
<1> QED
  BY <1>9, <1>10 DEF L, H

Proper(bar) == bar.low <= bar.close /\ bar.close <= bar.high
ProperFile == \A bar \in ToSet(file) : Proper(bar)

(* A permitted signal has a buffer of at least one unit.                   *)
LEMMA BufferIsPositive ==
  ASSUME BufferCounts, NEW atr \in Int, ~ (atr < MinAtrSpread * Cost)
  PROVE  Quarters(SlAtrBuffer, atr) \in Int /\ Quarters(SlAtrBuffer, atr) >= 1
<1> DEFINE m == MinAtrSpread * Cost
           k == SlAtrBuffer
<1>1. m \in Int /\ k \in Nat
  BY SignalTypes, MarketAssumption
<1>2. k * m >= 4 /\ m <= atr
  BY <1>1 DEF BufferCounts
<1> HIDE DEF m, k
<1>3. k * atr >= 4 /\ k * atr \in Int
  <2>1. atr - m \in Nat
    BY <1>1, <1>2
  <2>2. k * (atr - m) \in Nat
    BY <1>1, <2>1
  <2>3. k * (atr - m) = k * atr - k * m
    BY <1>1
  <2>4. k * atr \in Int /\ k * m \in Int
    BY <1>1
  <2> QED
    BY <1>2, <2>2, <2>3, <2>4
<1> DEFINE x == k * atr
<1> HIDE DEF x
<1>4. x \in Int /\ x >= 4 => x \div 4 \in Int /\ x \div 4 >= 1
  OBVIOUS
<1> QED
  BY <1>3, <1>4 DEF x, k, Quarters

(* Candles that contain their close make a file of such rows.              *)
LEMMA ProperInit == ProperCandles /\ Init => ProperFile
<1> SUFFICES ASSUME ProperCandles, Init PROVE ProperFile
  OBVIOUS
<1>1. PICK steps \in [1 .. NumRows -> Steps] : \E c \in [1 .. NumRows -> Candles] :
        file = LoadOhlcvCsv(steps, c)
  BY DEF Init
<1>2. PICK candles \in [1 .. NumRows -> Candles] : file = LoadOhlcvCsv(steps, candles)
  BY <1>1
<1>3. ASSUME NEW bar \in ToSet(file) PROVE Proper(bar)
  <2>1. PICK i \in 1 .. NumRows :
          bar = Bar(StartDate * DayLength - LeadIn + Sum(SubSeq(steps, 1, i)), candles[i])
    BY <1>2, <1>3 DEF ToSet, LoadOhlcvCsv
  <2>2. /\ bar.low = candles[i].low /\ bar.close = candles[i].close
        /\ bar.high = candles[i].high
    BY <2>1 DEF Bar
  <2>3. candles[i] \in Candles
    OBVIOUS
  <2> QED
    BY <2>2, <2>3 DEF ProperCandles, Proper
<1> QED
  BY <1>3 DEF ProperFile

LEMMA ProperStep == ProperFile /\ [Next]_vars => ProperFile'
BY DEF ProperFile, Next, SetCurrentBar, vars, Proper

(* Hence its stop is beyond the window.                                    *)
LEMMA StopIsBehind ==
  ASSUME BufferCounts, MarketInv, ProperFile
  PROVE  StopBehindSignal
<1> SUFFICES ASSUME Decision # NaN,
                    NEW bar \in ToSet(LastBars(Frame("M1"), SwingLookback))
             PROVE  IF Decision.side = "BUY"
                      THEN Decision.stop < bar.low /\ Decision.stop < m1[index].close
                      ELSE Decision.stop > bar.high /\ Decision.stop > m1[index].close
  BY DEF StopBehindSignal, IsBehind
<1> DEFINE F == Frame("M1")
           w == LastBars(F, SwingLookback)
           atr == Atr(F)
           buffer == Quarters(SlAtrBuffer, atr)
           d == Decision
<1>1. /\ d.side \in {"BUY", "SELL"} /\ d.stop = CalculateStopLoss(F, d.side)
      /\ F # <<>> /\ atr # NaN /\ ~ (atr < MinAtrSpread * Cost)
  <2>1. d = Decide(Frame("M15"), Frame("M5"), F, Cost)
    BY DEF Decision
  <2> HIDE DEF d, F
  <2> QED
    BY <2>1, DecisionIs DEF d
<1>2. /\ m1 \in Seq(Rows) /\ index \in 1 .. Len(m1) /\ m1[index] \in Rows
      /\ Seen \in Seq(Rows) /\ Len(Seen) = index /\ Seen[index] = m1[index]
  <2>1. index \in 1 .. index
    BY SeriesTypes
  <2> QED
    BY <2>1, SeriesTypes, SeenIs
<1>3. F = LastBars(Seen, BarLookback) /\ BarLookback \in Nat
  BY Frames, Limits
<1>4. F \in Seq(Rows) /\ Len(F) \in 1 .. Len(F) /\ F[Len(F)] = m1[index]
  <2>1. Seen # <<>> /\ BarLookback \in Nat \ {0}
    <3>1. index # 0
      BY <1>2
    <3> QED
      BY <1>2, <3>1, EmptySeq, MarketAssumption
  <2> HIDE DEF F
  <2> QED
    BY <1>2, <1>3, <2>1, WindowEnd
<1> HIDE DEF F, d
<1>5. w \in Seq(Rows) /\ w # <<>> /\ Len(w) \in 1 .. Len(w) /\ w[Len(w)] = m1[index]
  <2> HIDE DEF w
  <2>1. w = LastBars(F, SwingLookback) /\ SwingLookback \in Nat \ {0}
    BY SignalTypes DEF w
  <2> QED
    BY <1>1, <1>4, <2>1, WindowEnd
<1>6. atr \in Int
  <2>1. TrueRanges(F) \in Seq(Int)
    BY <1>4, TrueRangesType DEF Ranges
  <2>2. AtrPeriod \in Nat \ {0} /\ 1 \in Int
    BY SignalTypes
  <2> QED
    BY <1>1, <2>1, <2>2, LastEwmIs DEF Atr
<1> HIDE DEF atr
<1>7. buffer \in Int /\ buffer >= 1
  BY <1>1, <1>6, BufferIsPositive
<1> DEFINE low == Min({w[i].low : i \in DOMAIN w})
           high == Max({w[i].high : i \in DOMAIN w})
<1>8. d.stop = IF d.side = "BUY" THEN low - buffer ELSE high + buffer
  BY <1>1 DEF CalculateStopLoss, atr
<1> HIDE DEF w, buffer
<1>9. ASSUME NEW b \in ToSet(w)
      PROVE  /\ b.low \in Int /\ low - buffer < b.low /\ low \in Int
             /\ b.high \in Int /\ high + buffer > b.high /\ high \in Int
  BY <1>5, <1>7, Beyond
<1>10. m1[index] \in ToSet(w)
  BY <1>5, LenProperties DEF ToSet
<1>11. Proper(m1[index])
  <2>1. ToSet(m1) \subseteq ToSet(file) /\ m1[index] \in ToSet(m1)
    <3>1. file \in Seq(Rows) /\ m1 = FilterDateRange(file)
      BY DEF MarketInv, SeriesOfFile
    <3>2. ToSet(m1) \subseteq ToSet(file)
      BY <3>1, KeptMembers DEF FilterDateRange
    <3>3. m1[index] \in ToSet(m1)
      BY <1>2, LenProperties DEF ToSet
    <3> QED
      BY <3>2, <3>3
  <2> QED
    BY <2>1 DEF ProperFile
<1>12. /\ low - buffer < m1[index].close /\ high + buffer > m1[index].close
  <2> DEFINE b == m1[index]
  <2>1. /\ b.low \in Int /\ low - buffer < b.low /\ low \in Int
        /\ b.high \in Int /\ high + buffer > b.high /\ high \in Int
    BY <1>9, <1>10
  <2>2. b.low <= b.close /\ b.close <= b.high /\ b.close \in Int
    BY <1>2, <1>11, RowFields DEF Proper
  <2> HIDE DEF b, low, high
  <2>3. low - buffer < b.close /\ high + buffer > b.close
    BY <1>7, <2>1, <2>2
  <2> QED
    BY <2>3 DEF b
<1>13. bar \in ToSet(w)
  BY DEF w, F
<1>14. /\ low - buffer < bar.low /\ high + buffer > bar.high
  BY <1>9, <1>13
<1> HIDE DEF low, high
<1>15. d.side = "BUY" => d.stop < bar.low /\ d.stop < m1[index].close
  BY <1>8, <1>12, <1>14
<1>16. d.side # "BUY" => d.stop > bar.high /\ d.stop > m1[index].close
  BY <1>8, <1>12, <1>14
<1> QED
  BY <1>15, <1>16 DEF d

(* On proper candles, and with a buffer that is not rounded to nothing, a  *)
(* stop is on the losing side of the signal's price.                       *)
THEOREM StopsAreBehind ==
  ASSUME ProperCandles, BufferCounts
  PROVE  Spec => []StopBehindSignal
<1>1. Init => ProperFile
  BY ProperInit
<1>2. MarketInv /\ ProperFile => StopBehindSignal
  BY StopIsBehind
<1> QED
  BY <1>1, <1>2, ProperStep, MarketInvariant, PTL DEF Spec

-----------------------------------------------------------------------------
(* The mirror image.                                                       *)

(* The image of one bar. *)
Image(bar) ==
  [bar EXCEPT !.open = -@, !.close = -@, !.high = -bar.low, !.low = -bar.high]

Negated(xs) == [i \in DOMAIN xs |-> - xs[i]]

LEMMA ImageIs ==
  ASSUME NEW b \in Rows
  PROVE  /\ Image(b) \in Rows
         /\ Image(b).time = b.time /\ Image(b).volume = b.volume
         /\ Image(b).open = - b.open /\ Image(b).close = - b.close
         /\ Image(b).high = - b.low /\ Image(b).low = - b.high
<1>1. /\ b.open \in Int /\ b.close \in Int /\ b.high \in Int /\ b.low \in Int
  BY RowFields
<1>2. /\ - b.open \in Int /\ - b.close \in Int /\ - b.high \in Int /\ - b.low \in Int
  BY <1>1
<1>3. Image(b) \in Rows
  BY <1>2 DEF Image, Rows
<1>4. /\ Image(b).time = b.time /\ Image(b).volume = b.volume
      /\ Image(b).open = - b.open /\ Image(b).close = - b.close
      /\ Image(b).high = - b.low /\ Image(b).low = - b.high
  BY DEF Image, Rows
<1> QED
  BY <1>3, <1>4

(* Mirroring keeps a list of rows one, element by element.                 *)
LEMMA MirroredIs ==
  ASSUME NEW s \in Seq(Rows)
  PROVE  /\ Mirrored(s) \in Seq(Rows) /\ Len(Mirrored(s)) = Len(s)
         /\ DOMAIN Mirrored(s) = 1 .. Len(s)
         /\ \A i \in 1 .. Len(s) : Mirrored(s)[i] = Image(s[i])
<1> DEFINE n == Len(s)
           m == Mirrored(s)
<1>1. n \in Nat /\ DOMAIN s = 1 .. n /\ \A i \in 1 .. n : s[i] \in Rows
  BY LenProperties, ElementOfSeq
<1>2. m = [i \in 1 .. n |-> Image(s[i])]
  BY <1>1 DEF Mirrored, Image
<1>3. \A i \in 1 .. n : Image(s[i]) \in Rows
  BY <1>1, ImageIs
<1> HIDE DEF m, n
<1>4. m \in [1 .. n -> Rows] /\ \A i \in 1 .. n : m[i] = Image(s[i])
  BY <1>2, <1>3
<1>5. m \in Seq(Rows) /\ Len(m) = n
  BY <1>1, <1>4, SeqDef, LenProperties
<1> QED
  BY <1>4, <1>5 DEF m, n

LEMMA MirroredAppend ==
  ASSUME NEW s \in Seq(Rows), NEW x \in Rows
  PROVE  /\ Mirrored(Append(s, x)) = Append(Mirrored(s), Image(x))
         /\ Mirrored(<<>>) = <<>>
<1> DEFINE n == Len(s)
           p == Append(s, x)
           u == Mirrored(p)
           v == Append(Mirrored(s), Image(x))
<1>1. n \in Nat /\ Image(x) \in Rows
  BY LenProperties, ImageIs
<1>2. /\ Mirrored(s) \in Seq(Rows) /\ Len(Mirrored(s)) = n
      /\ \A i \in 1 .. n : Mirrored(s)[i] = Image(s[i])
  BY MirroredIs
<1>3. p \in Seq(Rows) /\ Len(p) = n + 1 /\ p[n + 1] = x /\ \A i \in 1 .. n : p[i] = s[i]
  BY AppendProperties
<1>4. u \in Seq(Rows) /\ Len(u) = n + 1 /\ \A i \in 1 .. n + 1 : u[i] = Image(p[i])
  <2> HIDE DEF p
  <2> QED
    BY <1>3, MirroredIs
<1>5. /\ v \in Seq(Rows) /\ Len(v) = n + 1 /\ v[n + 1] = Image(x)
      /\ \A i \in 1 .. n : v[i] = Mirrored(s)[i]
  BY <1>1, <1>2, AppendProperties
<1> HIDE DEF n, p, u, v
<1>6. ASSUME NEW i \in 1 .. n + 1 PROVE u[i] = v[i]
  <2>1. CASE i = n + 1
    BY <1>3, <1>4, <1>5, <2>1
  <2>2. CASE i # n + 1
    <3>1. i \in 1 .. n
      BY <1>1, <2>2
    <3> QED
      BY <1>2, <1>3, <1>4, <1>5, <3>1
  <2> QED
    BY <2>1, <2>2
<1>7. u = v
  BY <1>4, <1>5, <1>6, SeqEqual
<1>8. Mirrored(<<>>) = <<>>
  <2>1. <<>> \in Seq(Rows) /\ Len(<<>>) = 0
    BY EmptySeq
  <2>2. Mirrored(<<>>) \in Seq(Rows) /\ Len(Mirrored(<<>>)) = 0
    BY <2>1, MirroredIs
  <2> QED
    BY <2>2, EmptySeq
<1> QED
  BY <1>7, <1>8 DEF u, v, p

LEMMA MirroredSlice ==
  ASSUME NEW s \in Seq(Rows), NEW a \in Int, NEW b \in Int,
         1 <= a, a <= b + 1, b <= Len(s)
  PROVE  SubSeq(Mirrored(s), a, b) = Mirrored(SubSeq(s, a, b))
<1> DEFINE n == b - a + 1
           m == Mirrored(s)
           w == SubSeq(s, a, b)
           u == SubSeq(m, a, b)
           v == Mirrored(w)
<1>1. Len(s) \in Nat
  BY LenProperties
<1>2. m \in Seq(Rows) /\ Len(m) = Len(s) /\ \A i \in 1 .. Len(s) : m[i] = Image(s[i])
  BY MirroredIs
<1>3. w \in Seq(Rows) /\ Len(w) = n /\ \A i \in 1 .. n : w[i] = s[a + i - 1]
  BY SliceOf
<1>4. u \in Seq(Rows) /\ Len(u) = n /\ \A i \in 1 .. n : u[i] = m[a + i - 1]
  <2> HIDE DEF m
  <2>1. b <= Len(m)
    BY <1>2
  <2> QED
    BY <1>2, <2>1, SliceOf
<1>5. v \in Seq(Rows) /\ Len(v) = n /\ \A i \in 1 .. n : v[i] = Image(w[i])
  <2> HIDE DEF w
  <2> QED
    BY <1>3, MirroredIs
<1>6. ASSUME NEW i \in 1 .. n PROVE u[i] = v[i]
  <2>1. a + i - 1 \in 1 .. Len(s)
    BY <1>1
  <2> HIDE DEF m, u, v, w
  <2> QED
    BY <1>2, <1>3, <1>4, <1>5, <2>1
<1> HIDE DEF m, u, v, w, n
<1>7. u = v
  BY <1>4, <1>5, <1>6, SeqEqual
<1> QED
  BY <1>7 DEF u, v, m, w

LEMMA MirroredLast ==
  ASSUME NEW s \in Seq(Rows), NEW n \in Nat
  PROVE  LastBars(Mirrored(s), n) = Mirrored(LastBars(s, n))
<1> DEFINE a == Starts(Len(s), n)
<1>1. Mirrored(s) \in Seq(Rows) /\ Len(Mirrored(s)) = Len(s) /\ Len(s) \in Nat
  BY MirroredIs, LenProperties
<1>2. LastBars(s, n) = SubSeq(s, a, Len(s)) /\ a \in 1 .. Len(s) + 1
  BY LastBarsIs
<1>3. LastBars(Mirrored(s), n) = SubSeq(Mirrored(s), a, Len(s))
  BY <1>1, LastBarsIs
<1> HIDE DEF a
<1>4. a \in Int /\ Len(s) \in Int /\ 1 <= a /\ a <= Len(s) + 1 /\ Len(s) <= Len(s)
  BY <1>1, <1>2
<1>5. SubSeq(Mirrored(s), a, Len(s)) = Mirrored(SubSeq(s, a, Len(s)))
  BY <1>4, MirroredSlice
<1> QED
  BY <1>2, <1>3, <1>5

(* Keeping rows commutes with mirroring them.                              *)
LEMMA MirroredKept ==
  ASSUME NEW s \in Seq(Rows), NEW D, \A r \in Rows : Image(r) \in D <=> r \in D
  PROVE  Kept(Mirrored(s), D) = Mirrored(Kept(s, D))
<1> DEFINE Q == {r \in Seq(Rows) : Kept(Mirrored(r), D) = Mirrored(Kept(r, D))}
<1>1. <<>> \in Q
  <2>1. <<>> \in Seq(Rows) /\ Kept(<<>>, D) = <<>> /\ Mirrored(<<>>) = <<>>
    <3>1. <<>> \in Seq(Rows) /\ Len(<<>>) = 0
      BY EmptySeq
    <3>2. Mirrored(<<>>) \in Seq(Rows) /\ Len(Mirrored(<<>>)) = 0
      BY <3>1, MirroredIs
    <3> QED
      BY <3>1, <3>2, EmptySeq, KeptEmpty
  <2> QED
    BY <2>1
<1>2. ASSUME NEW r \in Seq(Rows), NEW x \in Rows, r \in Q
      PROVE  Append(r, x) \in Q
  <2> DEFINE p == Append(r, x)
             m == Mirrored(r)
             y == Image(x)
             k == Kept(r, D)
  <2>1. p \in Seq(Rows) /\ m \in Seq(Rows) /\ y \in Rows /\ k \in Seq(Rows)
        /\ (y \in D <=> x \in D)
    BY AppendProperties, MirroredIs, ImageIs, KeptType
  <2>2. Mirrored(p) = Append(m, y) /\ Mirrored(Append(k, x)) = Append(Mirrored(k), y)
    BY <2>1, MirroredAppend
  <2>3. Kept(p, D) = IF x \in D THEN Append(k, x) ELSE k
    BY KeptAppend
  <2>4. Kept(m, D) = Mirrored(k)
    BY <1>2
  <2> HIDE DEF p, m, y, k
  <2>5. Kept(Append(m, y), D) = IF y \in D THEN Append(Kept(m, D), y) ELSE Kept(m, D)
    BY <2>1, KeptAppend
  <2>6. Kept(Mirrored(p), D) = Mirrored(Kept(p, D))
    BY <2>1, <2>2, <2>3, <2>4, <2>5
  <2> QED
    BY <2>1, <2>6 DEF p
<1> HIDE DEF Q
<1>3. s \in Q
  BY <1>1, <1>2, SeqInduction
<1> QED
  BY <1>3 DEF Q

LEMMA NegatedIs ==
  ASSUME NEW xs \in Seq(Int)
  PROVE  /\ Negated(xs) \in Seq(Int) /\ Len(Negated(xs)) = Len(xs)
         /\ \A i \in 1 .. Len(xs) : Negated(xs)[i] = - xs[i] /\ xs[i] \in Int
<1> DEFINE n == Len(xs)
           m == Negated(xs)
<1>1. n \in Nat /\ DOMAIN xs = 1 .. n /\ \A i \in 1 .. n : xs[i] \in Int
  BY LenProperties, ElementOfSeq
<1>2. m = [i \in 1 .. n |-> - xs[i]]
  BY <1>1 DEF Negated
<1> HIDE DEF m, n
<1>3. m \in [1 .. n -> Int] /\ \A i \in 1 .. n : m[i] = - xs[i]
  BY <1>1, <1>2
<1>4. m \in Seq(Int) /\ Len(m) = n
  BY <1>1, <1>3, SeqDef, LenProperties
<1> QED
  BY <1>1, <1>3, <1>4 DEF m, n

LEMMA SumNegated ==
  ASSUME NEW xs \in Seq(Int)
  PROVE  Sum(Negated(xs)) = - Sum(xs)
<1> DEFINE Q == {r \in Seq(Int) : Sum(Negated(r)) = - Sum(r)}
<1>1. <<>> \in Q
  <2>1. <<>> \in Seq(Int) /\ Len(<<>>) = 0
    BY EmptySeq
  <2>2. Negated(<<>>) \in Seq(Int) /\ Len(Negated(<<>>)) = 0
    BY <2>1, NegatedIs
  <2>3. Negated(<<>>) = <<>>
    BY <2>2, EmptySeq
  <2>4. Sum(Negated(<<>>)) = - Sum(<<>>)
    BY <2>3, SumEmpty
  <2> QED
    BY <2>1, <2>4
<1>2. ASSUME NEW r \in Seq(Int), NEW x \in Int, r \in Q
      PROVE  Append(r, x) \in Q
  <2> DEFINE p == Append(r, x)
             m == Negated(r)
             u == Negated(p)
             v == Append(m, - x)
             n == Len(r)
  <2>1. /\ n \in Nat /\ p \in Seq(Int) /\ Len(p) = n + 1 /\ p[n + 1] = x
        /\ \A i \in 1 .. n : p[i] = r[i]
    BY LenProperties, AppendProperties
  <2>2. m \in Seq(Int) /\ Len(m) = n /\ \A i \in 1 .. n : m[i] = - r[i]
    BY NegatedIs
  <2>3. u \in Seq(Int) /\ Len(u) = n + 1 /\ \A i \in 1 .. n + 1 : u[i] = - p[i]
    <3> HIDE DEF p
    <3> QED
      BY <2>1, NegatedIs
  <2>4. /\ v \in Seq(Int) /\ Len(v) = n + 1 /\ v[n + 1] = - x
        /\ \A i \in 1 .. n : v[i] = m[i]
    <3>1. - x \in Int
      OBVIOUS
    <3> HIDE DEF m
    <3> QED
      BY <2>2, <3>1, AppendProperties
  <2>5. Sum(v) = Sum(m) + (- x)
    <3>1. - x \in Int
      OBVIOUS
    <3> HIDE DEF m
    <3> QED
      BY <2>2, <3>1, SumAppend
  <2>6. Sum(p) = Sum(r) + x /\ Sum(r) \in Int /\ Sum(m) = - Sum(r)
    BY <1>2, SumAppend, SumType
  <2> HIDE DEF p, m, u, v, n
  <2>7. ASSUME NEW i \in 1 .. n + 1 PROVE u[i] = v[i]
    <3>1. CASE i = n + 1
      BY <2>1, <2>3, <2>4, <3>1
    <3>2. CASE i # n + 1
      <4>1. i \in 1 .. n
        BY <2>1, <3>2
      <4> QED
        BY <2>1, <2>2, <2>3, <2>4, <4>1
    <3> QED
      BY <3>1, <3>2
  <2>8. u = v
    BY <2>3, <2>4, <2>7, SeqEqual
  <2>9. Sum(u) = - Sum(p)
    <3> DEFINE a == Sum(r)
    <3>1. a \in Int /\ Sum(p) = a + x /\ Sum(v) = (- a) + (- x)
      BY <2>5, <2>6
    <3> HIDE DEF a
    <3>2. (- a) + (- x) = - (a + x)
      BY <3>1
    <3> QED
      BY <2>8, <3>1, <3>2
  <2> QED
    BY <2>1, <2>9 DEF u, p
<1> HIDE DEF Q
<1>3. xs \in Q
  BY <1>1, <1>2, SeqInduction
<1> QED
  BY <1>3 DEF Q

(* An exact division of a negative number has no rounding.                 *)
LEMMA ExactDivision ==
  ASSUME NEW y \in Int, NEW b \in Nat \ {0}, y % b = 0
  PROVE  y \div b \in Int /\ (y \div b) * b = y /\ (- y) \div b = - (y \div b)
<1> DEFINE q == y \div b
<1>1. q \in Int /\ q * b = y
  <2>1. y = b * q + (y % b)
    OBVIOUS
  <2>2. q \in Int
    BY Division
  <2> HIDE DEF q
  <2>3. y = b * q + 0
    BY <2>1
  <2>4. b * q = q * b /\ b * q \in Int
    BY <2>2
  <2>5. y = q * b
    BY <2>3, <2>4
  <2> QED
    BY <2>2, <2>5
<1> HIDE DEF q
<1>2. - q \in Int /\ (- q) * b = - y /\ - y \in Int
  BY <1>1
<1>3. (- q) * b <= - y /\ - y < (- q) * b + b
  BY <1>2
<1>4. (- y) \div b = - q
  BY <1>2, <1>3, Quotient
<1> QED
  BY <1>1, <1>4 DEF q

(* The average of negated values, where no division rounds.                *)
LEMMA EwmNegated ==
  ASSUME NEW xs \in Seq(Int), NEW span \in Nat \ {0}, Exact(xs, span)
  PROVE  \A i \in 1 .. Len(xs) :
           Ewm(Negated(xs), 2, span + 1)[i] = - Ewm(xs, 2, span + 1)[i]
<1> DEFINE N == Len(xs)
           b == span + 1
           ys == Negated(xs)
           f == Ewm(xs, 2, b)
           g == Ewm(ys, 2, b)
           A == {n \in Nat : n + 1 <= N => g[n + 1] = - f[n + 1]}
<1>1. /\ ys \in Seq(Int) /\ Len(ys) = N /\ N \in Nat
      /\ \A i \in 1 .. N : ys[i] = - xs[i] /\ xs[i] \in Int
  BY NegatedIs, LenProperties
<1>2. b \in Nat \ {0} /\ 2 \in Int
  OBVIOUS
<1> HIDE DEF ys, b
<1>3. /\ f \in [1 .. N -> Int]
      /\ N >= 1 => f[1] = xs[1]
      /\ \A i \in 2 .. N : f[i] = ((b - 2) * f[i - 1] + 2 * xs[i]) \div b
  BY <1>2, EwmAverages DEF Averages
<1>4. /\ g \in [1 .. N -> Int]
      /\ N >= 1 => g[1] = ys[1]
      /\ \A i \in 2 .. N : g[i] = ((b - 2) * g[i - 1] + 2 * ys[i]) \div b
  BY <1>1, <1>2, EwmAverages DEF Averages
<1>5. \A i \in 2 .. N : ((b - 2) * f[i - 1] + 2 * xs[i]) % b = 0
  <2>1. span - 1 = b - 2
    BY DEF b
  <2> QED
    BY <2>1 DEF Exact, b
<1> HIDE DEF f, g, N
<1>6. 0 \in A
  <2>1. 0 + 1 <= N => g[0 + 1] = - f[0 + 1]
    <3>1. N >= 1 => 1 \in 1 .. N
      BY <1>1
    <3> QED
      BY <1>1, <1>3, <1>4, <3>1
  <2> QED
    BY <2>1
<1>7. ASSUME NEW n \in Nat, n \in A PROVE n + 1 \in A
  <2> SUFFICES ASSUME (n + 1) + 1 <= N PROVE g[(n + 1) + 1] = - f[(n + 1) + 1]
    OBVIOUS
  <2> DEFINE i == (n + 1) + 1
  <2>1. /\ i \in 2 .. N /\ i \in 1 .. N /\ i - 1 = n + 1 /\ n + 1 \in 1 .. N
        /\ g[n + 1] = - f[n + 1]
    BY <1>1, <1>7
  <2> HIDE DEF i
  <2> DEFINE v == f[n + 1]
             x == xs[i]
             y == (b - 2) * v + 2 * x
  <2>2. v \in Int /\ x \in Int /\ ys[i] = - x
    BY <1>1, <1>3, <2>1
  <2>3. f[i] = y \div b /\ y % b = 0 /\ g[i] = ((b - 2) * (- v) + 2 * (- x)) \div b
    BY <1>3, <1>4, <1>5, <2>1, <2>2
  <2> HIDE DEF v, x
  <2>4. y \in Int /\ (b - 2) * (- v) + 2 * (- x) = - y
    BY <1>2, <2>2
  <2> HIDE DEF y
  <2>5. g[i] = - f[i]
    BY <1>2, <2>3, <2>4, ExactDivision, ZenonT(60)
  <2> QED
    BY <2>5 DEF i
<1>8. Nat \subseteq A
  <2> HIDE DEF A
  <2> QED
    BY <1>6, <1>7, SetInduction
<1>9. ASSUME NEW i \in 1 .. N PROVE g[i] = - f[i]
  <2>1. i - 1 \in Nat /\ (i - 1) + 1 = i /\ i <= N
    BY <1>1
  <2>2. i - 1 \in A
    <3> HIDE DEF A
    <3> QED
      BY <1>8, <2>1
  <2> QED
    BY <2>1, <2>2
<1> QED
  BY <1>9 DEF f, g, ys, b, N

(* An indicator of the mirrored market, or still warming up as the other.  *)
Opposed(x, y) == \/ x = NaN /\ y = NaN
                 \/ x \in Int /\ y \in Int /\ x = - y

LEMMA EmaMirrored ==
  ASSUME NEW xs \in Seq(Int), NEW span \in Nat \ {0}, Exact(xs, span)
  PROVE  Opposed(Ema(Negated(xs), span), Ema(xs, span))
<1> DEFINE ys == Negated(xs)
           n == Len(xs)
           b == span + 1
<1>1. ys \in Seq(Int) /\ Len(ys) = n /\ n \in Nat
  BY NegatedIs, LenProperties
<1>2. b \in Nat \ {0} /\ 2 \in Int
  OBVIOUS
<1>3. Ema(xs, span) = LastEwm(xs, 2, b, span) /\ Ema(ys, span) = LastEwm(ys, 2, b, span)
  BY DEF Ema
<1>4. \A i \in 1 .. n : Ewm(ys, 2, b)[i] = - Ewm(xs, 2, b)[i]
  BY EwmNegated
<1> HIDE DEF ys, n, b
<1>5. CASE n < span
  <2>1. Len(xs) < span /\ Len(ys) < span
    BY <1>1, <1>5 DEF n
  <2>2. Ema(xs, span) = NaN /\ Ema(ys, span) = NaN
    BY <1>1, <1>2, <1>3, <2>1, LastEwmIs
  <2> QED
    BY <2>2 DEF Opposed, ys
<1>6. CASE ~ (n < span)
  <2>1. /\ Ema(xs, span) = Ewm(xs, 2, b)[n] /\ Ema(xs, span) \in Int
        /\ Ema(ys, span) = Ewm(ys, 2, b)[n] /\ Ema(ys, span) \in Int
    <3>1. Len(xs) = n /\ Len(ys) = n
      BY <1>1 DEF n
    <3>2. ~ (Len(xs) < span) /\ ~ (Len(ys) < span)
      BY <1>6, <3>1
    <3>3. /\ Ema(xs, span) = Ewm(xs, 2, b)[Len(xs)] /\ Ema(xs, span) \in Int
          /\ Ema(ys, span) = Ewm(ys, 2, b)[Len(ys)] /\ Ema(ys, span) \in Int
      BY <1>1, <1>2, <1>3, <3>2, LastEwmIs, ZenonT(60)
    <3> QED
      BY <3>1, <3>3
  <2>2. n \in 1 .. n
    BY <1>1, <1>6
  <2> QED
    BY <1>4, <2>1, <2>2 DEF Opposed, ys
<1> QED
  BY <1>5, <1>6 DEF ys

(* The MACD line of closes, and where it starts.                           *)
Skip == Max({MacdFast, MacdSlow}) - 1

LEMMA MacdLineIs ==
  ASSUME NEW xs \in Seq(Int)
  PROVE  /\ MacdLine(xs) \in Seq(Int) /\ Skip \in Nat
         /\ Len(MacdLine(xs)) = IF Len(xs) > Skip THEN Len(xs) - Skip ELSE 0
         /\ \A i \in 1 .. Len(xs) - Skip :
              /\ i + Skip \in 1 .. Len(xs)
              /\ MacdLine(xs)[i] = Ewm(xs, 2, MacdFast + 1)[i + Skip]
                                     - Ewm(xs, 2, MacdSlow + 1)[i + Skip]
<1> DEFINE n == Len(xs)
           m == IF n > Skip THEN n - Skip ELSE 0
           f == Ewm(xs, 2, MacdFast + 1)
           g == Ewm(xs, 2, MacdSlow + 1)
           line == MacdLine(xs)
<1>1. n \in Nat /\ Skip \in Nat
  <2>1. Max({MacdFast, MacdSlow}) = IF MacdFast >= MacdSlow THEN MacdFast ELSE MacdSlow
    <3>1. MacdFast \in Int /\ MacdSlow \in Int
      BY SignalTypes
    <3> QED
      BY <3>1, MaxOfTwo
  <2> QED
    BY <2>1, SignalTypes, LenProperties DEF Skip
<1>2. f \in [1 .. n -> Int] /\ g \in [1 .. n -> Int]
  <2>1. MacdFast + 1 \in Nat \ {0} /\ MacdSlow + 1 \in Nat \ {0} /\ 2 \in Int
    BY SignalTypes
  <2> QED
    BY <2>1, EwmAverages DEF Averages
<1>3. line = [i \in 1 .. n - Skip |-> f[i + Skip] - g[i + Skip]]
  BY DEF MacdLine, Skip
<1> HIDE DEF n, f, g, line
<1>4. m \in Nat /\ 1 .. n - Skip = 1 .. m /\ \A i \in 1 .. m : i + Skip \in 1 .. n
  BY <1>1
<1> HIDE DEF m
<1>5. line = [i \in 1 .. m |-> f[i + Skip] - g[i + Skip]]
  BY <1>3, <1>4
<1>6. line \in [1 .. m -> Int] /\ \A i \in 1 .. m : line[i] = f[i + Skip] - g[i + Skip]
  BY <1>2, <1>4, <1>5
<1>7. line \in Seq(Int) /\ Len(line) = m
  BY <1>4, <1>6, SeqDef, LenProperties
<1> QED
  BY <1>1, <1>4, <1>6, <1>7 DEF line, m, f, g, n

LEMMA MacdLineNegated ==
  ASSUME NEW xs \in Seq(Int), Exact(xs, MacdFast), Exact(xs, MacdSlow)
  PROVE  MacdLine(Negated(xs)) = Negated(MacdLine(xs))
<1> DEFINE ys == Negated(xs)
           n == Len(xs)
           k == Skip
           line == MacdLine(xs)
           u == MacdLine(ys)
           v == Negated(line)
           f == Ewm(xs, 2, MacdFast + 1)  g == Ewm(xs, 2, MacdSlow + 1)
           p == Ewm(ys, 2, MacdFast + 1)  q == Ewm(ys, 2, MacdSlow + 1)
<1>1. ys \in Seq(Int) /\ Len(ys) = n /\ n \in Nat
  BY NegatedIs, LenProperties
<1>2. /\ line \in Seq(Int) /\ k \in Nat /\ Len(line) = IF n > k THEN n - k ELSE 0
      /\ \A i \in 1 .. n - k : i + k \in 1 .. n /\ line[i] = f[i + k] - g[i + k]
  BY MacdLineIs
<1>3. /\ \A i \in 1 .. n : p[i] = - f[i]
      /\ \A i \in 1 .. n : q[i] = - g[i]
  BY SignalTypes, EwmNegated
<1>4. f \in [1 .. n -> Int] /\ g \in [1 .. n -> Int]
  <2>1. MacdFast + 1 \in Nat \ {0} /\ MacdSlow + 1 \in Nat \ {0} /\ 2 \in Int
    BY SignalTypes
  <2> QED
    BY <2>1, EwmAverages DEF Averages
<1> HIDE DEF ys
<1>5. /\ u \in Seq(Int) /\ Len(u) = Len(line)
      /\ \A i \in 1 .. n - k : u[i] = p[i + k] - q[i + k]
  BY <1>1, <1>2, MacdLineIs
<1> HIDE DEF line
<1>6. /\ v \in Seq(Int) /\ Len(v) = Len(line)
      /\ \A i \in 1 .. Len(line) : v[i] = - line[i]
  BY <1>2, NegatedIs
<1> HIDE DEF u, v, f, g, p, q, n, k
<1>7. ASSUME NEW i \in 1 .. Len(line) PROVE u[i] = v[i]
  <2>1. i \in 1 .. n - k /\ i + k \in 1 .. n
    BY <1>1, <1>2
  <2> DEFINE x == f[i + k]  y == g[i + k]
  <2>2. x \in Int /\ y \in Int /\ u[i] = (- x) - (- y) /\ v[i] = - (x - y)
    BY <1>2, <1>3, <1>4, <1>5, <1>6, <2>1
  <2> HIDE DEF x, y
  <2> QED
    BY <2>2
<1>8. u = v
  BY <1>5, <1>6, <1>7, SeqEqual
<1> QED
  BY <1>8 DEF u, v, line, ys

(* So the MACD histogram changes its sign,                                 *)
LEMMA MacdHistMirrored ==
  ASSUME NEW xs \in Seq(Int), ExactAverages(xs)
  PROVE  Opposed(MacdHist(Negated(xs)), MacdHist(xs))
<1> DEFINE ys == Negated(xs)
           line == MacdLine(xs)
           enil == MacdLine(ys)
           s == Ema(line, MacdSignal)
           t == Ema(enil, MacdSignal)
<1>1. line \in Seq(Int) /\ Exact(line, MacdSignal) /\ MacdSignal \in Nat \ {0}
  BY MacdLineIs, SignalTypes DEF ExactAverages
<1>2. enil = Negated(line)
  BY MacdLineNegated DEF ExactAverages
<1>3. Opposed(t, s)
  <2> HIDE DEF line, enil
  <2> QED
    BY <1>1, <1>2, EmaMirrored
<1>4. /\ MacdHist(xs) = IF s = NaN THEN NaN ELSE line[Len(line)] - s
      /\ MacdHist(ys) = IF t = NaN THEN NaN ELSE enil[Len(enil)] - t
  BY DEF MacdHist
<1> HIDE DEF ys, line, enil
<1>5. CASE s = NaN
  <2>1. t = NaN
    BY <1>3, <1>5, SignalTypes DEF Opposed
  <2> QED
    BY <1>4, <1>5, <2>1 DEF Opposed, ys
<1>6. CASE s # NaN
  <2>1. t \in Int /\ s \in Int /\ t = - s /\ t # NaN
    BY <1>3, <1>6, SignalTypes DEF Opposed
  <2>2. ~ (Len(line) < MacdSignal)
    <3>1. Len(line) < MacdSignal => s = NaN
      <4>1. MacdSignal + 1 \in Nat \ {0} /\ 2 \in Int
        BY <1>1
      <4> QED
        BY <1>1, <4>1, LastEwmIs DEF Ema
    <3> QED
      BY <1>6, <3>1
  <2> HIDE DEF s, t
  <2>3. /\ Len(line) \in 1 .. Len(line) /\ Len(enil) = Len(line)
        /\ line[Len(line)] \in Int /\ enil[Len(enil)] = - line[Len(line)]
    <3>1. Len(line) \in 1 .. Len(line)
      BY <1>1, <2>2, LenProperties
    <3> QED
      BY <1>1, <1>2, <3>1, NegatedIs
  <2> DEFINE x == line[Len(line)]
  <2>4. MacdHist(xs) = x - s /\ MacdHist(ys) = (- x) - (- s) /\ x \in Int
    BY <1>4, <1>6, <2>1, <2>3
  <2> HIDE DEF x
  <2>5. x - s \in Int /\ (- x) - (- s) \in Int /\ (- x) - (- s) = - (x - s)
    BY <2>1, <2>4
  <2> QED
    BY <2>4, <2>5 DEF Opposed, ys
<1> QED
  BY <1>5, <1>6

LEMMA ClosesMirrored ==
  ASSUME NEW s \in Seq(Rows)
  PROVE  Closes(s) \in Seq(Int) /\ Closes(Mirrored(s)) = Negated(Closes(s))
<1> DEFINE n == Len(s)
           m == Mirrored(s)
           c == Closes(s)
           d == Closes(m)
<1>1. n \in Nat /\ DOMAIN s = 1 .. n /\ \A i \in 1 .. n : s[i] \in Rows
  BY LenProperties, ElementOfSeq
<1>2. DOMAIN m = 1 .. n /\ \A i \in 1 .. n : m[i] = Image(s[i])
  BY MirroredIs
<1>3. c = [i \in 1 .. n |-> s[i].close]
  BY <1>1 DEF Closes
<1>4. d = [i \in 1 .. n |-> - s[i].close]
  <2>1. d = [i \in 1 .. n |-> m[i].close]
    BY <1>2 DEF Closes
  <2>2. \A i \in 1 .. n : m[i].close = - s[i].close
    BY <1>1, <1>2, ImageIs
  <2> HIDE DEF m, d
  <2> QED
    BY <2>1, <2>2
<1>5. \A i \in 1 .. n : s[i].close \in Int
  BY <1>1, RowFields
<1> HIDE DEF c, d, m, n
<1>6. c \in [1 .. n -> Int] /\ \A i \in 1 .. n : c[i] = s[i].close
  BY <1>3, <1>5
<1>7. c \in Seq(Int) /\ DOMAIN c = 1 .. n
  BY <1>1, <1>6, SeqDef
<1>8. d = [i \in DOMAIN c |-> - c[i]]
  BY <1>4, <1>6, <1>7
<1> QED
  BY <1>7, <1>8 DEF Negated, c, d, m

Volume(rows) == Sum([i \in DOMAIN rows |-> rows[i].volume])
Turnover(rows) ==
  Sum([i \in DOMAIN rows |-> LET b == rows[i] IN
                             (b.high + b.low + b.close) * b.volume])

LEMMA VolumesMirrored ==
  ASSUME NEW s \in Seq(Rows)
  PROVE  /\ Volume(Mirrored(s)) = Volume(s) /\ Volume(s) \in Int
         /\ Turnover(Mirrored(s)) = - Turnover(s) /\ Turnover(s) \in Int
<1> DEFINE n == Len(s)
           m == Mirrored(s)
           Flow(b) == (b.high + b.low + b.close) * b.volume
           v == [i \in DOMAIN s |-> s[i].volume]
           w == [i \in DOMAIN m |-> m[i].volume]
           x == [i \in DOMAIN s |-> Flow(s[i])]
           y == [i \in DOMAIN m |-> Flow(m[i])]
<1>1. n \in Nat /\ DOMAIN s = 1 .. n /\ \A i \in 1 .. n : s[i] \in Rows
  BY LenProperties, ElementOfSeq
<1>2. DOMAIN m = 1 .. n /\ \A i \in 1 .. n : m[i] = Image(s[i])
  BY MirroredIs
<1>3. ASSUME NEW b \in Rows
      PROVE  /\ b.volume \in Int /\ Image(b).volume = b.volume
             /\ Flow(b) \in Int /\ Flow(Image(b)) = - Flow(b)
  <2> DEFINE h == b.high  l == b.low  c == b.close  q == b.volume
  <2>1. h \in Int /\ l \in Int /\ c \in Int /\ q \in Int
    BY RowFields
  <2>2. /\ Image(b).volume = q /\ Image(b).high = - l /\ Image(b).low = - h
        /\ Image(b).close = - c
    BY ImageIs
  <2>3. Flow(Image(b)) = ((- l) + (- h) + (- c)) * q /\ Flow(b) = (h + l + c) * q
    BY <2>2
  <2> HIDE DEF Flow, h, l, c, q
  <2>4. (h + l + c) * q \in Int /\ ((- l) + (- h) + (- c)) * q = - ((h + l + c) * q)
    <3> DEFINE k == h + l + c
    <3>1. k \in Int /\ (- l) + (- h) + (- c) = - k
      BY <2>1
    <3> HIDE DEF k
    <3>2. k * q \in Int /\ (- k) * q = - (k * q)
      BY <2>1, <3>1
    <3> QED
      BY <3>1, <3>2 DEF k
  <2> QED
    BY <2>1, <2>2, <2>3, <2>4 DEF q
<1> HIDE DEF Flow
<1>4. v = w /\ v \in [1 .. n -> Int]
  <2>1. \A i \in 1 .. n : m[i].volume = s[i].volume /\ s[i].volume \in Int
    BY <1>1, <1>2, <1>3
  <2>2. v = [i \in 1 .. n |-> s[i].volume] /\ w = [i \in 1 .. n |-> m[i].volume]
    BY <1>1, <1>2
  <2> HIDE DEF v, w, m
  <2> QED
    BY <2>1, <2>2
<1>5. x \in [1 .. n -> Int] /\ y = [i \in DOMAIN x |-> - x[i]]
  <2>1. \A i \in 1 .. n : Flow(m[i]) = - Flow(s[i]) /\ Flow(s[i]) \in Int
    BY <1>1, <1>2, <1>3
  <2>2. x = [i \in 1 .. n |-> Flow(s[i])] /\ y = [i \in 1 .. n |-> Flow(m[i])]
    BY <1>1, <1>2
  <2> HIDE DEF x, y, m
  <2>3. x \in [1 .. n -> Int] /\ \A i \in 1 .. n : x[i] = Flow(s[i])
    BY <2>1, <2>2
  <2> QED
    BY <2>1, <2>2, <2>3
<1>6. v \in Seq(Int) /\ x \in Seq(Int) /\ y = Negated(x)
  <2> HIDE DEF v, w, x, y
  <2> QED
    BY <1>1, <1>4, <1>5, SeqDef, SMTT(40) DEF Negated
<1>7. /\ Volume(s) = Sum(v) /\ Volume(m) = Sum(w)
      /\ Turnover(s) = Sum(x) /\ Turnover(m) = Sum(y)
  BY DEF Volume, Turnover, Flow
<1> HIDE DEF v, w, x, y, m
<1>8. Volume(m) = Volume(s) /\ Volume(s) \in Int
  BY <1>4, <1>6, <1>7, SumType
<1>9. Turnover(m) = - Turnover(s) /\ Turnover(s) \in Int
  BY <1>6, <1>7, SumType, SumNegated
<1> QED
  BY <1>8, <1>9 DEF m

LEMMA SessionMirrored ==
  ASSUME NEW s \in Seq(Rows), s # <<>>
  PROVE  Session(s) \in Seq(Rows) /\ Session(Mirrored(s)) = Mirrored(Session(s))
<1> DEFINE n == Len(s)
           m == Mirrored(s)
           d == Date(s[n])
           D == OfDate(d)
<1>1. /\ m \in Seq(Rows) /\ Len(m) = n /\ n \in 1 .. n
      /\ m # <<>> /\ s[n] \in Rows /\ m[n] = Image(s[n])
  <2>1. n \in 1 .. n
    BY LenProperties, EmptySeq
  <2>2. m \in Seq(Rows) /\ Len(m) = n /\ m[n] = Image(s[n])
    BY <2>1, MirroredIs
  <2>3. m # <<>>
    BY <2>1, <2>2, EmptySeq
  <2> QED
    BY <2>1, <2>2, <2>3, ElementOfSeq
<1>2. \A r \in Rows : Image(r) \in Rows /\ Date(Image(r)) = Date(r)
  BY ImageIs DEF Date
<1>3. Session(s) = Kept(s, D)
  BY SessionIs
<1>4. Session(m) = Kept(m, D)
  <2>1. Date(m[Len(m)]) = d
    BY <1>1, <1>2
  <2> HIDE DEF m, d
  <2> QED
    BY <1>1, <2>1, SessionIs
<1>5. \A r \in Rows : Image(r) \in D <=> r \in D
  BY <1>2 DEF OfDate
<1> HIDE DEF D
<1>6. Kept(m, D) = Mirrored(Kept(s, D)) /\ Kept(s, D) \in Seq(Rows)
  BY <1>5, MirroredKept, KeptType
<1> QED
  BY <1>3, <1>4, <1>6

LEMMA VwapIs ==
  ASSUME NEW bars
  PROVE  Vwap(bars) = IF Volume(Session(bars)) = 0 THEN NaN
                      ELSE [num |-> Turnover(Session(bars)),
                            den |-> 3 * Volume(Session(bars))]
BY DEF Vwap, Session, Volume, Turnover

OpposedLines(x, y) ==
  \/ x = NaN /\ y = NaN
  \/ /\ x # NaN /\ y # NaN /\ y.num \in Int /\ y.den \in Int
     /\ x.num = - y.num /\ x.den = y.den

(* the VWAP does,                                                          *)
LEMMA VwapMirrored ==
  ASSUME NEW s \in Seq(Rows), s # <<>>
  PROVE  OpposedLines(Vwap(Mirrored(s)), Vwap(s))
<1> DEFINE p == Session(s)
           q == Session(Mirrored(s))
           v == Volume(p)
           t == Turnover(p)
<1>1. /\ v \in Int /\ t \in Int /\ Volume(q) = v /\ Turnover(q) = - t
  <2>1. p \in Seq(Rows) /\ q = Mirrored(p)
    BY SessionMirrored
  <2> HIDE DEF p, q
  <2> QED
    BY <2>1, VolumesMirrored
<1>2. /\ Vwap(s) = IF v = 0 THEN NaN ELSE [num |-> t, den |-> 3 * v]
      /\ Vwap(Mirrored(s)) = IF v = 0 THEN NaN ELSE [num |-> - t, den |-> 3 * v]
  BY <1>1, VwapIs
<1> HIDE DEF p, q, v, t
<1>3. CASE v = 0
  BY <1>2, <1>3 DEF OpposedLines
<1>4. CASE v # 0
  <2>1. - t \in Int /\ 3 * v \in Int
    BY <1>1
  <2>2. /\ [num |-> t, den |-> 3 * v] \in [num : Int, den : Int]
        /\ [num |-> - t, den |-> 3 * v] \in [num : Int, den : Int]
    BY <1>1, <2>1
  <2>3. NaN \notin [num : Int, den : Int]
    BY SignalsAssumption
  <2>4. Vwap(s) # NaN /\ Vwap(Mirrored(s)) # NaN
    BY <1>2, <1>4, <2>2, <2>3
  <2>5. /\ Vwap(s).num = t /\ Vwap(s).den = 3 * v
        /\ Vwap(Mirrored(s)).num = - t /\ Vwap(Mirrored(s)).den = 3 * v
    BY <1>2, <1>4
  <2> QED
    BY <1>1, <2>1, <2>4, <2>5 DEF OpposedLines
<1> QED
  BY <1>3, <1>4

(* A range has no side. *)
LEMMA RangesMirrored ==
  ASSUME NEW s \in Seq(Rows)
  PROVE  TrueRanges(Mirrored(s)) = TrueRanges(s)
<1> DEFINE n == Len(s)
           m == Mirrored(s)
           Range3(b, c) == Max({b.high - b.low, Abs(b.high - c), Abs(b.low - c)})
           First(b) == b.high - b.low
<1>1. n \in Nat /\ DOMAIN s = 1 .. n /\ \A i \in 1 .. n : s[i] \in Rows
  BY LenProperties, ElementOfSeq
<1>2. DOMAIN m = 1 .. n /\ \A i \in 1 .. n : m[i] = Image(s[i])
  BY MirroredIs
<1>3. /\ TrueRanges(s) = [i \in 1 .. n |-> IF i = 1 THEN First(s[i])
                                           ELSE Range3(s[i], s[i - 1].close)]
      /\ TrueRanges(m) = [i \in 1 .. n |-> IF i = 1 THEN First(m[i])
                                           ELSE Range3(m[i], m[i - 1].close)]
  BY <1>1, <1>2 DEF TrueRanges
<1>4. ASSUME NEW b \in Rows, NEW a \in Rows
      PROVE  /\ First(Image(b)) = First(b)
             /\ Range3(Image(b), Image(a).close) = Range3(b, a.close)
  <2> DEFINE h == b.high  l == b.low  c == a.close
  <2>1. h \in Int /\ l \in Int /\ c \in Int
    BY RowFields
  <2>2. Image(b).high = - l /\ Image(b).low = - h /\ Image(a).close = - c
    BY ImageIs
  <2>3. /\ First(Image(b)) = (- l) - (- h) /\ First(b) = h - l
        /\ Range3(Image(b), Image(a).close) =
             Max({(- l) - (- h), Abs((- l) - (- c)), Abs((- h) - (- c))})
        /\ Range3(b, a.close) = Max({h - l, Abs(h - c), Abs(l - c)})
    BY <2>2
  <2> HIDE DEF h, l, c, First, Range3
  <2>4. (- l) - (- h) = h - l /\ (- l) - (- c) = - (l - c) /\ (- h) - (- c) = - (h - c)
        /\ l - c \in Int /\ h - c \in Int
    BY <2>1
  <2>5. Abs((- l) - (- c)) = Abs(l - c) /\ Abs((- h) - (- c)) = Abs(h - c)
    BY <2>4, AbsType
  <2>6. {(- l) - (- h), Abs((- l) - (- c)), Abs((- h) - (- c))}
          = {h - l, Abs(h - c), Abs(l - c)}
    BY <2>4, <2>5, Zenon
  <2> QED
    BY <2>3, <2>4, <2>6
<1>5. ASSUME NEW i \in 1 .. n
      PROVE  (IF i = 1 THEN First(m[i]) ELSE Range3(m[i], m[i - 1].close))
               = IF i = 1 THEN First(s[i]) ELSE Range3(s[i], s[i - 1].close)
  <2> HIDE DEF First, Range3, m
  <2>1. i # 1 => i - 1 \in 1 .. n
    OBVIOUS
  <2>2. m[i] = Image(s[i]) /\ s[i] \in Rows
    BY <1>1, <1>2
  <2>3. First(m[i]) = First(s[i])
    BY <1>4, <2>2
  <2>4. i # 1 => Range3(m[i], m[i - 1].close) = Range3(s[i], s[i - 1].close)
    BY <1>1, <1>2, <1>4, <2>1, <2>2
  <2> QED
    BY <2>3, <2>4
<1> HIDE DEF First, Range3
<1>6. TrueRanges(m) = TrueRanges(s)
  <2> HIDE DEF m
  <2> QED
    BY <1>3, <1>5
<1> QED
  BY <1>6

Turned(trend) ==
  IF trend = "UP" THEN "DOWN" ELSE IF trend = "DOWN" THEN "UP" ELSE "NONE"
OtherSide(side) == IF side = NaN THEN NaN ELSE IF side = "BUY" THEN "SELL" ELSE "BUY"

Trends == {"UP", "DOWN", "NONE"}

(* What DetectTrend decides by. *)
TrendBy(close, fast, slow, hist) ==
  IF NaN \in {fast, slow, hist} THEN "NONE"
  ELSE Direction(close > slow /\ fast > slow /\ hist > 0,
                 close < slow /\ fast < slow /\ hist < 0)

LEMMA TrendByTurned ==
  ASSUME NEW c \in Int, NEW fast, NEW slow, NEW hist, NEW fast2, NEW slow2, NEW hist2,
         Opposed(fast2, fast), Opposed(slow2, slow), Opposed(hist2, hist)
  PROVE  /\ TrendBy(- c, fast2, slow2, hist2) = Turned(TrendBy(c, fast, slow, hist))
         /\ TrendBy(c, fast, slow, hist) \in Trends
<1>1. CASE NaN \in {fast, slow, hist}
  <2>1. NaN \in {fast2, slow2, hist2}
    BY <1>1, SignalTypes DEF Opposed
  <2> QED
    BY <1>1, <2>1 DEF TrendBy, Turned, Trends
<1>2. CASE NaN \notin {fast, slow, hist}
  <2>1. /\ fast \in Int /\ slow \in Int /\ hist \in Int
        /\ fast2 = - fast /\ slow2 = - slow /\ hist2 = - hist
    BY <1>2, SignalTypes DEF Opposed
  <2>2. NaN \notin {fast2, slow2, hist2}
    <3>1. fast2 \in Int /\ slow2 \in Int /\ hist2 \in Int
      BY <2>1
    <3> QED
      BY <3>1, SignalTypes
  <2>3. /\ (- c > slow2 <=> c < slow) /\ (- c < slow2 <=> c > slow)
        /\ (fast2 > slow2 <=> fast < slow) /\ (fast2 < slow2 <=> fast > slow)
        /\ (hist2 > 0 <=> hist < 0) /\ (hist2 < 0 <=> hist > 0)
        /\ ~ (c > slow /\ c < slow)
    BY <2>1
  <2> QED
    BY <1>2, <2>2, <2>3 DEF TrendBy, Direction, Turned, Trends
<1> QED
  BY <1>1, <1>2

(* the trend turns,                                                        *)
LEMMA DetectTrendMirrored ==
  ASSUME NEW s \in Seq(Rows), ExactAverages(Closes(s))
  PROVE  /\ DetectTrend(Mirrored(s)) = Turned(DetectTrend(s))
         /\ DetectTrend(s) \in Trends /\ (s = <<>> => DetectTrend(s) = "NONE")
<1> DEFINE m == Mirrored(s)
           xs == Closes(s)
           ys == Closes(m)
<1>1. xs \in Seq(Int) /\ ys = Negated(xs) /\ ExactAverages(xs)
  BY ClosesMirrored
<1>2. Len(m) = Len(s) /\ m \in Seq(Rows)
  BY MirroredIs
<1>3. CASE s = <<>>
  <2>1. m = <<>>
    BY <1>2, <1>3, EmptySeq
  <2>2. DetectTrend(s) = "NONE" /\ DetectTrend(m) = "NONE"
    BY <1>3, <2>1 DEF DetectTrend
  <2> QED
    BY <2>2 DEF Turned, Trends
<1>4. CASE s # <<>>
  <2> DEFINE c == Last(s).close
  <2>1. m # <<>> /\ c \in Int /\ Last(m).close = - c
    <3>1. Len(s) \in 1 .. Len(s) /\ Len(s) # 0
      BY <1>4, LenProperties, EmptySeq
    <3>2. m # <<>>
      BY <1>2, <3>1, EmptySeq
    <3>3. m[Len(m)] = Image(s[Len(s)]) /\ s[Len(s)] \in Rows
      BY <1>2, <3>1, MirroredIs, ElementOfSeq
    <3>4. m[Len(m)].close = - s[Len(s)].close /\ s[Len(s)].close \in Int
      BY <3>3, ImageIs, RowFields
    <3> QED
      BY <3>2, <3>4 DEF Last
  <2>2. /\ DetectTrend(s) = TrendBy(c, Ema(xs, EmaFast), Ema(xs, EmaSlow), MacdHist(xs))
        /\ DetectTrend(m) = TrendBy(- c, Ema(ys, EmaFast), Ema(ys, EmaSlow), MacdHist(ys))
    BY <1>4, <2>1 DEF DetectTrend, TrendBy
  <2> HIDE DEF xs, ys, m, c
  <2>3. /\ Opposed(Ema(ys, EmaFast), Ema(xs, EmaFast))
        /\ Opposed(Ema(ys, EmaSlow), Ema(xs, EmaSlow))
    <3>1. Exact(xs, EmaFast) /\ Exact(xs, EmaSlow)
      BY <1>1 DEF ExactAverages
    <3> QED
      BY <1>1, <3>1, EmaMirrored, SignalTypes
  <2>4. Opposed(MacdHist(ys), MacdHist(xs))
    BY <1>1, MacdHistMirrored
  <2>5. /\ TrendBy(- c, Ema(ys, EmaFast), Ema(ys, EmaSlow), MacdHist(ys))
             = Turned(TrendBy(c, Ema(xs, EmaFast), Ema(xs, EmaSlow), MacdHist(xs)))
        /\ TrendBy(c, Ema(xs, EmaFast), Ema(xs, EmaSlow), MacdHist(xs)) \in Trends
    BY <2>1, <2>3, <2>4, TrendByTurned
  <2> QED
    BY <1>4, <2>2, <2>5 DEF m
<1> QED
  BY <1>3, <1>4

(* its confirmation turns,                                                 *)
LEMMA ConfirmTrendMirrored ==
  ASSUME NEW s \in Seq(Rows), ExactAverages(Closes(s))
  PROVE  /\ ConfirmTrend(Mirrored(s)) = Turned(ConfirmTrend(s))
         /\ ConfirmTrend(s) \in Trends
<1> DEFINE m == Mirrored(s)
           t == DetectTrend(s)
           u == DetectTrend(m)
           v == Vwap(s)
           w == Vwap(m)
           c == Last(s).close
<1>1. u = Turned(t) /\ t \in Trends /\ (s = <<>> => t = "NONE")
  BY DetectTrendMirrored
<1>2. /\ ConfirmTrend(s) = IF t = "NONE" \/ v = NaN THEN "NONE"
                           ELSE Direction(t = "UP" /\ c * v.den > v.num,
                                          t = "DOWN" /\ c * v.den < v.num)
      /\ ConfirmTrend(m) = IF u = "NONE" \/ w = NaN THEN "NONE"
                           ELSE Direction(u = "UP" /\ Last(m).close * w.den > w.num,
                                          u = "DOWN" /\ Last(m).close * w.den < w.num)
  BY DEF ConfirmTrend
<1>3. CASE t = "NONE"
  <2>1. u = "NONE"
    BY <1>1, <1>3 DEF Turned
  <2> HIDE DEF t, u
  <2> QED
    BY <1>2, <1>3, <2>1 DEF Turned, Trends
<1>4. CASE t # "NONE"
  <2>1. s # <<>>
    BY <1>1, <1>4
  <2>2. OpposedLines(w, v)
    BY <2>1, VwapMirrored
  <2>3. c \in Int /\ Last(m).close = - c
    <3>1. Len(s) \in 1 .. Len(s) /\ Len(m) = Len(s)
      BY <2>1, LenProperties, EmptySeq, MirroredIs
    <3>2. m[Len(m)] = Image(s[Len(s)]) /\ s[Len(s)] \in Rows
      BY <3>1, MirroredIs, ElementOfSeq
    <3>3. m[Len(m)].close = - s[Len(s)].close /\ s[Len(s)].close \in Int
      BY <3>2, ImageIs, RowFields
    <3> QED
      BY <3>3 DEF Last
  <2> DEFINE z == Last(m).close
  <2> HIDE DEF t, u, v, w, c, m, z
  <2>4. CASE v = NaN
    <3>1. w = NaN
      BY <2>2, <2>4 DEF OpposedLines
    <3> QED
      BY <1>2, <2>4, <3>1 DEF Turned, Trends, m
  <2>5. CASE v # NaN
    <3> DEFINE n == v.num  d == v.den
    <3>1. w # NaN /\ n \in Int /\ d \in Int /\ w.num = - n /\ w.den = d
      BY <2>2, <2>5 DEF OpposedLines
    <3> HIDE DEF n, d
    <3>2. /\ ((- c) * d > - n <=> c * d < n) /\ ((- c) * d < - n <=> c * d > n)
          /\ ~ (c * d > n /\ c * d < n)
      <4>1. c * d \in Int /\ (- c) * d = - (c * d)
        BY <2>3, <3>1
      <4> DEFINE k == c * d
      <4> HIDE DEF k
      <4>2. k \in Int => (- k > - n <=> k < n) /\ (- k < - n <=> k > n)
                           /\ ~ (k > n /\ k < n)
        BY <3>1
      <4> QED
        BY <4>1, <4>2 DEF k
    <3>3. /\ (u = "UP" <=> t = "DOWN") /\ (u = "DOWN" <=> t = "UP") /\ u # "NONE"
      BY <1>1, <1>4 DEF Turned, Trends
    <3>4. /\ (z * w.den > w.num <=> c * d < n) /\ (z * w.den < w.num <=> c * d > n)
      <4>1. z = - c
        BY <2>3 DEF z
      <4> QED
        BY <3>1, <3>2, <4>1
    <3>5. /\ ConfirmTrend(s) = Direction(t = "UP" /\ c * d > n, t = "DOWN" /\ c * d < n)
          /\ ConfirmTrend(m) = Direction(t = "DOWN" /\ c * d < n, t = "UP" /\ c * d > n)
      <4>1. ConfirmTrend(s) = Direction(t = "UP" /\ c * d > n, t = "DOWN" /\ c * d < n)
        BY <1>2, <1>4, <2>5 DEF n, d
      <4>2. ConfirmTrend(m) = Direction(u = "UP" /\ z * w.den > w.num,
                                        u = "DOWN" /\ z * w.den < w.num)
        BY <1>2, <3>1, <3>3 DEF z
      <4>3. /\ (u = "UP" /\ z * w.den > w.num) <=> (t = "DOWN" /\ c * d < n)
            /\ (u = "DOWN" /\ z * w.den < w.num) <=> (t = "UP" /\ c * d > n)
        BY <3>3, <3>4
      <4> QED
        BY <4>1, <4>2, <4>3 DEF Direction
    <3> QED
      BY <3>5 DEF Direction, Turned, Trends, m
  <2> QED
    BY <2>4, <2>5
<1> QED
  BY <1>3, <1>4

(* What DetectEntrySignal decides by. *)
Touches(price, ema, vwap, distance) ==
  \E line \in {Whole(ema), vwap} : Near(Whole(price), line, distance)

EntryBy(row, trend, ema, vwap, atr, cost) ==
  IF \/ trend = "NONE" \/ NaN \in {ema, vwap, atr}
     \/ row.high - row.low > Quarters(AbnormalMultiple, atr)
     \/ atr < MinAtrSpread * cost
    THEN NaN
  ELSE CASE trend = "UP" /\ Touches(row.low, ema, vwap, Quarters(PullbackTolerance, atr))
              /\ row.close > row.open /\ row.close > ema -> "BUY"
         [] trend = "DOWN" /\ Touches(row.high, ema, vwap, Quarters(PullbackTolerance, atr))
              /\ row.close < row.open /\ row.close < ema -> "SELL"
         [] OTHER -> NaN

LEMMA EntryIs ==
  ASSUME NEW bars, bars # <<>>, NEW trend, NEW cost
  PROVE  DetectEntrySignal(bars, trend, cost)
           = EntryBy(Last(bars), trend, Ema(Closes(bars), EmaFast), Vwap(bars), Atr(bars), cost)
BY DEF DetectEntrySignal, EntryBy, Touches

LEMMA TouchesMirrored ==
  ASSUME NEW price \in Int, NEW ema \in Int, NEW vwap, NEW vwap2, NEW distance \in Int,
         vwap # NaN, OpposedLines(vwap2, vwap)
  PROVE  Touches(- price, - ema, vwap2, distance) <=> Touches(price, ema, vwap, distance)
<1> DEFINE n == vwap.num  d == vwap.den
<1>1. n \in Int /\ d \in Int /\ vwap2.num = - n /\ vwap2.den = d
  BY DEF OpposedLines
<1>2. Near(Whole(- price), Whole(- ema), distance) <=> Near(Whole(price), Whole(ema), distance)
  <2> DEFINE k == price * 1 - ema * 1
  <2>1. k \in Int /\ (- price) * 1 - (- ema) * 1 = - k
    OBVIOUS
  <2> HIDE DEF k
  <2>2. Abs(- k) = Abs(k)
    BY <2>1, AbsType
  <2>3. Near(Whole(- price), Whole(- ema), distance)
          <=> Abs((- price) * 1 - (- ema) * 1) <= distance * 1 * 1
    BY DEF Near, Whole
  <2>4. Near(Whole(price), Whole(ema), distance) <=> Abs(k) <= distance * 1 * 1
    BY DEF Near, Whole, k
  <2> QED
    BY <2>1, <2>2, <2>3, <2>4
<1>3. Near(Whole(- price), vwap2, distance) <=> Near(Whole(price), vwap, distance)
  <2> DEFINE k == price * d - n * 1
  <2> HIDE DEF n, d
  <2>1. k \in Int /\ (- price) * d - (- n) * 1 = - k
    <3>1. price * d \in Int /\ (- price) * d = - (price * d)
      BY <1>1
    <3> DEFINE y == price * d
    <3> HIDE DEF y
    <3>2. y \in Int => y - n * 1 \in Int /\ (- y) - (- n) * 1 = - (y - n * 1)
      BY <1>1
    <3> QED
      BY <3>1, <3>2 DEF y
  <2> HIDE DEF k
  <2>2. Abs(- k) = Abs(k)
    BY <2>1, AbsType
  <2>3. Near(Whole(- price), vwap2, distance)
          <=> Abs((- price) * d - (- n) * 1) <= distance * 1 * d
    BY <1>1 DEF Near, Whole
  <2>4. Near(Whole(price), vwap, distance) <=> Abs(k) <= distance * 1 * d
    BY DEF Near, Whole, k, n, d
  <2> QED
    BY <2>1, <2>2, <2>3, <2>4
<1> QED
  BY <1>2, <1>3 DEF Touches

LEMMA EntryByMirrored ==
  ASSUME NEW row \in Rows, NEW trend \in Trends, NEW ema, NEW ema2, NEW vwap, NEW vwap2,
         NEW atr \in Int \cup {NaN}, NEW cost \in Int,
         Opposed(ema2, ema), OpposedLines(vwap2, vwap)
  PROVE  EntryBy(Image(row), Turned(trend), ema2, vwap2, atr, cost)
           = OtherSide(EntryBy(row, trend, ema, vwap, atr, cost))
<1> DEFINE r == Image(row)
           e == EntryBy(row, trend, ema, vwap, atr, cost)
           f == EntryBy(r, Turned(trend), ema2, vwap2, atr, cost)
           q == Quarters(PullbackTolerance, atr)
<1>1. /\ row.open \in Int /\ row.close \in Int /\ row.high \in Int /\ row.low \in Int
      /\ r.open = - row.open /\ r.close = - row.close
      /\ r.high = - row.low /\ r.low = - row.high
  BY RowFields, ImageIs
<1>2. r.high - r.low = row.high - row.low
  BY <1>1
<1>3. /\ Turned(trend) = "NONE" <=> trend = "NONE"
      /\ Turned(trend) = "UP" <=> trend = "DOWN"
      /\ Turned(trend) = "DOWN" <=> trend = "UP"
  BY DEF Turned, Trends
<1>4. NaN \in {ema2, vwap2, atr} <=> NaN \in {ema, vwap, atr}
  BY SignalTypes DEF Opposed, OpposedLines
<1> DEFINE Out == \/ trend = "NONE" \/ NaN \in {ema, vwap, atr}
                  \/ row.high - row.low > Quarters(AbnormalMultiple, atr)
                  \/ atr < MinAtrSpread * cost
           Out2 == \/ Turned(trend) = "NONE" \/ NaN \in {ema2, vwap2, atr}
                   \/ r.high - r.low > Quarters(AbnormalMultiple, atr)
                   \/ atr < MinAtrSpread * cost
           Buys == /\ trend = "UP" /\ Touches(row.low, ema, vwap, q)
                   /\ row.close > row.open /\ row.close > ema
           Sells == /\ trend = "DOWN" /\ Touches(row.high, ema, vwap, q)
                    /\ row.close < row.open /\ row.close < ema
           Buys2 == /\ Turned(trend) = "UP" /\ Touches(r.low, ema2, vwap2, q)
                    /\ r.close > r.open /\ r.close > ema2
           Sells2 == /\ Turned(trend) = "DOWN" /\ Touches(r.high, ema2, vwap2, q)
                     /\ r.close < r.open /\ r.close < ema2
<1>5. Out2 <=> Out
  BY <1>2, <1>3, <1>4
<1>6. /\ e = IF Out THEN NaN ELSE CASE Buys -> "BUY" [] Sells -> "SELL" [] OTHER -> NaN
      /\ f = IF Out2 THEN NaN ELSE CASE Buys2 -> "BUY" [] Sells2 -> "SELL" [] OTHER -> NaN
  BY DEF EntryBy
<1>7. CASE Out
  <2> HIDE DEF Out, Out2
  <2> QED
    BY <1>5, <1>6, <1>7 DEF OtherSide
<1>8. CASE ~ Out
  <2>1. /\ ema \in Int /\ ema2 = - ema /\ vwap # NaN /\ atr \in Int
    BY <1>8 DEF Opposed
  <2>2. q \in Int
    <3> DEFINE x == PullbackTolerance * atr
    <3>1. x \in Int
      BY <2>1, SignalTypes
    <3> HIDE DEF x
    <3>2. x \div 4 \in Int
      BY <3>1
    <3> QED
      BY <3>2 DEF x, Quarters
  <2> HIDE DEF q, Out, Out2
  <2>3. /\ Touches(r.low, ema2, vwap2, q) <=> Touches(row.high, ema, vwap, q)
        /\ Touches(r.high, ema2, vwap2, q) <=> Touches(row.low, ema, vwap, q)
    <3> DEFINE h == row.high  l == row.low
    <3>1. h \in Int /\ l \in Int /\ r.low = - h /\ r.high = - l
      BY <1>1
    <3> HIDE DEF h, l
    <3>2. /\ Touches(- h, - ema, vwap2, q) <=> Touches(h, ema, vwap, q)
          /\ Touches(- l, - ema, vwap2, q) <=> Touches(l, ema, vwap, q)
      BY <2>1, <2>2, <3>1, TouchesMirrored
    <3> QED
      BY <2>1, <3>1, <3>2 DEF h, l
  <2>4. /\ r.close > r.open <=> row.close < row.open
        /\ r.close < r.open <=> row.close > row.open
        /\ r.close > ema2 <=> row.close < ema
        /\ r.close < ema2 <=> row.close > ema
    BY <1>1, <2>1
  <2> HIDE DEF r
  <2>5. (Buys2 <=> Sells) /\ (Sells2 <=> Buys) /\ ~ (Buys /\ Sells)
    BY <1>3, <2>3, <2>4
  <2> HIDE DEF Buys, Buys2, Sells, Sells2, e, f
  <2> QED
    BY <1>5, <1>6, <1>8, <2>5, SignalTypes DEF OtherSide, e, f, r
<1> QED
  BY <1>7, <1>8

LEMMA AtrIs ==
  ASSUME NEW s \in Seq(Rows)
  PROVE  Atr(s) \in Int \cup {NaN} /\ Atr(Mirrored(s)) = Atr(s)
<1>1. TrueRanges(s) \in Seq(Int)
  BY TrueRangesType DEF Ranges
<1>2. AtrPeriod \in Nat \ {0} /\ 1 \in Int
  BY SignalTypes
<1>3. LastEwm(TrueRanges(s), 1, AtrPeriod, AtrPeriod) \in Int \cup {NaN}
  BY <1>1, <1>2, LastEwmIs
<1> QED
  BY <1>3, RangesMirrored DEF Atr

(* the trigger is on the other side,                                       *)
LEMMA EntryMirrored ==
  ASSUME NEW s \in Seq(Rows), Exact(Closes(s), EmaFast), NEW trend \in Trends,
         NEW cost \in Int
  PROVE  DetectEntrySignal(Mirrored(s), Turned(trend), cost)
           = OtherSide(DetectEntrySignal(s, trend, cost))
<1> DEFINE m == Mirrored(s)
           xs == Closes(s)
<1>1. Len(m) = Len(s) /\ m \in Seq(Rows)
  BY MirroredIs
<1>2. CASE s = <<>>
  <2>1. m = <<>>
    BY <1>1, <1>2, EmptySeq
  <2>2. DetectEntrySignal(s, trend, cost) = NaN
        /\ DetectEntrySignal(m, Turned(trend), cost) = NaN
    BY <1>2, <2>1 DEF DetectEntrySignal
  <2> QED
    BY <2>2 DEF OtherSide
<1>3. CASE s # <<>>
  <2>1. Len(s) \in 1 .. Len(s) /\ Len(s) # 0
    BY <1>3, LenProperties, EmptySeq
  <2>2. m # <<>>
    BY <1>1, <2>1, EmptySeq
  <2>3. Last(m) = Image(Last(s)) /\ Last(s) \in Rows
    BY <1>1, <2>1, MirroredIs, ElementOfSeq DEF Last
  <2>4. Opposed(Ema(Closes(m), EmaFast), Ema(xs, EmaFast))
    <3>1. xs \in Seq(Int) /\ Closes(m) = Negated(xs)
      BY ClosesMirrored
    <3> HIDE DEF xs, m
    <3> QED
      BY <3>1, EmaMirrored, SignalTypes DEF xs
  <2>5. OpposedLines(Vwap(m), Vwap(s))
    BY <1>3, VwapMirrored
  <2>6. Atr(s) \in Int \cup {NaN} /\ Atr(m) = Atr(s)
    BY AtrIs
  <2> HIDE DEF m, xs
  <2>7. EntryBy(Image(Last(s)), Turned(trend), Ema(Closes(m), EmaFast), Vwap(m), Atr(s), cost)
          = OtherSide(EntryBy(Last(s), trend, Ema(xs, EmaFast), Vwap(s), Atr(s), cost))
    <3> DEFINE row == Last(s)  atr == Atr(s)  ema == Ema(xs, EmaFast)
               ema2 == Ema(Closes(m), EmaFast)  vwap == Vwap(s)  vwap2 == Vwap(m)
    <3>1. /\ row \in Rows /\ atr \in Int \cup {NaN} /\ Opposed(ema2, ema)
          /\ OpposedLines(vwap2, vwap)
      BY <2>3, <2>4, <2>5, <2>6
    <3> HIDE DEF row, atr, ema, ema2, vwap, vwap2
    <3>2. EntryBy(Image(row), Turned(trend), ema2, vwap2, atr, cost)
            = OtherSide(EntryBy(row, trend, ema, vwap, atr, cost))
      BY <3>1, EntryByMirrored
    <3> QED
      BY <3>2 DEF row, atr, ema, ema2, vwap, vwap2
  <2>8. /\ DetectEntrySignal(m, Turned(trend), cost)
             = EntryBy(Last(m), Turned(trend), Ema(Closes(m), EmaFast), Vwap(m), Atr(m), cost)
        /\ DetectEntrySignal(s, trend, cost)
             = EntryBy(Last(s), trend, Ema(xs, EmaFast), Vwap(s), Atr(s), cost)
    BY <1>3, <2>2, EntryIs DEF xs
  <2> QED
    BY <2>3, <2>6, <2>7, <2>8 DEF m
<1> QED
  BY <1>2, <1>3

LEMMA ExtremesMirrored ==
  ASSUME NEW w \in Seq(Rows), w # <<>>
  PROVE  /\ Min({w[i].low : i \in DOMAIN w}) \in Int
         /\ Max({w[i].high : i \in DOMAIN w}) \in Int
         /\ Min({Mirrored(w)[i].low : i \in DOMAIN Mirrored(w)})
              = - Max({w[i].high : i \in DOMAIN w})
         /\ Max({Mirrored(w)[i].high : i \in DOMAIN Mirrored(w)})
              = - Min({w[i].low : i \in DOMAIN w})
<1> DEFINE n == Len(w)
           m == Mirrored(w)
           lows == [i \in 1 .. n |-> w[i].low]
           highs == [i \in 1 .. n |-> w[i].high]
           L == {w[i].low : i \in DOMAIN w}
           H == {w[i].high : i \in DOMAIN w}
           ML == {m[i].low : i \in DOMAIN m}
           MH == {m[i].high : i \in DOMAIN m}
<1>1. n \in Nat /\ DOMAIN w = 1 .. n /\ n # 0 /\ \A i \in 1 .. n : w[i] \in Rows
  BY LenProperties, EmptySeq, ElementOfSeq
<1>2. DOMAIN m = 1 .. n /\ \A i \in 1 .. n : m[i] = Image(w[i])
  BY MirroredIs
<1>3. ASSUME NEW i \in 1 .. n
      PROVE  /\ w[i].low \in Int /\ w[i].high \in Int
             /\ m[i].low = - w[i].high /\ m[i].high = - w[i].low
  <2>1. w[i] \in Rows /\ m[i] = Image(w[i])
    BY <1>1, <1>2
  <2> HIDE DEF m
  <2> QED
    BY <2>1, RowFields, ImageIs
<1>4. lows \in [1 .. n -> Int] /\ highs \in [1 .. n -> Int]
  BY <1>3
<1>5. /\ L = {lows[j] : j \in DOMAIN lows} /\ H = {highs[j] : j \in DOMAIN highs}
  BY <1>1
<1>6. /\ lows \in Seq(Int) /\ highs \in Seq(Int) /\ lows # <<>> /\ highs # <<>>
  <2> HIDE DEF lows, highs
  <2>1. lows \in Seq(Int) /\ highs \in Seq(Int) /\ Len(lows) = n /\ Len(highs) = n
    BY <1>1, <1>4, SeqDef, LenProperties
  <2> QED
    BY <1>1, <2>1, EmptySeq
<1>7. /\ \A y \in ML : \E x \in H : y = - x
      /\ \A x \in H : - x \in ML
      /\ \A y \in MH : \E x \in L : y = - x
      /\ \A x \in L : - x \in MH
  <2>1. ML = {- w[i].high : i \in 1 .. n} /\ MH = {- w[i].low : i \in 1 .. n}
    <3> HIDE DEF m
    <3> QED
      BY <1>2, <1>3
  <2> HIDE DEF ML, MH, m
  <2> QED
    BY <1>1, <2>1
<1> HIDE DEF lows, highs, L, H, ML, MH, n, m
<1>8. L \in SUBSET Int /\ Min(L) \in L /\ \A y \in L : Min(L) <= y
  BY <1>5, <1>6, ExtremesOfSeq
<1>9. H \in SUBSET Int /\ Max(H) \in H /\ \A y \in H : Max(H) >= y
  BY <1>5, <1>6, ExtremesOfSeq
<1>10. Min(ML) = - Max(H)
  <2> DEFINE x == Max(H)  z == - x
  <2>1. x \in Int /\ x \in H /\ \A y \in H : y \in Int /\ x >= y
    BY <1>9
  <2> HIDE DEF x
  <2>2. z \in ML /\ z \in Int
    BY <1>7, <2>1
  <2>3. ASSUME NEW y \in ML PROVE y \in Int /\ z <= y
    <3>1. PICK v \in H : y = - v
      BY <1>7
    <3>2. v \in Int /\ x >= v
      BY <2>1
    <3> QED
      BY <2>1, <3>1, <3>2
  <2> HIDE DEF z
  <2>4. ML \in SUBSET Int
    BY <2>3
  <2>5. Min(ML) = z
    BY <2>2, <2>3, <2>4, MinIs
  <2> QED
    BY <2>5 DEF z, x
<1>11. Max(MH) = - Min(L)
  <2> DEFINE x == Min(L)  z == - x
  <2>1. x \in Int /\ x \in L /\ \A y \in L : y \in Int /\ x <= y
    BY <1>8
  <2> HIDE DEF x
  <2>2. z \in MH /\ z \in Int
    BY <1>7, <2>1
  <2>3. ASSUME NEW y \in MH PROVE y \in Int /\ y <= z
    <3>1. PICK v \in L : y = - v
      BY <1>7
    <3>2. v \in Int /\ x <= v
      BY <2>1
    <3> QED
      BY <2>1, <3>1, <3>2
  <2> HIDE DEF z
  <2>4. MH \in SUBSET Int
    BY <2>3
  <2>5. Max(MH) = z
    BY <2>2, <2>3, <2>4, MaxIs
  <2> QED
    BY <2>5 DEF z, x
<1>12. Min(L) \in Int /\ Max(H) \in Int
  BY <1>8, <1>9
<1> QED
  BY <1>10, <1>11, <1>12 DEF L, H, ML, MH, m

(* the stop is mirrored,                                                   *)
LEMMA StopMirrored ==
  ASSUME NEW s \in Seq(Rows), s # <<>>, Atr(s) # NaN, NEW side \in {"BUY", "SELL"}
  PROVE  /\ CalculateStopLoss(s, side) \in Int
         /\ CalculateStopLoss(Mirrored(s), OtherSide(side)) = - CalculateStopLoss(s, side)
<1> DEFINE m == Mirrored(s)
           w == LastBars(s, SwingLookback)
           v == LastBars(m, SwingLookback)
           q == Quarters(SlAtrBuffer, Atr(s))
           low == Min({w[i].low : i \in DOMAIN w})
           high == Max({w[i].high : i \in DOMAIN w})
           low2 == Min({v[i].low : i \in DOMAIN v})
           high2 == Max({v[i].high : i \in DOMAIN v})
<1>1. SwingLookback \in Nat \ {0} /\ SwingLookback \in Nat
  BY SignalTypes
<1>2. w \in Seq(Rows) /\ w # <<>> /\ v = Mirrored(w)
  BY <1>1, WindowEnd, MirroredLast
<1>3. low \in Int /\ high \in Int /\ low2 = - high /\ high2 = - low
  <2> HIDE DEF w, v
  <2> QED
    BY <1>2, ExtremesMirrored
<1>4. q \in Int
  <2> DEFINE x == SlAtrBuffer * Atr(s)
  <2>1. x \in Int
    BY AtrIs, SignalTypes
  <2> HIDE DEF x
  <2>2. x \div 4 \in Int
    BY <2>1
  <2> QED
    BY <2>2 DEF x, Quarters
<1>5. /\ CalculateStopLoss(s, side) = IF side = "BUY" THEN low - q ELSE high + q
      /\ CalculateStopLoss(m, OtherSide(side)) =
           IF OtherSide(side) = "BUY" THEN low2 - q ELSE high2 + q
  <2>1. Atr(m) = Atr(s)
    BY AtrIs
  <2> QED
    BY <2>1 DEF CalculateStopLoss
<1>6. OtherSide(side) = "BUY" <=> side # "BUY"
  BY SignalTypes DEF OtherSide
<1> HIDE DEF m, w, v, q, low, high, low2, high2
<1>7. /\ low - q \in Int /\ high + q \in Int
      /\ low2 - q = - (high + q) /\ high2 + q = - (low - q)
  BY <1>3, <1>4
<1> QED
  BY <1>5, <1>6, <1>7 DEF m

(* and so is the decision.                                                 *)
LEMMA DecideMirrored ==
  ASSUME NEW a \in Seq(Rows), NEW b \in Seq(Rows), NEW c \in Seq(Rows), NEW cost \in Int,
         ExactAverages(Closes(a)), ExactAverages(Closes(b)), ExactAverages(Closes(c)),
         NEW d, d = Decide(a, b, c, cost),
         NEW e, e = Decide(Mirrored(a), Mirrored(b), Mirrored(c), cost)
  PROVE  IF d = NaN THEN e = NaN
         ELSE e = [side |-> IF d.side = "BUY" THEN "SELL" ELSE "BUY", stop |-> - d.stop]
<1> DEFINE m == Mirrored(c)
           t == IF DetectTrend(a) = ConfirmTrend(b) THEN DetectTrend(a) ELSE "NONE"
           u == IF DetectTrend(Mirrored(a)) = ConfirmTrend(Mirrored(b))
                  THEN DetectTrend(Mirrored(a)) ELSE "NONE"
           x == DetectEntrySignal(c, t, cost)
           y == DetectEntrySignal(m, u, cost)
<1>1. /\ DetectTrend(Mirrored(a)) = Turned(DetectTrend(a)) /\ DetectTrend(a) \in Trends
      /\ ConfirmTrend(Mirrored(b)) = Turned(ConfirmTrend(b)) /\ ConfirmTrend(b) \in Trends
  BY DetectTrendMirrored, ConfirmTrendMirrored
<1>2. t \in Trends /\ u = Turned(t)
  <2>1. \A p, q \in Trends : Turned(p) = Turned(q) => p = q
    BY DEF Trends, Turned
  <2>2. Turned("NONE") = "NONE" /\ "NONE" \in Trends
    BY DEF Trends, Turned
  <2> QED
    BY <1>1, <2>1, <2>2
<1>3. /\ d = IF x = NaN THEN NaN ELSE [side |-> x, stop |-> CalculateStopLoss(c, x)]
      /\ e = IF y = NaN THEN NaN ELSE [side |-> y, stop |-> CalculateStopLoss(m, y)]
  BY DEF Decide
<1> HIDE DEF t, u
<1>4. y = OtherSide(x)
  <2>1. Exact(Closes(c), EmaFast)
    BY DEF ExactAverages
  <2> QED
    BY <1>2, <2>1, EntryMirrored
<1>5. CASE x = NaN
  <2> HIDE DEF x, y
  <2>1. y = NaN
    BY <1>4, <1>5 DEF OtherSide
  <2> QED
    BY <1>3, <1>5, <2>1
<1>6. CASE x # NaN
  <2>1. c # <<>> /\ Atr(c) # NaN /\ x \in {"BUY", "SELL"}
    BY <1>6, SignalFires
  <2> HIDE DEF x, y
  <2>2. y = (IF x = "BUY" THEN "SELL" ELSE "BUY") /\ y # NaN
    BY <1>4, <1>6, SignalTypes DEF OtherSide
  <2>3. /\ CalculateStopLoss(c, x) \in Int
        /\ CalculateStopLoss(m, y) = - CalculateStopLoss(c, x)
    BY <1>4, <2>1, StopMirrored
  <2> DEFINE z == CalculateStopLoss(c, x)
             z2 == CalculateStopLoss(m, y)
  <2>4. d = [side |-> x, stop |-> z] /\ e = [side |-> y, stop |-> z2]
    BY <1>3, <1>6, <2>2
  <2>5. z \in Int /\ z2 = - z
    BY <2>3
  <2> HIDE DEF z, z2
  <2>6. d \in [side : {"BUY", "SELL"}, stop : Int]
    BY <2>1, <2>4, <2>5
  <2>7. d # NaN
    BY <2>6, SignalsAssumption
  <2>8. d.side = x /\ d.stop = z
    BY <2>4
  <2> QED
    BY <2>2, <2>4, <2>5, <2>7, <2>8
<1> QED
  BY <1>5, <1>6

LEMMA WindowType ==
  ASSUME NEW T, NEW s \in Seq(T), NEW n \in Nat
  PROVE  LastBars(s, n) \in Seq(T)
<1> DEFINE a == Starts(Len(s), n)
<1>1. LastBars(s, n) = SubSeq(s, a, Len(s)) /\ a \in 1 .. Len(s) + 1 /\ Len(s) \in Nat
  BY LastBarsIs, LenProperties
<1> HIDE DEF a
<1>2. a \in Int /\ Len(s) \in Int /\ 1 <= a /\ a <= Len(s) + 1 /\ Len(s) <= Len(s)
  BY <1>1
<1> QED
  BY <1>1, <1>2, SliceOf

(* Frames are lists of bars. *)
LEMMA FrameTypes ==
  ASSUME MarketInv, NEW timeframe \in Coarse \union {"M1"}
  PROVE  Frame(timeframe) \in Seq(Rows)
<1>1. CASE timeframe = "M1"
  <2>1. Frame("M1") = LastBars(Seen, BarLookback) /\ BarLookback \in Nat /\ Seen \in Seq(Rows)
    BY Frames, Limits, SeenIs
  <2> QED
    BY <1>1, <2>1, WindowType
<1>2. CASE timeframe \in Coarse
  <2> DEFINE C == Closed(Series(timeframe), Length(timeframe))
  <2>1. C \in Seq(Rows)
    <3>1. Series(timeframe) \in Seq(Rows)
      BY <1>2, SeriesTypes
    <3> QED
      BY <3>1, KeptType DEF Closed
  <2>2. Frame(timeframe) = LastBars(C, Limit(timeframe)) /\ Limit(timeframe) \in Nat
    BY <1>2, Frames, Limits
  <2> HIDE DEF C
  <2> QED
    BY <2>1, <2>2, WindowType
<1> QED
  BY <1>1, <1>2

LEMMA Mirrors ==
  ASSUME MarketInv, DivisionsExact
  PROVE  MirrorImage
<1> DEFINE a == Frame("M15")  b == Frame("M5")  c == Frame("M1")
           d == Decision
           e == Decide(Mirrored(a), Mirrored(b), Mirrored(c), Cost)
<1>1. a \in Seq(Rows) /\ b \in Seq(Rows) /\ c \in Seq(Rows) /\ Cost \in Int
  BY FrameTypes, MarketAssumption DEF Coarse
<1>2. ExactAverages(Closes(a)) /\ ExactAverages(Closes(b)) /\ ExactAverages(Closes(c))
  BY DEF DivisionsExact, Coarse
<1>3. d = Decide(a, b, c, Cost)
  BY DEF Decision
<1>4. IF d = NaN THEN e = NaN
      ELSE e = [side |-> IF d.side = "BUY" THEN "SELL" ELSE "BUY", stop |-> - d.stop]
  <2>1. e = Decide(Mirrored(a), Mirrored(b), Mirrored(c), Cost)
    OBVIOUS
  <2> HIDE DEF a, b, c, d, e
  <2> QED
    BY <1>1, <1>2, <1>3, <2>1, DecideMirrored
<1> QED
  BY <1>4 DEF MirrorImage, MirroredDecision

(* Where no average is rounded, the strategy has no preferred side. *)
THEOREM NoPreferredSide == Spec => [](DivisionsExact => MirrorImage)
<1>1. MarketInv => (DivisionsExact => MirrorImage)
  BY Mirrors
<1> QED
  BY <1>1, MarketInvariant, PTL

-----------------------------------------------------------------------------
(* The averages as weighted sums.                                          *)

(* The recursion of powers.                                                *)
LEMMA PowerIs ==
  ASSUME NEW b \in Int
  PROVE  /\ Power(b, 0) = 1
         /\ \A k \in Nat : Power(b, k) \in Int /\ Power(b, k + 1) = b * Power(b, k)
<1> DEFINE Powers(f) == f = [i \in Nat |-> IF i = 0 THEN 1 ELSE b * f[i - 1]]
           chosen == CHOOSE f : Powers(f)
           step == [n \in Nat |-> [v \in Int |-> b * v]]
<1>1. \E f : Powers(f)
  <2>1. 1 \in Int /\ step \in [Nat -> [Int -> Int]]
    OBVIOUS
  <2>2. PICK h : Follows(h, Int, 1, step)
    <3> HIDE DEF step
    <3> QED
      BY <2>1, Recursion
  <2>3. h \in [Nat -> Int] /\ h[0] = 1 /\ \A n \in Nat : h[n + 1] = step[n + 1][h[n]]
    <3> HIDE DEF step
    <3> QED
      BY <2>2 DEF Follows
  <2>4. ASSUME NEW i \in Nat, i # 0 PROVE h[i] = b * h[i - 1]
    <3>1. i - 1 \in Nat /\ (i - 1) + 1 = i
      BY <2>4
    <3> QED
      BY <2>3, <3>1
  <2>5. h = [i \in Nat |-> IF i = 0 THEN 1 ELSE b * h[i - 1]]
    <3>1. h = [i \in Nat |-> h[i]]
      BY <2>3
    <3> QED
      BY <2>3, <2>4, <3>1
  <2> QED
    BY <2>5
<1>2. Powers(chosen)
  <2> HIDE DEF Powers
  <2> QED
    BY <1>1
<1>3. \A k : Power(b, k) = chosen[k]
  BY DEF Power
<1> HIDE DEF chosen
<1>4. chosen[0] = 1 /\ \A i \in Nat : i # 0 => chosen[i] = b * chosen[i - 1]
  BY <1>2
<1>5. ASSUME NEW k \in Nat PROVE chosen[k + 1] = b * chosen[k]
  <2>1. k + 1 \in Nat /\ k + 1 # 0 /\ (k + 1) - 1 = k
    OBVIOUS
  <2> QED
    BY <1>4, <2>1
<1> DEFINE A == {k \in Nat : chosen[k] \in Int}
<1>6. 0 \in A
  BY <1>4
<1>7. ASSUME NEW k \in Nat, k \in A PROVE k + 1 \in A
  BY <1>5, <1>7
<1>8. Nat \subseteq A
  <2> HIDE DEF A
  <2> QED
    BY <1>6, <1>7, SetInduction
<1> QED
  BY <1>3, <1>4, <1>5, <1>8

Scaled(c, xs) == [i \in DOMAIN xs |-> c * xs[i]]

LEMMA ScaledIs ==
  ASSUME NEW c \in Int, NEW xs \in Seq(Int)
  PROVE  /\ Scaled(c, xs) \in Seq(Int) /\ Len(Scaled(c, xs)) = Len(xs)
         /\ \A i \in 1 .. Len(xs) : Scaled(c, xs)[i] = c * xs[i] /\ xs[i] \in Int
<1> DEFINE n == Len(xs)
           m == Scaled(c, xs)
<1>1. n \in Nat /\ DOMAIN xs = 1 .. n /\ \A i \in 1 .. n : xs[i] \in Int
  BY LenProperties, ElementOfSeq
<1>2. m = [i \in 1 .. n |-> c * xs[i]]
  BY <1>1 DEF Scaled
<1> HIDE DEF m, n
<1>3. \A i \in 1 .. n : c * xs[i] \in Int
  BY <1>1
<1>4. m \in [1 .. n -> Int] /\ \A i \in 1 .. n : m[i] = c * xs[i]
  BY <1>2, <1>3
<1>5. m \in Seq(Int) /\ Len(m) = n
  BY <1>1, <1>4, SeqDef, LenProperties
<1> QED
  BY <1>1, <1>4, <1>5 DEF m, n

LEMMA SumScaled ==
  ASSUME NEW c \in Int, NEW xs \in Seq(Int)
  PROVE  Sum(Scaled(c, xs)) = c * Sum(xs)
<1> DEFINE Q == {r \in Seq(Int) : Sum(Scaled(c, r)) = c * Sum(r)}
<1>1. <<>> \in Q
  <2>1. <<>> \in Seq(Int) /\ Len(<<>>) = 0
    BY EmptySeq
  <2>2. Scaled(c, <<>>) \in Seq(Int) /\ Len(Scaled(c, <<>>)) = 0
    BY <2>1, ScaledIs
  <2>3. Scaled(c, <<>>) = <<>>
    BY <2>2, EmptySeq
  <2>4. Sum(Scaled(c, <<>>)) = c * Sum(<<>>)
    <3>1. c * 0 = 0
      OBVIOUS
    <3> QED
      BY <2>3, <3>1, SumEmpty
  <2> QED
    BY <2>1, <2>4
<1>2. ASSUME NEW r \in Seq(Int), NEW x \in Int, r \in Q
      PROVE  Append(r, x) \in Q
  <2> DEFINE p == Append(r, x)
             m == Scaled(c, r)
             u == Scaled(c, p)
             y == c * x
             v == Append(m, y)
             n == Len(r)
  <2>1. /\ n \in Nat /\ p \in Seq(Int) /\ Len(p) = n + 1 /\ p[n + 1] = x
        /\ \A i \in 1 .. n : p[i] = r[i]
    BY LenProperties, AppendProperties
  <2>2. m \in Seq(Int) /\ Len(m) = n /\ \A i \in 1 .. n : m[i] = c * r[i]
    BY ScaledIs
  <2>3. u \in Seq(Int) /\ Len(u) = n + 1 /\ \A i \in 1 .. n + 1 : u[i] = c * p[i]
    <3> HIDE DEF p
    <3> QED
      BY <2>1, ScaledIs
  <2>4. y \in Int
    OBVIOUS
  <2>5. /\ v \in Seq(Int) /\ Len(v) = n + 1 /\ v[n + 1] = y
        /\ \A i \in 1 .. n : v[i] = m[i]
    <3> HIDE DEF m, y
    <3> QED
      BY <2>2, <2>4, AppendProperties
  <2>6. Sum(v) = Sum(m) + y
    <3> HIDE DEF m, y
    <3> QED
      BY <2>2, <2>4, SumAppend
  <2>7. Sum(p) = Sum(r) + x /\ Sum(r) \in Int /\ Sum(m) = c * Sum(r)
    BY <1>2, SumAppend, SumType
  <2> HIDE DEF p, m, u, v, n
  <2>8. ASSUME NEW i \in 1 .. n + 1 PROVE u[i] = v[i]
    <3>1. CASE i = n + 1
      BY <2>1, <2>3, <2>5, <3>1
    <3>2. CASE i # n + 1
      <4>1. i \in 1 .. n
        BY <2>1, <3>2
      <4> QED
        BY <2>1, <2>2, <2>3, <2>5, <4>1
    <3> QED
      BY <3>1, <3>2
  <2>9. u = v
    BY <2>3, <2>5, <2>8, SeqEqual
  <2>10. Sum(u) = c * Sum(p)
    <3> DEFINE a == Sum(r)
    <3>1. a \in Int /\ Sum(p) = a + x /\ Sum(v) = c * a + c * x
      BY <2>6, <2>7
    <3> HIDE DEF a
    <3>2. c * a + c * x = c * (a + x)
      BY <3>1
    <3> QED
      BY <2>9, <3>1, <3>2
  <2> QED
    BY <2>1, <2>10 DEF u, p
<1> HIDE DEF Q
<1>3. xs \in Q
  BY <1>1, <1>2, SeqInduction
<1> QED
  BY <1>3 DEF Q

(* The terms of the weighted sum of the first m values after the first.    *)
Terms(xs, a, b, m) ==
  [k \in 1 .. m - 1 |-> a * Power(b - a, m - 1 - k) * Power(b, k - 1) * xs[k + 1]]
SumTo(xs, a, b, m) == Power(b - a, m - 1) * xs[1] + Sum(Terms(xs, a, b, m))

LEMMA TermsAre ==
  ASSUME NEW xs \in Seq(Int), NEW a \in Int, NEW b \in Int, NEW m \in 1 .. Len(xs)
  PROVE  /\ Terms(xs, a, b, m) \in Seq(Int) /\ Len(Terms(xs, a, b, m)) = m - 1
         /\ \A k \in 1 .. m - 1 : Terms(xs, a, b, m)[k] =
              a * Power(b - a, m - 1 - k) * Power(b, k - 1) * xs[k + 1]
<1> DEFINE t == Terms(xs, a, b, m)
           Term(k) == a * Power(b - a, m - 1 - k) * Power(b, k - 1) * xs[k + 1]
<1>1. Len(xs) \in Nat /\ m \in Nat /\ m - 1 \in Nat
  BY LenProperties
<1>2. ASSUME NEW k \in 1 .. m - 1 PROVE Term(k) \in Int
  <2>1. k + 1 \in 1 .. Len(xs) /\ m - 1 - k \in Nat /\ k - 1 \in Nat /\ b - a \in Int
    BY <1>1
  <2> DEFINE p == Power(b - a, m - 1 - k)  q == Power(b, k - 1)  x == xs[k + 1]
  <2>2. p \in Int /\ q \in Int /\ x \in Int
    BY <2>1, PowerIs, ElementOfSeq
  <2> HIDE DEF p, q, x
  <2>3. a * p * q * x \in Int
    BY <2>2
  <2> QED
    BY <2>3 DEF p, q, x
<1>3. t = [k \in 1 .. m - 1 |-> Term(k)]
  BY DEF Terms
<1> HIDE DEF t, Term
<1>4. t \in [1 .. m - 1 -> Int] /\ \A k \in 1 .. m - 1 : t[k] = Term(k)
  BY <1>2, <1>3
<1>5. t \in Seq(Int) /\ Len(t) = m - 1
  BY <1>1, <1>4, SeqDef, LenProperties, SMTT(40)
<1> QED
  BY <1>4, <1>5 DEF t, Term

(* One value more: the others weigh less by b - a in b.                    *)
LEMMA SumToNext ==
  ASSUME NEW xs \in Seq(Int), NEW a \in Int, NEW b \in Int, NEW m \in 1 .. Len(xs),
         m + 1 <= Len(xs)
  PROVE  /\ SumTo(xs, a, b, m) \in Int
         /\ SumTo(xs, a, b, m + 1) =
              (b - a) * SumTo(xs, a, b, m) + a * Power(b, m - 1) * xs[m + 1]
<1> DEFINE t == Terms(xs, a, b, m)
           u == Terms(xs, a, b, m + 1)
           c == b - a
           s == Scaled(c, t)
           x == xs[m + 1]
           last == a * Power(b, m - 1) * x
           v == Append(s, last)
<1>1. /\ Len(xs) \in Nat /\ m \in Nat /\ m - 1 \in Nat /\ m + 1 \in 1 .. Len(xs)
      /\ (m + 1) - 1 = m /\ (m - 1) + 1 = m /\ c \in Int
  BY LenProperties
<1>2. x \in Int /\ xs[1] \in Int
  BY <1>1, ElementOfSeq
<1>3. /\ Power(c, m) = c * Power(c, m - 1) /\ Power(c, m - 1) \in Int
      /\ Power(b, m - 1) \in Int /\ Power(c, 0) = 1
  <2> HIDE DEF c
  <2>1. Power(c, (m - 1) + 1) = c * Power(c, m - 1) /\ Power(c, m - 1) \in Int
    BY <1>1, PowerIs
  <2> QED
    BY <1>1, <2>1, PowerIs
<1>4. /\ t \in Seq(Int) /\ Len(t) = m - 1
      /\ \A k \in 1 .. m - 1 : t[k] = a * Power(c, m - 1 - k) * Power(b, k - 1) * xs[k + 1]
  BY TermsAre
<1>5. /\ u \in Seq(Int) /\ Len(u) = m
      /\ \A k \in 1 .. m : u[k] = a * Power(c, m - k) * Power(b, k - 1) * xs[k + 1]
  <2> DEFINE M == m + 1
  <2>1. /\ M \in 1 .. Len(xs) /\ M - 1 = m /\ u = Terms(xs, a, b, M)
        /\ \A k \in 1 .. m : M - 1 - k = m - k
    BY <1>1
  <2> HIDE DEF M, u
  <2>2. /\ Terms(xs, a, b, M) \in Seq(Int) /\ Len(Terms(xs, a, b, M)) = M - 1
        /\ \A k \in 1 .. M - 1 : Terms(xs, a, b, M)[k] =
             a * Power(b - a, M - 1 - k) * Power(b, k - 1) * xs[k + 1]
    BY <2>1, TermsAre
  <2> QED
    BY <2>1, <2>2
<1> HIDE DEF t, u, c
<1>6. s \in Seq(Int) /\ Len(s) = m - 1 /\ \A k \in 1 .. m - 1 : s[k] = c * t[k]
  BY <1>1, <1>4, ScaledIs, ZenonT(60)
<1> DEFINE P == Power(b, m - 1)
<1>7. last \in Int
  <2>1. P \in Int /\ last = a * P * x
    BY <1>3
  <2> HIDE DEF P, last, x
  <2> QED
    BY <1>2, <2>1
<1> HIDE DEF s, P
<1>8. /\ v \in Seq(Int) /\ Len(v) = m /\ v[m] = last
      /\ \A k \in 1 .. m - 1 : v[k] = s[k]
  <2> HIDE DEF last
  <2> QED
    BY <1>1, <1>6, <1>7, AppendProperties
<1>9. ASSUME NEW k \in 1 .. m PROVE u[k] = v[k]
  <2>1. CASE k = m
    <3>1. u[m] = a * Power(c, m - m) * Power(b, m - 1) * xs[m + 1]
      BY <1>1, <1>5, <2>1
    <3>2. m - m = 0
      BY <1>1
    <3>3. u[m] = a * 1 * Power(b, m - 1) * xs[m + 1]
      BY <1>3, <3>1, <3>2
    <3>4. a * 1 = a
      OBVIOUS
    <3>5. u[m] = last
      BY <3>3, <3>4
    <3> QED
      BY <1>8, <2>1, <3>5
  <2>2. CASE k # m
    <3>1. /\ k \in 1 .. m - 1 /\ m - 1 - k \in Nat /\ (m - 1 - k) + 1 = m - k
          /\ k - 1 \in Nat /\ k + 1 \in 1 .. Len(xs)
      BY <1>1, <2>2
    <3> DEFINE p == Power(c, m - 1 - k)  q == Power(b, k - 1)  y == xs[k + 1]
    <3>2. p \in Int /\ q \in Int /\ y \in Int /\ Power(c, m - k) = c * p
      <4>1. Power(c, (m - 1 - k) + 1) = c * Power(c, m - 1 - k)
            /\ Power(c, m - 1 - k) \in Int /\ Power(b, k - 1) \in Int
        BY <1>1, <3>1, PowerIs
      <4> QED
        BY <3>1, <4>1, ElementOfSeq
    <3>3. v[k] = c * (a * p * q * y) /\ u[k] = a * (c * p) * q * y
      BY <1>4, <1>5, <1>6, <1>8, <3>1, <3>2
    <3> HIDE DEF p, q, y
    <3>4. c * (a * p * q * y) = a * (c * p) * q * y
      BY <1>1, <3>2
    <3> QED
      BY <3>3, <3>4
  <2> QED
    BY <2>1, <2>2
<1>10. u = v
  <2> HIDE DEF v
  <2> QED
    BY <1>5, <1>8, <1>9, SeqEqual
<1>11. Sum(u) = c * Sum(t) + last /\ Sum(t) \in Int
  <2>1. Sum(v) = Sum(s) + last
    <3> HIDE DEF last
    <3> QED
      BY <1>6, <1>7, SumAppend
  <2>2. Sum(s) = c * Sum(t) /\ Sum(t) \in Int
    BY <1>1, <1>4, SumScaled, SumType DEF s
  <2> QED
    BY <1>10, <2>1, <2>2
<1>12. /\ SumTo(xs, a, b, m) = Power(c, m - 1) * xs[1] + Sum(t)
       /\ SumTo(xs, a, b, m + 1) = Power(c, m) * xs[1] + Sum(u)
  BY <1>1 DEF SumTo, t, u, c
<1> DEFINE p == Power(c, m - 1)  y == xs[1]  z == Sum(t)
<1>13. /\ SumTo(xs, a, b, m) = p * y + z
       /\ SumTo(xs, a, b, m + 1) = (c * p) * y + (c * z + last)
       /\ p \in Int /\ y \in Int /\ z \in Int
  BY <1>2, <1>3, <1>11, <1>12
<1> HIDE DEF p, y, z, last
<1>14. p * y + z \in Int /\ (c * p) * y + (c * z + last) = c * (p * y + z) + last
  BY <1>1, <1>7, <1>13
<1>15. /\ SumTo(xs, a, b, m) \in Int
       /\ SumTo(xs, a, b, m + 1) = c * SumTo(xs, a, b, m) + last
  BY <1>13, <1>14
<1> QED
  BY <1>15 DEF c, last, x

(* The recursive average is the weighted sum.                              *)
LEMMA EwmIsWeighted ==
  ASSUME NEW xs \in Seq(Int), NEW span \in Nat \ {0}, Exact(xs, span), Len(xs) # 0
  PROVE  Ewm(xs, 2, span + 1)[Len(xs)] * Power(span + 1, Len(xs) - 1)
           = Weighted(xs, 2, span + 1)
<1> DEFINE N == Len(xs)
           b == span + 1
           f == Ewm(xs, 2, b)
           A == {n \in Nat : n + 1 <= N => f[n + 1] * Power(b, n) = SumTo(xs, 2, b, n + 1)}
<1>1. N \in Nat /\ N >= 1 /\ \A i \in 1 .. N : xs[i] \in Int
  BY LenProperties, ElementOfSeq
<1>2. b \in Nat \ {0} /\ 2 \in Int /\ b \in Int
  OBVIOUS
<1> HIDE DEF b
<1>3. /\ f \in [1 .. N -> Int]
      /\ f[1] = xs[1]
      /\ \A i \in 2 .. N : f[i] = ((b - 2) * f[i - 1] + 2 * xs[i]) \div b
  BY <1>1, <1>2, EwmAverages DEF Averages
<1>4. \A i \in 2 .. N : ((b - 2) * f[i - 1] + 2 * xs[i]) % b = 0
  <2>1. span - 1 = b - 2
    BY DEF b
  <2> QED
    BY <2>1 DEF Exact, b
<1> HIDE DEF f, N
<1>5. 0 \in A
  <2>1. f[1] * Power(b, 0) = SumTo(xs, 2, b, 1)
    <3>1. Terms(xs, 2, b, 1) = <<>>
      <4>1. 1 \in 1 .. Len(xs)
        BY <1>1 DEF N
      <4>2. Terms(xs, 2, b, 1) \in Seq(Int) /\ Len(Terms(xs, 2, b, 1)) = 1 - 1
        BY <1>2, <4>1, TermsAre
      <4> QED
        BY <4>2, EmptySeq
    <3>2. Sum(Terms(xs, 2, b, 1)) = 0
      BY <3>1, SumEmpty
    <3>3. Power(b, 0) = 1 /\ Power(b - 2, 1 - 1) = 1
      <4>1. b - 2 \in Int /\ 1 - 1 = 0
        BY <1>2
      <4> QED
        BY <1>2, <4>1, PowerIs
    <3>4. SumTo(xs, 2, b, 1) = 1 * xs[1] + 0
      BY <3>2, <3>3 DEF SumTo
    <3>5. xs[1] \in Int
      BY <1>1
    <3> QED
      BY <1>3, <3>3, <3>4, <3>5
  <2> QED
    BY <2>1
<1>6. ASSUME NEW n \in Nat, n \in A PROVE n + 1 \in A
  <2> SUFFICES ASSUME (n + 1) + 1 <= N
               PROVE  f[(n + 1) + 1] * Power(b, n + 1) = SumTo(xs, 2, b, (n + 1) + 1)
    OBVIOUS
  <2> DEFINE m == n + 1
             v == f[m]
             x == xs[m + 1]
             y == (b - 2) * v + 2 * x
             P == Power(b, n)
             S == SumTo(xs, 2, b, m)
  <2>1. /\ m \in 1 .. N /\ m + 1 \in 2 .. N /\ m + 1 \in 1 .. N /\ (m + 1) - 1 = m
        /\ m - 1 = n /\ m + 1 <= N
    BY <1>1
  <2>2. v * P = S
    BY <1>6, <2>1
  <2>3. v \in Int /\ x \in Int /\ P \in Int /\ Power(b, n + 1) = b * P
    <3>1. P \in Int /\ Power(b, n + 1) = b * P
      BY <1>2, PowerIs
    <3> HIDE DEF P
    <3> QED
      BY <1>1, <1>3, <2>1, <3>1
  <2>4. f[m + 1] = y \div b /\ y % b = 0
    BY <1>3, <1>4, <2>1
  <2>5. S \in Int /\ SumTo(xs, 2, b, m + 1) = (b - 2) * S + 2 * P * x
    <3>1. m \in 1 .. Len(xs) /\ m + 1 <= Len(xs)
      BY <2>1 DEF N
    <3> HIDE DEF m
    <3>2. /\ SumTo(xs, 2, b, m) \in Int
          /\ SumTo(xs, 2, b, m + 1) =
               (b - 2) * SumTo(xs, 2, b, m) + 2 * Power(b, m - 1) * xs[m + 1]
      BY <1>2, <3>1, SumToNext
    <3> QED
      BY <2>1, <3>2
  <2> DEFINE z == f[m + 1]
  <2>6. z \in Int /\ z * b = y
    <3>1. y \in Int
      <4> HIDE DEF v, x
      <4> QED
        BY <1>2, <2>3
    <3> HIDE DEF y
    <3> QED
      BY <1>2, <2>4, <3>1, ExactDivision
  <2>7. z * (b * P) = (b - 2) * S + 2 * P * x
    <3>1. z * b = (b - 2) * v + 2 * x
      BY <2>6
    <3> HIDE DEF z, v, x, P, S, m
    <3>2. z * (b * P) = (z * b) * P
      BY <1>2, <2>3, <2>6
    <3>3. ((b - 2) * v + 2 * x) * P = (b - 2) * (v * P) + 2 * P * x
      BY <1>2, <2>3
    <3> QED
      BY <2>2, <3>1, <3>2, <3>3
  <2> QED
    BY <2>3, <2>5, <2>7
<1>7. Nat \subseteq A
  <2> HIDE DEF A
  <2> QED
    BY <1>5, <1>6, SetInduction
<1>8. N - 1 \in Nat /\ (N - 1) + 1 = N /\ N <= N
  BY <1>1
<1>9. f[N] * Power(b, N - 1) = SumTo(xs, 2, b, N)
  <2>1. N - 1 \in A
    <3> HIDE DEF A
    <3> QED
      BY <1>7, <1>8
  <2> QED
    BY <1>8, <2>1
<1>10. Weighted(xs, 2, b) = SumTo(xs, 2, b, N)
  BY DEF Weighted, SumTo, Terms, N
<1> QED
  BY <1>9, <1>10 DEF N, f, b

(* For a bar whose low is not above its high. *)
LEMMA RangeStretched ==
  ASSUME NEW h \in Int, NEW l \in Int, NEW c \in Int, l <= h
  PROVE  Max({h - l, Abs(h - c), Abs(l - c)}) = Max({h, c}) - Min({l, c})
<1> DEFINE t == {h - l, Abs(h - c), Abs(l - c)}
           w == (IF h >= c THEN h ELSE c) - (IF l <= c THEN l ELSE c)
<1>1. Max({h, c}) - Min({l, c}) = w
  BY MaxOfTwo, MinOfTwo
<1>2. /\ h - l \in Int /\ h - c \in Int /\ l - c \in Int
  OBVIOUS
<1>3. /\ w \in {h - l, h - c, c - l} /\ w \in Int
      /\ w = h - l \/ (w = h - c /\ h - c >= 0) \/ (w = c - l /\ l - c < 0)
      /\ h - l <= w /\ h - c <= w /\ c - h <= w /\ l - c <= w /\ c - l <= w
  OBVIOUS
<1> HIDE DEF w
<1>4. /\ Abs(h - c) = (IF h - c < 0 THEN c - h ELSE h - c)
      /\ Abs(l - c) = (IF l - c < 0 THEN c - l ELSE l - c)
  BY <1>2 DEF Abs
<1>5. w \in t
  BY <1>3, <1>4
<1>6. t \in SUBSET Int /\ \A y \in t : y <= w
  BY <1>2, <1>3, <1>4
<1> HIDE DEF t
<1>7. Max(t) = w
  BY <1>5, <1>6, MaxIs
<1> QED
  BY <1>1, <1>7 DEF t

(* What a frame of M1 rows holds are rows of the file. *)
LEMMA FrameIsProper ==
  ASSUME MarketInv, ProperFile, NEW i \in 1 .. Len(Frame("M1"))
  PROVE  Frame("M1")[i] \in Rows /\ Proper(Frame("M1")[i])
<1> DEFINE F == Frame("M1")
           a == Starts(index, BarLookback)
<1>1. F \in Seq(Rows)
  BY FrameTypes
<1>2. /\ m1 \in Seq(Rows) /\ Len(m1) \in Nat /\ index \in 1 .. Len(m1)
      /\ Seen \in Seq(Rows) /\ Len(Seen) = index
      /\ \A j \in 1 .. index : Seen[j] = m1[j]
  BY SeriesTypes, SeenIs
<1>3. F = SubSeq(Seen, a, index) /\ a \in 1 .. index + 1
  BY <1>2, Frames, Limits, LastBarsIs
<1> HIDE DEF a, F
<1>4. F[i] \in Rows /\ F[i] \in ToSet(F)
  BY <1>1, LenProperties, ElementOfSeq DEF F, ToSet
<1>5. PICK j \in a .. index : F[i] = Seen[j]
  <2>1. a \in Int /\ index \in Int /\ 1 <= a /\ a <= index + 1 /\ index <= Len(Seen)
    BY <1>2, <1>3
  <2> QED
    BY <1>2, <1>3, <1>4, <2>1, SliceMembers, ZenonT(60)
<1>6. j \in 1 .. index /\ j \in 1 .. Len(m1)
  BY <1>2, <1>3
<1>7. F[i] \in ToSet(m1)
  BY <1>2, <1>5, <1>6, LenProperties DEF ToSet
<1>8. ToSet(m1) \subseteq ToSet(file)
  <2>1. file \in Seq(Rows) /\ m1 = FilterDateRange(file)
    BY DEF MarketInv, SeriesOfFile
  <2> QED
    BY <2>1, KeptMembers DEF FilterDateRange
<1> QED
  BY <1>4, <1>7, <1>8 DEF ProperFile, F

(* Hence the averages of the M1 frame are.                                 *)
LEMMA AveragesAreWeighted ==
  ASSUME MarketInv, ProperFile, DivisionsExact
  PROVE  AveragesMatch
<1> DEFINE F == Frame("M1")
           xs == Closes(F)
           n == Len(xs)
           ranges == TrueRanges(F)
           Range3(b, c) == Max({b.high - b.low, Abs(b.high - c), Abs(b.low - c)})
<1>1. F \in Seq(Rows) /\ Len(F) \in Nat /\ DOMAIN F = 1 .. Len(F)
  BY FrameTypes, LenProperties
<1>2. F # <<>>
  <2>1. Seen \in Seq(Rows) /\ Len(Seen) = index /\ index # 0
    <3>1. index # 0
      BY SeriesTypes
    <3> QED
      BY <3>1, SeenIs
  <2>2. Seen # <<>> /\ BarLookback \in Nat \ {0}
    BY <2>1, EmptySeq, MarketAssumption
  <2>3. F = LastBars(Seen, BarLookback)
    BY Frames
  <2> HIDE DEF F
  <2> QED
    BY <2>1, <2>2, <2>3, WindowEnd
<1>3. /\ xs \in Seq(Int) /\ n = Len(F) /\ n # 0
      /\ \A i \in 1 .. Len(F) : xs[i] = F[i].close
  <2>1. xs = [i \in 1 .. Len(F) |-> F[i].close]
    BY <1>1 DEF Closes
  <2>2. \A i \in 1 .. Len(F) : F[i].close \in Int
    BY <1>1, ElementOfSeq, RowFields
  <2> HIDE DEF F, xs
  <2>3. xs \in [1 .. Len(F) -> Int] /\ \A i \in 1 .. Len(F) : xs[i] = F[i].close
    BY <2>1, <2>2
  <2>4. xs \in Seq(Int) /\ Len(xs) = Len(F)
    BY <1>1, <2>3, SeqDef, LenProperties
  <2>5. Len(F) # 0
    BY <1>1, <1>2, EmptySeq
  <2> QED
    BY <2>3, <2>4, <2>5
<1>4. ASSUME NEW span \in {EmaFast, EmaSlow}
      PROVE  Ewm(xs, 2, span + 1)[n] * Power(span + 1, n - 1) = Weighted(xs, 2, span + 1)
  <2>1. Exact(xs, span) /\ span \in Nat \ {0}
    BY SignalTypes DEF DivisionsExact, ExactAverages
  <2> HIDE DEF xs
  <2> QED
    BY <1>3, <2>1, EwmIsWeighted
<1>5. ASSUME NEW i \in 2 .. n
      PROVE  ranges[i] = Max({F[i].high, xs[i - 1]}) - Min({F[i].low, xs[i - 1]})
  <2>1. i \in 1 .. Len(F) /\ i # 1 /\ i - 1 \in 1 .. Len(F)
    BY <1>1, <1>3
  <2>2. F[i] \in Rows /\ Proper(F[i])
    BY <2>1, FrameIsProper
  <2>3. ranges[i] = Range3(F[i], F[i - 1].close)
    BY <1>1, <2>1 DEF TrueRanges
  <2>4. xs[i - 1] = F[i - 1].close /\ xs[i - 1] \in Int
    <3> HIDE DEF xs
    <3> QED
      BY <1>3, <2>1, ElementOfSeq
  <2> HIDE DEF xs, F, ranges
  <2> DEFINE h == F[i].high  l == F[i].low  c == xs[i - 1]
  <2>5. h \in Int /\ l \in Int /\ c \in Int /\ l <= h
    <3>1. l \in Int /\ h \in Int /\ F[i].close \in Int /\ l <= F[i].close /\ F[i].close <= h
      BY <2>2, RowFields DEF Proper
    <3> DEFINE z == F[i].close
    <3> HIDE DEF h, l, z
    <3>2. l <= h
      BY <3>1 DEF z
    <3> QED
      BY <2>4, <3>1, <3>2
  <2>6. ranges[i] = Max({h - l, Abs(h - c), Abs(l - c)})
    BY <2>3, <2>4
  <2> HIDE DEF h, l, c
  <2>7. ranges[i] = Max({h, c}) - Min({l, c})
    BY <2>5, <2>6, RangeStretched
  <2> QED
    BY <2>7 DEF h, l, c
<1> HIDE DEF Range3
<1> QED
  BY <1>4, <1>5 DEF AveragesMatch

(* Where no average is rounded, and on proper candles, the indicators are  *)
(* what their names say.                                                   *)
THEOREM IndicatorsAreTheirs ==
  ASSUME ProperCandles
  PROVE  Spec => [](DivisionsExact => IndicatorsMatchReference)
<1>1. Init => ProperFile
  BY ProperInit
<1>2. MarketInv /\ ProperFile => (DivisionsExact => AveragesMatch)
  BY AveragesAreWeighted
<1>3. AveragesMatch /\ VwapIsSession => IndicatorsMatchReference
  BY DEF IndicatorsMatchReference
<1>4. Spec => []VwapIsSession
  BY SessionVwap
<1> QED
  BY <1>1, <1>2, <1>3, <1>4, ProperStep, MarketInvariant, PTL DEF Spec
=============================================================================
