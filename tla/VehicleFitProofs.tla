--------------------------- MODULE VehicleFitProofs ----------------------------
(***************************************************************************)
(* What fit_models.py writes, for tables of every size, whatever bins the  *)
(* sweeps reached and whatever means they found there: each row starts at  *)
(* the coasting acceleration of its speed and is monotone, so that         *)
(* control_adapter, inverting it, produces every demand it can.            *)
(***************************************************************************)
EXTENDS VehicleFit, TLAPS, WellFoundedInduction

(* ---- extremes ----------------------------------------------------------- *)

(* A nonempty set of natural numbers has a least element. *)
LEMMA LeastElement ==
  ASSUME NEW S \in SUBSET Nat, S # {}
  PROVE  \E m \in S : \A n \in S : m <= n
<1> DEFINE R == {ss \in Nat \X Nat : ss[1] < ss[2]}
<1>1. IsWellFoundedOn(R, Nat)
  BY NatLessThanWellFounded DEF OpToRel
<1>2. PICK m \in S : \A n \in S : ~ (<<n, m>> \in R)
  <2> HIDE DEF R
  <2> QED  BY <1>1, WFMin
<1>3. \A n \in S : ~ (n < m)
  BY <1>2
<1> QED  BY <1>3

(* Among the first p values of a row one is the largest: the least p for which *)
(* none were would have to be 1, or one more than a p that has its largest.     *)
LEMMA LargestOfFirst ==
  ASSUME NEW n \in Nat, NEW row \in [1 .. n -> Int]
  PROVE  \A p \in 1 .. n : \E q \in 1 .. p : \A r \in 1 .. p : row[r] <= row[q]
<1> DEFINE Bad == {p \in 1 .. n : ~ \E q \in 1 .. p : \A r \in 1 .. p : row[r] <= row[q]}
<1>1. SUFFICES ASSUME Bad # {} PROVE FALSE
  OBVIOUS
<1>2. PICK p \in Bad : \A x \in Bad : p <= x
  <2>1. Bad \in SUBSET Nat
    OBVIOUS
  <2> QED  BY <1>1, <2>1, LeastElement
<1>3. p \in 1 .. n /\ p # 1
  BY <1>2
<1>4. p - 1 \in 1 .. n /\ p - 1 \notin Bad
  <2>1. p - 1 \in 1 .. n /\ ~ (p <= p - 1)
    BY <1>3
  <2> QED  BY <1>2, <2>1
<1>5. PICK q \in 1 .. p - 1 : \A r \in 1 .. p - 1 : row[r] <= row[q]
  BY <1>4
<1>6. \E x \in 1 .. p : \A r \in 1 .. p : row[r] <= row[x]
  <2>1. \A r \in 1 .. p : r \in 1 .. p - 1 \/ r = p
    BY <1>3
  <2>2. row[q] \in Int /\ row[p] \in Int /\ q \in 1 .. p /\ p \in 1 .. p
    BY <1>3
  <2>3. CASE row[p] <= row[q]
    BY <1>5, <2>1, <2>2, <2>3
  <2>4. CASE row[q] < row[p]
    <3>1. \A r \in 1 .. p - 1 : row[r] \in Int /\ row[r] <= row[p]
      BY <1>3, <1>5, <2>2, <2>4
    <3> QED  BY <2>1, <2>2, <3>1
  <2> QED  BY <2>2, <2>3, <2>4
<1> QED  BY <1>2, <1>6

(* And one is the smallest. *)
LEMMA SmallestOfFirst ==
  ASSUME NEW n \in Nat, NEW row \in [1 .. n -> Int]
  PROVE  \A p \in 1 .. n : \E q \in 1 .. p : \A r \in 1 .. p : row[q] <= row[r]
<1> DEFINE opposite == [p \in 1 .. n |-> - row[p]]
<1>1. opposite \in [1 .. n -> Int]
  OBVIOUS
<1> HIDE DEF opposite
<1>2. \A p \in 1 .. n : \E q \in 1 .. p : \A r \in 1 .. p : opposite[r] <= opposite[q]
  BY <1>1, LargestOfFirst
<1>3. \A p \in 1 .. n : opposite[p] = - row[p] /\ row[p] \in Int
  BY DEF opposite
<1>4. ASSUME NEW p \in 1 .. n
      PROVE  \E q \in 1 .. p : \A r \in 1 .. p : row[q] <= row[r]
  <2>1. PICK q \in 1 .. p : \A r \in 1 .. p : opposite[r] <= opposite[q]
    BY <1>2
  <2>2. \A r \in 1 .. p : r \in 1 .. n
    OBVIOUS
  <2> QED  BY <1>3, <2>1, <2>2
<1> QED  BY <1>4

(* ---- what the fit does to a row and to a column ------------------------- *)

Rising(row, n) == \A p, q \in 1 .. n : p <= q => row[p] <= row[q]
Falling(row, n) == \A p, q \in 1 .. n : p <= q => row[p] >= row[q]

(* What inverting a row needs of it, by the pedal it is for. *)
Monotone(row, mode, n) == IF mode = "brake" THEN Falling(row, n) ELSE Rising(row, n)

(* maximum.accumulate and minimum.accumulate make a row monotone and keep its *)
(* first value, the one at pedal 0.                                             *)
LEMMA AccumulateMonotone ==
  ASSUME NEW n \in Nat \ {0}, NEW row \in [1 .. n -> Int], NEW mode
  PROVE  /\ Accumulate(row, mode) \in [1 .. n -> Int]
         /\ Accumulate(row, mode)[1] = row[1]
         /\ Monotone(Accumulate(row, mode), mode, n)
<1> DEFINE acc == Accumulate(row, mode)
           Best(p, x) == /\ x \in {row[q] : q \in 1 .. p}
                         /\ \A q \in 1 .. p : IF mode = "brake" THEN x <= row[q] ELSE x >= row[q]
<1>1. \A p \in 1 .. n : \E x : Best(p, x)
  <2>1. ASSUME NEW p \in 1 .. n PROVE \E x : Best(p, x)
    <3>1. \A q \in 1 .. p : row[q] \in Int
      OBVIOUS
    <3>2. CASE mode = "brake"
      <4>1. PICK q \in 1 .. p : \A r \in 1 .. p : row[q] <= row[r]
        BY SmallestOfFirst
      <4>2. Best(p, row[q])
        BY <3>2, <4>1
      <4> QED  BY <4>2
    <3>3. CASE mode # "brake"
      <4>1. PICK q \in 1 .. p : \A r \in 1 .. p : row[r] <= row[q]
        BY LargestOfFirst
      <4>2. Best(p, row[q])
        BY <3>1, <3>3, <4>1
      <4> QED  BY <4>2
    <3> QED  BY <3>2, <3>3
  <2> QED  BY <2>1
<1>2. /\ DOMAIN acc = 1 .. n
      /\ acc = [p \in 1 .. n |-> CHOOSE x : Best(p, x)]
  <2>1. DOMAIN row = 1 .. n
    OBVIOUS
  <2>2. \A p : (CHOOSE x \in {row[q] : q \in 1 .. p} :
                 \A q \in 1 .. p : IF mode = "brake" THEN x <= row[q] ELSE x >= row[q])
               = CHOOSE x : Best(p, x)
    BY Zenon
  <2> QED  BY <2>1, <2>2 DEF Accumulate
<1>3. \A p \in 1 .. n : Best(p, acc[p])
  <2> HIDE DEF Best, acc
  <2> QED  BY <1>1, <1>2
<1>4. \A p \in 1 .. n : acc[p] \in Int
  BY <1>3
<1> HIDE DEF acc
<1>5. acc \in [1 .. n -> Int]
  BY <1>2, <1>4
<1>6. acc[1] = row[1]
  <2>1. 1 \in 1 .. n /\ {row[q] : q \in 1 .. 1} = {row[1]}
    OBVIOUS
  <2> QED  BY <1>3, <2>1
<1>7. ASSUME NEW p \in 1 .. n, NEW q \in 1 .. n, p <= q
      PROVE  IF mode = "brake" THEN acc[p] >= acc[q] ELSE acc[p] <= acc[q]
  <2>1. PICK r \in 1 .. p : acc[p] = row[r]
    BY <1>3
  <2>2. r \in 1 .. q
    BY <1>7
  <2>3. IF mode = "brake" THEN acc[q] <= row[r] ELSE acc[q] >= row[r]
    BY <1>3, <2>2
  <2> QED  BY <2>1, <2>3, <1>4
<1> QED  BY <1>5, <1>6, <1>7 DEF acc, Monotone, Rising, Falling

(* The nearest reached bin is a reached one. *)
LEMMA NearestReached ==
  ASSUME NEW n \in Nat, NEW i \in 1 .. n, NEW reached \in SUBSET (1 .. n), reached # {}
  PROVE  NearestTo(i, reached) \in reached
<1> DEFINE far == {Dist(i, j) : j \in reached}
<1>1. far \in SUBSET Nat /\ far # {}
  <2>1. \A j \in reached : Dist(i, j) \in Nat
    BY DEF Dist
  <2> QED  BY <2>1
<1>2. PICK d \in far : \A x \in far : d <= x
  BY <1>1, LeastElement
<1> DEFINE near == {j \in reached : Dist(i, j) = d}
<1>3. near \in SUBSET Nat /\ near # {}
  OBVIOUS
<1>4. PICK j \in near : \A x \in near : j <= x
  <2> HIDE DEF near
  <2> QED  BY <1>3, LeastElement
<1>5. ASSUME NEW o \in reached
      PROVE  Dist(i, j) < Dist(i, o) \/ (Dist(i, j) = Dist(i, o) /\ j <= o)
  <2>1. d <= Dist(i, o) /\ d \in Nat /\ Dist(i, o) \in Nat
    BY <1>1, <1>2
  <2>2. Dist(i, o) = d => j <= o
    BY <1>4
  <2> QED  BY <1>4, <2>1, <2>2
<1>6. j \in reached
  BY <1>4
<1> QED  BY <1>5, <1>6 DEF NearestTo

(* A column is filled with numbers whatever bins were reached, and no bin that *)
(* was reached is changed.                                                       *)
LEMMA FilledColumn ==
  ASSUME NEW n \in Nat, n = NV, coast \in [1 .. n -> Int],
         NEW column \in [1 .. n -> Int \cup {Empty}]
  PROVE  /\ FillAlongDrag(column) \in [1 .. n -> Int]
         /\ \A i \in Reached(column) : FillAlongDrag(column)[i] = column[i]
<1> DEFINE reached == Reached(column)
<1>1. reached \in SUBSET (1 .. n) /\ \A j \in reached : column[j] \in Int
  BY DEF Reached
<1> HIDE DEF reached
<1>2. reached # {} => \A i \in 1 .. n : NearestTo(i, reached) \in reached
  BY <1>1, NearestReached
<1>3. FillAlongDrag(column) =
        [i \in 1 .. n |->
           IF reached = {} THEN coast[i]
           ELSE IF i \in reached THEN column[i]
                ELSE column[NearestTo(i, reached)] + coast[i] - coast[NearestTo(i, reached)]]
  BY DEF FillAlongDrag, reached
<1>4. \A i \in 1 .. n : FillAlongDrag(column)[i] \in Int
  <2>1. ASSUME NEW i \in 1 .. n PROVE FillAlongDrag(column)[i] \in Int
    <3> DEFINE j == NearestTo(i, reached)
    <3>1. coast[i] \in Int
      OBVIOUS
    <3>2. reached # {} => column[j] \in Int /\ coast[j] \in Int
      BY <1>1, <1>2
    <3> HIDE DEF j
    <3>3. FillAlongDrag(column)[i] =
            IF reached = {} THEN coast[i]
            ELSE IF i \in reached THEN column[i] ELSE column[j] + coast[i] - coast[j]
      BY <1>3 DEF j
    <3> QED  BY <1>1, <3>1, <3>2, <3>3
  <2> QED  BY <2>1
<1> QED  BY <1>1, <1>3, <1>4 DEF reached

(* ---- a row between two speeds, and its inverse --------------------------- *)

Row(m) == [1 .. m -> Int]

(* A table of n speeds by m pedals, monotone along every row. *)
Table(table, mode, n, m) ==
  /\ table \in [1 .. n -> Row(m)] /\ Len(table) = n
  /\ \A i \in 1 .. n : Monotone(table[i], mode, m)

(* Interpolated to any speed, below, between or beyond the bins, a row of the  *)
(* table stays monotone; and where two tables start alike, so do their rows.    *)
LEMMA InterpolatedRow ==
  ASSUME NEW n \in Nat \ {0}, NEW m \in Nat \ {0}, NEW h \in Int,
         NEW mode, NEW table, Table(table, mode, n, m)
  PROVE  /\ InterpRow(table, h) \in Row(m)
         /\ Monotone(InterpRow(table, h), mode, m)
         /\ \A other, kind : Table(other, kind, n, m)
              /\ (\A i \in 1 .. n : other[i][1] = table[i][1])
              => InterpRow(other, h)[1] = InterpRow(table, h)[1]
<1> DEFINE at == IF h < 0 THEN 0 ELSE IF h > 2 * (n - 1) THEN 2 * (n - 1) ELSE h
           i == at \div 2 + 1
<1>1. at \in 0 .. 2 * (n - 1)
  OBVIOUS
<1> HIDE DEF at
<1>2. i \in 1 .. n /\ (at % 2 # 0 => i + 1 \in 1 .. n)
  <2>1. at \in Int /\ at >= 0 /\ at <= 2 * (n - 1)
    BY <1>1
  <2>2. at = 2 * (at \div 2) + (at % 2) /\ at % 2 \in {0, 1} /\ at \div 2 \in Int
    BY <2>1
  <2> QED  BY <2>1, <2>2
<1> HIDE DEF i
<1>3. ASSUME NEW other, NEW kind, Table(other, kind, n, m)
      PROVE  /\ InterpRow(other, h) =
                  [p \in 1 .. m |-> IF at % 2 = 0 THEN 2 * other[i][p]
                                    ELSE other[i][p] + other[i + 1][p]]
             /\ \A p \in 1 .. m : other[i][p] \in Int
             /\ at % 2 # 0 => \A p \in 1 .. m : other[i + 1][p] \in Int
             /\ Monotone(other[i], kind, m)
             /\ at % 2 # 0 => Monotone(other[i + 1], kind, m)
  <2>1. other[i] \in [1 .. m -> Int] /\ DOMAIN other[i] = 1 .. m
    BY <1>2, <1>3 DEF Table, Row
  <2>2. at % 2 # 0 => other[i + 1] \in [1 .. m -> Int]
    BY <1>2, <1>3 DEF Table, Row
  <2>3. Len(other) = n
    BY <1>3 DEF Table
  <2>4. InterpRow(other, h) =
          [p \in DOMAIN other[i] |-> IF at % 2 = 0 THEN 2 * other[i][p]
                                     ELSE other[i][p] + other[i + 1][p]]
    BY <2>3 DEF InterpRow, at, i
  <2> QED  BY <1>2, <1>3, <2>1, <2>2, <2>4 DEF Table
<1>4. 1 \in 1 .. m
  OBVIOUS
<1>5. InterpRow(table, h) \in Row(m)
  <2> DEFINE value(p) == IF at % 2 = 0 THEN 2 * table[i][p]
                         ELSE table[i][p] + table[i + 1][p]
  <2>1. ASSUME NEW p \in 1 .. m PROVE value(p) \in Int
    <3>1. table[i][p] \in Int /\ (at % 2 # 0 => table[i + 1][p] \in Int)
      BY <1>3
    <3> QED  BY <3>1
  <2>2. InterpRow(table, h) = [p \in 1 .. m |-> value(p)]
    BY <1>3
  <2> HIDE DEF value
  <2> QED  BY <2>1, <2>2 DEF Row
<1>6. Monotone(InterpRow(table, h), mode, m)
  <2> DEFINE row == InterpRow(table, h)
             low(p) == table[i][p]
             high(p) == table[i + 1][p]
  <2>1. \A p \in 1 .. m : row[p] = IF at % 2 = 0 THEN 2 * low(p) ELSE low(p) + high(p)
    BY <1>3
  <2>2. \A p \in 1 .. m : low(p) \in Int /\ (at % 2 # 0 => high(p) \in Int)
    BY <1>3
  <2>3. \A p, q \in 1 .. m : p <= q =>
          IF mode = "brake" THEN low(p) >= low(q) ELSE low(p) <= low(q)
    BY <1>3 DEF Monotone, Rising, Falling
  <2>4. at % 2 # 0 => \A p, q \in 1 .. m : p <= q =>
          IF mode = "brake" THEN high(p) >= high(q) ELSE high(p) <= high(q)
    BY <1>3 DEF Monotone, Rising, Falling
  <2> HIDE DEF row, low, high
  <2>5. \A p, q \in 1 .. m : p <= q =>
          IF mode = "brake" THEN row[p] >= row[q] ELSE row[p] <= row[q]
    <3> SUFFICES ASSUME NEW p \in 1 .. m, NEW q \in 1 .. m, p <= q
                 PROVE  IF mode = "brake" THEN row[p] >= row[q] ELSE row[p] <= row[q]
      OBVIOUS
    <3>1. CASE at % 2 = 0
      <4>1. row[p] = 2 * low(p) /\ row[q] = 2 * low(q) /\ low(p) \in Int /\ low(q) \in Int
        BY <2>1, <2>2, <3>1
      <4>2. IF mode = "brake" THEN low(p) >= low(q) ELSE low(p) <= low(q)
        BY <2>3
      <4> QED  BY ONLY <4>1, <4>2
    <3>2. CASE at % 2 # 0
      <4>1. /\ row[p] = low(p) + high(p) /\ row[q] = low(q) + high(q)
            /\ low(p) \in Int /\ low(q) \in Int /\ high(p) \in Int /\ high(q) \in Int
        BY <2>1, <2>2, <3>2
      <4>2. /\ IF mode = "brake" THEN low(p) >= low(q) ELSE low(p) <= low(q)
            /\ IF mode = "brake" THEN high(p) >= high(q) ELSE high(p) <= high(q)
        BY <2>3, <2>4, <3>2
      <4> QED  BY ONLY <4>1, <4>2
    <3> QED  BY <3>1, <3>2
  <2> QED  BY <2>5 DEF Monotone, Rising, Falling, row
<1>7. ASSUME NEW other, NEW kind, Table(other, kind, n, m),
             \A x \in 1 .. n : other[x][1] = table[x][1]
      PROVE  InterpRow(other, h)[1] = InterpRow(table, h)[1]
  <2>1. other[i][1] = table[i][1] /\ (at % 2 # 0 => other[i + 1][1] = table[i + 1][1])
    BY <1>2, <1>7
  <2> QED  BY <1>3, <1>4, <1>7, <2>1
<1> QED  BY <1>5, <1>6, <1>7

(* A pedal within a row of m bins: never a step beyond the last one. *)
Pedal(m) ==
  {p \in [bin : 1 .. m, num : Nat, den : Nat \ {0}] :
     p.num <= p.den /\ (p.num > 0 => p.bin < m)}

(* A value strictly between the ends of a row lies in a piece of it, of which *)
(* the inverse takes the first.                                                *)
LEMMA FirstPiece ==
  ASSUME NEW m \in Nat \ {0}, NEW row \in Row(m), NEW a \in Int,
         (row[1] < a /\ a < row[m]) \/ (row[m] < a /\ a < row[1])
  PROVE  LET pieces == {i \in 1 .. m - 1 : Between(row[i], a, row[i + 1])}
         IN  (CHOOSE p \in pieces : \A q \in pieces : p <= q) \in pieces
<1> DEFINE pieces == {i \in 1 .. m - 1 : Between(row[i], a, row[i + 1])}
           past == {i \in 1 .. m : Between(row[1], a, row[i])}
<1>1. m \in past /\ past \in SUBSET Nat
  BY DEF Between, Row
<1>2. PICK i \in past : \A x \in past : i <= x
  <2> HIDE DEF past
  <2> QED  BY <1>1, LeastElement
<1>3. i # 1 /\ i \in 1 .. m
  BY <1>2 DEF Between, Row
<1>4. i - 1 \in 1 .. m - 1 /\ i - 1 \in 1 .. m /\ i - 1 \notin past /\ (i - 1) + 1 = i
  <2>1. i - 1 \in 1 .. m - 1 /\ i - 1 \in 1 .. m /\ ~ (i <= i - 1) /\ (i - 1) + 1 = i
    BY <1>3
  <2> HIDE DEF past
  <2> QED  BY <1>2, <2>1
<1>5. Between(row[i - 1], a, row[i])
  <2>1. row[1] \in Int /\ row[i] \in Int /\ row[i - 1] \in Int /\ row[m] \in Int
    BY <1>3, <1>4 DEF Row
  <2>2. Between(row[1], a, row[i]) /\ ~ Between(row[1], a, row[i - 1])
    BY <1>2, <1>4
  <2> QED  BY <2>1, <2>2 DEF Between
<1>6. i - 1 \in pieces
  BY <1>4, <1>5
<1>7. pieces \in SUBSET Nat
  OBVIOUS
<1> HIDE DEF pieces
<1>8. \E p \in pieces : \A q \in pieces : p <= q
  BY <1>6, <1>7, LeastElement
<1> QED  BY <1>8 DEF pieces

(* Reading a row forwards at the pedal its inverse gives returns the demand,  *)
(* or the end of the row that the demand is beyond.                            *)
LEMMA InverseReaches ==
  ASSUME NEW m \in Nat \ {0}, NEW row \in Row(m), Len(row) = m, NEW a \in Int, NEW mode,
         Monotone(row, mode, m)
  PROVE  LET pedal == InvertMonotone(row, a)
             low == IF mode = "brake" THEN row[m] ELSE row[1]
             high == IF mode = "brake" THEN row[1] ELSE row[m]
         IN  /\ pedal \in Pedal(m) /\ low <= high
             /\ Forward(row, pedal) = pedal.den * Clamp(low, a, high)
<1> DEFINE pedal == InvertMonotone(row, a)
           low == IF mode = "brake" THEN row[m] ELSE row[1]
           high == IF mode = "brake" THEN row[1] ELSE row[m]
           pieces == {x \in 1 .. m - 1 : Between(row[x], a, row[x + 1])}
           i == CHOOSE p \in pieces : \A q \in pieces : p <= q
           rise == row[i + 1] - row[i]
           rising == row[m] >= row[1]
<1>1. 1 \in 1 .. m /\ m \in 1 .. m /\ 1 <= m /\ row[1] \in Int /\ row[m] \in Int
  BY DEF Row
<1>2. low \in Int /\ high \in Int /\ low <= high
  BY <1>1 DEF Monotone, Rising, Falling
<1>3. pedal =
        IF a <= (IF rising THEN row[1] ELSE row[m]) THEN AtBin(IF rising THEN 1 ELSE m)
        ELSE IF a >= (IF rising THEN row[m] ELSE row[1]) THEN AtBin(IF rising THEN m ELSE 1)
        ELSE IF rise = 0 THEN AtBin(i)
        ELSE IF rise > 0 THEN Beyond(i, a - row[i], rise)
        ELSE Beyond(i, row[i] - a, - rise)
  BY DEF InvertMonotone
<1>4. /\ rising => (row[1] = low /\ row[m] = high)
      /\ ~ rising => (row[m] = low /\ row[1] = high)
  BY <1>1 DEF Monotone, Rising, Falling
<1>5. \A p \in 1 .. m : /\ AtBin(p) \in Pedal(m)
                        /\ Forward(row, AtBin(p)) = AtBin(p).den * row[p]
  BY DEF AtBin, Forward, Pedal, Row
<1>6. low < a /\ a < high => i \in pieces
  BY <1>4, FirstPiece
<1> HIDE DEF pieces, i, pedal, low, high, rising
<1>7. CASE a <= low
  <2>1. pedal = AtBin(IF rising THEN 1 ELSE m)
    BY <1>3, <1>4, <1>7
  <2>2. Clamp(low, a, high) = low
    BY <1>2, <1>7 DEF Clamp
  <2>3. rising \in BOOLEAN
    BY DEF rising
  <2> QED  BY <1>1, <1>2, <1>4, <1>5, <2>1, <2>2, <2>3 DEF pedal, low, high
<1>8. CASE ~ (a <= low) /\ a >= high
  <2>1. pedal = AtBin(IF rising THEN m ELSE 1)
    BY <1>3, <1>4, <1>8
  <2>2. Clamp(low, a, high) = high
    BY <1>2, <1>8 DEF Clamp
  <2>3. rising \in BOOLEAN
    BY DEF rising
  <2> QED  BY <1>1, <1>2, <1>4, <1>5, <2>1, <2>2, <2>3 DEF pedal, low, high
<1>9. CASE low < a /\ a < high
  <2>1. /\ i \in 1 .. m - 1 /\ i \in 1 .. m /\ i + 1 \in 1 .. m /\ i < m
        /\ Between(row[i], a, row[i + 1])
    BY <1>6, <1>9 DEF pieces
  <2>2. row[i] \in Int /\ row[i + 1] \in Int /\ rise \in Int
    BY <2>1 DEF Row
  <2>3. pedal = IF rise = 0 THEN AtBin(i)
                ELSE IF rise > 0 THEN Beyond(i, a - row[i], rise)
                ELSE Beyond(i, row[i] - a, - rise)
    BY <1>2, <1>3, <1>4, <1>9
  <2>4. Clamp(low, a, high) = a
    BY <1>2, <1>9 DEF Clamp
  <2>5. pedal \in Pedal(m) /\ Forward(row, pedal) = pedal.den * a
    <3>1. CASE rise = 0
      <4>1. row[i] = a
        BY <2>1, <2>2, <3>1 DEF Between
      <4> QED  BY <1>5, <2>1, <2>3, <3>1, <4>1
    <3>2. CASE rise > 0
      <4> DEFINE num == a - row[i]
      <4>1. num \in Nat /\ num <= rise /\ rise \in Nat \ {0}
        BY <2>1, <2>2, <3>2 DEF Between
      <4>2. pedal = [bin |-> i, num |-> num, den |-> rise]
        BY <2>2, <2>3, <3>2 DEF Beyond
      <4>3. rise * row[i] + num * rise = rise * a
        BY ONLY <2>2, a \in Int
      <4>4. num = 0 => num * rise = 0
        BY <2>2
      <4>5. Forward(row, pedal) = rise * row[i] + num * rise
        BY <4>2, <4>4, <2>2 DEF Forward
      <4> QED  BY <2>1, <4>1, <4>2, <4>3, <4>5 DEF Pedal
    <3>3. CASE rise < 0
      <4> DEFINE num == row[i] - a
                 den == - rise
      <4>1. num \in Nat /\ num <= den /\ den \in Nat \ {0}
        BY <2>1, <2>2, <3>3 DEF Between
      <4>2. pedal = [bin |-> i, num |-> num, den |-> den]
        BY <2>2, <2>3, <3>3 DEF Beyond
      <4>3. den * row[i] + num * rise = den * a
        BY ONLY <2>2, a \in Int
      <4>4. num = 0 => num * rise = 0
        BY <2>2
      <4>5. Forward(row, pedal) = den * row[i] + num * rise
        BY <4>2, <4>4, <2>2 DEF Forward
      <4> QED  BY <2>1, <4>1, <4>2, <4>3, <4>5 DEF Pedal
    <3> QED  BY <2>2, <3>1, <3>2, <3>3
  <2> QED  BY <1>2, <2>4, <2>5 DEF pedal, low, high
<1> QED  BY <1>2, <1>7, <1>8, <1>9 DEF low, high

(* ---- the inductive invariant -------------------------------------------- *)

Reading == Int \cup {Empty}

(* What each stage of the fit hands to the next one. *)
StageInv ==
  /\ phase \in {"load", "coast", "refused"} => DOMAIN tables = {}
  /\ phase \in {"coast", "tables", "write", "done"} =>
       measured \in [throttle : Columns(NV, shape[2], Reading),
                     brake : Columns(NV, shape[2], Reading),
                     coast : [1 .. NV -> Reading]]
  /\ phase \in {"tables", "write", "done"} => coast \in [1 .. NV -> Int]
  /\ phase \in {"write", "done"} => DOMAIN tables = {"throttle", "brake"}

(* Every row of a fitted table is monotone and starts at coasting. *)
TablesInv ==
  \A t \in DOMAIN tables :
    /\ Table(tables[t], t, NV, NP)
    /\ \A i \in 1 .. NV : tables[t][i][1] = coast[i]

WrittenInv ==
  phase = "done" => vehicle = [accel |-> tables["throttle"], decel |-> tables["brake"]]

FitInv == FitTypeOK /\ StageInv /\ TablesInv /\ WrittenInv

(* The sizes that FitAssumption allows. *)
LEMMA ShapeSizes ==
  ASSUME shape \in Shapes
  PROVE  /\ shape[2] \in Nat \ {0} /\ NV \in Nat \ {0, 1}
         /\ NP \in Nat \ {0, 1} /\ NP = shape[2] + 1
BY FitAssumption DEF NV, NP

(* At the start there is nothing to be wrong. *)
LEMMA FitInvInit == FitInit => FitInv
<1> SUFFICES ASSUME FitInit PROVE FitInv
  OBVIOUS
<1>1. FitTypeOK
  BY DEF FitInit, FitTypeOK
<1>2. StageInv /\ TablesInv /\ WrittenInv
  BY DEF FitInit, StageInv, TablesInv, WrittenInv
<1> QED  BY <1>1, <1>2 DEF FitInv

(* The rows that fit_pedal_table makes, monotone, are a table of the fit. *)
LEMMA FittedTable ==
  ASSUME NEW mode \in {"throttle", "brake"}, FitInv, phase = "tables"
  PROVE  LET filled == [p \in 1 .. shape[2] |->
                          FillAlongDrag([i \in 1 .. NV |-> measured[mode][i][p]])]
             rows == [i \in 1 .. NV |->
                        [p \in 1 .. NP |-> IF p = 1 THEN coast[i] ELSE filled[p - 1][i]]]
             fitted == [i \in 1 .. NV |-> Accumulate(rows[i], mode)]
         IN  /\ Table(fitted, mode, NV, NP)
             /\ \A i \in 1 .. NV : fitted[i][1] = coast[i]
<1> DEFINE filled == [p \in 1 .. shape[2] |->
                        FillAlongDrag([i \in 1 .. NV |-> measured[mode][i][p]])]
           rows == [i \in 1 .. NV |->
                      [p \in 1 .. NP |-> IF p = 1 THEN coast[i] ELSE filled[p - 1][i]]]
           fitted == [i \in 1 .. NV |-> Accumulate(rows[i], mode)]
<1>1. /\ shape[2] \in Nat \ {0} /\ NV \in Nat \ {0, 1}
      /\ NP \in Nat \ {0, 1} /\ NP = shape[2] + 1
  BY ShapeSizes DEF FitInv, FitTypeOK
<1>2. coast \in [1 .. NV -> Int]
  BY DEF FitInv, StageInv
<1>3. measured[mode] \in [1 .. NV -> [1 .. shape[2] -> Reading]]
  BY DEF FitInv, StageInv, Columns
<1>4. \A p \in 1 .. shape[2] : filled[p] \in [1 .. NV -> Int]
  <2>1. ASSUME NEW p \in 1 .. shape[2]
        PROVE  FillAlongDrag([i \in 1 .. NV |-> measured[mode][i][p]]) \in [1 .. NV -> Int]
    <3> DEFINE column == [i \in 1 .. NV |-> measured[mode][i][p]]
    <3>1. column \in [1 .. NV -> Reading]
      BY <1>3
    <3> HIDE DEF column
    <3>2. FillAlongDrag(column) \in [1 .. NV -> Int]
      BY <1>1, <1>2, <3>1, FilledColumn DEF Reading
    <3> QED  BY <3>2 DEF column
  <2> QED  BY <2>1
<1> HIDE DEF filled
<1>5. \A i \in 1 .. NV : rows[i] \in [1 .. NP -> Int] /\ rows[i][1] = coast[i]
  <2>1. \A i \in 1 .. NV : rows[i][1] = coast[i]
    BY <1>1
  <2>2. \A p \in 1 .. NP : p # 1 => p - 1 \in 1 .. shape[2]
    BY <1>1
  <2>3. \A i \in 1 .. NV : \A p \in 1 .. NP :
          (IF p = 1 THEN coast[i] ELSE filled[p - 1][i]) \in Int
    BY <1>2, <1>4, <2>2
  <2> QED  BY <2>1, <2>3
<1> HIDE DEF rows
<1>6. \A i \in 1 .. NV : /\ fitted[i] \in Row(NP) /\ fitted[i][1] = coast[i]
                         /\ Monotone(fitted[i], mode, NP)
  <2>1. ASSUME NEW i \in 1 .. NV
        PROVE  /\ fitted[i] \in Row(NP) /\ fitted[i][1] = coast[i]
               /\ Monotone(fitted[i], mode, NP)
    <3> DEFINE row == rows[i]
    <3>1. row \in [1 .. NP -> Int] /\ row[1] = coast[i] /\ NP \in Nat \ {0}
      BY <1>1, <1>5
    <3>2. fitted[i] = Accumulate(row, mode)
      OBVIOUS
    <3> HIDE DEF row, fitted
    <3> QED  BY <3>1, <3>2, AccumulateMonotone DEF Row
  <2> QED  BY <2>1
<1>7. fitted \in [1 .. NV -> Row(NP)] /\ Len(fitted) = NV
  <2>1. fitted \in [1 .. NV -> Row(NP)]
    BY <1>6
  <2> QED  BY <1>1, <2>1
<1> QED  BY <1>6, <1>7 DEF Table, filled, rows

(* Each stage of the fit keeps what the earlier ones wrote. *)
LEMMA FitInvStep == FitInv /\ [FitNext]_fitVars => FitInv'
<1> SUFFICES ASSUME FitInv, [FitNext]_fitVars PROVE FitInv'
  OBVIOUS
<1> USE DEF FitInv
<1>0. shape[2] \in Nat \ {0} /\ NV \in Nat \ {0, 1} /\ NP \in Nat \ {0, 1}
  BY ShapeSizes DEF FitTypeOK
<1>1. CASE LoadRuns
  <2>1. shape' = shape /\ tables' = tables /\ coast' = coast /\ NV' = NV /\ NP' = NP
    BY <1>1 DEF LoadRuns, NV, NP
  <2>2. FitTypeOK'
    BY <1>1, <2>1 DEF LoadRuns, FitTypeOK
  <2>3. phase' = "coast" =>
          measured' \in [throttle : Columns(NV, shape[2], Reading),
                         brake : Columns(NV, shape[2], Reading),
                         coast : [1 .. NV -> Reading]]
    <3> SUFFICES ASSUME phase' = "coast"
                 PROVE  measured' \in [throttle : Columns(NV, shape[2], Reading),
                                       brake : Columns(NV, shape[2], Reading),
                                       coast : [1 .. NV -> Reading]]
      OBVIOUS
    <3>1. PICK t \in Columns(NV, shape[2], IF "throttle" \in present THEN Means ELSE {Empty}),
               b \in Columns(NV, shape[2], IF "brake" \in present THEN Means ELSE {Empty}),
               c \in [1 .. NV -> IF "coast" \in present THEN Means ELSE {Empty}] :
            measured' = [throttle |-> t, brake |-> b, coast |-> c]
      BY <1>1 DEF LoadRuns
    <3>2. Means \subseteq Reading /\ {Empty} \subseteq Reading
      BY FitAssumption DEF Reading
    <3>3. t \in Columns(NV, shape[2], Reading)
      BY <3>2 DEF Columns
    <3>4. b \in Columns(NV, shape[2], Reading)
      BY <3>2 DEF Columns
    <3>5. c \in [1 .. NV -> Reading]
      BY <3>2
    <3> QED  BY <3>1, <3>3, <3>4, <3>5
  <2>4. phase' \in {"coast", "refused"} /\ DOMAIN tables = {}
    BY <1>1 DEF LoadRuns, StageInv
  <2> QED  BY <2>1, <2>2, <2>3, <2>4 DEF StageInv, TablesInv, WrittenInv
<1>2. CASE FitCoast
  <2>1. /\ shape' = shape /\ tables' = tables /\ measured' = measured /\ NV' = NV /\ NP' = NP
        /\ phase = "coast" /\ phase' = "tables" /\ DOMAIN tables = {}
    BY <1>2 DEF FitCoast, NV, NP, StageInv
  <2>2. coast' \in [1 .. NV -> Int]
    <3> DEFINE reached == Reached(measured.coast)
               value(i) == IF reached = {} THEN Placeholder(i)
                           ELSE AtMostZero(measured.coast[NearestTo(i, reached)])
    <3>1. measured.coast \in [1 .. NV -> Reading]
      BY <2>1 DEF StageInv
    <3>2. reached \in SUBSET (1 .. NV) /\ \A j \in reached : measured.coast[j] \in Int
      BY <3>1 DEF Reached, Reading
    <3>3. ASSUME NEW i \in 1 .. NV PROVE value(i) \in Int
      <4>1. CASE reached = {}
        BY <4>1 DEF Placeholder
      <4>2. CASE reached # {}
        <5> HIDE DEF reached
        <5>1. NearestTo(i, reached) \in reached
          BY <1>0, <3>2, <4>2, NearestReached
        <5>2. measured.coast[NearestTo(i, reached)] \in Int
          BY <3>2, <5>1
        <5> QED  BY <4>2, <5>2 DEF AtMostZero
      <4> QED  BY <4>1, <4>2
    <3>4. coast' = [i \in 1 .. NV |-> value(i)]
      BY <1>2 DEF FitCoast
    <3> HIDE DEF value
    <3> QED  BY <3>3, <3>4
  <2>3. FitTypeOK'
    BY <2>1, <2>2, <1>2 DEF FitTypeOK, FitCoast
  <2> QED  BY <2>1, <2>2, <2>3 DEF StageInv, TablesInv, WrittenInv
<1>3. ASSUME NEW mode \in {"throttle", "brake"}, FitPedalTable(mode)
      PROVE  FitInv'
  <2> DEFINE filled == [p \in 1 .. shape[2] |->
                          FillAlongDrag([i \in 1 .. NV |-> measured[mode][i][p]])]
             rows == [i \in 1 .. NV |->
                        [p \in 1 .. NP |-> IF p = 1 THEN coast[i] ELSE filled[p - 1][i]]]
             fitted == [i \in 1 .. NV |-> Accumulate(rows[i], mode)]
  <2>1. Table(fitted, mode, NV, NP) /\ \A i \in 1 .. NV : fitted[i][1] = coast[i]
    BY <1>3, FittedTable DEF FitPedalTable
  <2>2. /\ shape' = shape /\ coast' = coast /\ measured' = measured /\ NV' = NV /\ NP' = NP
        /\ phase = "tables" /\ UNCHANGED <<present, partial>>
        /\ phase' = IF DOMAIN tables' = {"throttle", "brake"} THEN "write" ELSE "tables"
        /\ tables' = [t \in DOMAIN tables \cup {mode} |-> IF t = mode THEN fitted ELSE tables[t]]
    BY <1>3 DEF FitPedalTable, NV, NP
  <2> HIDE DEF fitted
  <2>3. DOMAIN tables' = DOMAIN tables \cup {mode}
    BY <2>2
  <2>4. TablesInv'
    BY <2>1, <2>2, <2>3 DEF TablesInv
  <2>5. \A t \in DOMAIN tables' :
          /\ Len(tables'[t]) = NV
          /\ \A i \in 1 .. NV : tables'[t][i] \in Seq(Int) /\ Len(tables'[t][i]) = NP
    <3>1. \A t \in DOMAIN tables' : Table(tables'[t], t, NV, NP)
      BY <2>2, <2>4 DEF TablesInv
    <3>2. \A row \in Row(NP) : row \in Seq(Int) /\ Len(row) = NP
      BY <1>0 DEF Row
    <3> QED  BY <3>1, <3>2 DEF Table
  <2>6. FitTypeOK'
    BY ZenonT(30), <2>2, <2>3, <2>5 DEF FitTypeOK
  <2>7. StageInv' /\ WrittenInv'
    BY <2>2, <2>3 DEF StageInv, WrittenInv
  <2> QED  BY <2>4, <2>6, <2>7
<1>4. CASE WriteVehicle
  <2>1. /\ UNCHANGED <<shape, present, partial, measured, coast, tables, NV, NP>>
        /\ phase = "write" /\ phase' = "done"
        /\ vehicle' = [accel |-> tables["throttle"], decel |-> tables["brake"]]
    BY <1>4 DEF WriteVehicle, NV, NP
  <2> QED  BY <2>1 DEF FitTypeOK, StageInv, TablesInv, WrittenInv
<1>5. CASE UNCHANGED fitVars
  BY <1>5 DEF fitVars, FitTypeOK, StageInv, TablesInv, WrittenInv, NV, NP
<1> QED  BY <1>1, <1>2, <1>3, <1>4, <1>5 DEF FitNext

(* So it holds at every stage. *)
LEMMA FitInvHolds == Spec => []FitInv
<1> QED  BY FitInvInit, FitInvStep, PTL DEF Spec

(* The fit's data have their types, whatever bins the sweeps reached. *)
THEOREM FitTyped == Spec => []FitTypeOK
<1>1. FitInv => FitTypeOK
  BY DEF FitInv
<1> QED  BY FitInvHolds, <1>1, PTL

(* Whatever the sweeps reached and measured, the pedals that control_adapter   *)
(* finds in the written tables produce the demand, or the nearest the car can. *)
THEOREM PedalsReachDemand == Spec => []DemandReached
<1>1. FitInv => DemandReached
  <2> SUFFICES ASSUME FitInv, phase = "done", NEW h \in HalfBins, NEW a \in Demands
               PROVE  LET up == Up(h)
                          down == Down(h)
                          pedals == Inverse(up, down, a)
                          best == Clamp(down[NP], a, up[NP])
                      IN  IF a >= up[1]
                          THEN /\ pedals.brake = AtBin(1)
                               /\ Forward(up, pedals.throttle) = pedals.throttle.den * best
                          ELSE /\ pedals.throttle = AtBin(1)
                               /\ Forward(down, pedals.brake) = pedals.brake.den * best
    BY DEF DemandReached
  <2> DEFINE up == Up(h)
             down == Down(h)
             best == Clamp(down[NP], a, up[NP])
  <2>1. /\ NV \in Nat \ {0, 1} /\ NP \in Nat \ {0, 1} /\ h \in Int /\ a \in Int
        /\ NV \in Nat \ {0} /\ NP \in Nat \ {0}
    BY ShapeSizes, FitAssumption DEF FitInv, FitTypeOK, HalfBins, Demands
  <2>2. /\ vehicle = [accel |-> tables["throttle"], decel |-> tables["brake"]]
        /\ DOMAIN tables = {"throttle", "brake"}
    BY DEF FitInv, WrittenInv, StageInv
  <2>3. /\ Table(vehicle.accel, "throttle", NV, NP) /\ Table(vehicle.decel, "brake", NV, NP)
        /\ \A i \in 1 .. NV : vehicle.decel[i][1] = vehicle.accel[i][1]
    BY <2>2 DEF FitInv, TablesInv
  <2>4. up \in Row(NP) /\ Monotone(up, "throttle", NP)
    BY <2>1, <2>3, InterpolatedRow DEF Up
  <2>5. down \in Row(NP) /\ Monotone(down, "brake", NP) /\ down[1] = up[1]
    BY SMTT(30), <2>1, <2>3, InterpolatedRow DEF Up, Down
  <2> HIDE DEF up, down
  <2>6. Len(up) = NP /\ Len(down) = NP
    BY <2>1, <2>4, <2>5 DEF Row
  <2>7. /\ up[1] <= up[NP] /\ up[1] \in Int /\ up[NP] \in Int
        /\ Forward(up, InvertMonotone(up, a)) = InvertMonotone(up, a).den * Clamp(up[1], a, up[NP])
    <3>1. 1 \in 1 .. NP /\ NP \in 1 .. NP
      BY <2>1
    <3> QED  BY <2>1, <2>4, <2>6, <3>1, InverseReaches DEF Row
  <2>8. /\ down[NP] <= down[1] /\ down[1] \in Int /\ down[NP] \in Int
        /\ Forward(down, InvertMonotone(down, a))
             = InvertMonotone(down, a).den * Clamp(down[NP], a, down[1])
    <3>1. 1 \in 1 .. NP /\ NP \in 1 .. NP
      BY <2>1
    <3> QED  BY <2>1, <2>5, <2>6, <3>1, InverseReaches DEF Row
  <2>9. CASE a >= up[1]
    <3>1. Clamp(up[1], a, up[NP]) = best
      BY <2>1, <2>5, <2>7, <2>8, <2>9 DEF Clamp
    <3>2. Inverse(up, down, a) = [throttle |-> InvertMonotone(up, a), brake |-> AtBin(1)]
      BY <2>9 DEF Inverse
    <3> QED  BY <2>7, <2>9, <3>1, <3>2 DEF up, down
  <2>10. CASE ~ (a >= up[1])
    <3>1. Clamp(down[NP], a, down[1]) = best
      BY <2>1, <2>5, <2>7, <2>8, <2>10 DEF Clamp
    <3>2. Inverse(up, down, a) = [throttle |-> AtBin(1), brake |-> InvertMonotone(down, a)]
      BY <2>10 DEF Inverse
    <3> QED  BY <2>8, <2>10, <3>1, <3>2 DEF up, down
  <2> QED  BY <2>9, <2>10
<1> QED  BY FitInvHolds, <1>1, PTL
===============================================================================
