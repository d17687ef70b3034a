------------------------------- MODULE PedalMap --------------------------------
(***************************************************************************)
(* longitudinal_map.py: the tables a[v][pedal], read forwards by linear     *)
(* interpolation and backwards by inverting a monotone row.  Speeds count   *)
(* half bins and accelerations half units, so that a row between two speed  *)
(* bins is still a sequence of integers; a pedal is a bin and a fraction of *)
(* the step to the next one.                                                 *)
(***************************************************************************)
EXTENDS Integers, Sequences

(* _interp_row at half bin h, clamped to the table; every value is doubled. *)
InterpRow(table, h) ==
  LET n == Len(table)
      at == IF h < 0 THEN 0 ELSE IF h > 2 * (n - 1) THEN 2 * (n - 1) ELSE h
      i == at \div 2 + 1
  IN  [p \in DOMAIN table[i] |->
         IF at % 2 = 0 THEN 2 * table[i][p] ELSE table[i][p] + table[i + 1][p]]

(* The pedal that stands at bin i, and the one num/den of a step beyond it. *)
AtBin(i) == [bin |-> i, num |-> 0, den |-> 1]
Beyond(i, num, den) == [bin |-> i, num |-> num, den |-> den]

Between(a, x, b) == (a <= x /\ x <= b) \/ (b <= x /\ x <= a)

(* _invert_monotone: the first piece that reaches the target; saturates. *)
InvertMonotone(row, target) ==
  LET n == Len(row)
      increasing == row[n] >= row[1]
      lo == IF increasing THEN row[1] ELSE row[n]
      hi == IF increasing THEN row[n] ELSE row[1]
      pieces == {i \in 1 .. n - 1 : Between(row[i], target, row[i + 1])}
      i == CHOOSE p \in pieces : \A q \in pieces : p <= q
      rise == row[i + 1] - row[i]
  IN  IF target <= lo THEN AtBin(IF increasing THEN 1 ELSE n)
      ELSE IF target >= hi THEN AtBin(IF increasing THEN n ELSE 1)
      ELSE IF rise = 0 THEN AtBin(i)
      ELSE IF rise > 0 THEN Beyond(i, target - row[i], rise)
      ELSE Beyond(i, row[i] - target, -rise)

(* inverse, with the rows of accel_table and decel_table at the speed: throttle *)
(* at or above the coasting acceleration, which is where both rows start, and    *)
(* brake below it.                                                                *)
Inverse(up, down, a) ==
  IF a >= up[1] THEN [throttle |-> InvertMonotone(up, a), brake |-> AtBin(1)]
  ELSE [throttle |-> AtBin(1), brake |-> InvertMonotone(down, a)]

(* accel and decel, times the denominator of the pedal. *)
Forward(row, pedal) ==
  pedal.den * row[pedal.bin]
    + (IF pedal.num = 0 THEN 0 ELSE pedal.num * (row[pedal.bin + 1] - row[pedal.bin]))
===============================================================================
