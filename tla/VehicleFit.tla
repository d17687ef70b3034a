------------------------------ MODULE VehicleFit -------------------------------
(***************************************************************************)
(* fit_models.py: from the sweep logs to the tables control_adapter         *)
(* inverts.  Which (speed, pedal) bins a sweep reached is anybody's guess,  *)
(* and so are the measured means: gearbox and noise make them unordered.    *)
(* The fit fills the bins nobody reached and makes every row monotone.      *)
(***************************************************************************)
EXTENDS PedalMap

CONSTANTS
  Shapes,     \* the tables to try: <<speed bins, pedal bins besides 0>>
  Means,      \* the mean accelerations a bin may have, or Empty
  Empty,      \* bin_means: NaN, no sample fell into the bin
  MaxDemand   \* bound: the accelerations asked for, in half units

ASSUME FitAssumption ==
  /\ \A s \in Shapes : s \in (Nat \ {0, 1}) \X (Nat \ {0})
  /\ Means \subseteq Int \cup {Empty} /\ MaxDemand \in Nat

VARIABLES
  phase,      \* "load", "coast", "tables", "write", "done", "refused"
  shape,      \* the table sizes of this fit
  present,    \* the modes whose CSV is there
  partial,    \* --allow-partial
  measured,   \* what bin_means returns, by mode: a[v][pedal]
  coast,      \* fit.coast_accel
  tables,     \* the fitted tables so far, by mode
  vehicle     \* the longitudinal_map of the vehicle file, Fallback before

fitVars == <<phase, shape, present, partial, measured, coast, tables, vehicle>>

Modes == {"throttle", "brake", "coast", "steer"}   \* the tables come from the first three

NV == shape[1]
NP == shape[2] + 1

Unfitted == <<>>

FitTypeOK ==
  /\ phase \in {"load", "coast", "tables", "write", "done", "refused"}
  /\ shape \in Shapes /\ present \subseteq Modes /\ partial \in BOOLEAN
  /\ coast = Unfitted \/ coast \in [1 .. NV -> Int]
  /\ DOMAIN tables \subseteq {"throttle", "brake"}
  /\ \A t \in DOMAIN tables :
       /\ Len(tables[t]) = NV
       /\ \A i \in 1 .. NV : tables[t][i] \in Seq(Int) /\ Len(tables[t][i]) = NP

Columns(n, p, set) == [1 .. n -> [1 .. p -> set]]

FitInit ==
  /\ phase = "load" /\ shape \in Shapes
  /\ present \in SUBSET Modes /\ partial \in BOOLEAN
  /\ present = Modes => ~ partial   \* the option changes nothing then
  /\ measured = Unfitted /\ coast = Unfitted
  /\ tables = [t \in {} |-> <<>>] /\ vehicle = Unfitted

(* main: a partial directory is fitted only when that is asked for. *)
LoadRuns ==
  /\ phase = "load"
  /\ \/ /\ present # Modes /\ (~ partial \/ present = {})
        /\ phase' = "refused"
        /\ UNCHANGED measured
     \/ /\ present = Modes \/ (partial /\ present # {})
        /\ phase' = "coast"
        /\ \E t \in Columns(NV, shape[2], IF "throttle" \in present THEN Means ELSE {Empty}),
              b \in Columns(NV, shape[2], IF "brake" \in present THEN Means ELSE {Empty}),
              c \in [1 .. NV -> IF "coast" \in present THEN Means ELSE {Empty}] :
             measured' = [throttle |-> t, brake |-> b, coast |-> c]
  /\ UNCHANGED <<shape, present, partial, coast, tables, vehicle>>

Dist(i, j) == IF i < j THEN j - i ELSE i - j

(* The nearest reached bin; of two at the same distance the lower (argmin). *)
NearestTo(i, reached) ==
  CHOOSE j \in reached : \A o \in reached :
    Dist(i, j) < Dist(i, o) \/ (Dist(i, j) = Dist(i, o) /\ j <= o)

Reached(column) == {i \in DOMAIN column : column[i] # Empty}

(* The M0 placeholder drag: negative, and stronger with speed. *)
Placeholder(i) == - i

AtMostZero(x) == IF x < 0 THEN x ELSE 0

(* Mutant: the speeds no coasting run reached are left out. *)
FitCoastMeasured ==
  /\ phase = "coast"
  /\ coast' = LET reached == Reached(measured.coast)
              IN  [i \in reached |-> AtMostZero(measured.coast[i])]
  /\ phase' = "tables"
  /\ UNCHANGED <<shape, present, partial, measured, tables, vehicle>>

(* fit_coast: never positive, flat beyond what was measured. *)
FitCoast ==
  /\ phase = "coast"
  /\ coast' = LET reached == Reached(measured.coast)
              IN  [i \in 1 .. NV |->
                     IF reached = {} THEN Placeholder(i)
                     ELSE AtMostZero(measured.coast[NearestTo(i, reached)])]
  /\ phase' = "tables"
  /\ UNCHANGED <<shape, present, partial, measured, tables, vehicle>>

(* fill_along_drag: as far above or below coasting as the nearest reached bin. *)
FillAlongDrag(column) ==
  LET reached == Reached(column)
  IN  [i \in 1 .. NV |->
         IF reached = {} THEN coast[i]
         ELSE LET j == NearestTo(i, reached)
              IN  IF i \in reached THEN column[i] ELSE column[j] + coast[i] - coast[j]]

(* maximum.accumulate, or minimum.accumulate for the brake. *)
Accumulate(row, mode) ==
  [p \in DOMAIN row |->
     CHOOSE x \in {row[q] : q \in 1 .. p} :
       \A q \in 1 .. p : IF mode = "brake" THEN x <= row[q] ELSE x >= row[q]]

(* Mutant: the columns stay as they were filled. *)
FitPedalTableUnordered(mode) ==
  /\ phase = "tables" /\ mode \notin DOMAIN tables
  /\ mode = "brake" => "throttle" \in DOMAIN tables
  /\ LET filled == [p \in 1 .. shape[2] |->
                      FillAlongDrag([i \in 1 .. NV |-> measured[mode][i][p]])]
         rows == [i \in 1 .. NV |->
                    [p \in 1 .. NP |-> IF p = 1 THEN coast[i] ELSE filled[p - 1][i]]]
     IN  tables' = [t \in DOMAIN tables \cup {mode} |-> IF t = mode THEN rows ELSE tables[t]]
  /\ phase' = IF DOMAIN tables' = {"throttle", "brake"} THEN "write" ELSE "tables"
  /\ UNCHANGED <<shape, present, partial, measured, coast, vehicle>>

(* fit_pedal_table: column 0 is coasting, then one column per pedal level, *)
(* each filled on its own; at the end every row is made monotone.           *)
FitPedalTable(mode) ==
  /\ phase = "tables" /\ mode \notin DOMAIN tables
  /\ mode = "brake" => "throttle" \in DOMAIN tables
  /\ LET filled == [p \in 1 .. shape[2] |->
                      FillAlongDrag([i \in 1 .. NV |-> measured[mode][i][p]])]
         rows == [i \in 1 .. NV |->
                    [p \in 1 .. NP |-> IF p = 1 THEN coast[i] ELSE filled[p - 1][i]]]
         fitted == [i \in 1 .. NV |-> Accumulate(rows[i], mode)]
     IN  tables' = [t \in DOMAIN tables \cup {mode} |-> IF t = mode THEN fitted ELSE tables[t]]
  /\ phase' = IF DOMAIN tables' = {"throttle", "brake"} THEN "write" ELSE "tables"
  /\ UNCHANGED <<shape, present, partial, measured, coast, vehicle>>

(* main: the tables have been validated and are written; only now. *)
WriteVehicle ==
  /\ phase = "write"
  /\ vehicle' = [accel |-> tables["throttle"], decel |-> tables["brake"]]
  /\ phase' = "done"
  /\ UNCHANGED <<shape, present, partial, measured, coast, tables>>

FitNext ==
  LoadRuns \/ FitCoast \/ FitPedalTable("throttle") \/ FitPedalTable("brake") \/ WriteVehicle

Spec == FitInit /\ [][FitNext]_fitVars

(* ---- properties: what control_adapter relies on ------------------------- *)

HalfBins == -1 .. 2 * NV - 1   \* below, on, between and beyond the speed bins

Demands == - MaxDemand .. MaxDemand

Clamp(lo, x, hi) == IF x < lo THEN lo ELSE IF x > hi THEN hi ELSE x

Up(h) == InterpRow(vehicle.accel, h)
Down(h) == InterpRow(vehicle.decel, h)

(* The pedals chosen for a demand produce it, or the nearest the car can do:  *)
(* no hole or dip in what the sweeps happened to measure sends the demand to   *)
(* the wrong piece of a row, at any speed and on either side of coasting.       *)
DemandReached ==
  phase = "done" =>
    \A h \in HalfBins :
      LET up == Up(h)
          down == Down(h)
      IN  \A a \in Demands :
            LET pedals == Inverse(up, down, a)
                best == Clamp(down[NP], a, up[NP])
            IN  IF a >= up[1]
                THEN /\ pedals.brake = AtBin(1)
                     /\ Forward(up, pedals.throttle) = pedals.throttle.den * best
                ELSE /\ pedals.throttle = AtBin(1)
                     /\ Forward(down, pedals.brake) = pedals.brake.den * best
===============================================================================
