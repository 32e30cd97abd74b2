------------------------------ MODULE DnaPhases ------------------------------
(***************************************************************************)
(* The phases that dna_detector_ccf::make_subregion computes its statistics *)
(* of: those of the samples, with the turns between them counted. Angles    *)
(* are integers in a unit of which HalfTurn make pi, instead of floats.     *)
(***************************************************************************)
EXTENDS Integers

CONSTANT HalfTurn

ASSUME PhasesAssumption == HalfTurn \in Nat \ {0}

Turn == 2 * HalfTurn

\* fmod() of the C library: the remainder has the sign of a.
FMod(a, m) == IF a >= 0 THEN a % m ELSE -((-a) % m)

\* The angle in -HalfTurn .. HalfTurn - 1 that differs by whole turns.
ConstrainAngle(angle) ==
  LET x == FMod(angle + HalfTurn, Turn)
  IN (IF x < 0 THEN x + Turn ELSE x) - HalfTurn

AngleConv(angle) == FMod(ConstrainAngle(angle), Turn)

AngleDiff(a, b) ==
  LET dif == FMod(b - a + HalfTurn, Turn)
  IN (IF dif < 0 THEN dif + Turn ELSE dif) - HalfTurn

UnwrapPhase(prev, current) == prev - AngleDiff(current, AngleConv(prev))
=============================================================================
