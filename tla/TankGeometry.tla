---------------------------- MODULE TankGeometry ----------------------------
(***************************************************************************)
(* TankGeometry (main/src/tank_geometry.cpp): the volume of the water, in  *)
(* permille, from the measured distance, by linear interpolation between   *)
(* the entries of VOLUME_LUT.                                              *)
(*                                                                         *)
(* Distances and depths are whole millimetres.  The code computes in       *)
(* float; here the interpolation is exact, and the one rounding at the end *)
(* is the code's.                                                          *)
(***************************************************************************)
EXTENDS Integers

OFFSET_MM == 256             \* SENSOR_OFFSET_CM

\* Depth below the full-water line (mm) and volume there (permille).
VOLUME_LUT == <<[depth |->    0, permille |-> 1000],
                [depth |->  220, permille |->  835],
                [depth |->  520, permille |->  616],
                [depth |->  820, permille |->  403],
                [depth |-> 1120, permille |->  195],
                [depth |-> 1410, permille |->    0]>>

LUT_SIZE == 6

Segments  == 1..(LUT_SIZE - 1)
FullEntry == VOLUME_LUT[1]
EmptyEntry == VOLUME_LUT[LUT_SIZE]

Width(i) == VOLUME_LUT[i + 1].depth - VOLUME_LUT[i].depth
Drop(i)  == VOLUME_LUT[i].permille - VOLUME_LUT[i + 1].permille

\* The first segment whose lower end is at or below depth.
SegmentOf(depth) ==
  CHOOSE i \in Segments : /\ depth <= VOLUME_LUT[i + 1].depth
                          /\ \A j \in Segments : j < i => depth > VOLUME_LUT[j + 1].depth

\* Mutant: the fraction is cut off without the half.
CutOff(num, den) == num \div den

\* (x + 0.5) cut off, for a fraction x >= 0.
Nearest(num, den) == (2 * num + den) \div (2 * den)

Interpolate(i, depth) ==
  Nearest(VOLUME_LUT[i].permille * Width(i) - Drop(i) * (depth - VOLUME_LUT[i].depth),
          Width(i))

\* Mutant: the clamp at the full-water line is missing.
UnclampedAbove(depth) ==
  IF depth >= EmptyEntry.depth THEN EmptyEntry.permille
  ELSE Interpolate(SegmentOf(depth), depth)

depth_to_permille(depth) ==
  IF depth <= FullEntry.depth       THEN FullEntry.permille
  ELSE IF depth >= EmptyEntry.depth THEN EmptyEntry.permille
  ELSE Interpolate(SegmentOf(depth), depth)

calculate_permille(distance) == depth_to_permille(distance - OFFSET_MM)

-----------------------------------------------------------------------------
(* What the level stands for: each of the stacked cylinders has lost the   *)
(* share of its volume that lies above the water.                          *)

Clip(x, most) == IF x < 0 THEN 0 ELSE IF x > most THEN most ELSE x

\* A common multiple of the widths of the segments.
Common == 95700

\* What segment i has lost at a depth, in permille of the tank / Common.
Lost(i, depth) == Drop(i) * Clip(depth - VOLUME_LUT[i].depth, Width(i)) * (Common \div Width(i))

VolumeLeft(depth) ==
  1000 * Common - (Lost(1, depth) + Lost(2, depth) + Lost(3, depth)
                     + Lost(4, depth) + Lost(5, depth))

\* The level of a distance is within half a permille of the volume.
FollowsVolume(distance) ==
  LET error == calculate_permille(distance) * Common - VolumeLeft(distance - OFFSET_MM)
  IN -Common <= 2 * error /\ 2 * error <= Common
=============================================================================
