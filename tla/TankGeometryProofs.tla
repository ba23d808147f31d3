------------------------- MODULE TankGeometryProofs -------------------------
(***************************************************************************)
(* What calculate_permille computes, for every distance: the nearest       *)
(* permille of the volume, falling as the distance grows, and moving by    *)
(* what LEVEL_DELTA_MIN expects of a centimetre.  The argument goes        *)
(* through VolumeLeft: inside the table every millimetre costs between     *)
(* 64350 and 71775 parts of it, and a level is off by half a permille.     *)
(***************************************************************************)
EXTENDS TankGeometry, TLAPS

\* The entries of the table, one by one.
LEMMA Entries ==
  /\ VOLUME_LUT[1].depth =    0 /\ VOLUME_LUT[1].permille = 1000
  /\ VOLUME_LUT[2].depth =  220 /\ VOLUME_LUT[2].permille =  835
  /\ VOLUME_LUT[3].depth =  520 /\ VOLUME_LUT[3].permille =  616
  /\ VOLUME_LUT[4].depth =  820 /\ VOLUME_LUT[4].permille =  403
  /\ VOLUME_LUT[5].depth = 1120 /\ VOLUME_LUT[5].permille =  195
  /\ VOLUME_LUT[6].depth = 1410 /\ VOLUME_LUT[6].permille =    0
BY DEF VOLUME_LUT

\* The scan of the table always stops, at the segment around the depth.
LEMMA SegmentAround ==
  ASSUME NEW depth \in Int, 0 < depth, depth < 1410
  PROVE  /\ SegmentOf(depth) \in Segments
         /\ depth > VOLUME_LUT[SegmentOf(depth)].depth
         /\ depth <= VOLUME_LUT[SegmentOf(depth) + 1].depth
<1> DEFINE Stops(i) == /\ depth <= VOLUME_LUT[i + 1].depth
                       /\ \A j \in Segments : j < i => depth > VOLUME_LUT[j + 1].depth
<1>1. \E i \in Segments : Stops(i)
  <2>1. CASE depth <= 220
    BY <2>1, Entries, Stops(1) DEF Segments, LUT_SIZE
  <2>2. CASE depth \in 221..520
    BY <2>2, Entries, Stops(2) DEF Segments, LUT_SIZE
  <2>3. CASE depth \in 521..820
    BY <2>3, Entries, Stops(3) DEF Segments, LUT_SIZE
  <2>4. CASE depth \in 821..1120
    BY <2>4, Entries, Stops(4) DEF Segments, LUT_SIZE
  <2>5. CASE depth > 1120
    BY <2>5, Entries, Stops(5) DEF Segments, LUT_SIZE
  <2> QED BY <2>1, <2>2, <2>3, <2>4, <2>5
<1>2. SegmentOf(depth) \in Segments /\ Stops(SegmentOf(depth))
  BY <1>1 DEF SegmentOf
<1>3. depth > VOLUME_LUT[SegmentOf(depth)].depth
  <2>1. CASE SegmentOf(depth) = 1
    BY <2>1, Entries
  <2>2. CASE SegmentOf(depth) - 1 \in Segments
    <3> DEFINE j == SegmentOf(depth) - 1
    <3>1. j \in Segments /\ j < SegmentOf(depth) /\ j + 1 = SegmentOf(depth)
      BY <1>2, <2>2 DEF Segments, LUT_SIZE
    <3> QED BY <1>2, <3>1
  <2> QED BY <1>2, <2>1, <2>2 DEF Segments, LUT_SIZE
<1> QED
  BY <1>2, <1>3

\* The level in the interior of segment i, with the entries put in.
LEMMA LevelInside ==
  ASSUME NEW depth \in Int, 0 < depth, depth < 1410
  PROVE  /\ 0 < depth /\ depth <= 220 => depth_to_permille(depth)
              = (2 * (1000 * 220 - 165 * depth) + 220) \div 440
         /\ 220 < depth /\ depth <= 520 => depth_to_permille(depth)
              = (2 * (835 * 300 - 219 * (depth - 220)) + 300) \div 600
         /\ 520 < depth /\ depth <= 820 => depth_to_permille(depth)
              = (2 * (616 * 300 - 213 * (depth - 520)) + 300) \div 600
         /\ 820 < depth /\ depth <= 1120 => depth_to_permille(depth)
              = (2 * (403 * 300 - 208 * (depth - 820)) + 300) \div 600
         /\ 1120 < depth /\ depth <= 1409 => depth_to_permille(depth)
              = (2 * (195 * 290 - 195 * (depth - 1120)) + 290) \div 580
<1> DEFINE i == SegmentOf(depth)
<1>1. depth_to_permille(depth) = Interpolate(i, depth)
  BY Entries DEF depth_to_permille, FullEntry, EmptyEntry, LUT_SIZE
<1>2. /\ 0 < depth /\ depth <= 220 => i = 1
      /\ 220 < depth /\ depth <= 520 => i = 2
      /\ 520 < depth /\ depth <= 820 => i = 3
      /\ 820 < depth /\ depth <= 1120 => i = 4
      /\ 1120 < depth /\ depth <= 1409 => i = 5
  <2>1. i \in 1..5
    BY SegmentAround DEF Segments, LUT_SIZE
  <2>2. /\ i = 1 => 0 < depth /\ depth <= 220
        /\ i = 2 => 220 < depth /\ depth <= 520
        /\ i = 3 => 520 < depth /\ depth <= 820
        /\ i = 4 => 820 < depth /\ depth <= 1120
        /\ i = 5 => 1120 < depth /\ depth <= 1409
    BY SegmentAround, Entries
  <2> HIDE DEF i
  <2> QED BY <2>1, <2>2
<1>3. /\ Interpolate(1, depth) = (2 * (1000 * 220 - 165 * depth) + 220) \div 440
      /\ Interpolate(2, depth) = (2 * (835 * 300 - 219 * (depth - 220)) + 300) \div 600
      /\ Interpolate(3, depth) = (2 * (616 * 300 - 213 * (depth - 520)) + 300) \div 600
      /\ Interpolate(4, depth) = (2 * (403 * 300 - 208 * (depth - 820)) + 300) \div 600
      /\ Interpolate(5, depth) = (2 * (195 * 290 - 195 * (depth - 1120)) + 290) \div 580
  BY Entries DEF Interpolate, Nearest, Width, Drop
<1> QED
  BY <1>1, <1>2, <1>3

\* Outside the table the level is that of its end.
LEMMA LevelOutside ==
  ASSUME NEW depth \in Int
  PROVE  /\ depth <= 0    => depth_to_permille(depth) = 1000
         /\ depth >= 1410 => depth_to_permille(depth) = 0
BY Entries DEF depth_to_permille, FullEntry, EmptyEntry, LUT_SIZE

\* The volume, with the entries put in.
LEMMA VolumeFormula ==
  ASSUME NEW depth \in Int
  PROVE  VolumeLeft(depth) = 95700000
           - (  71775 * Clip(depth, 220)       + 69861 * Clip(depth - 220, 300)
              + 67947 * Clip(depth - 520, 300) + 66352 * Clip(depth - 820, 300)
              + 64350 * Clip(depth - 1120, 290))
<1>1. /\ Lost(1, depth) = 71775 * Clip(depth, 220)
      /\ Lost(2, depth) = 69861 * Clip(depth - 220, 300)
      /\ Lost(3, depth) = 67947 * Clip(depth - 520, 300)
      /\ Lost(4, depth) = 66352 * Clip(depth - 820, 300)
      /\ Lost(5, depth) = 64350 * Clip(depth - 1120, 290)
  BY Entries, SMT DEF Lost, Drop, Width, Common, Clip
<1> QED
  BY <1>1, SMT DEF VolumeLeft, Common, Clip

\* The volume within segment i, counted from its upper end.
LEMMA VolumeInside ==
  ASSUME NEW depth \in Int
  PROVE  /\ depth <= 0                    => VolumeLeft(depth) = 95700000
         /\ 0 <= depth /\ depth <= 220     => VolumeLeft(depth) = 95700000 - 71775 * depth
         /\ 220 <= depth /\ depth <= 520
              => VolumeLeft(depth) = 79909500 - 69861 * (depth - 220)
         /\ 520 <= depth /\ depth <= 820
              => VolumeLeft(depth) = 58951200 - 67947 * (depth - 520)
         /\ 820 <= depth /\ depth <= 1120
              => VolumeLeft(depth) = 38567100 - 66352 * (depth - 820)
         /\ 1120 <= depth /\ depth <= 1410
              => VolumeLeft(depth) = 18661500 - 64350 * (depth - 1120)
         /\ 1410 <= depth                 => VolumeLeft(depth) = 0
BY VolumeFormula, SMT DEF Clip

\* A level is the volume to the nearest permille.
LEMMA LevelNearVolume ==
  ASSUME NEW depth \in Int
  PROVE  /\ depth_to_permille(depth) \in Int
         /\ 0 <= depth_to_permille(depth) /\ depth_to_permille(depth) <= 1000
         /\ 2 * (depth_to_permille(depth) * 95700 - VolumeLeft(depth)) <= 95700
         /\ 2 * (depth_to_permille(depth) * 95700 - VolumeLeft(depth)) >= -95700
<1>1. CASE depth <= 0 \/ depth >= 1410
  BY <1>1, LevelOutside, VolumeInside, SMT
<1>2. CASE 0 < depth /\ depth <= 220
  <2>1. depth_to_permille(depth) = (2 * (1000 * 220 - 165 * depth) + 220) \div 440
    BY <1>2, LevelInside, SMT
  <2>2. VolumeLeft(depth) = 95700000 - 71775 * depth
    BY <1>2, VolumeInside, SMT
  <2> QED BY <1>2, <2>1, <2>2, SMT
<1>3. CASE 220 < depth /\ depth <= 520
  <2>1. depth_to_permille(depth) = (2 * (835 * 300 - 219 * (depth - 220)) + 300) \div 600
    BY <1>3, LevelInside, SMT
  <2>2. VolumeLeft(depth) = 79909500 - 69861 * (depth - 220)
    BY <1>3, VolumeInside, SMT
  <2> QED BY <1>3, <2>1, <2>2, SMT
<1>4. CASE 520 < depth /\ depth <= 820
  <2>1. depth_to_permille(depth) = (2 * (616 * 300 - 213 * (depth - 520)) + 300) \div 600
    BY <1>4, LevelInside, SMT
  <2>2. VolumeLeft(depth) = 58951200 - 67947 * (depth - 520)
    BY <1>4, VolumeInside, SMT
  <2> QED BY <1>4, <2>1, <2>2, SMT
<1>5. CASE 820 < depth /\ depth <= 1120
  <2>1. depth_to_permille(depth) = (2 * (403 * 300 - 208 * (depth - 820)) + 300) \div 600
    BY <1>5, LevelInside, SMT
  <2>2. VolumeLeft(depth) = 38567100 - 66352 * (depth - 820)
    BY <1>5, VolumeInside, SMT
  <2> QED BY <1>5, <2>1, <2>2, SMT
<1>6. CASE 1120 < depth /\ depth < 1410
  <2>1. depth_to_permille(depth) = (2 * (195 * 290 - 195 * (depth - 1120)) + 290) \div 580
    BY <1>6, LevelInside, SMT
  <2>2. VolumeLeft(depth) = 18661500 - 64350 * (depth - 1120)
    BY <1>6, VolumeInside, SMT
  <2> QED BY <1>6, <2>1, <2>2, SMT
<1> QED
  BY <1>1, <1>2, <1>3, <1>4, <1>5, <1>6, SMT

\* calculate_permille gives every distance the nearest permille of the volume.
THEOREM LevelFollows ==
  ASSUME NEW distance \in Int
  PROVE  FollowsVolume(distance)
<1>1. distance - OFFSET_MM \in Int
  BY DEF OFFSET_MM
<1> QED
  BY <1>1, LevelNearVolume, SMT DEF FollowsVolume, calculate_permille, Common

\* The volume falls with the depth, inside the table by the slope of the
\* flattest segment at least and of the steepest at most.
LEMMA VolumeSlope ==
  ASSUME NEW depth \in Int, NEW move \in Nat
  PROVE  /\ VolumeLeft(depth) - VolumeLeft(depth + move) >= 0
         /\ VolumeLeft(depth) - VolumeLeft(depth + move) <= 71775 * move
         /\ depth >= 0 /\ depth + move <= 1410 =>
              VolumeLeft(depth) - VolumeLeft(depth + move) >= 64350 * move
<1> DEFINE gone(i, x) == CASE i = 1 -> Clip(x, 220)
                           [] i = 2 -> Clip(x - 220, 300)
                           [] i = 3 -> Clip(x - 520, 300)
                           [] i = 4 -> Clip(x - 820, 300)
                           [] i = 5 -> Clip(x - 1120, 290)
           fall(i) == gone(i, depth + move) - gone(i, depth)
<1>1. depth + move \in Int
  OBVIOUS
<1>2. /\ fall(1) \in Nat /\ fall(2) \in Nat /\ fall(3) \in Nat
      /\ fall(4) \in Nat /\ fall(5) \in Nat
  BY SMT DEF Clip
<1>3. /\ fall(1) + fall(2) + fall(3) + fall(4) + fall(5) <= move
      /\ depth >= 0 /\ depth + move <= 1410 =>
           fall(1) + fall(2) + fall(3) + fall(4) + fall(5) = move
  BY SMT DEF Clip
<1>4. VolumeLeft(depth) - VolumeLeft(depth + move)
        = 71775 * fall(1) + 69861 * fall(2) + 67947 * fall(3)
            + 66352 * fall(4) + 64350 * fall(5)
  BY <1>1, VolumeFormula, SMT DEF Clip
<1> HIDE DEF fall
<1> QED
  BY <1>2, <1>3, <1>4, SMT

\* How far the level falls on a move of the surface: by the volume of the move,
\* up to the two roundings.  A move of up to 5 mm changes it by less than 5
\* permille, one of 8 mm or more inside the table by 5 or more.
THEOREM LevelMoves ==
  ASSUME NEW depth \in Int, NEW move \in Nat
  PROVE  /\ move <= 5 => /\ depth_to_permille(depth) - depth_to_permille(depth + move) > -5
                         /\ depth_to_permille(depth) - depth_to_permille(depth + move) < 5
         /\ depth >= 0 /\ depth + move <= 1410 /\ move >= 8 =>
              depth_to_permille(depth) - depth_to_permille(depth + move) >= 5
         /\ depth >= 0 /\ depth + move <= 1410 =>
              95700 * (depth_to_permille(depth) - depth_to_permille(depth + move))
                >= 64350 * move - 95700
         /\ depth_to_permille(depth) \in Int /\ depth_to_permille(depth + move) \in Int
<1> DEFINE p == depth_to_permille(depth)
           q == depth_to_permille(depth + move)
           v == VolumeLeft(depth)
           w == VolumeLeft(depth + move)
<1>1. depth + move \in Int
  OBVIOUS
<1>2. v \in Int /\ w \in Int
  BY <1>1, VolumeFormula, SMT DEF Clip
<1>3. p \in Int /\ 2 * (p * 95700 - v) <= 95700 /\ 2 * (p * 95700 - v) >= -95700
  BY LevelNearVolume, SMT
<1>4. q \in Int /\ 2 * (q * 95700 - w) <= 95700 /\ 2 * (q * 95700 - w) >= -95700
  BY <1>1, LevelNearVolume, SMT
<1>5. /\ v - w >= 0 /\ v - w <= 71775 * move
      /\ depth >= 0 /\ depth + move <= 1410 => v - w >= 64350 * move
  BY VolumeSlope, SMT
<1> HIDE DEF p, q, v, w
<1>6. /\ 95700 * (p - q) <= 71775 * move + 95700
      /\ 95700 * (p - q) >= -95700
      /\ depth >= 0 /\ depth + move <= 1410 => 95700 * (p - q) >= 64350 * move - 95700
  BY <1>2, <1>3, <1>4, <1>5, SMT
<1>7. /\ move <= 5 => p - q > -5 /\ p - q < 5
      /\ move >= 8 /\ depth >= 0 /\ depth + move <= 1410 => p - q >= 5
  BY <1>3, <1>4, <1>6, SMT
<1> QED
  BY <1>3, <1>4, <1>6, <1>7, SMT DEF p, q

\* The level never rises with the distance and never leaves 0..1000, in which
\* the protocol's uint16_t holds it: the scan, the clamps and the rounding meet
\* without a step back at the ends of the segments.
THEOREM LevelFalls ==
  ASSUME NEW distance \in Int, NEW further \in Int, distance <= further
  PROVE  /\ calculate_permille(further) <= calculate_permille(distance)
         /\ calculate_permille(distance) \in Int
         /\ 0 <= calculate_permille(distance) /\ calculate_permille(distance) <= 1000
<1> DEFINE depth == distance - OFFSET_MM
           move  == further - distance
<1>1. /\ depth \in Int /\ move \in Nat
      /\ further - OFFSET_MM = depth + move /\ depth + move \in Int
  BY DEF OFFSET_MM
<1>2. /\ calculate_permille(distance) = depth_to_permille(depth)
      /\ calculate_permille(further) = depth_to_permille(depth + move)
  BY <1>1 DEF calculate_permille
<1> HIDE DEF depth, move
<1> DEFINE p == depth_to_permille(depth)
           q == depth_to_permille(depth + move)
<1>3. /\ p \in Int /\ 0 <= p /\ p <= 1000
      /\ q \in Int /\ 0 <= q /\ q <= 1000
  BY <1>1, LevelNearVolume, SMT
<1>4. q <= p
  <2>1. CASE move = 0
    BY <1>1, <1>3, <2>1
  <2>2. CASE depth + move <= 0 \/ depth >= 1410
    BY <1>1, <2>2, LevelOutside, SMT
  <2>3. CASE depth <= 0
    <3>1. p = 1000
      BY <1>1, <2>3, LevelOutside
    <3> QED BY <1>3, <3>1, SMT
  <2>4. CASE depth + move >= 1410
    <3>1. q = 0
      BY <1>1, <2>4, LevelOutside
    <3> QED BY <1>3, <3>1, SMT
  <2>5. CASE move > 0 /\ depth >= 0 /\ depth + move <= 1410
    <3>1. 95700 * (p - q) >= 64350 * move - 95700
      BY <1>1, <2>5, LevelMoves, SMT
    <3> HIDE DEF p, q
    <3> QED BY <1>1, <1>3, <2>5, <3>1, SMT
  <2> HIDE DEF p, q
  <2> QED BY <1>1, <2>1, <2>2, <2>3, <2>4, <2>5, SMT
<1> QED
  BY <1>2, <1>3, <1>4
=============================================================================
