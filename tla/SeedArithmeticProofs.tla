------------------------ MODULE SeedArithmeticProofs ------------------------
(***************************************************************************)
(* Proofs about SeedArithmetic, for every width of int, the program's      *)
(* among them: the repetitions use the streams of the reference program,   *)
(* from the first or the fourth on, and two of them share a stream only at *)
(* its replaced seed.                                                      *)
(***************************************************************************)
EXTENDS SeedArithmetic, SequenceTheorems, TLAPS

(* What has been launched are the streams that Stream says. *)
LaunchInv ==
    /\ nranks \in Nat /\ numReps \in Nat
    /\ offset \in {-HalfMod, 0}
    /\ launched \in Seq(Int)
    /\ \A k \in LaunchedReps : launched[k + 1] = Stream(k)

-----------------------------------------------------------------------------

(* The remainder is what is left of a multiple. *)
LEMMA RemainderIs ==
    ASSUME NEW a \in Int, NEW m \in Nat, m > 0, NEW q \in Int, NEW r \in 0 .. m - 1,
           a = m * q + r
    PROVE  a % m = r
    OBVIOUS

(* Equal remainders are those of numbers a multiple apart. *)
LEMMA SameRemainder ==
    ASSUME NEW a \in Int, NEW b \in Int, NEW m \in Nat, m > 0, a % m = b % m
    PROVE  \E q \in Int : a - b = m * q
<1>1. a = m * (a \div m) + (a % m) /\ b = m * (b \div m) + (b % m)
    OBVIOUS
<1>2. a \div m \in Int /\ b \div m \in Int /\ a % m \in Int
    OBVIOUS
<1>3. a - b = m * ((a \div m) - (b \div m))
    BY <1>1, <1>2
<1> QED
    BY <1>2, <1>3

(* Two numbers less than m apart have different remainders. *)
LEMMA Apart ==
    ASSUME NEW a \in Int, NEW b \in Int, NEW m \in Nat, a < b, b - a < m
    PROVE  a % m # b % m
<1> SUFFICES ASSUME b % m = a % m PROVE FALSE
    OBVIOUS
<1>1. PICK q \in Int : b - a = m * q
    BY SameRemainder
<1>2. q <= 0 => m * q <= 0
    OBVIOUS
<1>3. q >= 1 => m * q >= m
    OBVIOUS
<1> QED
    BY <1>1, <1>2, <1>3

-----------------------------------------------------------------------------

(* What is an int as it stands is left alone by the conversion. *)
LEMMA IntKept ==
    ASSUME NEW x \in Int, -HalfMod <= x, x < HalfMod
    PROVE  ToInt(ToSize(x)) = x
<1>1. HalfMod \in Nat /\ HalfMod >= 2
    BY WidthAssumption
<1>2. IntMod \in Nat /\ IntMod > 0 /\ IntMod = 2 * HalfMod
    BY <1>1 DEF IntMod
<1>3. SizeMod \in Nat /\ SizeMod >= IntMod /\ SizeMod = IntMod * IntMod
    BY <1>2 DEF SizeMod
<1>4. CASE x >= 0
  <2>1. ToSize(x) = x
      BY <1>1, <1>2, <1>3, <1>4 DEF ToSize
  <2>2. (x + HalfMod) % IntMod = x + HalfMod
      BY <1>1, <1>2, <1>4
  <2> QED
      BY <1>1, <2>1, <2>2 DEF ToInt
<1>5. CASE x < 0
  <2>1. ToSize(x) = x + SizeMod
    <3>1. /\ x = SizeMod * (-1) + (x + SizeMod) /\ x + SizeMod \in 0 .. SizeMod - 1
          /\ -1 \in Int /\ SizeMod > 0 /\ SizeMod \in Nat
        BY <1>1, <1>2, <1>3, <1>5
    <3>2. x % SizeMod = x + SizeMod
        BY <3>1, RemainderIs, Zenon
    <3> QED
        BY <3>2 DEF ToSize
  <2>2. (x + SizeMod + HalfMod) % IntMod = x + HalfMod
    <3>1. /\ x + SizeMod + HalfMod = IntMod * IntMod + (x + HalfMod)
          /\ x + HalfMod \in 0 .. IntMod - 1 /\ x + SizeMod + HalfMod \in Int
          /\ IntMod \in Int
        BY <1>1, <1>2, <1>3, <1>5
    <3> QED
        BY <1>2, <3>1, RemainderIs, Zenon
  <2> QED
      BY <1>1, <1>3, <2>1, <2>2 DEF ToInt
<1> QED
    BY <1>4, <1>5

(* The state of the generator, up to multiples of its modulus: the smallest int
   becomes 3 above a multiple once it is a size_t. *)
LEMMA StreamIs ==
    ASSUME NEW k \in Nat, k < HalfMod, offset \in {-HalfMod, 0}
    PROVE  /\ offset = 0 => Stream(k) = SeedState(k)
           /\ offset # 0 => Stream(k) = SeedState(k + 3)
<1>1. HalfMod \in Nat /\ HalfMod >= 2 /\ Modulus = HalfMod - 1 /\ Modulus \in Nat
    BY WidthAssumption DEF Modulus
<1>2. SizeMod = 4 * (HalfMod * HalfMod) /\ SizeMod \in Nat /\ SizeMod >= HalfMod
    BY <1>1 DEF SizeMod, IntMod
<1>3. k + offset \in Int /\ -HalfMod <= k + offset /\ k + offset < HalfMod
    BY <1>1
<1>4. Stream(k) = SeedState(ToSize(k + offset))
    BY <1>3, IntKept DEF Stream
<1>5. CASE offset = 0
  <2>1. ToSize(k + 0) = k
      BY <1>1, <1>2 DEF ToSize
  <2> QED
      BY <1>1, <1>4, <1>5, <2>1
<1>6. CASE offset = -HalfMod
  <2>1. ToSize(k + offset) = k - HalfMod + SizeMod
    <3>1. /\ k + offset = SizeMod * (-1) + (k - HalfMod + SizeMod)
          /\ k - HalfMod + SizeMod \in 0 .. SizeMod - 1
        BY <1>1, <1>2, <1>6
    <3>2. -1 \in Int /\ SizeMod > 0
        BY <1>1, <1>2
    <3>3. (k + offset) % SizeMod = k - HalfMod + SizeMod
        BY <1>2, <1>3, <3>1, <3>2, RemainderIs, Zenon
    <3> QED
        BY <3>3 DEF ToSize
  <2>2. k - HalfMod + SizeMod = Modulus * (4 * HalfMod + 3) + (k + 3)
      BY <1>1, <1>2
  <2>3. (k - HalfMod + SizeMod) % Modulus = (k + 3) % Modulus
    <3> DEFINE d == (k + 3) \div Modulus
               r == (k + 3) % Modulus
    <3>1. k + 3 = Modulus * d + r /\ r \in 0 .. Modulus - 1 /\ d \in Int
        BY <1>1
    <3> HIDE DEF d, r
    <3>2. Modulus * (4 * HalfMod + 3 + d) = Modulus * (4 * HalfMod + 3) + Modulus * d
        BY <1>1, <3>1
    <3>3. k - HalfMod + SizeMod = Modulus * (4 * HalfMod + 3 + d) + r
        BY <1>1, <2>2, <3>1, <3>2
    <3>4. /\ Modulus > 0 /\ 4 * HalfMod + 3 + d \in Int
          /\ k - HalfMod + SizeMod \in Int
        BY <1>1, <1>2, <3>1
    <3>5. (k - HalfMod + SizeMod) % Modulus = r
        BY <1>1, <3>1, <3>3, <3>4, RemainderIs, Zenon
    <3> QED
        BY <3>5 DEF r
  <2> QED
      BY <1>1, <1>4, <1>6, <2>1, <2>3 DEF SeedState
<1> QED
    BY <1>1, <1>5, <1>6

(* A stream is a number, whatever the repetition. *)
LEMMA SeedInt ==
    ASSUME NEW k \in Int, offset \in {-HalfMod, 0}
    PROVE  Stream(k) \in Int
<1>1. Modulus \in Nat /\ Modulus > 0 /\ HalfMod \in Nat
    BY WidthAssumption DEF Modulus
<1>2. IntMod \in Nat /\ IntMod > 0
    BY WidthAssumption DEF IntMod
<1>3. SizeMod \in Nat /\ SizeMod > 0
    BY <1>2 DEF SizeMod
<1>4. \A x \in Int : ToSize(x) \in Int /\ ToInt(x) \in Int
    BY <1>1, <1>2, <1>3 DEF ToSize, ToInt
<1>5. \A x \in Int : SeedState(x) \in Int
    BY <1>1 DEF SeedState
<1>6. k + offset \in Int
    BY <1>1
<1> QED
    BY <1>4, <1>5, <1>6 DEF Stream

(* Two numbers, less than the modulus apart, that seed the same stream: one is a
   multiple of the modulus and the other 1 above one. *)
LEMMA SameState ==
    ASSUME NEW a \in Nat, NEW b \in Nat, a < b, b - a < Modulus,
           SeedState(a) = SeedState(b)
    PROVE  /\ SeedState(b) = 1
           /\ \/ b = a + 1 /\ a % Modulus = 0
              \/ b = a + Modulus - 1 /\ a % Modulus = 1
<1>1. Modulus \in Nat /\ Modulus > 1
    BY WidthAssumption DEF Modulus
<1>2. a % Modulus # b % Modulus
  <2>1. a \in Int /\ b \in Int
      OBVIOUS
  <2> QED
      BY <1>1, <2>1, Apart, Zenon
<1>3. SeedState(b) = 1
    BY <1>1, <1>2 DEF SeedState
<1>4. \/ a % Modulus = 0 /\ b % Modulus = 1
      \/ a % Modulus = 1 /\ b % Modulus = 0
    BY <1>1, <1>2, <1>3 DEF SeedState
<1> DEFINE p == a \div Modulus
           q == b \div Modulus
<1>5. /\ p \in Int /\ q \in Int
      /\ a = Modulus * p + (a % Modulus) /\ b = Modulus * q + (b % Modulus)
    BY <1>1
<1> HIDE DEF p, q
<1> DEFINE d == q - p
<1>8. d \in Int /\ Modulus * d = Modulus * q - Modulus * p
    BY <1>1, <1>5
<1> HIDE DEF d
<1>6. ASSUME a % Modulus = 0, b % Modulus = 1 PROVE b = a + 1
  <2>1. b - a - 1 = Modulus * d
      BY <1>1, <1>5, <1>6, <1>8
  <2>2. 0 <= b - a - 1 /\ b - a - 1 < Modulus
      BY <1>1
  <2>3. d >= 1 => Modulus * d >= Modulus
      BY <1>1, <1>8
  <2>4. d <= -1 => Modulus * d <= -Modulus
      BY <1>1, <1>8
  <2>5. d = 0
      BY <1>1, <1>8, <2>1, <2>2, <2>3, <2>4
  <2> QED
      BY <1>1, <2>1, <2>5
<1>7. ASSUME a % Modulus = 1, b % Modulus = 0 PROVE b = a + Modulus - 1
  <2>1. b - a + 1 = Modulus * d
      BY <1>1, <1>5, <1>7, <1>8
  <2>2. 1 < b - a + 1 /\ b - a + 1 <= Modulus
      BY <1>1
  <2>3. d >= 2 => Modulus * d >= 2 * Modulus
      BY <1>1, <1>8
  <2>4. d <= 0 => Modulus * d <= 0
      BY <1>1, <1>8
  <2>5. d = 1
      BY <1>1, <1>8, <2>1, <2>2, <2>3, <2>4
  <2> QED
      BY <1>1, <2>1, <2>5
<1> QED
    BY <1>3, <1>4, <1>6, <1>7

(* The streams launched are those of Stream, in order. *)
LEMMA LaunchedStreams == Spec => []LaunchInv
<1>1. Init => LaunchInv
  <2> SUFFICES ASSUME Init PROVE LaunchInv
      OBVIOUS
  <2>1. Len(launched) = 0 /\ launched \in Seq(Int)
      BY EmptySeq DEF Init
  <2>2. /\ nranks \in Nat /\ numReps \in Nat /\ offset \in {-HalfMod, 0}
      BY BoundsAssumption, WidthAssumption DEF Init, LocalSeedOffsets
  <2> QED
      BY <2>1, <2>2 DEF LaunchInv, LaunchedReps
<1>2. LaunchInv /\ [Next]_vars => LaunchInv'
  <2> SUFFICES ASSUME LaunchInv, [Next]_vars PROVE LaunchInv'
      OBVIOUS
  <2>1. CASE Launch
    <3>1. launched \in Seq(Int) /\ Len(launched) \in Nat
        BY LenProperties DEF LaunchInv
    <3>2. Stream(Len(launched)) \in Int
        BY <3>1, SeedInt DEF LaunchInv
    <3>3. /\ launched' \in Seq(Int) /\ Len(launched') = Len(launched) + 1
          /\ launched'[Len(launched) + 1] = Stream(Len(launched))
          /\ \A i \in 1 .. Len(launched) : launched'[i] = launched[i]
        BY <2>1, <3>1, <3>2, AppendProperties DEF Launch
    <3>4. ASSUME NEW k \in LaunchedReps' PROVE launched'[k + 1] = Stream(k)
      <4>1. (k \in LaunchedReps /\ k + 1 \in 1 .. Len(launched)) \/ k = Len(launched)
          BY <3>1, <3>3 DEF LaunchedReps
      <4> QED
          BY <3>3, <4>1 DEF LaunchInv
    <3>5. \A k : Stream(k)' = Stream(k)
        BY <2>1 DEF Launch, Stream
    <3> QED
        BY <2>1, <3>3, <3>4, <3>5 DEF Launch, LaunchInv
  <2>2. CASE UNCHANGED vars
      BY <2>2 DEF vars, LaunchInv, LaunchedReps, Stream
  <2> QED
      BY <2>1, <2>2 DEF Next, Done
<1> QED
    BY <1>1, <1>2, PTL DEF Spec

(* Every repetition that an int can count has the stream of one repetition of
   single_thread.cpp: of the same one, or of the third after it when _nranks is 0
   (as hpx_main leaves it, line 739) and the build makes the smallest int of a
   NaN. *)
THEOREM ReferenceStreams == Spec => []SameAsReference
<1>1. LaunchInv => SameAsReference
  <2> SUFFICES ASSUME LaunchInv, NEW k \in LaunchedReps, k < HalfMod
               PROVE  launched[k + 1] = ReferenceStream(k + Shift)
      BY DEF SameAsReference
  <2>1. k \in Nat /\ launched[k + 1] = Stream(k) /\ offset \in {-HalfMod, 0}
    <3>1. LaunchedReps \subseteq Nat
        BY LenProperties DEF LaunchInv, LaunchedReps
    <3> QED
        BY <3>1 DEF LaunchInv
  <2>2. Stream(k) = SeedState(k + Shift)
    <3>1. k + 0 = k
        BY <2>1
    <3> QED
        BY <2>1, <3>1, StreamIs DEF Shift
  <2>3. ToSize(k + Shift) = k + Shift
    <3>1. HalfMod \in Nat /\ HalfMod >= 2
        BY WidthAssumption
    <3>2. SizeMod = 4 * (HalfMod * HalfMod) /\ HalfMod * HalfMod >= 2 * HalfMod
        BY <3>1 DEF SizeMod, IntMod
    <3>3. SizeMod \in Nat /\ SizeMod > HalfMod + 3
        BY <3>1, <3>2
    <3> QED
        BY <2>1, <3>1, <3>3 DEF ToSize, Shift
  <2> QED
      BY <2>1, <2>2, <2>3 DEF ReferenceStream
<1> QED
    BY <1>1, LaunchedStreams, PTL

(* Among the first Modulus repetitions at most two neighbours share a stream, for
   want of a state 0; with offset 0 they are the first two. *)
THEOREM StreamsDiffer == Spec => []OnlyNeighboursCollide
<1>1. LaunchInv => OnlyNeighboursCollide
  <2> SUFFICES ASSUME LaunchInv, NEW j \in LaunchedReps, NEW k \in LaunchedReps,
                      j < k, k < Modulus, launched[j + 1] = launched[k + 1]
               PROVE  /\ k = j + 1 /\ launched[k + 1] = 1
                      /\ offset = 0 => j = 0
      BY DEF OnlyNeighboursCollide
  <2>0. j \in Nat /\ k \in Nat
      BY LenProperties DEF LaunchInv, LaunchedReps
  <2>1. /\ j \in Nat /\ k \in Nat /\ Stream(j) = Stream(k) /\ launched[k + 1] = Stream(k)
        /\ offset \in {-HalfMod, 0}
      BY <2>0 DEF LaunchInv
  <2>2. Modulus \in Nat /\ Modulus > 1 /\ Modulus = HalfMod - 1 /\ HalfMod \in Nat
      BY <2>1, WidthAssumption DEF Modulus
  <2>3. CASE offset = 0
    <3>1. Stream(j) = SeedState(j) /\ Stream(k) = SeedState(k)
        BY <2>1, <2>2, <2>3, StreamIs
    <3>2. /\ Stream(k) = 1
          /\ \/ k = j + 1 /\ j % Modulus = 0
             \/ k = j + Modulus - 1 /\ j % Modulus = 1
      <4>1. k - j < Modulus
          BY <2>0, <2>2
      <4>2. SeedState(j) = SeedState(k)
          BY <2>1, <3>1
      <4> QED
          BY <2>0, <3>1, <4>1, <4>2, SameState, Zenon
    <3>3. j % Modulus = j
        BY <2>1, <2>2
    <3> QED
        BY <2>1, <2>2, <3>2, <3>3
  <2>4. CASE offset # 0
    <3>1. Stream(j) = SeedState(j + 3) /\ Stream(k) = SeedState(k + 3)
        BY <2>1, <2>2, <2>4, StreamIs
    <3>2. /\ Stream(k) = 1
          /\ \/ k + 3 = j + 3 + 1 /\ (j + 3) % Modulus = 0
             \/ k + 3 = j + 3 + Modulus - 1 /\ (j + 3) % Modulus = 1
      <4>1. /\ j + 3 \in Nat /\ k + 3 \in Nat /\ j + 3 < k + 3
            /\ (k + 3) - (j + 3) < Modulus
          BY <2>0, <2>2
      <4>2. SeedState(j + 3) = SeedState(k + 3)
          BY <2>1, <3>1
      <4> QED
          BY <3>1, <4>1, <4>2, SameState, Zenon
    <3>3. ASSUME k + 3 = j + 3 + Modulus - 1, (j + 3) % Modulus = 1 PROVE k = j + 1
      <4>1. j = 0 /\ k = Modulus - 1
          BY <2>1, <2>2, <3>3
      <4>2. 3 % Modulus = 1
          BY <3>3, <4>1
      <4>3. Modulus > 3 => 3 % Modulus = 3
          BY <2>2
      <4>4. Modulus = 2
          BY <2>2, <4>2, <4>3
      <4> QED
          BY <4>1, <4>4
    <3> QED
        BY <2>1, <2>2, <2>4, <3>2, <3>3
  <2> QED
      BY <2>3, <2>4
<1> QED
    BY <1>1, LaunchedStreams, PTL

=============================================================================
