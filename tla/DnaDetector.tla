---------------------------- MODULE DnaDetector ----------------------------
(***************************************************************************)
(* dna_detector_ccf: skips the zeros of its input, collects a burst of a   *)
(* preamble's length and a few samples more, and gives it to the emitter   *)
(* that it is most like. A step is one turn of the loop in general_work(): *)
(* it needs an input sample, whether it takes it or not. All of the input  *)
(* is consumed with the call, so where the scheduler cuts it makes no      *)
(* difference. The arithmetic on floats is a choice of what comes of it:   *)
(* whether a fingerprint holds a NaN, and how far it is from each emitter. *)
(***************************************************************************)
EXTENDS Integers, Sequences, DnaPhases

CONSTANTS
  Devices,  \* d_devices, as the constructor got it
  Spare,    \* the samples a burst has beyond a preamble (10)
  Regions,  \* d_dna_region_num
  Far       \* a distance that is not less than the greatest float

ASSUME DetectorAssumption ==
  Devices \in Nat /\ Spare \in Nat \ {0} /\ Regions \in Nat \ {0} /\ Far \in Nat

VARIABLES
  limit,         \* get_preamble_len_samples() of the detector's own packet
  burstState,    \* d_state: "SEARCHING", "DETECTED" or "FINGERPRINT"
  burst,         \* d_current_detected_preamble
  bins,          \* d_emitter_bin_counter
  stray,         \* increments of the counter in front of the first
  fingerprints,  \* d_fingerprints_counter
  nans,          \* d_nan_counter
  burstCount     \* d_burst_count

tallies == <<bins, stray, fingerprints, nans, burstCount>>
detectorVars == <<limit, burstState, burst, tallies>>

DetectorInit(preambleLen) ==
  /\ limit = preambleLen
  /\ burstState = "SEARCHING" /\ burst = << >>
  /\ bins = [d \in 1 .. Devices |-> 0] /\ stray = 0
  /\ fingerprints = 0 /\ nans = 0 /\ burstCount = 0

BurstSearch      == burstState' = "SEARCHING" /\ burst' = << >>
BurstDetect      == burstState' = "DETECTED"
BurstFingerprint ==
  /\ burstState' = "FINGERPRINT"
  /\ burst' = SubSeq(burst, 1, IF Len(burst) > limit THEN limit ELSE Len(burst))

\* SEARCHING: a zero is passed over, anything else is left for DETECTED.
PassOver ==
  /\ burstState = "SEARCHING"
  /\ UNCHANGED detectorVars

Detect ==
  /\ burstState = "SEARCHING"
  /\ BurstDetect
  /\ UNCHANGED <<limit, burst, tallies>>

\* Mutant: one sample more.
EnoughLate == Len(burst) > limit + Spare

\* DETECTED: every sample is collected, zeros too, until there are enough.
Enough == Len(burst) >= limit + Spare

Collect(sample) ==
  /\ burstState = "DETECTED" /\ ~Enough
  /\ burst' = Append(burst, sample)
  /\ UNCHANGED <<limit, burstState, tallies>>

FillBurst ==
  /\ burstState = "DETECTED" /\ Enough
  /\ BurstFingerprint
  /\ UNCHANGED <<limit, tallies>>

\* calculate_fingerprints(): the samples of the burst that make_subregion() gets for the
\* region c, counted from 0.
Subregion(c) == c * (limit \div Regions) + 1 .. (c + 1) * (limit \div Regions)

\* make_subregion(): variance, skewness and kurtosis are floats that may be NaN; of what
\* they are computed is in DnaPhases.
NanFound == BOOLEAN

\* fingerprint_emitter(): the distances from the emitters.
Results == [1 .. Devices -> 0 .. Far]

\* most_likely: the first of the nearest emitters; 0 if the fingerprint holds a NaN, or if
\* no distance is less than the greatest float.
MostLikely(nan, results) ==
  IF nan \/ \A d \in 1 .. Devices : results[d] = Far THEN 0
  ELSE CHOOSE d \in 1 .. Devices :
         \A e \in 1 .. Devices : results[d] <= results[e] /\ (e < d => results[d] < results[e])

\* Mutant: only the fingerprint without a NaN is given to an emitter.
BinOfValid(d, nan) ==
  IF nan THEN UNCHANGED <<bins, stray>>
  ELSE IF d = 0 THEN stray' = stray + 1 /\ UNCHANGED bins
       ELSE bins' = [bins EXCEPT ![d] = @ + 1] /\ UNCHANGED stray

\* The counter of the emitter; that in front of the first for most_likely = 0.
IncrementBin(d, nan) ==
  IF d = 0 THEN stray' = stray + 1 /\ UNCHANGED bins
           ELSE bins' = [bins EXCEPT ![d] = @ + 1] /\ UNCHANGED stray

\* FINGERPRINT.
Fingerprint(nan, results) ==
  /\ burstState = "FINGERPRINT"
  /\ nans' = nans + (IF nan THEN 1 ELSE 0)
  /\ fingerprints' = fingerprints + (IF nan THEN 0 ELSE 1)
  /\ IncrementBin(MostLikely(nan, results), nan)
  /\ burstCount' = burstCount + 1
  /\ BurstSearch
  /\ UNCHANGED limit
=============================================================================
