--------------------------- MODULE SignalProcessor ---------------------------
(***************************************************************************)
(* process() of include/radar/signal_processor.hpp on one signal: the      *)
(* noise filter, the in-place FFT of src/fft.cpp and the detector, one     *)
(* step per loop iteration of the first two.                               *)
(*                                                                         *)
(* Arithmetic is exact.  Filtered samples, and what is computed from them, *)
(* are in sixths, which averages of two and of three integers are whole    *)
(* numbers of.  With z = exp(-2 pi i / N), every number the FFT computes   *)
(* from integers is a sum of c[m] * z^m for m in 0..N/2-1 and integers     *)
(* c[m], in one way only, since z^(N/2) = -1: a complex number is the      *)
(* function c.  The twiddle factor w is always a power of z and is kept as *)
(* its exponent.  A magnitude is irrational in general: it is any member   *)
(* of Magnitudes, but zero for zero only and equal for equals.             *)
(***************************************************************************)
EXTENDS Integers, FiniteSets, FiniteSetsExt, Functions

CONSTANTS N,          \* kRadarSampleCount
          Signals,    \* the sample buffers to process
          Magnitudes  \* the magnitudes of complex numbers other than zero

Half == N \div 2
Index == 0..(N - 1)
Bins == 0..(Half - 1)
\* The numbers that no odd number but 1 divides.
PowersOfTwo == {b \in 1..N : \A d \in 2..b : b % d = 0 => d % 2 = 0}

ASSUME ProcessorAssumption ==
    /\ N \in PowersOfTwo \ {1}
    /\ Signals \subseteq [Index -> Int]
    /\ Magnitudes \subseteq Nat \ {0}

VARIABLES stage,        \* the loop process() is in
          samples,      \* the signal
          filtered,     \* what the filter has computed so far, in sixths
          data,         \* data of FFT::apply()
          i, j,         \* the loop variables of the filter and of the permutation
          len, base, k, \* the loop variables of the butterflies
          w,            \* the exponent of w
          spectrum, detection

vars == <<stage, samples, filtered, data, i, j, len, base, k, w, spectrum, detection>>

\* Complex arithmetic.
Real(x) == [m \in Bins |-> IF m = 0 THEN x ELSE 0]
Add(a, b) == [m \in Bins |-> a[m] + b[m]]
Subtract(a, b) == [m \in Bins |-> a[m] - b[m]]
\* a times z^e
Rotate(a, e) == [m \in Bins |-> LET r == (m - e) % N IN IF r < Half THEN a[r] ELSE -a[r - Half]]

Init == /\ stage = "filter" /\ samples \in Signals
        /\ filtered = [a \in Index |-> 0] /\ data = [a \in Index |-> Real(0)]
        /\ i = 0 /\ j = 0 /\ len = 2 /\ base = 0 /\ k = 0 /\ w = 0
        /\ spectrum = [b \in Bins |-> 0]
        /\ detection = [targetDetected |-> FALSE, peakMagnitude |-> 0]

-----------------------------------------------------------------------------
\* The samples averaged into filtered[a]: a and the neighbours it has.
Taps(a) == {b \in {a - 1, a, a + 1} : b > -1 /\ b < N}

\* MUTANT of Count: the first and the last sample are divided by three as well.
CountAlwaysThree(a) == 3
Count(a) == Cardinality(Taps(a))

\* sum / count, in sixths.
Average(sum, count) == (6 \div count) * sum

\* One sample of NoiseFilter::apply(); after the last, FFT::apply() copies them.
Filter ==
    /\ stage = "filter"
    /\ LET result == [filtered EXCEPT ![i] = Average(SumFunctionOnSet(samples, Taps(i)), Count(i))]
       IN  /\ filtered' = result
           /\ IF i + 1 < N
              THEN i' = i + 1 /\ UNCHANGED <<stage, data>>
              ELSE stage' = "reverse" /\ i' = 1 /\ data' = [a \in Index |-> Real(result[a])]
    /\ UNCHANGED <<samples, j, len, base, k, w, spectrum, detection>>

\* The binary digit of a that counts b, a power of two.
Bit(a, b) == (a \div b) % 2
\* The highest bit of j that is clear: where the carry of the inner loop stops.
CarryBit == Max({b \in PowersOfTwo \ {N} : Bit(j, b) = 0})
\* j after the inner loop: the bits above are cleared and this one is set.
NextJ == (j % CarryBit) + CarryBit

\* MUTANT of Swaps: every pair is swapped, and later swapped back.
SwapsTwice(a, b) == TRUE
Swaps(a, b) == a < b

\* One iteration of the bit-reversal permutation.
Reverse ==
    /\ stage = "reverse"
    /\ j' = NextJ
    /\ data' = IF Swaps(i, NextJ)
               THEN [data EXCEPT ![i] = data[NextJ], ![NextJ] = data[i]] ELSE data
    /\ i' = i + 1
    /\ stage' = IF i + 1 < N THEN stage ELSE "butterfly"
    /\ UNCHANGED <<samples, filtered, len, base, k, w, spectrum, detection>>

\* MUTANT of WLen: the exponent is inverted.
WLenInverted == len
\* MUTANT of WLen: the angle is that of the whole transform at every length.
WLenOfN == 1
\* The exponent of wLen: exp(-2 pi i / len) is z^(N / len).
WLen == N \div len

\* One butterfly, and the loop variables of the next one.
Butterfly ==
    /\ stage = "butterfly"
    /\ LET even == data[base + k]
           odd == Rotate(data[base + k + len \div 2], w)
       IN  data' = [data EXCEPT ![base + k] = Add(even, odd),
                                ![base + k + len \div 2] = Subtract(even, odd)]
    /\ \/ /\ k + 1 < len \div 2
          /\ k' = k + 1 /\ w' = (w + WLen) % N
          /\ UNCHANGED <<stage, base, len>>
       \/ /\ k + 1 = len \div 2
          /\ k' = 0 /\ w' = 0
          /\ IF base + len < N THEN base' = base + len /\ UNCHANGED <<stage, len>>
             ELSE /\ base' = 0 /\ len' = 2 * len
                  /\ stage' = IF 2 * len <= N THEN stage ELSE "magnitude"
    /\ UNCHANGED <<samples, filtered, i, j, spectrum, detection>>

\* std::abs() over the lower half of the spectrum, and the division by n.
Magnitude ==
    /\ stage = "magnitude" /\ stage' = "detect"
    /\ spectrum' \in [Bins -> Magnitudes \cup {0}]
    /\ \A b \in Bins : spectrum'[b] = 0 <=> data[b] = Real(0)
    /\ \A b, c \in Bins : data[b] = data[c] => spectrum'[b] = spectrum'[c]
    /\ UNCHANGED <<samples, filtered, data, i, j, len, base, k, w, detection>>

\* MUTANT of Detected: >= for >.
DetectedAtThreshold(peak, sum) == peak * Half >= 4 * sum
\* peak > kDetectionFactor * mean
Detected(peak, sum) == peak * Half > 4 * sum

\* TargetDetection::apply()
Detect ==
    /\ stage = "detect" /\ stage' = "done"
    /\ LET peak == Max({spectrum[b] : b \in Bins} \cup {0})
       IN  detection' = [targetDetected |-> Detected(peak, SumFunction(spectrum)),
                         peakMagnitude |-> peak]
    /\ UNCHANGED <<samples, filtered, data, i, j, len, base, k, w, spectrum>>

Next == Filter \/ Reverse \/ Butterfly \/ Magnitude \/ Detect

Spec == Init /\ [][Next]_vars
-----------------------------------------------------------------------------
\* Every variable keeps its type, and no loop leaves the buffers.
TypeOK ==
    /\ stage \in {"filter", "reverse", "butterfly", "magnitude", "detect", "done"}
    /\ samples \in [Index -> Int] /\ filtered \in [Index -> Int]
    /\ data \in [Index -> [Bins -> Int]]
    /\ i \in 0..N /\ j \in Index /\ w \in Bins
    /\ len \in PowersOfTwo \cup {2 * N} /\ base \in Index /\ k \in Bins
    /\ spectrum \in [Bins -> Nat]
    /\ detection \in [targetDetected : BOOLEAN, peakMagnitude : Nat]

\* The number whose binary digits are those of a in reverse order.
Reversal(a) == CHOOSE r \in Index : \A b \in PowersOfTwo \ {N} : Bit(r, Half \div b) = Bit(a, b)

\* Value b of the discrete Fourier transform of x by its definition, the sum of
\* x[a] * z^(a*b): coefficient m collects the terms with z^m and, negated, z^(m+N/2).
Dft(x, b) ==
    [m \in Bins |-> SumFunctionOnSet(x, {a \in Index : (a * b) % N = m})
                    - SumFunctionOnSet(x, {a \in Index : (a * b) % N = m + Half})]

\* A filtered sample lies between the least and the greatest of the samples it
\* averages, at the two ends of the buffer too, where NoiseFilter has two taps:
\* a signal that is constant passes unchanged.  Filtered samples are in sixths.
FilterWithinTaps ==
    stage = "reverse" =>
        \A a \in Index : LET taps == {samples[b] : b \in Taps(a)}
                         IN  6 * Min(taps) <= filtered[a] /\ filtered[a] <= 6 * Max(taps)

\* The incremental carry of the permutation loop counts in bit-reversed order,
\* and each sample is moved to its place once: after i iterations exactly the
\* pairs with a member below i have changed places.
PermutationReversesBits ==
    stage = "reverse" =>
        /\ j = Reversal(i - 1)
        /\ \A a \in Index :
              LET moved == a < i \/ Reversal(a) < i
              IN  data[a] = Real(filtered[IF moved THEN Reversal(a) ELSE a])

\* The in-place butterflies of FFT::apply() compute the discrete Fourier
\* transform of the filtered samples.
FftIsDft == stage = "magnitude" => \A b \in Index : data[b] = Dft(filtered, b)

\* End to end: silence is never a target, and a signal whose power is all in one
\* bin of the lower half always is, the constant signal (bin 0) included.
ToneDetectedSilenceNot ==
    stage = "done" =>
        LET active == {b \in Bins : Dft(filtered, b) # Real(0)}
        IN  /\ active = {} => ~detection.targetDetected
            /\ Cardinality(active) = 1 /\ Half > 4 => detection.targetDetected
=============================================================================
