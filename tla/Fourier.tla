------------------------------ MODULE Fourier ------------------------------
(***************************************************************************)
(* The Fourier transform of fft.c, the power spectrum and autocorrelation  *)
(* of statistics.c, and the tests of hwrng.c that use them.  Samples pass  *)
(* through: fill, transform, post-process, accumulate; the spectrum then   *)
(* goes back: load, inverse transform, post-process, judge.  One step is   *)
(* one of these, or one round of butterflies.                              *)
(***************************************************************************)
EXTENDS FixedPoint, Sequences, FiniteSetsExt

CONSTANTS FFT_SIZE,                \* 2 to an even power
          twiddle_factor_lookup,   \* sin(k * pi / FFT_SIZE), k < FFT_SIZE / 2
          HISTOGRAM_NUM_BINS, SAMPLE_SCALE_DOWN,
          PSDScale,                \* SAMPLE_COUNT / 512
          Batches,                 \* sequences of 2 * FFT_SIZE samples
          NumBatches,
          Tolerance,               \* of results, in units of the last place
          Limits                   \* PSD_..., AUTOCORR_... of hwrng_limits.h

VARIABLES stage, i, data, psd_accumulator, psd_accumulator_error_occurred,
          source,       \* the batches so far, the last one being transformed
          batches,      \* batches accumulated
          verdict       \* the band found, and the tests that failed

vars == <<stage, i, data, psd_accumulator, psd_accumulator_error_occurred,
          source, batches, verdict>>

Index == 0 .. FFT_SIZE
Zero == Exactly(0)
Complex(re, im) == [real |-> re, imag |-> im]

fix16_error_occurred(d) == \E k \in Index : d[k].real.error \/ d[k].imag.error
\* fix16_error_occurred = false
NoError(d) == [k \in Index |-> Complex(Cleared(d[k].real), Cleared(d[k].imag))]

\* -------------------------------------------------------------- complex

complexFixedAdd(a, b) == Complex(fix16_add(a.real, b.real), fix16_add(a.imag, b.imag))
complexFixedSubtract(a, b) == Complex(fix16_sub(a.real, b.real), fix16_sub(a.imag, b.imag))
complexFixedMultiply(a, b) ==
    Complex(fix16_sub(fix16_mul(a.real, b.real), fix16_mul(a.imag, b.imag)),
            fix16_add(fix16_mul(a.real, b.imag), fix16_mul(a.imag, b.real)))
complexFixedConjugate(a) == Complex(a.real, fix16_sub(Zero, a.imag))
ScaledBy(a, n) == Complex(fix16_mul(a.real, Exactly(FIX16_RECIPROCAL_OF(n))),
                          fix16_mul(a.imag, Exactly(FIX16_RECIPROCAL_OF(n))))

\* The bits of an index below n in reverse: each half is looked up, and they change
\* places.
RECURSIVE Reverse(_, _)
Reverse(k, n) == IF n = 1 THEN 0 ELSE (k % 2) * (n \div 2) + Reverse(k \div 2, n \div 2)
reverseBits(k) ==
    LET root == CHOOSE r \in 1 .. FFT_SIZE : r * r = FFT_SIZE IN
    Reverse(k % root, root) * root + Reverse(k \div root, root)

\* Mutation: the cosine of the second quadrant keeps its sign.
TwiddleUnsigned(tf_index) ==
    LET half  == FFT_SIZE \div 2
        first == IF tf_index > half THEN FFT_SIZE - tf_index ELSE tf_index
        Sine(k) == IF k = half THEN fix16_one ELSE twiddle_factor_lookup[k + 1]
    IN  Complex(Exactly(Sine(half - first)), Exactly(Sine(first)))

\* cos and sin of tf_index * pi / FFT_SIZE; every caller has tf_index <= FFT_SIZE.
getTwiddleFactor(tf_index) ==
    LET half  == FFT_SIZE \div 2
        first == IF tf_index > half THEN FFT_SIZE - tf_index ELSE tf_index
        Sine(k) == IF k = half THEN fix16_one ELSE twiddle_factor_lookup[k + 1]
        cosine  == Exactly(Sine(half - first))
    IN  Complex(IF tf_index > half THEN fix16_sub(Zero, cosine) ELSE cosine,
                Exactly(Sine(first)))

Twiddle(tf_index, is_inverse) ==
    IF is_inverse THEN getTwiddleFactor(tf_index)
    ELSE complexFixedConjugate(getTwiddleFactor(tf_index))

\* ------------------------------------------------------------ transform

\* The reordering at the head of fft().
Reordered(d) == [k \in Index |-> IF k = FFT_SIZE THEN d[k] ELSE d[reverseBits(k)]]

\* One round: pairs at distance span, with span factors.
Butterflies(d, span, is_inverse) ==
    LET Product(match) ==
            LET tf_index == (match % span) * (FFT_SIZE \div span) IN
            IF tf_index = 0 THEN d[match]
            ELSE complexFixedMultiply(Twiddle(tf_index, is_inverse), d[match])
    IN  [k \in Index |->
            IF k = FFT_SIZE THEN d[k]
            ELSE IF (k \div span) % 2 = 0 THEN complexFixedAdd(d[k], Product(k + span))
            ELSE complexFixedSubtract(d[k - span], Product(k))]

\* Rescaling after the last round of an inverse transform.
Rescaled(d) == [k \in Index |-> IF k = FFT_SIZE THEN d[k] ELSE ScaledBy(d[k], FFT_SIZE)]

\* Both entries of a pair, from its sums and differences.
Pair(real_sum, imag_diff, twiddled) ==
    [low  |-> ScaledBy(Complex(fix16_add(real_sum, twiddled.imag),
                               fix16_sub(imag_diff, twiddled.real)), 2),
     high |-> complexFixedConjugate(
                 ScaledBy(Complex(fix16_sub(real_sum, twiddled.imag),
                                  fix16_add(twiddled.real, imag_diff)), 2))]

\* The pair k, FFT_SIZE - k after the spectra of even and odd entries are split.
Split(d, k, is_inverse) ==
    LET j == FFT_SIZE - k IN
    Pair(fix16_add(d[k].real, d[j].real),
         fix16_sub(d[k].imag, d[j].imag),
         complexFixedMultiply(Complex(fix16_sub(d[k].real, d[j].real),
                                      fix16_add(d[k].imag, d[j].imag)),
                              Twiddle(k, is_inverse)))

\* Mutation: the middle bin is left as it was.
SideIgnoringMiddle(pair, k, old) ==
    IF 2 * k = FFT_SIZE THEN old ELSE IF 2 * k < FFT_SIZE THEN pair.low ELSE pair.high

\* The entry k of its pair.  In the middle both are the same entry: the second value
\* stays, and the errors of the first.
Side(pair, k, old) ==
    IF 2 * k = FFT_SIZE
    THEN [pair.high EXCEPT !.real.error = @ \/ pair.low.real.error \/ pair.low.imag.error]
    ELSE IF 2 * k < FFT_SIZE THEN pair.low ELSE pair.high

fftPostProcessReal(d, is_inverse) ==
    LET Entry(k) ==
            IF k = 0 THEN Complex(fix16_add(d[0].real, d[0].imag), Zero)
            ELSE IF k = FFT_SIZE THEN Complex(fix16_sub(d[0].real, d[0].imag), Zero)
            ELSE Side(Split(d, Min({k, FFT_SIZE - k}), is_inverse), k, d[k])
        Halved(c) == IF is_inverse THEN ScaledBy(c, 2) ELSE c
    IN  [k \in Index |-> Halved(Entry(k))]

\* ------------------------------------------------------------- spectrum

scaleSample(sample) ==
    fix16_mul(fix16_from_int(sample - HISTOGRAM_NUM_BINS \div 2),
              Exactly(FIX16_RECIPROCAL_OF(SAMPLE_SCALE_DOWN)))

\* The sum cannot overflow: 512 samples are below 8.0 each.
subtractMeanFromFftBuffer(d) ==
    LET sum  == MapThenSumSet(LAMBDA k : d[k].real.v + d[k].imag.v, 0 .. FFT_SIZE - 1)
        mean == fix16_mul(Exactly(sum), Exactly(FIX16_RECIPROCAL_OF(FFT_SIZE * 2)))
    IN
    [k \in Index |-> IF k = FFT_SIZE THEN d[k]
                     ELSE Complex(fix16_sub(d[k].real, mean), fix16_sub(d[k].imag, mean))]

\* Values of a real sequence of twice the size, interleaved.
Interleaved(Value(_)) ==
    [k \in Index |-> IF k = FFT_SIZE THEN Complex(Zero, Zero)
                     ELSE Complex(Value(2 * k), Value(2 * k + 1))]

\* The buffer accumulatePowerSpectralDensity() makes of a batch.
Buffer(batch) ==
    LET Sample(n) == scaleSample(batch[n + 1]) IN
    subtractMeanFromFftBuffer(Interleaved(Sample))

\* One batch in the buffer.  fft() then forgets earlier errors.
Fill ==
    /\ stage = "fill"
    /\ batches < NumBatches
    /\ \E batch \in Batches :
          /\ source' = Append(source, batch)
          /\ data' = Reordered(NoError(Buffer(batch)))
    /\ stage' = "forward"
    /\ i' = 1
    /\ UNCHANGED <<psd_accumulator, psd_accumulator_error_occurred, batches, verdict>>

Round ==
    /\ stage \in {"forward", "inverse"}
    /\ i < FFT_SIZE
    /\ LET next == Butterflies(data, i, stage = "inverse") IN
       data' = IF stage = "inverse" /\ 2 * i = FFT_SIZE THEN Rescaled(next) ELSE next
    /\ i' = 2 * i
    /\ UNCHANGED <<stage, psd_accumulator, psd_accumulator_error_occurred, source,
                   batches, verdict>>

\* The end of fft() and all of fftPostProcessReal().
PostProcess ==
    /\ stage = "forward"
    /\ i = FFT_SIZE
    /\ data' = fftPostProcessReal(NoError(data), FALSE)
    /\ psd_accumulator_error_occurred' =
          (\/ psd_accumulator_error_occurred
           \/ fix16_error_occurred(data)
           \/ fix16_error_occurred(data'))
    /\ stage' = "accumulate"
    /\ UNCHANGED <<i, psd_accumulator, source, batches, verdict>>

PowerOf(c) ==
    LET small == ScaledBy(Complex(Cleared(c.real), Cleared(c.imag)), 8) IN
    fix16_mul(fix16_add(fix16_mul(small.real, small.real), fix16_mul(small.imag, small.imag)),
              Exactly(FIX16_RECIPROCAL_OF(PSDScale)))

Accumulate ==
    /\ stage = "accumulate"
    /\ LET sums == [k \in Index |-> fix16_add(psd_accumulator[k], PowerOf(data[k]))] IN
       /\ psd_accumulator' = [k \in Index |-> Cleared(sums[k])]
       /\ psd_accumulator_error_occurred' =
             (psd_accumulator_error_occurred \/ \E k \in Index : sums[k].error)
    /\ batches' = batches + 1
    /\ stage' = "fill"
    /\ i' = 0
    /\ UNCHANGED <<data, source, verdict>>

\* ---------------------------------------------------------------- tests

RECURSIVE Peak(_, _, _)
\* The loop that looks for the largest bin, from bin k on.
Peak(threshold, max_bin, k) ==
    IF k > FFT_SIZE THEN [threshold |-> threshold, max_bin |-> max_bin]
    ELSE IF psd_accumulator[k].v > threshold THEN Peak(psd_accumulator[k].v, k, k + 1)
    ELSE Peak(threshold, max_bin, k + 1)

\* Mutation: bins below the threshold need not be consecutive.
EdgeOfAny(threshold, k, below_counter, step) ==
    LET below(n) == {m \in Index : m * step >= k * step /\ m * step <= n * step
                                     /\ psd_accumulator[m].v < threshold}
        ends == {n \in Index : Cardinality(below(n)) >= Limits.repetitions}
    IN  IF ends = {} THEN IF step = 1 THEN FFT_SIZE ELSE 0
        ELSE (IF step = 1 THEN Min(ends) ELSE Max(ends)) - step * Limits.repetitions

RECURSIVE Edge(_, _, _, _)
\* The loops that look for an edge, step -1 for the left and 1 for the right one: a run
\* of PSD_THRESHOLD_REPETITIONS bins below the threshold ends the band.
Edge(threshold, k, below_counter, step) ==
    IF k \notin Index THEN IF step = 1 THEN FFT_SIZE ELSE 0
    ELSE LET below == IF psd_accumulator[k].v < threshold THEN below_counter + 1 ELSE 0 IN
         IF below >= Limits.repetitions THEN k - step * Limits.repetitions
         ELSE Edge(threshold, k + step, below, step)

estimateBandwidth ==
    LET peak == Peak(0, 0, 0)
        threshold == fix16_mul(Exactly(peak.threshold), Exactly(Limits.threshold)).v
    IN  [max_bin   |-> peak.max_bin,
         left_bin  |-> Edge(threshold, peak.max_bin, 0, -1),
         right_bin |-> Edge(threshold, peak.max_bin, 0, 1)]

\* calculateAutoCorrelation() fills its buffer with the symmetric spectrum.
Load ==
    /\ stage = "fill"
    /\ batches = NumBatches
    /\ LET Value(n) == psd_accumulator[IF n <= FFT_SIZE THEN n ELSE 2 * FFT_SIZE - n] IN
       data' = Reordered(Interleaved(Value))
    /\ stage' = "inverse"
    /\ i' = 1
    /\ verdict' = [verdict EXCEPT !.band = estimateBandwidth]
    /\ UNCHANGED <<psd_accumulator, psd_accumulator_error_occurred, source, batches>>

findMaximumAutoCorrelation(d) ==
    LET Size(k) == Magnitude(d[k].real.v) IN
    Max({0} \cup {Size(k) : k \in Limits.start_lag .. FFT_SIZE})

\* The variance that histogramTestsFailed() computed of all samples (see Statistics).
Variance ==
    LET All      == (1 .. Len(source)) \X (1 .. 2 * FFT_SIZE)
        Value(x) == scaleSample(source[x[1]][x[2]]).v
        count    == Cardinality(All)
        mean     == MapThenSumSet(Value, All) \div count
    IN  Exactly(MapThenSumSet(LAMBDA x : (Value(x) - mean) * (Value(x) - mean), All)
                    \div (count * fix16_one))

\* calculateAutoCorrelation() returns after fft() if that failed.
Judge ==
    /\ stage = "inverse"
    /\ i = FFT_SIZE
    /\ data' = IF fix16_error_occurred(data) THEN data
               ELSE fftPostProcessReal(NoError(data), TRUE)
    /\ LET error     == fix16_error_occurred(data')
           largest   == findMaximumAutoCorrelation(data')
           band      == verdict.band
           bandwidth == band.right_bin - band.left_bin
       IN  verdict' = [band |-> band, failed |->
              {t \in {"peak", "bandwidth", "autocorrelation"} :
                 CASE t = "peak" -> \/ band.max_bin < Limits.min_peak
                                    \/ band.max_bin > Limits.max_peak
                                    \/ psd_accumulator_error_occurred
                   [] t = "bandwidth" -> \/ bandwidth < Limits.min_bandwidth
                                         \/ psd_accumulator_error_occurred
                   [] t = "autocorrelation" -> \/ largest > fix16_mul(Variance, Exactly(Limits.autocorrelation)).v
                                               \/ error}]
    /\ stage' = "judged"
    /\ UNCHANGED <<i, psd_accumulator, psd_accumulator_error_occurred, source, batches>>

Init ==
    /\ stage = "fill"
    /\ i = 0
    /\ data = [k \in Index |-> Complex(Zero, Zero)]
    /\ psd_accumulator = [k \in Index |-> Zero]
    /\ psd_accumulator_error_occurred = FALSE
    /\ source = <<>>
    /\ batches = 0
    /\ verdict = [band |-> [max_bin |-> 0, left_bin |-> 0, right_bin |-> 0],
                  failed |-> {"untested"}]

Next == Fill \/ Round \/ PostProcess \/ Accumulate \/ Load \/ Judge

Spec == Init /\ [][Next]_vars

\* ----------------------------------------------------------- properties

\* cos(m * pi / FFT_SIZE), from the table by symmetry.
Cosine(m) ==
    LET r == m % (2 * FFT_SIZE)
        s == IF r > FFT_SIZE THEN 2 * FFT_SIZE - r ELSE r
        t == IF 2 * s > FFT_SIZE THEN FFT_SIZE - s ELSE s
        c == IF t = 0 THEN fix16_one ELSE twiddle_factor_lookup[FFT_SIZE \div 2 - t + 1]
    IN  IF 2 * s = FFT_SIZE THEN 0 ELSE IF 2 * s > FFT_SIZE THEN -c ELSE c
Sine(m) == Cosine(m - FFT_SIZE \div 2)

\* The sum over n of a real sequence of 2 * FFT_SIZE values times a wave.
Correlate(Value(_), Wave(_)) ==
    MapThenSumSet(LAMBDA n : Value(n) * Wave(n), 0 .. 2 * FFT_SIZE - 1)

Near(x, y) == Magnitude(x - y) <= Tolerance
\* The autocorrelation is an average, and more exact.
VeryNear(x, y) == 4 * Magnitude(x - y) <= Tolerance

\* The samples of a buffer in their order.
InOrder(buffer) ==
    [n \in 0 .. 2 * FFT_SIZE - 1 |->
        IF n % 2 = 0 THEN buffer[n \div 2].real.v ELSE buffer[n \div 2].imag.v]

\* The autocorrelation of the batches themselves, for every lag; the spectrum was scaled
\* by an eighth before it was squared.
ExactAutoCorrelation ==
    LET size == 2 * FFT_SIZE
        value == [b \in 1 .. Len(source) |-> InOrder(Buffer(source[b]))]
    IN  [lag \in Index |->
            MapThenSumSet(LAMBDA x : value[x[1]][x[2]] * value[x[1]][(x[2] + lag) % size],
                          (1 .. Len(source)) \X (0 .. size - 1))
                \div (64 * fix16_one * PSDScale)]

\* The bins are below the threshold.
Quiet(bins) ==
    bins \subseteq {k \in Index : psd_accumulator[k].v
                       < fix16_mul(psd_accumulator[verdict.band.max_bin], Exactly(Limits.threshold)).v}

\* The peak is the first of the largest bins; the band around it has no gap of R quiet
\* bins on either side, and such a gap, or the end of the spectrum, beyond its edges.
BandIsRight(band) ==
    LET R == Limits.repetitions
        Run(k) == k .. k + R - 1
        edges == {band.left_bin, band.max_bin, band.right_bin}
    IN  /\ edges \subseteq Index /\ band.left_bin <= band.max_bin /\ band.max_bin <= band.right_bin
        /\ \A k \in Index : /\ psd_accumulator[k].v <= psd_accumulator[band.max_bin].v
                            /\ k < band.max_bin => psd_accumulator[k].v < psd_accumulator[band.max_bin].v
        /\ \A k \in band.left_bin .. band.right_bin - R + 1 :
              band.max_bin \notin Run(k) => ~Quiet(Run(k))
        /\ band.left_bin > 0 => Quiet(Run(band.left_bin - R))
        /\ band.right_bin < FFT_SIZE => Quiet(Run(band.right_bin + 1))

\* fft.c, statistics.c, hwrng.c: unless an overflow is reported, the double-size real
\* transform is the Fourier sum of the samples, what comes back from the accumulated
\* spectrum is the autocorrelation of the samples, and no lag that is looked at
\* exceeds the variance by more than AUTOCORR_THRESHOLD when the test passes.  The band
\* is the one around the peak that is nowhere quiet for long.  A silent source fails
\* the tests, and so does one whose spectrum overflowed.
SpectrumIsRight ==
    /\ stage = "accumulate" /\ ~psd_accumulator_error_occurred =>
          LET values == InOrder(Buffer(source[Len(source)]))
              Value(n) == values[n]
          IN  \A k \in Index :
                 /\ Near(data[k].real.v,
                         Correlate(Value, LAMBDA n : Cosine(k * n)) \div fix16_one)
                 /\ Near(data[k].imag.v,
                         -Correlate(Value, LAMBDA n : Sine(k * n)) \div fix16_one)
    /\ stage = "judged" =>
          /\ ~psd_accumulator_error_occurred =>
                LET exact == ExactAutoCorrelation
                    limit == fix16_mul(Variance, Exactly(Limits.autocorrelation)).v
                IN  /\ BandIsRight(verdict.band)
                    /\ ~fix16_error_occurred(data) =>
                          \A lag \in Index : VeryNear(data[lag].real.v, exact[lag])
                    /\ "autocorrelation" \notin verdict.failed =>
                          \A lag \in Limits.start_lag .. FFT_SIZE :
                             4 * Magnitude(exact[lag]) <= 4 * limit + Tolerance
          /\ psd_accumulator_error_occurred => verdict.failed # {}
          /\ (\A k \in Index : psd_accumulator[k].v = 0) => verdict.failed # {}
=============================================================================
