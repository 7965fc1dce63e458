---------------------------- MODULE Statistics ----------------------------
(***************************************************************************)
(* The histogram of statistics.c, packed into words, the iterator over it  *)
(* that yields the terms of a central moment, and the tests of hwrng.c     *)
(* that use them.  Samples are counted one at a time; the tests are run    *)
(* when SAMPLE_COUNT samples were counted, and then it starts over.  The   *)
(* filter of the PIC32 overshoots: a sample may lie beyond the last bin.   *)
(***************************************************************************)
EXTENDS FixedPoint, Sequences, FiniteSets

CONSTANTS HISTOGRAM_NUM_BINS, BITS_PER_HISTOGRAM_BIN, WordBits, SAMPLE_COUNT,
          SAMPLE_SCALE_DOWN,
          Limits    \* the limits of hwrng_limits.h, as fix16_t values

VARIABLES packed_histogram_buffer, histogram_overflow_occurred,
          samples_in_histogram,
          counted,       \* history: how often each sample was counted
          tests_failed,  \* the result of histogramTestsFailed()
          moments        \* what it computed

vars == <<packed_histogram_buffer, histogram_overflow_occurred,
          samples_in_histogram, counted, tests_failed, moments>>

Bins == 0 .. HISTOGRAM_NUM_BINS - 1
Samples == 0 .. HISTOGRAM_NUM_BINS   \* the last one stands for all beyond the bins
MAX_HISTOGRAM_VALUE == 2 ^ BITS_PER_HISTOGRAM_BIN - 1
Words == 0 .. (HISTOGRAM_NUM_BINS * BITS_PER_HISTOGRAM_BIN - 1) \div WordBits

NoMoments == [mean |-> Exactly(0), variance |-> Exactly(0),
              kappa3 |-> Exactly(0), kappa4 |-> Exactly(0),
              entropy |-> Exactly(0)]

\* ---------------------------------------------------- packed histogram

WordOf(index) == (index * BITS_PER_HISTOGRAM_BIN) \div WordBits
BitOf(index) == (index * BITS_PER_HISTOGRAM_BIN) % WordBits
Straddles(index) == BitOf(index) + BITS_PER_HISTOGRAM_BIN > WordBits

\* Bits low to low + width - 1 of word replaced by value.
SetBits(word, low, width, value) ==
    word - ((word \div 2 ^ low) % 2 ^ width) * 2 ^ low + value * 2 ^ low

clearHistogram ==
    /\ packed_histogram_buffer' = [w \in Words |-> 0]
    /\ samples_in_histogram' = 0
    /\ histogram_overflow_occurred' = FALSE

\* Mutation: the part of a count in the next word is not read.
getOneWord(buffer, index) ==
    (buffer[WordOf(index)] \div 2 ^ BitOf(index)) % (MAX_HISTOGRAM_VALUE + 1)

getHistogram(buffer, index) ==
    LET low == buffer[WordOf(index)] \div 2 ^ BitOf(index)
        high == IF Straddles(index)
                THEN buffer[WordOf(index) + 1] * 2 ^ (WordBits - BitOf(index))
                ELSE 0
    IN  IF index >= HISTOGRAM_NUM_BINS THEN 0
        ELSE (low + high) % (MAX_HISTOGRAM_VALUE + 1)

\* Mutation: the mask of the second word is one bit too wide.
putTooWide(buffer, index, value) ==
    LET bit   == BitOf(index)
        here  == IF Straddles(index) THEN WordBits - bit ELSE BITS_PER_HISTOGRAM_BIN
        first == [buffer EXCEPT ![WordOf(index)] =
                     SetBits(@, bit, here, value % 2 ^ here)]
    IN  IF Straddles(index)
        THEN [first EXCEPT ![WordOf(index) + 1] =
                 SetBits(@, 0, BITS_PER_HISTOGRAM_BIN - here + 1, value \div 2 ^ here)]
        ELSE first

putHistogram(buffer, index, value) ==
    LET bit   == BitOf(index)
        here  == IF Straddles(index) THEN WordBits - bit ELSE BITS_PER_HISTOGRAM_BIN
        first == [buffer EXCEPT ![WordOf(index)] =
                     SetBits(@, bit, here, value % 2 ^ here)]
    IN  IF Straddles(index)
        THEN [first EXCEPT ![WordOf(index) + 1] =
                 SetBits(@, 0, BITS_PER_HISTOGRAM_BIN - here, value \div 2 ^ here)]
        ELSE first

\* Mutation: a full bin just stays full.
incrementUnnoticed(index) ==
    LET value == getHistogram(packed_histogram_buffer, index) + 1 IN
    /\ packed_histogram_buffer' =
          IF index >= HISTOGRAM_NUM_BINS THEN packed_histogram_buffer
          ELSE putHistogram(packed_histogram_buffer, index,
                            IF value > MAX_HISTOGRAM_VALUE THEN MAX_HISTOGRAM_VALUE ELSE value)
    /\ samples_in_histogram' = samples_in_histogram + 1
    /\ UNCHANGED histogram_overflow_occurred

\* Mutation: a sample beyond the bins is put into the last one.
incrementClamped(index) ==
    LET bin == IF index >= HISTOGRAM_NUM_BINS THEN HISTOGRAM_NUM_BINS - 1 ELSE index
        value == getHistogram(packed_histogram_buffer, bin) + 1
    IN
    /\ IF value > MAX_HISTOGRAM_VALUE
       THEN /\ histogram_overflow_occurred' = TRUE
            /\ UNCHANGED packed_histogram_buffer
       ELSE /\ packed_histogram_buffer' =
                 putHistogram(packed_histogram_buffer, bin, value)
            /\ UNCHANGED histogram_overflow_occurred
    /\ samples_in_histogram' = samples_in_histogram + 1

\* Beyond the bins nothing is written, but the sample is counted as one; the error
\* flag that is raised then is lowered before the tests.
incrementHistogram(index) ==
    LET value == getHistogram(packed_histogram_buffer, index) + 1 IN
    /\ IF index >= HISTOGRAM_NUM_BINS
       THEN UNCHANGED <<packed_histogram_buffer, histogram_overflow_occurred>>
       ELSE IF value > MAX_HISTOGRAM_VALUE
       THEN /\ histogram_overflow_occurred' = TRUE
            /\ UNCHANGED packed_histogram_buffer
       ELSE /\ packed_histogram_buffer' =
                 putHistogram(packed_histogram_buffer, index, value)
            /\ UNCHANGED histogram_overflow_occurred
    /\ samples_in_histogram' = samples_in_histogram + 1

\* ------------------------------------------------------------- moments

scaleSample(sample) ==
    fix16_mul(fix16_from_int(sample - HISTOGRAM_NUM_BINS \div 2),
              Exactly(FIX16_RECIPROCAL_OF(SAMPLE_SCALE_DOWN)))

\* The iterator, with the count and the sample it caches for its bin.
updateIteratorCache(index) ==
    [index |-> index, count |-> 0,
     cached_count |-> getHistogram(packed_histogram_buffer, index),
     cached_sample |-> scaleSample(index)]

\* Mutation: the cache of the previous moment is kept.
resetWithoutCache ==
    [updateIteratorCache(HISTOGRAM_NUM_BINS - 1) EXCEPT !.index = 0]

resetIterator == updateIteratorCache(0)

RECURSIVE Search(_)
\* The next count: the loop at the head of getTermFromIterator(), which may run
\* past the last bin.
Search(it) ==
    IF it.count < it.cached_count THEN it
    ELSE IF it.index + 1 < HISTOGRAM_NUM_BINS THEN Search(updateIteratorCache(it.index + 1))
    ELSE [it EXCEPT !.index = @ + 1, !.count = 0]

RECURSIVE PowerOfItself(_, _)
\* Mutation: the running product is squared.
PowerOfItself(x, power) ==
    IF power = 1 THEN x
    ELSE fix16_mul(PowerOfItself(x, power - 1), PowerOfItself(x, power - 1))

RECURSIVE Power(_, _)
Power(x, power) == IF power = 1 THEN x ELSE fix16_mul(Power(x, power - 1), x)

\* The iterator after a term, and the term.
getTermFromIterator(it, mean, power) ==
    LET found == Search(it) IN
    IF found.index >= HISTOGRAM_NUM_BINS /\ found.index # it.index
    THEN [it |-> found, term |-> [v |-> 0, error |-> TRUE]]
    ELSE [it   |-> [found EXCEPT !.count = @ + 1],
          term |-> Power(fix16_sub(found.cached_sample, mean), power)]

RECURSIVE calculateCentralMomentRecursive(_, _, _, _)
calculateCentralMomentRecursive(it, mean, power, level) ==
    LET Part(from) == IF level <= 2
                      THEN getTermFromIterator(from, mean, power)
                      ELSE calculateCentralMomentRecursive(from, mean, power, level \div 2)
        one == Part(it)
        two == Part(one.it)
    IN  [it   |-> two.it,
         term |-> fix16_mul(fix16_add(one.term, two.term),
                            Exactly(FIX16_RECIPROCAL_OF(2)))]

calculateCentralMoment(mean, power) ==
    calculateCentralMomentRecursive(resetIterator, mean, power, SAMPLE_COUNT).term

RECURSIVE EntropyFrom(_, _)
EntropyFrom(sum, i) ==
    IF i = HISTOGRAM_NUM_BINS THEN sum
    ELSE LET count == getHistogram(packed_histogram_buffer, i)
             term  == fix16_mul(fix16_from_int(count),
                                Exactly(FIX16_RECIPROCAL_OF(SAMPLE_COUNT)))
         IN  EntropyFrom(IF count = 0 THEN sum
                         ELSE fix16_sub(sum, fix16_mul(term, fix16_log2(term))), i + 1)

\* Mutation: the loop begins one bin late.
EntropyAllButOne == EntropyFrom(Exactly(0), 1)

estimateEntropy == EntropyFrom(Exactly(0), 0)

\* --------------------------------------------------------------- tests

Times(x, y) == fix16_mul(x, y).v

\* The tests that fail.  Errors of the products below are not looked at.
Failures(m) ==
    LET squared == fix16_mul(m.variance, m.variance)
        cubed   == fix16_mul(squared, m.variance)
        Bound(limit) == fix16_add(fix16_mul(Exactly(limit), squared),
                                  fix16_mul(fix16_from_int(3), squared)).v
        failed  == [mean     |-> m.mean.v <= Limits.min_mean \/ m.mean.v >= Limits.max_mean,
                    variance |-> \/ m.variance.v <= Limits.min_variance
                                 \/ m.variance.v >= Limits.max_variance,
                    skewness |-> Times(m.kappa3, m.kappa3)
                                    >= Times(cubed, Exactly(Limits.max_skewness_squared)),
                    kurtosis |-> \/ m.kappa4.v <= Bound(Limits.min_kurtosis)
                                 \/ m.kappa4.v >= Bound(Limits.max_kurtosis),
                    entropy  |-> m.entropy.v < Limits.min_entropy \/ m.entropy.error]
        invalid == \/ histogram_overflow_occurred
                   \/ m.mean.error \/ m.variance.error \/ m.kappa3.error \/ m.kappa4.error
    IN  {t \in DOMAIN failed : failed[t]}
        \cup (IF invalid THEN {"mean", "variance", "skewness", "kurtosis"} ELSE {})

histogramTestsFailed ==
    LET mean == calculateCentralMoment(Exactly(0), 1)
        about == Cleared(mean)
    IN  moments' = [mean |-> mean,
                    variance |-> calculateCentralMoment(about, 2),
                    kappa3 |-> calculateCentralMoment(about, 3),
                    kappa4 |-> calculateCentralMoment(about, 4),
                    entropy |-> estimateEntropy]

\* -------------------------------------------------------- specification

Init ==
    /\ packed_histogram_buffer = [w \in Words |-> 0]
    /\ histogram_overflow_occurred = FALSE
    /\ samples_in_histogram = 0
    /\ counted = [b \in Samples |-> 0]
    /\ tests_failed = {"untested"}
    /\ moments = NoMoments

Count ==
    /\ samples_in_histogram < SAMPLE_COUNT
    /\ \E sample \in Samples :
          /\ incrementHistogram(sample)
          /\ counted' = [counted EXCEPT ![sample] = @ + 1]
    /\ UNCHANGED <<tests_failed, moments>>

Test ==
    /\ samples_in_histogram = SAMPLE_COUNT
    /\ tests_failed = {"untested"}
    /\ histogramTestsFailed
    /\ tests_failed' = Failures(moments')
    /\ UNCHANGED <<packed_histogram_buffer, histogram_overflow_occurred,
                   samples_in_histogram, counted>>

\* fillAndTestSamplesArray() starts over.
Restart ==
    /\ samples_in_histogram = SAMPLE_COUNT
    /\ tests_failed # {"untested"}
    /\ clearHistogram
    /\ counted' = [b \in Samples |-> 0]
    /\ tests_failed' = {"untested"}
    /\ moments' = NoMoments

Next == Count \/ Test \/ Restart

Spec == Init /\ [][Next]_vars

\* ----------------------------------------------------------- properties

\* fix16_overflow is also the least number.
Fits(x) == -Half < x /\ x < Half
Agrees(r, exact) == IF Fits(exact) THEN r = Exactly(exact) ELSE r.v = fix16_overflow

\* With F = 4: 2 to the power q/16, times 1024 and scaled by 2^8 for negative q.
Roots == <<1024, 1069, 1117, 1166, 1218, 1272, 1328, 1387,
           1448, 1512, 1579, 1649, 1722, 1798, 1878, 1961>>
PowerOfTwo(q) == Roots[1 + (q % fix16_one)] * 2 ^ (2 * F + (q \div fix16_one))

\* Sums, differences and products are rounded to nearest or reported as overflow.
\* The version without 64-bit products needs operands below half of the range.
\* A logarithm is right up to two units in the last place.
FixedIsExact ==
    /\ \A a \in -Half .. Half - 1, b \in -Half .. Half - 1 :
          LET x == Exactly(a)
              y == Exactly(b)
              exact == Nearest(a * b, fix16_one)
          IN  /\ Agrees(fix16_add(x, y), a + b) /\ Agrees(fix16_sub(x, y), a - b)
              /\ Agrees(Multiply64(x, y), exact)
              /\ Magnitude(a) < Half \div 2 /\ Magnitude(b) < Half \div 2
                    => Agrees(Multiply32(x, y), exact)
    /\ \A a \in 1 .. Half - 1 :
          LET log == fix16_log2(Exactly(a)).v IN
          /\ PowerOfTwo(log - 2) <= a * 2 ^ (F + 10)
          /\ a * 2 ^ (F + 10) <= PowerOfTwo(log + 2)

RECURSIVE SumOver(_, _)
SumOver(f, n) == IF n = 0 THEN 0 ELSE f[n - 1] + SumOver(f, n - 1)

Scaled(sample) == ((sample - HISTOGRAM_NUM_BINS \div 2) * fix16_one) \div SAMPLE_SCALE_DOWN

\* The deviation of a bin from the mean to a power, in units of fix16_one ^ -power.
Deviation(b, mean, power) == (Scaled(b) - mean) ^ power

\* A moment differs from the average of the powers by at most a unit in the last place
\* for each factor.
CloseToMoment(moment, mean, power) ==
    LET exact == SumOver([b \in Bins |-> counted[b] * Deviation(b, mean, power)],
                         HISTOGRAM_NUM_BINS)
        unit  == SAMPLE_COUNT * fix16_one ^ (power - 1)
    IN  Magnitude(moment.v * unit - exact) <= power * unit

\* No term comes near the largest number, so that sums of two do not overflow either.
TermsAreSmall(mean, power) ==
    \A b \in Bins : counted[b] > 0 =>
       4 * Magnitude(Deviation(b, mean, power)) < Half * fix16_one ^ (power - 1)

MomentIsRight(moment, mean, power) ==
    /\ moment.error \/ CloseToMoment(moment, mean, power)
    /\ TermsAreSmall(mean, power) => ~moment.error

\* The logarithm of a number of samples, rounded down.
Log2(n) == CHOOSE q \in 0 .. Half : /\ PowerOfTwo(q) <= n * 2 ^ (2 * F + 10)
                                    /\ n * 2 ^ (2 * F + 10) < PowerOfTwo(q + 1)

\* The entropy per sample is log2(SAMPLE_COUNT) less the average of log2(count), up to
\* a unit in the last place.
EntropyIsRight(entropy) ==
    LET exact == SAMPLE_COUNT * Log2(SAMPLE_COUNT)
                    - SumOver([b \in Bins |-> IF counted[b] = 0 THEN 0
                                              ELSE counted[b] * Log2(counted[b])],
                              HISTOGRAM_NUM_BINS)
    IN  /\ ~entropy.error
        /\ Magnitude(entropy.v * SAMPLE_COUNT - exact) <= SAMPLE_COUNT

\* statistics.c, hwrng.c: a count packed across two words is neither cut nor does it
\* disturb its neighbours; the iterator visits every sample once, so that the mean,
\* the three higher moments and the entropy are those of the samples, up to rounding,
\* or an overflow of a moment is noticed; a bin that overflowed, a sample beyond the
\* bins, and a source that always gives the same sample, fail the tests; and the
\* arithmetic underneath is exact.
StatisticsAreRight ==
    /\ \A b \in Bins : getHistogram(packed_histogram_buffer, b)
                          = (IF counted[b] > MAX_HISTOGRAM_VALUE THEN MAX_HISTOGRAM_VALUE
                             ELSE counted[b])
    /\ histogram_overflow_occurred <=> \E b \in Bins : counted[b] > MAX_HISTOGRAM_VALUE
    /\ samples_in_histogram = 0 => FixedIsExact
    /\ /\ tests_failed # {"untested"}
       /\ ~histogram_overflow_occurred
       /\ counted[HISTOGRAM_NUM_BINS] = 0
       => /\ ~moments.mean.error /\ MomentIsRight(moments.mean, 0, 1)
          /\ MomentIsRight(moments.variance, moments.mean.v, 2)
          /\ MomentIsRight(moments.kappa3, moments.mean.v, 3)
          /\ MomentIsRight(moments.kappa4, moments.mean.v, 4)
          /\ EntropyIsRight(moments.entropy)
    /\ histogram_overflow_occurred \/ counted[HISTOGRAM_NUM_BINS] > 0 => tests_failed # {}
    /\ (\E b \in Bins : counted[b] = SAMPLE_COUNT) => tests_failed # {}
=============================================================================
