------------------------------ MODULE MCUnits ------------------------------
(***************************************************************************)
(* The self-contained units of the firmware, for TLC.  They share nothing: *)
(* "part" tells which one a behaviour is about; the variables of the       *)
(* others are 0.                                                           *)
(***************************************************************************)
EXTENDS Prompt, EntropyPool

CONSTANTS
    DigitBits, BigSize, BigN, BigSizeComplement, BigSamples,
    CurveBits, CurveP, CurveN, CurveGx, CurveGy, Keys, Hashes,
    DerSize, DerBits,
    ConvBits, AmountSize, AmountBase, AmountDigits, Decimals,
    AddressSize, AddressBase, AddressDigits,
    MessageLengths,
    Iterations, MaxCalls,
    BlockCounts,
    BlockSize, NumBlocks, AddressTop, EncKeys, MaxLength, MaxAccesses,
    NO_64BIT, SAMPLE_SCALE_DOWN, StatFraction, StatBins, BITS_PER_HISTOGRAM_BIN, HistogramWord,
    SampleCount,
    FftFraction, FFT_SIZE, FftBins, PSDScale, NumBatches, Tolerance,
    HwSamples, BufferSize, PerCall, MaxConversions,
    Group, UintBits, UlongBits, Align, UnknownTags,
    CHARACTERS_PER_LINE, NUMBER_OF_LINES, CHARACTER_WIDTH, CHARACTER_HEIGHT, ByteBits, SeedLength,
    Amounts, Addresses, MaxListed,
    NUM_COLUMNS, LineSize, SCROLL_SPEED, SCROLL_PAUSE, TicksPerString, LcdDebounce, CounterRange,
    AmountLength, AddressLength, MAX_OUTPUTS, LcdSeedLength, BytesPerLine

VARIABLES
    part,
    mem, args, before,
    field, acc, bits, job, result,
    derPhase, derR, s, signature, sequence_length,
    convPhase, number, quotient, convI, out,
    hs, message, hashStage, hashTodo, order, digest, first,
    hashed, cell, keyPlan, keyOut, given, generated, derived, calls,
    vector, hashBlocks, h, w, reg, t, mixStage,
    unit, plan, round, aes, expanded_key, delta, buffer,
    nv, key, access, got, seen, accesses,
    packed_histogram_buffer, histogram_overflow_occurred, samples_in_histogram,
    counted, tests_failed, moments,
    fftStage, fftI, data, psd_accumulator, psd_accumulator_error_occurred, source, batches, verdict,
    port, conversions, pending, running, adc_sample_buffer, current_index, full, rngPc, consumed,
    is_not_first_in_histogram, samples, taken, histogram, spectrum, rngResult, passed, handed, stale,
    pbStage, name, fields, sized, stream, ends, damage, payload, received,
    text_buffer, cursor_line, cursor_pos, gddram, pointer, on, todo, request, displayI, byte_counter, line_number,
    refused, written, backedUp,
    lcdTodo, lcdRequest, lcdI, lcdByte, line, current_column, max_line_size, ddram,
    scroll_pos, scroll_to_left, scroll_counter, accept_button, cancel_button, accept_debounce,
    cancel_debounce, current_accept_button, lcdDenied, ticks, disturbed, up, fresh, lcdSeen
-----------------------------------------------------------------------------
(* Values of the constants that a .cfg file cannot write. *)
HashLengths == [f \in {"SHA-256", "SHA-512"} |-> IF f = "SHA-256" THEN 32 ELSE 64]

(* The messages of the published test vectors: "abc", and 14 words of      *)
(* consecutive letters, which fill a block.  A word has "size" limbs.      *)
Letters(a, size) == [k \in 1 .. size |-> 256 * (96 + a + 2 * (k - 1)) + 97 + a + 2 * (k - 1)]

Number(a, size) == [k \in 1 .. size |-> IF k = size THEN a ELSE 0]

High(a, size) == [k \in 1 .. size |-> IF k = 1 THEN a ELSE 0]

ShortMessage(size) ==
    <<[k \in 1 .. 16 |->
        IF k = 1 THEN [High(24930, size) EXCEPT ![2] = 25472] ELSE Number(IF k = 16 THEN 24 ELSE 0, size)]>>

LongMessage(size) ==
    <<[k \in 1 .. 16 |-> IF k < 15 THEN Letters(k, size) ELSE High(IF k = 15 THEN 32768 ELSE 0, size)],
      [k \in 1 .. 16 |-> Number(IF k = 16 THEN 224 * size ELSE 0, size)]>>

(* The same blocks for RIPEMD-160: the bytes of a word in reverse, and the *)
(* length in the first of its two words.                                   *)
Swapped(blocks) ==
    LET byte(limb) == (limb % 256) * 256 + limb \div 256
        word(v) == <<byte(v[2]), byte(v[1])>>
        last == Len(blocks)
    IN  [n \in 1 .. last |-> [k \in 1 .. 16 |->
            IF n < last \/ k < 15 THEN word(blocks[n][k])
            ELSE IF k = 15 THEN blocks[n][16] ELSE blocks[n][15]]]

KnownAnswers ==
   {[algorithm |-> "SHA-256", blocks |-> ShortMessage(2),
     hash |-> <<<<\hba78, \h16bf>>, <<\h8f01, \hcfea>>, <<\h4141, \h40de>>, <<\h5dae, \h2223>>,
                <<\hb003, \h61a3>>, <<\h9617, \h7a9c>>, <<\hb410, \hff61>>, <<\hf200, \h15ad>>>>],
    [algorithm |-> "SHA-256", blocks |-> LongMessage(2),
     hash |-> <<<<\h248d, \h6a61>>, <<\hd206, \h38b8>>, <<\he5c0, \h2693>>, <<\h0c3e, \h6039>>,
                <<\ha33c, \he459>>, <<\h64ff, \h2167>>, <<\hf6ec, \hedd4>>, <<\h19db, \h06c1>>>>],
    [algorithm |-> "RIPEMD-160", blocks |-> Swapped(ShortMessage(2)),
     hash |-> <<<<\hf708, \hb28e>>, <<\h7a98, \h5de0>>, <<\h8e4a, \h049b>>, <<\h87b0, \hc698>>,
                <<\hfc0b, \h5af1>>>>],
    [algorithm |-> "RIPEMD-160", blocks |-> Swapped(LongMessage(2)),
     hash |-> <<<<\h3853, \ha012>>, <<\h880c, \h9c4a>>, <<\h6ca0, \h05e4>>, <<\h9af4, \hdc27>>,
                <<\h2beb, \h62da>>>>],
    [algorithm |-> "SHA-512", blocks |-> ShortMessage(4),
     hash |-> <<<<\hddaf, \h35a1, \h9361, \h7aba>>, <<\hcc41, \h7349, \hae20, \h4131>>,
                <<\h12e6, \hfa4e, \h89a9, \h7ea2>>, <<\h0a9e, \heee6, \h4b55, \hd39a>>,
                <<\h2192, \h992a, \h274f, \hc1a8>>, <<\h36ba, \h3c23, \ha3fe, \hebbd>>,
                <<\h454d, \h4423, \h643c, \he80e>>, <<\h2a9a, \hc94f, \ha54c, \ha49f>>>>],
    [algorithm |-> "SHA-512", blocks |-> LongMessage(4),
     hash |-> <<<<\h8e95, \h9b75, \hdae3, \h13da>>, <<\h8cf4, \hf728, \h14fc, \h143f>>,
                <<\h8f77, \h79c6, \heb9f, \h7fa1>>, <<\h7299, \haead, \hb688, \h9018>>,
                <<\h501d, \h289e, \h4900, \hf7e4>>, <<\h331b, \h99de, \hc4b5, \h433a>>,
                <<\hc7d3, \h29ee, \hb6dd, \h2654>>, <<\h5e96, \he55b, \h874b, \he909>>>>]}

SeedLengths == [p \in {-10, -11, -12} |-> IF p = -10 THEN 20 ELSE IF p = -11 THEN 60 ELSE 130]

Ramp(a, b) == [k \in 1 .. 16 |-> (a * k + b) % 256]

Plaintexts == {Ramp(17, 239), Ramp(37, 201)}

KeyPairs == {[encrypt |-> Ramp(1, 255), tweak |-> Ramp(29, 5)]}

UnitNumbers == {Ramp(0, 0), Ramp(91, 3)}

HistogramLimits ==
    [min_mean |-> -20, max_mean |-> 20, min_variance |-> 4, max_variance |-> 60,
     max_skewness_squared |-> 8, min_kurtosis |-> -30, max_kurtosis |-> 30, min_entropy |-> 14]

Sines == <<0, 50, 98, 142, 181, 213, 237, 251>>

SampleBatches == { \* a pulse, noise, silence, a slow square wave, a sawtooth
    [n \in 1 .. 32 |-> IF n = 6 THEN 14 ELSE 8],
    [n \in 1 .. 32 |-> ((n * n) + 3 * n) % 16],
    [n \in 1 .. 32 |-> 5],
    [n \in 1 .. 32 |-> IF n % 16 < 8 THEN 15 ELSE 0],
    [n \in 1 .. 32 |-> (n * 11) % 16]}

SpectrumLimits ==
    [threshold |-> 40, repetitions |-> 2, start_lag |-> 3, min_peak |-> 1, max_peak |-> 14,
     min_bandwidth |-> 2, autocorrelation |-> 112]

SeedBytes == [k \in 1 .. SeedLength |-> (37 * k + 11) % 256]

PromptLines == [NUKE_WALLET |-> <<5, 4>>, BACKUP_WALLET |-> <<4, 3>>, unknown |-> <<5, 4>>]

SendPieces == <<1, 2>>

FeePieces == <<3, 1>>

NoticePieces == <<2, 2, 3>>
-----------------------------------------------------------------------------
B == INSTANCE BigNum WITH W <- DigitBits, Size <- BigSize, N <- BigN,
        SizeComplement <- BigSizeComplement, Samples <- BigSamples

E == INSTANCE Ecdsa WITH Bits <- CurveBits, P <- CurveP, N <- CurveN, Gx <- CurveGx, Gy <- CurveGy

D == INSTANCE DerSignature WITH Size <- DerSize, W <- DerBits, phase <- derPhase, r <- derR

C == INSTANCE BaseConv WITH W <- ConvBits, phase <- convPhase, i <- convI

H == INSTANCE Hashing WITH stage <- hashStage, todo <- hashTodo, Lengths <- MessageLengths

K == INSTANCE KeyDerivation WITH plan <- keyPlan, out <- keyOut, outputs <- generated,
        HashLength <- HashLengths, Lengths <- SeedLengths, Seeds <- DOMAIN SeedLengths

Z == INSTANCE Compression WITH n <- hashBlocks, stage <- mixStage, Vectors <- KnownAnswers

X == INSTANCE Aes WITH job <- unit, Blocks <- Plaintexts, Keys <- KeyPairs, Numbers <- UnitNumbers,
        Seqs <- BlockCounts

N == INSTANCE Xex WITH Block <- BlockSize, Top <- AddressTop

T == INSTANCE Statistics WITH F <- StatFraction, HISTOGRAM_NUM_BINS <- StatBins,
        WordBits <- HistogramWord, SAMPLE_COUNT <- SampleCount, Limits <- HistogramLimits

F == INSTANCE Fourier WITH F <- FftFraction, HISTOGRAM_NUM_BINS <- FftBins, twiddle_factor_lookup <- Sines,
        Limits <- SpectrumLimits, Batches <- SampleBatches, stage <- fftStage, i <- fftI

S == INSTANCE HwRandom WITH SAMPLE_COUNT <- HwSamples, pc <- rngPc, result <- rngResult

M == INSTANCE Protobuf WITH WordBits <- UintBits, LongBits <- UlongBits, stage <- pbStage, message <- fields

P == INSTANCE Display WITH SEED_LENGTH <- SeedLength, seed <- SeedBytes, i <- displayI, denied <- refused,
        seen <- backedUp

L == INSTANCE Lcd WITH SEED_LENGTH <- LcdSeedLength, DEBOUNCE_COUNT <- LcdDebounce, Lines <- PromptLines,
        SignParts <- SendPieces, FeeParts <- FeePieces, NoticeParts <- NoticePieces,
        todo <- lcdTodo, request <- lcdRequest, i <- lcdI, byte_counter <- lcdByte,
        denied <- lcdDenied, seen <- lcdSeen

bVars == <<mem, args, before>>

eVars == <<field, acc, bits, job, result>>

dVars == <<derPhase, derR, s, signature, sequence_length>>

cVars == <<convPhase, number, quotient, convI, out>>

hVars == <<hs, message, hashStage, hashTodo, order, digest, first>>

kVars == <<hashed, cell, keyPlan, keyOut, given, generated, derived, calls>>

zVars == <<vector, hashBlocks, h, w, reg, t, mixStage>>

xVars == <<unit, plan, round, aes, expanded_key, delta, buffer>>

nVars == <<nv, key, access, got, seen, accesses>>

tVars == <<packed_histogram_buffer, histogram_overflow_occurred, samples_in_histogram,
    counted, tests_failed, moments>>

fVars == <<fftStage, fftI, data, psd_accumulator, psd_accumulator_error_occurred, source, batches, verdict>>

sVars == <<port, conversions, pending, running, adc_sample_buffer, current_index, full, rngPc, consumed,
    is_not_first_in_histogram, samples, taken, histogram, spectrum, rngResult, passed, handed, stale>>

mVars == <<pbStage, name, fields, sized, stream, ends, damage, payload, received>>

pVars == <<text_buffer, cursor_line, cursor_pos, gddram, pointer, on, todo, request, displayI, byte_counter, line_number,
    refused, written, backedUp>>

lVars == <<lcdTodo, lcdRequest, lcdI, lcdByte, line, current_column, max_line_size, ddram,
    scroll_pos, scroll_to_left, scroll_counter, accept_button, cancel_button, accept_debounce,
    cancel_debounce, current_accept_button, lcdDenied, ticks, disturbed, up, fresh, lcdSeen>>

bRest == mem = 0 /\ args = 0 /\ before = 0

eRest == field = 0 /\ acc = 0 /\ bits = 0 /\ job = 0 /\ result = 0

dRest == derPhase = 0 /\ derR = 0 /\ s = 0 /\ signature = 0 /\ sequence_length = 0

cRest == convPhase = 0 /\ number = 0 /\ quotient = 0 /\ convI = 0 /\ out = 0

promptRest ==
    /\ phase = "off" /\ command = 0 /\ list_index = 0 /\ transaction_fee_set = 0 /\ i = 0
    /\ counter = 0 /\ r = 0 /\ answers = 0 /\ quiet = 0

poolRest ==
    /\ stage = 0 /\ total_entropy = 0 /\ new = 0 /\ temporary = 0 /\ view = 0 /\ durable = 0 /\ pools = 0
    /\ outputs = 0 /\ repeated = FALSE

hRest ==
    /\ hs = 0 /\ message = 0 /\ hashStage = 0 /\ hashTodo = 0 /\ order = 0 /\ digest = 0
    /\ first = 0

kRest ==
    /\ hashed = 0 /\ cell = 0 /\ keyPlan = 0 /\ keyOut = 0 /\ given = 0 /\ generated = 0
    /\ derived = 0 /\ calls = 0

zRest ==
    /\ vector = 0 /\ hashBlocks = 0 /\ h = 0 /\ w = 0 /\ reg = 0 /\ t = 0 /\ mixStage = 0

xRest ==
    /\ unit = 0 /\ plan = 0 /\ round = 0 /\ aes = 0 /\ expanded_key = 0 /\ delta = 0
    /\ buffer = 0

nRest == nv = 0 /\ key = 0 /\ access = 0 /\ got = 0 /\ seen = 0 /\ accesses = 0

tRest ==
    /\ packed_histogram_buffer = 0 /\ histogram_overflow_occurred = 0
    /\ samples_in_histogram = 0 /\ counted = 0 /\ tests_failed = 0 /\ moments = 0

fRest ==
    /\ fftStage = 0 /\ fftI = 0 /\ data = 0 /\ psd_accumulator = 0
    /\ psd_accumulator_error_occurred = 0 /\ source = 0 /\ batches = 0 /\ verdict = 0

sRest ==
    /\ port = 0 /\ conversions = 0 /\ pending = 0 /\ running = 0 /\ adc_sample_buffer = 0
    /\ current_index = 0 /\ full = 0 /\ rngPc = 0 /\ consumed = 0
    /\ is_not_first_in_histogram = 0 /\ samples = 0 /\ taken = 0 /\ histogram = 0
    /\ spectrum = 0 /\ rngResult = 0 /\ passed = 0 /\ handed = 0 /\ stale = 0

mRest ==
    /\ pbStage = 0 /\ name = 0 /\ fields = 0 /\ sized = 0 /\ stream = 0 /\ ends = 0
    /\ damage = 0 /\ payload = 0 /\ received = 0

pRest ==
    /\ text_buffer = 0 /\ cursor_line = 0 /\ cursor_pos = 0 /\ gddram = 0 /\ pointer = 0
    /\ on = 0 /\ todo = 0 /\ request = 0 /\ displayI = 0 /\ byte_counter = 0 /\ line_number = 0
    /\ refused = 0 /\ written = 0 /\ backedUp = 0

lRest ==
    /\ lcdTodo = 0 /\ lcdRequest = 0 /\ lcdI = 0 /\ lcdByte = 0 /\ line = 0
    /\ current_column = 0 /\ max_line_size = 0 /\ ddram = 0 /\ scroll_pos = 0
    /\ scroll_to_left = 0 /\ scroll_counter = 0 /\ accept_button = 0 /\ cancel_button = 0
    /\ accept_debounce = 0 /\ cancel_debounce = 0 /\ current_accept_button = 0
    /\ lcdDenied = 0 /\ ticks = 0 /\ disturbed = 0 /\ up = 0 /\ fresh = 0 /\ lcdSeen = 0

Init ==
    /\ part \in {"bignum", "ecdsa", "der", "baseconv", "prompt", "entropy", "hashing",
                 "compression", "derivation", "cipher", "storage", "statistics", "spectrum", "samples",
                 "messages", "display", "lcd"}
    /\ IF part = "bignum" THEN B!Init ELSE bRest
    /\ IF part = "ecdsa" THEN E!Init ELSE eRest
    /\ IF part = "der" THEN D!Init ELSE dRest
    /\ IF part = "baseconv" THEN C!Init ELSE cRest
    /\ IF part = "prompt" THEN PromptInit ELSE promptRest
    /\ IF part = "entropy" THEN PoolInit ELSE poolRest
    /\ IF part = "hashing" THEN H!Init ELSE hRest
    /\ IF part = "compression" THEN Z!Init ELSE zRest
    /\ IF part = "derivation" THEN K!Init ELSE kRest
    /\ IF part = "cipher" THEN X!Init ELSE xRest
    /\ IF part = "storage" THEN N!Init ELSE nRest
    /\ IF part = "statistics" THEN T!Init ELSE tRest
    /\ IF part = "spectrum" THEN F!Init ELSE fRest
    /\ IF part = "samples" THEN S!Init ELSE sRest
    /\ IF part = "messages" THEN M!Init ELSE mRest
    /\ IF part = "display" THEN P!Init ELSE pRest
    /\ IF part = "lcd" THEN L!Init ELSE lRest

vars == <<part, bVars, eVars, dVars, cVars, promptVars, poolVars, hVars, zVars, kVars, xVars,
          nVars, tVars, fVars, sVars, mVars, pVars, lVars>>

(* Where a unit may stop: its job is done, or a bound is reached.          *)
Ended ==
    \/ part = "hashing" /\ hashStage = "done"
    \/ part = "compression" /\ mixStage = "done"
    \/ part = "derivation" /\ calls = MaxCalls /\ keyPlan = <<>>
    \/ part = "cipher" /\ plan = <<>>
    \/ part = "spectrum" /\ fftStage = "judged"
    \/ part = "samples" /\ conversions = MaxConversions
    \/ part = "messages" /\ pbStage = "received"
    \/ part = "display" /\ request.command = "halt"
    \/ part = "lcd" /\ (lcdRequest.command = "error" \/ disturbed # "nothing")

Next ==
    /\ UNCHANGED part
    /\ \/ /\ part = "bignum" /\ B!Next
          /\ UNCHANGED <<eVars, dVars, cVars, promptVars, poolVars, hVars, zVars, kVars, xVars, nVars,
                         tVars, fVars, sVars, mVars, pVars, lVars>>
       \/ /\ part = "ecdsa" /\ E!Next
          /\ UNCHANGED <<bVars, dVars, cVars, promptVars, poolVars, hVars, zVars, kVars, xVars, nVars,
                         tVars, fVars, sVars, mVars, pVars, lVars>>
       \/ /\ part = "der" /\ D!Next
          /\ UNCHANGED <<bVars, eVars, cVars, promptVars, poolVars, hVars, zVars, kVars, xVars, nVars,
                         tVars, fVars, sVars, mVars, pVars, lVars>>
       \/ /\ part = "baseconv" /\ C!Next
          /\ UNCHANGED <<bVars, eVars, dVars, promptVars, poolVars, hVars, zVars, kVars, xVars, nVars,
                         tVars, fVars, sVars, mVars, pVars, lVars>>
       \/ /\ part = "prompt" /\ PromptNext
          /\ UNCHANGED <<bVars, eVars, dVars, cVars, poolVars, hVars, zVars, kVars, xVars, nVars,
                         tVars, fVars, sVars, mVars, pVars, lVars>>
       \/ /\ part = "entropy" /\ PoolNext
          /\ UNCHANGED <<bVars, eVars, dVars, cVars, promptVars, hVars, zVars, kVars, xVars, nVars,
                         tVars, fVars, sVars, mVars, pVars, lVars>>
       \/ /\ part = "hashing" /\ H!Next
          /\ UNCHANGED <<bVars, eVars, dVars, cVars, promptVars, poolVars, zVars, kVars, xVars, nVars,
                         tVars, fVars, sVars, mVars, pVars, lVars>>
       \/ /\ part = "compression" /\ Z!Next
          /\ UNCHANGED <<bVars, eVars, dVars, cVars, promptVars, poolVars, hVars, kVars, xVars, nVars,
                         tVars, fVars, sVars, mVars, pVars, lVars>>
       \/ /\ part = "derivation" /\ K!Next
          /\ UNCHANGED <<bVars, eVars, dVars, cVars, promptVars, poolVars, hVars, zVars, xVars, nVars,
                         tVars, fVars, sVars, mVars, pVars, lVars>>
       \/ /\ part = "cipher" /\ X!Next
          /\ UNCHANGED <<bVars, eVars, dVars, cVars, promptVars, poolVars, hVars, zVars, kVars, nVars,
                         tVars, fVars, sVars, mVars, pVars, lVars>>
       \/ /\ part = "storage" /\ N!Next
          /\ UNCHANGED <<bVars, eVars, dVars, cVars, promptVars, poolVars, hVars, zVars, kVars, xVars,
                         tVars, fVars, sVars, mVars, pVars, lVars>>
       \/ /\ part = "statistics" /\ T!Next
          /\ UNCHANGED <<bVars, eVars, dVars, cVars, promptVars, poolVars, hVars, zVars, kVars, xVars,
                         nVars, fVars, sVars, mVars, pVars, lVars>>
       \/ /\ part = "spectrum" /\ F!Next
          /\ UNCHANGED <<bVars, eVars, dVars, cVars, promptVars, poolVars, hVars, zVars, kVars, xVars,
                         nVars, tVars, sVars, mVars, pVars, lVars>>
       \/ /\ part = "samples" /\ S!Next
          /\ UNCHANGED <<bVars, eVars, dVars, cVars, promptVars, poolVars, hVars, zVars, kVars, xVars,
                         nVars, tVars, fVars, mVars, pVars, lVars>>
       \/ /\ part = "messages" /\ M!Next
          /\ UNCHANGED <<bVars, eVars, dVars, cVars, promptVars, poolVars, hVars, zVars, kVars, xVars,
                         nVars, tVars, fVars, sVars, pVars, lVars>>
       \/ /\ part = "display" /\ P!Next
          /\ UNCHANGED <<bVars, eVars, dVars, cVars, promptVars, poolVars, hVars, zVars, kVars, xVars,
                         nVars, tVars, fVars, sVars, mVars, lVars>>
       \/ /\ part = "lcd" /\ L!Next
          /\ UNCHANGED <<bVars, eVars, dVars, cVars, promptVars, poolVars, hVars, zVars, kVars, xVars,
                         nVars, tVars, fVars, sVars, mVars, pVars>>
       \/ Ended /\ UNCHANGED vars

Spec == Init /\ [][Next]_vars
-----------------------------------------------------------------------------
(* The numeric code computes what it should.  The modular operations of    *)
(* bignum256.c are exact, also when an operand is the array of the result; *)
(* the packed histogram, the mean and the three higher moments, the        *)
(* entropy, the spectrum, the band around its peak and the autocorrelation *)
(* are those of the samples, up to rounding, or an error is noticed.       *)
ResultsAreRight ==
    /\ part = "bignum" => B!ResultIsExact
    /\ part = "statistics" => T!StatisticsAreRight
    /\ part = "spectrum" => F!SpectrumIsRight

(* A signature of ecdsaSign() satisfies the verification equation and has  *)
(* the smaller of the two values of s.                                     *)
SignatureVerifies == part = "ecdsa" => E!SignatureVerifies

(* A public key is the multiple of G, ecdsaSerialise() names it alone, and *)
(* the key 0 has none;                                                     *)
(* generateDeterministic256() and bip32DerivePrivate() compute in the      *)
(* field of the order of G, whatever was computed before them; distinct    *)
(* inputs of HMAC-DRBG and PBKDF2 give distinct states, outputs and keys   *)
(* if the hash functions have no collisions.                               *)
KeysAreDerived ==
    /\ part = "ecdsa" => E!DerivedKeys
    /\ part = "derivation" => K!KeysKeepApart

(* What is written reads back: the DER encoding of encapsulateSignature(), *)
(* the texts of amountToText() and hashToAddr(), the messages of           *)
(* pb_encode() (or their damage is noticed, unless they end inside a tag), *)
(* and the encrypted partition of xex.c, where accesses of any address and *)
(* length leave the other bytes alone.                                     *)
ReadsBack ==
    /\ part = "der" => D!DerReadsBack
    /\ part = "baseconv" => C!TextReadsBack
    /\ part = "messages" => M!MessagesReadBack
    /\ part = "storage" => N!EncryptedReadsBack

(* The hash functions pad and serialise as their standards say, for one    *)
(* hash and for two, their compression functions give the published hash   *)
(* values, and the AES and XEX of aes.c and xex.c encrypt a block as their *)
(* definitions do, key schedule and tweak included, and decrypt it.        *)
PrimitivesAreStandard ==
    /\ part = "hashing" => H!HashIsStandard
    /\ part = "compression" => Z!BlocksAreStandard
    /\ part = "cipher" => X!CipherIsStandard

(* hardwareRandom32Bytes() hands out no sample twice, though a buffer is    *)
(* used up over several calls, and reports entropy only for samples that   *)
(* passed the tests.                                                       *)
SamplesTested == part = "samples" => S!SamplesTested

(* When the user is asked, the display shows the whole question, and the   *)
(* backup of a seed is shown completely.  Excepted are the question mark   *)
(* of the longest "Send ... BTC to ...?" of the PIC32, which does not fit, *)
(* and two prompts of the AVR, "Delete existing wallet" and "Unknown       *)
(* command in userDenied()", which scrolling may disturb.                  *)
ShownWhenAsked ==
    /\ part = "display" => P!ShownWhenAsked
    /\ part = "lcd" => L!LcdShowsPrompt
=============================================================================
