----------------------------- MODULE HwRandom -----------------------------
(***************************************************************************)
(* hardwareRandom32Bytes() of the three ports, with the converter that     *)
(* works beside it.  A sample is the number of its conversion, 0 for none. *)
(*   pic32: DMA fills a buffer; SAMPLE_COUNT filtered samples are tested   *)
(*          before the first of them is returned.                          *)
(*   lpc:   an interrupt handler fills a buffer that is handed out while   *)
(*          it is counted; only the call that completes SAMPLE_COUNT tests *)
(*          them and earns entropy.                                        *)
(*   avr:   each sample is converted when it is needed, and not tested.    *)
(* Which samples pass the tests is left open (see Statistics, Fourier).    *)
(***************************************************************************)
EXTENDS Integers, Sequences, SequencesExt

CONSTANTS SAMPLE_COUNT, BufferSize, PerCall,
          MaxConversions    \* bound on the conversions of a behaviour

VARIABLES port,
          conversions, \* conversions so far
          pending,     \* the conversion whose interrupt or transfer is due, or 0
          running,     \* lpc: the timer runs; pic32: the DMA channel is enabled
          adc_sample_buffer, current_index, full,
          pc,          \* where the caller of hardwareRandom32Bytes() is
          consumed,    \* samples_consumed or sample_buffer_consumed
          is_not_first_in_histogram,
          samples,     \* pic32: the array of filtered samples
          taken,       \* samples put into the caller's buffer by this call
          histogram, spectrum,  \* the samples counted by each
          result,      \* what the last call returned
          passed,      \* did the samples in the array or the histogram pass the tests?
          handed,      \* history: samples handed out since the last test or refill
          stale        \* history: a conversion was handed out a second time

converter == <<conversions, pending, running, adc_sample_buffer, current_index, full>>
vars == <<port, converter, pc, consumed, is_not_first_in_histogram, samples, taken,
          histogram, spectrum, result, passed, handed, stale>>

Empty == [k \in 1 .. BufferSize |-> 0]

Init ==
    /\ port \in {"pic32", "lpc", "avr"}
    /\ conversions = 0 /\ pending = 0 /\ running = FALSE
    /\ adc_sample_buffer = Empty /\ current_index = 0 /\ full = FALSE
    /\ pc = "idle"
    /\ consumed = 0
    /\ is_not_first_in_histogram = FALSE
    /\ samples = <<>>
    /\ taken = <<>> /\ histogram = <<>> /\ spectrum = <<>>
    /\ result = -2
    /\ passed = FALSE
    /\ handed = <<>>
    /\ stale = FALSE

\* ------------------------------------------------------------ converter

\* Timer3 always triggers conversions on the PIC32, the timer of the LPC11Uxx only
\* while it is enabled.  A conversion that is not fetched in time is lost.
Convert ==
    /\ port = "pic32" \/ (port = "lpc" /\ running)
    /\ conversions < MaxConversions
    /\ conversions' = conversions + 1
    /\ pending' = conversions + 1
    /\ UNCHANGED <<port, running, adc_sample_buffer, current_index, full, pc, consumed,
                   is_not_first_in_histogram, samples, taken, histogram, spectrum,
                   result, passed, handed, stale>>

\* ADC_IRQHandler(): one interrupt more than samples stops the timer.
ADC_IRQHandler ==
    /\ port = "lpc"
    /\ pending # 0
    /\ pending' = 0
    /\ IF current_index >= BufferSize
       THEN /\ running' = FALSE
            /\ full' = TRUE
            /\ UNCHANGED <<adc_sample_buffer, current_index>>
       ELSE /\ adc_sample_buffer' = [adc_sample_buffer EXCEPT ![current_index + 1] = pending]
            /\ current_index' = current_index + 1
            /\ UNCHANGED <<running, full>>
    /\ UNCHANGED <<port, conversions, pc, consumed, is_not_first_in_histogram, samples,
                   taken, histogram, spectrum, result, passed, handed, stale>>

\* The channel set up by the PIC32's initADC(): one cell per conversion, and the
\* channel is disabled when the block is complete.
Transfer ==
    /\ port = "pic32"
    /\ pending # 0
    /\ pending' = 0
    /\ IF running
       THEN /\ adc_sample_buffer' = [adc_sample_buffer EXCEPT ![current_index + 1] = pending]
            /\ current_index' = (current_index + 1) % BufferSize
            /\ running' = (current_index + 1 < BufferSize)
            /\ full' = (full \/ current_index + 1 = BufferSize)
       ELSE UNCHANGED <<adc_sample_buffer, current_index, running, full>>
    /\ UNCHANGED <<port, conversions, pc, consumed, is_not_first_in_histogram, samples,
                   taken, histogram, spectrum, result, passed, handed, stale>>

\* Mutation: the flag of the last fill is left set.
FillStillFull ==
    /\ current_index' = 0
    /\ running' = TRUE
    /\ UNCHANGED <<conversions, pending, adc_sample_buffer, full>>

\* beginFillingADCBuffer() of both ports, with interrupts disabled.
beginFillingADCBuffer ==
    /\ current_index' = 0
    /\ full' = FALSE
    /\ running' = TRUE
    /\ UNCHANGED <<conversions, pending, adc_sample_buffer>>

\* ---------------------------------------------------------------- calls

\* A sample goes into the caller's buffer.
HandOut(sample) ==
    /\ taken' = Append(taken, sample)
    /\ handed' = Append(handed, sample)
    /\ stale' = (stale \/ sample = 0 \/ \E k \in 1 .. Len(handed) : handed[k] >= sample)

Return(value) ==
    /\ pc' = "idle"
    /\ result' = value

\* --- pic32

\* The head of hardwareRandom32Bytes() and of fillAndTestSamplesArray().
CallPic32 ==
    /\ port = "pic32" /\ pc = "idle"
    /\ taken' = <<>>
    /\ result' = -2
    /\ IF consumed = 0 \/ consumed >= SAMPLE_COUNT
       THEN /\ histogram' = <<>> /\ spectrum' = <<>>
            /\ consumed' = 0
            /\ samples' = <<>>
            /\ handed' = <<>>
            /\ passed' = FALSE
            /\ pc' = "fill"
       ELSE /\ pc' = "hand out"
            /\ UNCHANGED <<histogram, spectrum, consumed, samples, passed, handed>>
    /\ UNCHANGED <<port, converter, is_not_first_in_histogram, stale>>

BeginFill ==
    /\ pc = "fill"
    /\ beginFillingADCBuffer
    /\ pc' = "wait"
    /\ UNCHANGED <<port, consumed, is_not_first_in_histogram, samples, taken, histogram,
                   spectrum, result, passed, handed, stale>>

\* Filter and decimate by two: a filtered sample is named after the conversion at the
\* centre of its filter.
firFilter == [j \in 1 .. BufferSize \div 2 |-> adc_sample_buffer[2 * j - 1]]

\* The wait for isADCBufferFull() ends.
Filter ==
    /\ port = "pic32" /\ pc = "wait"
    /\ full
    /\ samples' = samples \o firFilter
    /\ pc' = IF Len(samples') < SAMPLE_COUNT THEN "fill" ELSE "test"
    /\ UNCHANGED <<port, converter, consumed, is_not_first_in_histogram, taken,
                   histogram, spectrum, result, passed, handed, stale>>

\* Mutation: samples are returned although they failed the tests.
TestIgnored ==
    /\ pc = "test"
    /\ histogram' = samples /\ spectrum' = samples
    /\ pc' = "hand out"
    /\ passed' \in BOOLEAN
    /\ UNCHANGED result
    /\ UNCHANGED <<port, converter, consumed, is_not_first_in_histogram, samples, taken,
                   handed, stale>>

\* The rest of fillAndTestSamplesArray(); after a failure samples_consumed is still 0.
Test ==
    /\ pc = "test"
    /\ histogram' = samples /\ spectrum' = samples
    /\ passed' \in BOOLEAN
    /\ IF passed' THEN pc' = "hand out" /\ UNCHANGED result ELSE Return(-1)
    /\ UNCHANGED <<port, converter, consumed, is_not_first_in_histogram, samples, taken,
                   handed, stale>>

HandOutPic32 ==
    /\ port = "pic32" /\ pc = "hand out"
    /\ HandOut(samples[consumed + 1])
    /\ consumed' = consumed + 1
    /\ IF Len(taken') < PerCall THEN UNCHANGED <<pc, result>> ELSE Return(1)
    /\ UNCHANGED <<port, converter, is_not_first_in_histogram, samples, histogram,
                   spectrum, passed>>

\* --- lpc

\* Mutation: each call reads the buffer from its start.
CallFromStart ==
    /\ port = "lpc" /\ pc = "idle"
    /\ taken' = <<>>
    /\ result' = -2
    /\ consumed' = 0
    /\ IF is_not_first_in_histogram
       THEN UNCHANGED <<histogram, spectrum, converter, passed, handed,
                        is_not_first_in_histogram>>
       ELSE /\ histogram' = <<>> /\ spectrum' = <<>>
            /\ beginFillingADCBuffer
            /\ passed' = FALSE
            /\ handed' = <<>>
            /\ is_not_first_in_histogram' = TRUE
    /\ pc' = "wait"
    /\ UNCHANGED <<port, samples, stale>>

\* Up to the wait for a full buffer; a buffer partly used needs none.
CallLpc ==
    /\ port = "lpc" /\ pc = "idle"
    /\ taken' = <<>>
    /\ result' = -2
    /\ IF is_not_first_in_histogram
       THEN UNCHANGED <<histogram, spectrum, consumed, converter, passed, handed,
                        is_not_first_in_histogram>>
       ELSE /\ histogram' = <<>> /\ spectrum' = <<>>
            /\ consumed' = 0
            /\ beginFillingADCBuffer
            /\ passed' = FALSE
            /\ handed' = <<>>
            /\ is_not_first_in_histogram' = TRUE
    /\ pc' = IF consumed' = 0 THEN "wait" ELSE "hand out"
    /\ UNCHANGED <<port, samples, stale>>

Awake ==
    /\ port = "lpc" /\ pc = "wait"
    /\ full
    /\ pc' = "hand out"
    /\ UNCHANGED <<port, converter, consumed, is_not_first_in_histogram, samples, taken,
                   histogram, spectrum, result, passed, handed, stale>>

HandOutLpc ==
    /\ port = "lpc" /\ pc = "hand out"
    /\ LET sample == adc_sample_buffer[consumed + 1] IN
       /\ HandOut(sample)
       /\ histogram' = Append(histogram, sample)
    /\ consumed' = consumed + 1
    /\ pc' = IF Len(taken') < PerCall THEN "hand out" ELSE "spectrum"
    /\ UNCHANGED <<port, converter, is_not_first_in_histogram, samples, spectrum, result,
                   passed>>

\* A buffer used up goes into the spectrum, and the next one is started.
Spectrum ==
    /\ pc = "spectrum"
    /\ IF consumed >= BufferSize
       THEN /\ spectrum' = spectrum \o adc_sample_buffer
            /\ consumed' = 0
            /\ beginFillingADCBuffer
       ELSE UNCHANGED <<spectrum, consumed, converter>>
    /\ pc' = "judge"
    /\ UNCHANGED <<port, is_not_first_in_histogram, samples, taken, histogram, result,
                   passed, handed, stale>>

Judge ==
    /\ pc = "judge"
    /\ IF Len(histogram) >= SAMPLE_COUNT
       THEN /\ is_not_first_in_histogram' = FALSE
            /\ passed' \in BOOLEAN
            /\ Return(IF passed' THEN 1 ELSE -1)
       ELSE Return(0) /\ UNCHANGED <<is_not_first_in_histogram, passed>>
    /\ UNCHANGED <<port, converter, consumed, samples, taken, histogram, spectrum,
                   handed, stale>>

\* --- avr

CallAvr ==
    /\ port = "avr" /\ pc = "idle"
    /\ pc' = "hand out"
    /\ taken' = <<>> /\ handed' = <<>>
    /\ result' = -2
    /\ UNCHANGED <<port, converter, consumed, is_not_first_in_histogram, samples,
                   histogram, spectrum, passed, stale>>

\* adcSample() starts a conversion and waits for it.
adcSample ==
    /\ port = "avr" /\ pc = "hand out"
    /\ conversions < MaxConversions
    /\ conversions' = conversions + 1
    /\ HandOut(conversions + 1)
    /\ IF Len(taken') < PerCall THEN UNCHANGED <<pc, result>> ELSE Return(1)
    /\ UNCHANGED <<port, pending, running, adc_sample_buffer, current_index, full, consumed,
                   is_not_first_in_histogram, samples, histogram, spectrum, passed>>

Next ==
    \/ Convert \/ ADC_IRQHandler \/ Transfer
    \/ CallPic32 \/ BeginFill \/ Filter \/ Test \/ HandOutPic32
    \/ CallLpc \/ Awake \/ HandOutLpc \/ Spectrum \/ Judge
    \/ CallAvr \/ adcSample

Spec == Init /\ [][Next]_vars

\* ----------------------------------------------------------- properties

\* hwrng.c, adc.c: no conversion is handed out twice, although a buffer is read over
\* several calls and the converter refills it beside them.  Where samples are tested, entropy is credited only
\* for samples that were: on the PIC32 what is handed out is a part of the tested
\* array, on the LPC11Uxx what was handed out since the last verdict is exactly what
\* the histogram and the spectrum saw.
SamplesTested ==
    /\ ~stale
    /\ port = "pic32" /\ handed # <<>> =>
          /\ IsPrefix(handed, samples)
          /\ Len(samples) = SAMPLE_COUNT
          /\ histogram = samples /\ spectrum = samples
          /\ passed
    /\ port = "lpc" /\ pc = "idle" /\ result \in {-1, 1} =>
          /\ Len(handed) = SAMPLE_COUNT
          /\ histogram = handed /\ spectrum = handed
          /\ result = 1 => passed
=============================================================================
