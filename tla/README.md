# A verification of the hardware Bitcoin wallet

The firmware of a small device that keeps Bitcoin keys, parses transactions, asks
its user for consent and signs. These modules model its stateful parts in TLA+.
TLC checks them on small instances. TLAPS proves some of the results for every
value of the constants.

Paths are relative to `src/`.

## The system

| Part | Code | What it does |
|---|---|---|
| Wallet records | `wallet.c`, `wallet.h`, `storage_common.h` | loads, creates, updates and erases wallet records; one wallet is loaded at a time |
| Encrypted storage | `xex.c`, `aes.c` | XEX encryption of the second half of a record |
| Random numbers | `prandom.c`, `hmac_drbg.c`, `pbkdf2.c` | persistent entropy pool, deterministic keys, one-time passwords, key stretching |
| Messages | `stream_comm.c`, `messages.pb.*`, `pb_*.c` | receives a packet, runs the command, asks the user, answers |
| Transactions | `transaction.c` | parses and hashes a transaction while it streams in; encodes signatures |
| PIC32 memory | `pic32/nvmem_manager.c`, `pic32/sst25x.c` | write-back sector cache over a serial flash |
| PIC32 stream | `pic32/usb_hid_stream.c`, `pic32/usb_hal.c`, `pic32/usb_standard_requests.c`, `pic32/serial_fifo.c` | byte stream over USB HID reports |
| LPC11Uxx and AVR streams | `lpc11uxx/serial_fifo.c`, `lpc11uxx/usart.c`, `avr/usart.c` | byte streams over a UART, with acknowledgements |
| User interface | `*/user_interface.c`, `*/ssd1306.c`, `pic32/pushbuttons.c`, `avr/lcd_and_input.c` | display, prompts, buttons |
| Hardware random numbers | `*/hwrng.c`, `*/adc.c`, `statistics.c`, `fft.c`, `fix16.c` | samples noise and tests it before use |
| Arithmetic and text | `bignum256.c`, `ecdsa.c`, `bip32.c`, `baseconv.c` | big numbers, the curve, key derivation, amounts and addresses |
| Hashes | `hash.c`, `sha256.c`, `ripemd160.c`, `hmac_sha512.c` | buffering, padding, block functions |

`stream_comm.c` calls `wallet.c`, `transaction.c` and `prandom.c`. `wallet.c` and
`prandom.c` call the non-volatile memory through `hwinterface.h`.
`stream_comm.c` calls the byte stream through `streamGetOneByte()` and
`streamPutOneByte()`.

## Modules

| Module | Models | State | Actions |
|---|---|---|---|
| `NvStore` | the contract of non-volatile memory in `hwinterface.h` (abstract) | what reads return, what survives a power loss | write, work on an erase unit, flush, power loss |
| `NvMem` | `pic32/nvmem_manager.c` over `pic32/sst25x.c` | the chip, the cached sector, the call in progress | one per access to the chip, so that power can fail between any two |
| `Wallet_proofs`, `StreamComm_proofs`, `Transaction_proofs`, `HidStream_proofs`, `HidControl_proofs`, `SerialAvr_proofs`, `Serial_proofs`, `Units_proofs` | theorems about these modules | | |
| `Wallet` | `wallet.c` with what it uses of `xex.c` and `prandom.c` | memory as read and as durable, the loaded wallet, its key, the cached parent key | one per function of `wallet.h`, each with its error paths and with power loss inside it |
| `StreamComm` | `stream_comm.c` and the loop of `pb_decode.c` | both directions of the stream, the request, its interjections, session, approval, password hash | one per step between two blocking reads; a host that sends any packet on its turn |
| `Protobuf` | the tables of `messages.pb.c`, `pb_encode.c`, `pb_decode.c` | the message, the streams, what happened to it on the way | size, write a field, deliver, receive |
| `Transaction` | `parseTransaction()` and the list of the user interface | position in the data, counters, both hashes, the reference check, the fee | one per field, with the value that is read as its parameter and any of the sizes it may have; a step per byte that is only consumed |
| `HidStream` | the USB HID byte stream of the PIC32 port | FIFOs, flags of the driver, buffer descriptors, control transfer; the sizes and the kind of host never change | application, interrupt handler, host |
| `SerialLink` | the host of `avr/tester/hwb_tester.c`, the packets and the call in progress of both UART links | bytes on the line, counters of the host, what the application does | one per byte the host sends or reads |
| `SerialLpc` | `lpc11uxx/serial_fifo.c`, `lpc11uxx/usart.c` | both buffers, acknowledgement counters, sleep | application up to where interrupts are enabled again; interrupts |
| `SerialAvr` | `avr/usart.c` | both buffers, acknowledgement counters | the same, with two interrupt routines |
| `SerialLinks` | the two UART links side by side | which link (`part`), which windows are hit (`races`) | those of either link |
| `BigNum` | `bignum256.c`, digit by digit, operands may alias the result | the caller's arrays | one per function; a step per bit in `bigInvert()` |
| `Ecdsa` | `ecdsa.c`, `generateDeterministic256()`, `bip32DerivePrivate()` | the global field of `bignum256.c`, the accumulator | one per function; a step per bit of a scalar |
| `DerSignature` | `encapsulateSignature()` of `transaction.c` | the signature buffer | a step per byte removed |
| `BaseConv` | `baseconv.c` | the text being edited | a step per digit or character moved |
| `Prompt` | `userDenied()` and `pic32/pushbuttons.c` | debounce counter, prompts answered | a step per sample of the buttons |
| `Display` | `ssd1306.c` and `user_interface.c` of the PIC32 and LPC11Uxx ports | text buffer, cursor, memory of the controller | a step per call or per character |
| `Lcd` | `avr/lcd_and_input.c` and the AVR prompts | LCD memory, scrolling, debouncing | a step per character; the timer interrupt |
| `EntropyPool` | the pool of `prandom.c`, and its copy in RAM while `wallet.c` sanitises storage | pool and checksum as read and as durable, the copy | a step per memory operation or draw |
| `Hashing` | `hash.c` and the SHA-512 of `hmac_sha512.c` without the block functions | message buffer, length, output | a step per byte or word |
| `Compression` | the block functions of SHA-256, RIPEMD-160 and SHA-512 | schedule, registers | a step per word and per round |
| `KeyDerivation` | HMAC, `hmac_drbg.c`, `pbkdf2.c` over an ideal hash | key and v, what was hashed | a step per call of HMAC |
| `Aes` | `aes.c` and one block of `xex.c` | key schedule, state, tweak | a step per round |
| `Xex` | the accesses of `xex.c` to memory, over an ideal cipher | partition, key, access in progress | a step per block |
| `FixedPoint` | `fix16.c` (operators) | | |
| `Statistics` | the histogram and moments of `statistics.c`, the tests on them | packed words, counters | count, test, start over |
| `Fourier` | `fft.c`, the spectrum and autocorrelation of `statistics.c`, the tests on them | the buffer, the accumulated spectrum | a step per round of butterflies |
| `HwRandom` | `hwrng.c` and `adc.c` of the three ports | sample buffer, converter, caller | conversion, interrupt or DMA, each part of a call |
| `MC...` | instances for TLC | | |

Operators named "Mutation" in a comment are plausible bugs. Putting one in place of
the definition after it must make TLC report the property it is listed with in
`PROJECT.json`. They are part of no specification.

### How the modules fit together

`NvMem` is shown to implement `NvStore`. `Wallet`, `EntropyPool` and `Xex` are written
against that contract, not against the cache. They restate it over records, pools or
blocks rather than bytes, and this correspondence is by reading; no refinement is
checked. `EntropyPool` assumes more than `NvStore` promises: after an interrupted sector
write, the pool and its checksum are each old, new, or something that matches no
checksum. `NvStore` would also allow an older pool to reappear with a good checksum.

`StreamComm` takes the results of `wallet.c` and `transaction.c` as free choices, and
`Wallet` and `Transaction` say what those functions do. `SerialLpc` and `SerialAvr` are
each composed with the host of `SerialLink`, and share its variables in `SerialLinks`.
`Hashing` has an ideal block function and `Compression` the real ones; `Xex` has an
ideal cipher and `Aes` the real one; `HwRandom` leaves open what the tests say, and
`Statistics` and `Fourier` have them.

## Runs

Sizes are distinct states.

| Run | States | What it shows |
|---|---|---|
| `nvmem` | 28,472 | the cache implements the contract through failing erases, failing programs and power losses; reads that straddle the cached sector return the newest bytes |
| `wallet` | 124,161 | with one fault anywhere: what was reported as done is durable, RAM agrees with memory unless a write failed, an intact wallet opens, a deleted one is gone, a hidden one leaves no trace, one wallet leaves the other alone, the cached key is the loaded wallet's |
| `hid` | 2,393,986 | four hosts: received bytes arrive once and in order although acknowledgements are lost, and the FIFO has room for both endpoints; transmitted bytes arrive once and in order although "Get Report" takes them out of queued packets; a host that uses all endpoints at once meets no fatal error; whatever the host does, the driver's flags agree with the ownership of the buffers |
| `hid_live` | 59,871 | calls of the application return and control transfers end |
| `stream` | 609,185 | packets: turns are kept, nothing dangerous happens without its consents, approvals, passwords and sessions do not leak between requests, every packet is answered; bytes on both UART links: once and in order, acknowledgement counters agree, no call blocks for ever |
| `transaction` | 647,619 | the data is always read to its end and every byte of an accepted transaction is accounted for, inputs refer to transactions that were sent, what the user sees follows from the hash that is approved |
| `units` | 1,199,350 | the modules without a partner; see below |
| `wallet_sanitise_flush_error`, `hid_abandoned_transfer`, `stream_field_order`, `serial_notify_order`, `serial_lost_wakeup` | | violations; see Findings |

`units` and `stream` check components that share nothing: `part` selects one and the
others rest, so the states are the sum of theirs. `hid` selects its host by `env`.

`units` shows:

- `ResultsAreRight`: arithmetic is exact with aliased operands; histogram, moments,
  entropy, spectrum and autocorrelation are those of the samples up to rounding, or an
  overflow or a sample beyond the bins is noticed; the band and the largest
  autocorrelation are those of their definitions.
- `SignatureVerifies`: signatures verify and have the smaller `s`.
- `KeysAreDerived`: a public key is the multiple of G and its serialised form names that
  point alone; derived keys are computed modulo the order of G whatever field was
  left set, and `bip32DerivePrivate()` gives no key that is 0; distinct inputs of
  HMAC_DRBG and PBKDF2 give distinct states and keys.
- `ReadsBack`: the DER encoding, amounts, addresses, messages and the encrypted
  partition read back. Damaged messages are refused, or taken as the fields that came:
  a message that ends inside a tag is taken as the message before that tag.
- `AcceptedMeansAll`: acceptance needs a press of its own for every prompt.
- `NoOutputTwice`: no random number is returned twice, through failures, power losses and
  sanitising of the memory that holds the pool.
- `PrimitivesAreStandard`: padding and serialisation are those of the standards, block
  functions give the published values. The S-box, the key schedule, the cipher and its
  composition to XEX agree with definitions written from FIPS 197 and from XEX, and
  decryption undoes encryption.
- `SamplesTested`: no sample is handed out twice, although a buffer lasts for several
  calls, and entropy is reported only for samples that passed the tests.
- `ShownWhenAsked`: when the user is asked, the question is on the display, and a seed
  is shown completely.

### Bounds, and why they are enough

- `nvmem`: two sectors of two bytes, the partition border inside one. A call of three
  bytes hits, misses and evicts, and straddles both borders.
- `wallet`: two wallets (one to harm the other), one good and one degenerate seed, a
  password or none, one address at most, one fault. Sequences that need two faults are
  not explored. UUIDs, passwords and good seeds are symmetric. A `VIEW` merges states
  that differ in what nothing reads; the same run without it (2,030,007 states, about
  fifteen minutes) has the same result.
- `hid`, `hid_live`: reports of one or two bytes and FIFOs just above the headroom.
  Bytes are positions modulo a number larger than everything in flight.
- `stream`: every message ID, two transactions, two passwords, two one-time passwords,
  session ids shorter than the field and as long as it, messages that do not decode. On
  the UART links: buffers of 4 and 2 bytes, acknowledgements of one count byte after 2
  or 3 bytes, packets up to 2 bytes whose first byte looks like an acknowledgement, one
  line error. Intervals, buffers and packets all end at different bytes.
- `transaction`: one or two input transactions, of which the first or the second output
  is asked for (`OutputNumbers`), counts at and past each limit, amounts at the limit of
  the fee. Most fields have one byte and two have two (`FieldSizes`: one that is read
  whole and one that is read in pieces), so that lengths also end inside these.
- `units`, arithmetic and text: all operands of three 2-bit digits under n = 59; the
  curve of order 67 over the field of 79, with every nonce; all `r` and `s` of three
  2-bit digits; all 8-bit numbers in bases 5 and 11.
- `units`, primitives at their real sizes: messages of 0 to 130 bytes around the borders
  of a block; the published answers for "abc" and for a message of two blocks; AES-128
  with two plaintexts, two unit numbers and two places in the unit. With small sizes:
  HMAC_DRBG with 3 calls and PBKDF2 with 3 iterations; storage of 3 blocks of 2 bytes, 2
  keys, accesses of 0 to 4 bytes at every address.
- `units`, samples: 4 fraction bits, 8 bins of 2 bits in words of 5 bits (so that bins
  straddle words), 4 samples, one of them beyond the bins; 8 fraction bits, a transform
  of 16 entries, two batches of five kinds; a sample buffer of 4 that lasts for two calls
  of 2 samples, tests after 8 samples and 17 conversions, so that two rounds of tests and
  a third filling of the buffer happen.
- `units`, messages: every table, each field empty, at the border of a group of bits,
  and full; cut anywhere, with unknown fields or the beginning of one, a zero, a field
  twice or too long. Byte arrays take what their structure has room for on the 32-bit
  ports (`Align`): `pb_membersize()` counts the padding, so that 68 bytes fit a public key
  of 65 and 76 a signature of 73. The device only sends these two.
- `units`, user interface: debounce counts of 2 and 3, one and two outputs; a display of
  16 by 4 characters of 2 by 3 pixels; amounts and addresses of their least and greatest
  lengths; a seed of 64 bytes (5 on the LCD); LCD lines of 3 visible columns of 5; two
  initial pools with three outputs each.

A small field shows that the formulas and their special cases are right. It does not
check the constants of secp256k1 or the width of 256 bits.

### Fairness

- `hid_live`: the interrupt handler runs when its interrupt is pending. The application
  continues when its wait is over, because Timer2 wakes the processor even if the
  interrupt came before it idled (`pic32/pic32_system.c`). It keeps reading and
  answering, as `processPacket()` does. The host is assumed to poll endpoint 1, write
  to endpoint 2 and finish its transfers; strong fairness says that it does so as often
  as the device lets it. This part is an assumption about hosts.
- `stream`, packets: the device runs while it has power, and the host reads what it is
  sent. Nothing obliges the host to send.
- `stream`, UART links: the application runs unless it sleeps or waits, an interrupt that
  is pending and enabled is served, the transmitter shifts its byte out, and the host
  finishes the packet it began and reads what comes, as `hwb_tester.c` does. Nothing
  obliges it to begin one.
- `transaction`: the parser continues; the stream delivers what was announced.

## Proofs

`Units_proofs` proves about `NvMem`, for every sector size, memory size, partition border and byte
alphabet (`SizesAssumption`, `ErasedAssumption`):

- `TypeCorrect`: `Spec => []TypeOK`;
- `Refinement`: `Spec => ImplementsStore`, that is, the cache implements `NvStore`;
- `ReadsReturnView`: `Spec => []ReadReturnsView`, for reads of any length.

`TypeOK` is not inductive. A flush in progress writes back the cached sector, so the
cache must be known to be valid then, and the loop of `nonVolatileWrite()` must be
known to run for a write. `IInv` adds these two facts. Arithmetic lemmas
(`SectorArithmetic`, `Remainder`, `SectorInMemory`) say that a tag and an offset
determine an address. `NextStore` then maps each action to a step of `NvStore` or a
stutter: a cache hit to `Write`, erasing and programming to `Work` on one sector, a
verified flush to `Flush`.

`ReadsReturnView` is about a loop. `ReadSoFar` is the loop's invariant: the bytes joined so
far are the newest ones, and the group that is not yet read lies on the chip alone.
`ReadStepGood` keeps it, and an induction over the length (`SetInduction`, over a set
instead of a predicate) carries it to the end.

`Wallet_proofs` proves all properties of the run `wallet` for any number
of wallets, names, UUIDs, seeds, passwords, addresses and faults (`WalletAssumption`;
`JunkAssumption`: bytes that mean nothing are not the encryption of a record):

- `TypeCorrect`, `RamAgreesWithStore`, `SuccessSurvivesPowerLoss`, `HandlesSurvive`,
  `IntactRecordsOpen`, `CacheIsOfLoadedWallet`, `DeletionErases`: the invariants;
- `WalletsAreKept`, `HiddenStaysHidden`: the action properties.

None of these is inductive by itself. The argument rests on what a torn write can do: it
mixes fields of two memories, or erased fields, but never splits the encrypted half of a
record. So `IInv` speaks of every encrypted half, whether the record around it is intact
or not (`Good`): its checksum names a version and a UUID that fit its key, and its number
of addresses covers the handles given out. Both survive every mixture (`SpliceGood`),
hence every failed write, interrupted flush and sanitise (`PutsAreGood`,
`SanitiseWell`). In RAM, record and key fit each other even after a failed write, and the
stored record is an earlier state of the loaded wallet (`Behind`), with the same label if
it is hidden (`SameLabel`). After the lemmas about memory there is one lemma per function
of `wallet.h` (`initWalletInv` ... `queryInv`). The action properties need `IInv` and one more pass
over the functions (`NextLeaves`).

`StreamComm_proofs` proves, for any set of packets the host may send, of any length
(`PacketsAssumption`: a field can be told from a header; `NoneAssumption`: "none" is
not one of the three interjections):

- `ConsentComesFirst`: `Spec => []ConsentBeforeEffect`;
- `SignaturesAreApproved`: `Spec => SignedWasApproved`;
- `TurnsAreTaken`: `Spec => []TakeTurns`;
- `SessionsAreEchoed`: `Spec => []EchoedSession`;
- `PasswordsAreOwn`: `Spec => PasswordUsed`.

`IInv` says where a request stands while the device waits for an answer (`Waiting`): it
waits for interjection `stage + 1` of its command, and all earlier ones are among the
consents given for this request. `CommandFacts` says of the table of commands that what an
operation needs is among what its command asks for. For signatures, a valid
`prev_transaction_hash` is always one that was approved in this session.

The last three need `TurnsInv`. `Framing` says that a header in the stream is followed by
all fields of its packet, whatever the host sends. While the host has sent only what its
library writes, the conversation is in one of four phases (`InStep`): it is the host's
turn (`HostsTurn`), a whole packet is in the stream (`Underway`), the fields of a signing
request are being decoded (`Decoding`), or one answer is under way and the input is empty
(`Answered`). Each phase fixes the session id and the password hash from what the host
sent. There are three lemmas per action: `...Inv`, `...Typed` and `...InStep`.

`Transaction_proofs` proves all invariants of the run `transaction`, for any data, any
number of inputs and outputs, any amounts, any limits (`SizesAssumption`) and any sizes
of the fields (`FieldsAssumption`: a field without a varint has one size):

- `ParserTypes`: `Spec => []TypeOK`;
- `DataIsConsumed`: `Spec => []AllRead`, the end of the data and the account of its bytes;
- `ReferencesAreKnown`: `Spec => []InputsAreKnown`;
- `UserSeesTransaction`: `Spec => []ShownIsHashed`.

`AllRead` adds up sizes. `SizeInv` says how far the data has been read at each field: by
the sizes of the input transactions so far with their headers, and of what was hashed of
the present one. It needs the phases of `IInv`.

The last two speak only of accepted transactions, so `IInv` must say what holds at each
field before. `FieldsInv`: the two hashes agree on references, amounts and scripts, and
their numbers are those the counters say. `Phases`: between transactions, the fee so far
is the sum of the outputs that the references in `ref_compare_hash` name (`BetweenInv`);
inside an input transaction, plus the amount of the selected output once it is read
(`InputInv`); in the spending transaction, this sum is the fee plus the outputs read so
far, the list shows those outputs, and the references read are the first of those
collected (`SpendInv`). When the last field is read, both reference hashes are equal, so
the inputs of the spending transaction are those whose worth was summed (`AcceptedInv`).
`Values` and `Total` are recursive functions; `ValuesExist`, `TotalExist`, `ValuesAppend` and
`TotalAppend` say how they follow the data. One lemma per field (`...Phases`) keeps
`Phases`.

`HidStream_proofs` and `HidControl_proofs` prove, for any size of packet and FIFO, any
stream and any set of requests (`HidAssumption`):

- `FlagsAreTrue`: `Spec => []FlagsMatchHardware`, with any host;
- `ReportsAlwaysFit`: `Spec => []ReportsFit`, that is, `TypeOK` with any host, and room for
  every report that may come with a host that configures the device once;
- `NoErrorIsFatal`: `Spec => []NothingFatal`, with a well-behaved host, on all endpoints at
  once or on one at a time;
- `StreamsKeepOrder`: `Spec => []BytesInOrder`, with a well-behaved host that uses one
  endpoint at a time.

There are six invariants. Each of the first four rests on the one before, and the last two
on all of them.

- `IInv`, for the flags. It describes what the USB module still has to report to the
  interrupt handler (`Queue`: each buffer descriptor is given back once, and a SETUP packet
  is the last entry, since it stops the module), that a "Set Report" that is expected has its
  data packet handled before anything the host reads (`Expecting`), that nothing comes on
  the control endpoint while its receive is postponed (`Postponed`), and that the interrupt
  endpoints rest while the device is not configured (`Disabled`). A packet left over from
  an abandoned transfer may disturb the transmitting side of the control endpoint, and
  `Queue` leaves that side out.
- `Sized`, for the types. That U1STAT never holds more than four entries needs one more
  fact about that transmitting side (`ReadOnce`): the completion of a transmit is handled
  before the host can read another, even when it began a new transfer in between.
- `Fresh`, for the room. `ReceiveFits` is kept by the headroom of two packets, as long as
  a receive is queued by those who check it. Enabling endpoint 2 does not check, so
  `Fresh` says that the receive FIFO is empty until the device is configured.
- `InStep`, for the errors. While the host abandons nothing, device and host are at
  matching points of a control transfer: none is under way (`Resting`), a SETUP packet
  waits (`Beginning`), the request was refused (`Stalled`), a report or a descriptor is
  being read (`ReadingReport`, `ReadingDescriptor`), was read (`AllRead`), the host has
  confirmed that (`ReadConfirmed`), a report is to be written (`Writing`), was written
  (`Written`), the device confirms (`Confirming`), has confirmed (`Confirmed`). Each of
  these says who owns the buffers of endpoint 0, in which stage the driver is and how much
  it has still to transmit, and so rules out each `usbFatalError()` there. `ReceiveFits`
  rules out those of a full FIFO, and `FlagsMatchHardware` those of the interrupt endpoints.
- `Delivery` and `Alternating`, for the bytes that the host sends. The receive FIFO holds
  the bytes after those that the application has taken. Beyond that, either both ends agree
  on what has arrived (`Settled`), or a "Set Report" waits to be handled (`Reporting`), or
  a packet of endpoint 2 does (`Arriving`: a new one or a repetition, acknowledged or not),
  or a packet was stored and its acknowledgement lost (`Unanswered`). Each case fixes the
  data toggles of both ends, so that a repetition is told from a new packet. `Alternating`
  says that a control transfer starts only when all is acknowledged, and that the toggles
  are 0 until the device is configured.
- `Transmission`, for the bytes that the device sends. The report under construction, then
  the packet of endpoint 1, then the transmit FIFO hold the bytes from what the host has
  read to what the application has put. While a report lacks bytes, the other two are empty.

`Serial_proofs`, with the lemmas of `SerialAvr_proofs` about the link and the AVR, proves
`SerialKeepsOrder`: `SerialSpec => []StreamInOrder`, for both UART
links, any sizes of the buffers, any length of an acknowledgement and packets of any length
(`SerialAssumption`: an interval fits into an acknowledgement, and the first one into the
receive buffer). It assumes `"notify" \notin Races`, that no transmit interrupt hits the
window of `serialSendNotify()`: `serial_notify_order` shows that the order is lost
otherwise. Part "lpc windows" opens that window as well, with the one interrupt that does
the harm left out (`NotOvertaken`), and is covered by the theorem.

The invariant is about sequences. What is on its way to the device is the receive buffer
followed by the line, and what is on its way to the host is what it has not read, the line,
the byte that `serialSendNotify()` holds, the transmit buffer and what the application has
still to put. Taking a byte at one end and putting it at the next leaves this sequence as it
is, so most steps only move a border inside it, and the arithmetic of the circular buffers
is confined to the lemmas about one buffer (`Window`). `Link`, which both ports share, says
what the two sequences are:

- `Turns`: the reply begins when all of the request was read, and the counters of both
  ends stand between the lengths of the packet;
- `UpAgreed` or `UpAnswered`, to the device: either both ends will stop for an
  acknowledgement at the same byte of the reply and only bytes of the request are on their
  way, or the device waits and the acknowledgement comes before them;
- `DownAgreed` or `DownAnswered`, to the host: the same with the roles exchanged. What the
  device may receive before its next acknowledgement never exceeds the size of its buffer.

`AvrInv` and `LpcInv` add where the application is in its call, and on the LPC11Uxx that
`sanitiseRam()` keeps the counters while it clears memory (`saved`), that a byte is held
only in `serialSendNotify()` with its window open, and that a line error changes bytes but
not their number. TLC has
checked `SerialInv` as an invariant (461,549 states).

`Units_proofs` also proves two of the properties of `units`:

- `AcceptanceIsComplete`: `PromptSpec => []AcceptedMeansAll`, for every debounce count and
  number of outputs (`PromptAssumption`). `PromptInv` says that while a prompt waits, all
  answers before it accepted, and that the counter of `waitForNoButtonPress()` and the
  time without a press add up to at least `DEBOUNCE_COUNT`, so that no prompt takes a
  press before the buttons were released.
- `OutputsAreFresh`: `PoolSpec => []NoOutputTwice`, for every number of pools and amount of
  entropy (`EntropyAssumption`). Pools are numbered as they are made. `PoolInv` says that
  every pool in memory, cached or durable, is newer than all pools that have produced an
  output, that the pool about to produce one has been replaced in the flash, and that what
  the sanitiser has drawn lies between the outputs and its own pool.

Only model-checked:

- Liveness (`CallsReturn`, `TransfersEnd`, `AnswerArrives`, `PacketsAnswered`, `Returns`): fairness
  and ENABLED are out of the prover's reach.
- The properties of `units`, except `AcceptedMeansAll` and `NoOutputTwice`. They rest on
  RECURSIVE operators, which switch off the SMT solver, on bit operations, or on
  published values.

## Findings

- `wallet.c:541`: an error of `nonVolatileFlush()` is dropped in
  `sanitiseNonVolatileStorage()`, which then reports success while the version field
  holds random bytes, against the comment at `wallet.c:520`.
- `pic32/usb_standard_requests.c:492`: a control transfer that the host abandons after
  its reply was queued leaves the packet queued, and the next request halts the
  device, although the comment above calls such a transfer expected.
- `stream_comm.c:645`: `signTransactionCallback()` answers from inside `pb_decode()`.
  With a field after `transaction_data`, the packet is not yet read completely, against
  `stream_comm.c:868`.

- `lpc11uxx/usart.c:107`: in `serialSendNotify()`, interrupts are enabled between taking a
  byte out of the transmit buffer and writing it to the transmit register. A transmit
  interrupt there sends the next byte first, against the FIFO promised at
  `lpc11uxx/serial_fifo.c:3`.
- `lpc11uxx/serial_fifo.c:143`: a byte that arrives between the test for an empty buffer
  and `wfi` does not wake the processor. If it is the last of a packet, host and device
  wait for each other, against `lpc11uxx/serial_fifo.c:132`.

`stream` checks the LPC11Uxx link without interrupts in these two windows, and in
another part shows that with the windows the order is disturbed by the first only.

## Limits of what is shown

- `ReceiveFits` holds for a host that configures the device once and resets no bus
  (`ConfiguresOnce`), `NoFatalError` if it also abandons no transfer, loses no
  acknowledgement of endpoint 0 and asks for no descriptor of exactly the size that fills
  its packets (`WellBehaved`), and `BytesInOrder` if it also uses one endpoint at a time.
  For other hosts, the flags and the sizes are shown.
- The storage, key derivation and transaction modules take ciphers and hashes to be
  ideal: other keys read nothing, other contents have other hashes.
- `EntropyPool` takes each initial pool to be new. Its hardware generator always
  returns the same bytes, so that nothing rests on that generator. What the sanitiser
  draws counts once its pool is written back: when its work is cut short, the pool in
  memory may be the one its filler was drawn from.
- `Wallet` takes the encrypted half of a record as written at once, where
  `encryptedNonVolatileWrite()` writes blocks of 16 bytes. A half of which some blocks are
  new decrypts to a record with a wrong checksum, as `Junk` does; `Xex` has the blocks. It
  leaves out failures of the reads in `getNumberOfWallets()`, `getWalletInfo()` and the
  last step of `newWallet()`, which change nothing in memory.
- `Xex` takes a memory operation that fails to leave other blocks alone. The flush inside
  a failing write may lose the sector that was cached before; `NvMem` has that step.
- `StreamComm` abstracts a packet that lacks a required field to one that does not decode;
  `Protobuf` has the fields. A session id that was never set is "none".
- `HidStream` takes the packets of its hosts to be well-formed: reports of endpoint 2 have
  a length byte that fits, OUT packets outside a transfer are not 8 bytes long (such a
  packet is taken for a request, `pic32/usb_standard_requests.c:494`), and the USB module
  reports no error of its own. Each of the other cases ends in `usbFatalError()`
  (`pic32/usb_hal.c:385`, `pic32/usb_hid_stream.c:330`).
- `bip32DerivePrivate()` starts from a valid key; `bip32SeedToNode()` does not check
  that it makes one.
- The UART links assume that the receive interrupt is served before the next byte comes
  (`InTime`). One interrupt takes one byte; the loop at `lpc11uxx/usart.c:71` would find
  a second byte only if it were not.
- `fix16_mul()` without 64-bit products (`fix16.c:130`) wraps for some operands near the
  limits of the range. The property covers operands below half of it.
- `Lcd` assumes at most two timer interrupts while a string is written: 40 characters
  take 6.6 ms, and the timer fires every 5 ms. A scroll command may then fall inside a
  string only for the two texts of more than 16 characters, and those prompts are
  excepted.
- "Send <amount> BTC to <address>?" may have 65 characters on a display of 64. Only the
  question mark is lost, and the property allows that.

Met while modelling, without a property: a comment at `ecdsa.c:385` names bits2octets of
RFC 6979, but the hash is not reduced modulo the order; a stream that ends inside a tag
of several bytes ends the message for `pb_decode()` as if it had ended before it (`units`
has that case, and `ReadsBack` says so); `generateDeterministic256()` does not check
whether its key is 0; `getAddressAndPublicKey()` refuses the point at infinity; before the
first "Initialize" the echoed session id is empty, where `messages.proto:77` says "filled
with 00s";
`pb_dec_string()` compares `size + 1` modulo 2^32, so that the greatest length is refused
only by the read that follows (`pb_decode.c:868`); an access of length 0 at address 0
fails in `xex.c`; `userDenied()` of the AVR and LPC11Uxx ports
uses `ASKUSER_NUKE_WALLET`, which `hwinterface.h` no longer defines.

### Not modelled

- USB descriptors, string tables, the shapes of letters: constant tables.
- Start-up and set-up of registers, the serial transfer of a byte to a display or a
  flash chip, the device address and endpoint halt of the USB driver.
- `atsha204.c`: a bit-banged protocol that no other part of the program uses.
- The EEPROM code of the older ports: it does not implement the current interface.
- Extensions, fixed-width and zig-zag numbers in `pb_*.c`: no table uses them.
- `bip32SeedToNode()`, one call of HMAC, and `generateInsecureOTP()`, which falls back to
  constants.
- The 8-bit `fix16_mul()`, which no build selects.

## Plan

1. Show that the storage steps of `Wallet` and `EntropyPool` are sequences of steps of
   `NvStore`, at the level of bytes.
2. Compose `KeyDerivation` and `Ecdsa` along a whole path of `bip32DerivePrivate()`.
