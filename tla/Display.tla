------------------------------ MODULE Display ------------------------------
(***************************************************************************)
(* The display of the PIC32 and LPC11Uxx ports: the text buffer and the    *)
(* renderer of ssd1306.c, which the two ports share line by line, and what *)
(* user_interface.c draws with it: prompts, one-time passwords, the backup *)
(* of a seed and the notice of a stream error.                             *)
(*                                                                         *)
(* A step is one call of ssd1306.c, or one character of a text; the calls  *)
(* that remain are in todo.  A text is given by the lengths of its words,  *)
(* and a pixel by the number of the bit of font_table it comes from, so    *)
(* that no two are alike.  Buttons are answers here; Prompt has their      *)
(* debouncing.                                                             *)
(***************************************************************************)
EXTENDS Integers, Sequences, SequencesExt

CONSTANTS
    CHARACTERS_PER_LINE, NUMBER_OF_LINES,
    CHARACTER_WIDTH, CHARACTER_HEIGHT,
    ByteBits,           \* pixels in a byte of display memory
    SEED_LENGTH, seed,  \* the seed that is backed up, a sequence of bytes
    Amounts, Addresses, \* lengths of amounts and addresses, as text
    MaxListed           \* bound on the outputs of a transaction

VARIABLES
    text_buffer, cursor_line, cursor_pos,
    gddram, pointer, on,    \* the SSD1306: memory, where it writes next, display on
    todo,                   \* calls that are left before the next decision
    request, i,             \* what is being shown, and how far it is
    byte_counter, line_number,
    denied,                 \* what was returned last
    written, seen           \* history: text since the display was cleared; bytes the user has confirmed

vars == <<text_buffer, cursor_line, cursor_pos, gddram, pointer, on, todo, request, i,
    byte_counter, line_number, denied, written, seen>>

buffer == <<text_buffer, cursor_line, cursor_pos>>

backup == <<byte_counter, line_number>>

FONT_BLANK == 32
FONT_TABLE_START == 32
FONT_CHARACTERS == 96
CHARACTER_BITS == CHARACTER_WIDTH * CHARACTER_HEIGHT
DISPLAY_WIDTH == CHARACTERS_PER_LINE * CHARACTER_WIDTH
DISPLAY_HEIGHT == NUMBER_OF_LINES * CHARACTER_HEIGHT
Pages == DISPLAY_HEIGHT \div ByteBits
Size == DISPLAY_WIDTH * Pages
-----------------------------------------------------------------------------
(* The controller, with vertical addressing: the pointer moves down a      *)
(* column and then to the next one, and wraps at the end.                  *)
writeSPIData(data) ==
    /\ gddram' = [a \in DOMAIN gddram |->
                    LET k == 1 + ((a - pointer) % Size)
                    IN  IF k <= Len(data) THEN data[k] ELSE gddram[a]]
    /\ pointer' = (pointer + Len(data)) % Size

NoPixels == [k \in 0 .. ByteBits - 1 |-> 0]

resetSSD1306 == on' = FALSE /\ pointer' = 0 /\ UNCHANGED <<gddram, buffer>>

(* Mutation: one byte of the display memory is left out. *)
ClearAllButOne == [k \in 1 .. Size - 1 |-> NoPixels]

ClearedBytes == [k \in 1 .. Size |-> NoPixels]

clearDisplay ==
    /\ writeSPIData(ClearedBytes)
    /\ cursor_line' = 0 /\ cursor_pos' = 0
    /\ text_buffer' = [k \in DOMAIN text_buffer |-> FONT_BLANK]

(* A bit of font_table.  The bitmap of a blank is all zero. *)
FontBit(k) == IF k \in CHARACTER_BITS .. FONT_CHARACTERS * CHARACTER_BITS - 1 THEN k ELSE 0

lookupFontTable(bit_offset) ==
    IF bit_offset \div ByteBits >= (FONT_CHARACTERS * CHARACTER_BITS) \div ByteBits
    THEN NoPixels
    ELSE [k \in 0 .. ByteBits - 1 |-> FontBit(bit_offset + k)]

lookupTextBuffer(text, char_x, char_y) ==
    IF char_x >= CHARACTERS_PER_LINE \/ char_y >= NUMBER_OF_LINES
    THEN FONT_BLANK - FONT_TABLE_START
    ELSE LET data == text[CHARACTERS_PER_LINE * char_y + char_x]
         IN  (IF data < FONT_TABLE_START THEN FONT_BLANK ELSE data) - FONT_TABLE_START

(* char_y and char_y_offset at the p-th byte of a column. *)
Row[p \in Nat] ==
    IF p = 0 THEN [char_y |-> 0, offset |-> 0]
    ELSE LET row == Row[p - 1]
             next == row.offset + ByteBits
         IN  IF next >= CHARACTER_HEIGHT
             THEN [char_y |-> row.char_y + 1, offset |-> next - CHARACTER_HEIGHT]
             ELSE [row EXCEPT !.offset = next]

(* Mutation: a byte never reaches into the next character. *)
OneCharacter(text, x, p) ==
    LET row == Row[p]
        glyph == lookupTextBuffer(text, x \div CHARACTER_WIDTH, row.char_y) * CHARACTER_BITS
    IN  lookupFontTable(glyph + row.offset + ((x % CHARACTER_WIDTH) * CHARACTER_HEIGHT))

(* One byte of a column.  It may reach into the character below. *)
RenderByte(text, x, p) ==
    LET char_x == x \div CHARACTER_WIDTH
        column == (x % CHARACTER_WIDTH) * CHARACTER_HEIGHT
        row == Row[p]
        Glyph(char_y) == lookupTextBuffer(text, char_x, char_y) * CHARACTER_BITS + column
        data == lookupFontTable(Glyph(row.char_y) + row.offset)
        temp_data == lookupFontTable(Glyph(row.char_y + 1))
        amount == IF row.offset + ByteBits > CHARACTER_HEIGHT
                  THEN CHARACTER_HEIGHT - row.offset ELSE ByteBits
    IN  [k \in 0 .. ByteBits - 1 |-> IF k < amount THEN data[k] ELSE temp_data[k - amount]]

renderDisplay(text) ==
    writeSPIData([k \in 1 .. Size |-> RenderByte(text, (k - 1) \div Pages, (k - 1) % Pages)])
-----------------------------------------------------------------------------
(* The text buffer and its cursor, as one record. *)
Buffer == [text |-> text_buffer, line |-> cursor_line, pos |-> cursor_pos]

nextLine(b) == IF b.pos # 0 THEN [b EXCEPT !.line = @ + 1, !.pos = 0] ELSE b

writeCharacterToTextBuffer(buf, c) ==
    LET b == IF buf.pos >= CHARACTERS_PER_LINE THEN nextLine(buf) ELSE buf
        placed == [text |-> [b.text EXCEPT ![b.line * CHARACTERS_PER_LINE + b.pos] = c],
                   line |-> b.line, pos |-> b.pos + 1]
    IN  IF b.line >= NUMBER_OF_LINES THEN b
        ELSE IF placed.pos >= CHARACTERS_PER_LINE THEN nextLine(placed) ELSE placed

getWordLength(str) ==
    IF \E k \in DOMAIN str : str[k] = FONT_BLANK
    THEN (CHOOSE k \in DOMAIN str : str[k] = FONT_BLANK /\ \A j \in 1 .. k - 1 : str[j] # FONT_BLANK) - 1
    ELSE Len(str)

(* Mutation: a word that ends at the end of a line is moved to the next. *)
WrapEarly(pos, length) == pos + length >= CHARACTERS_PER_LINE

MustWrap(pos, length) == pos + length > CHARACTERS_PER_LINE

(* The next character of the string of a call.  Word wrapping starts a     *)
(* line when the word that begins here does not fit, and drops spaces at   *)
(* the start of a line.                                                    *)
WrapBefore(call) ==
    IF call.op = "wrap" /\ call.word = 0 /\ MustWrap(cursor_pos, getWordLength(call.text))
    THEN nextLine(Buffer) ELSE Buffer

Written(call) ==
    LET b == WrapBefore(call)
    IN  IF call.op = "wrap" /\ Head(call.text) = FONT_BLANK /\ b.pos = 0 THEN b
        ELSE writeCharacterToTextBuffer(b, Head(call.text))

Rest(call) == [call EXCEPT !.text = Tail(@),
                           !.word = IF Head(call.text) = FONT_BLANK THEN 0
                                    ELSE IF @ = 0 THEN getWordLength(call.text) - 1 ELSE @ - 1]

WriteCharacter ==
    /\ todo # <<>> /\ Head(todo).op \in {"write", "wrap"} /\ Head(todo).text # <<>>
    /\ LET b == Written(Head(todo))
       IN  text_buffer' = b.text /\ cursor_line' = b.line /\ cursor_pos' = b.pos
    /\ written' = Append(written, Head(Head(todo).text))
    /\ todo' = <<Rest(Head(todo))>> \o Tail(todo)
    /\ UNCHANGED <<gddram, pointer, on, request, i, backup, denied, seen>>

displayCursorAtEnd ==
    \/ cursor_line >= NUMBER_OF_LINES
    \/ cursor_line = NUMBER_OF_LINES - 1 /\ cursor_pos >= CHARACTERS_PER_LINE
-----------------------------------------------------------------------------
(* A text of words of these lengths, separated by spaces.  Its letters are *)
(* all different; n letters come before it in the same prompt.             *)
Text(words, n) ==
    Tail(FoldLeft(LAMBDA t, w : t \o <<FONT_BLANK>> \o [k \in 1 .. w |-> FONT_BLANK + n + Len(t) + k],
                  <<>>, words))

Call(op, text) == [op |-> op, text |-> text, word |-> 0]

Do(op) == <<Call(op, <<>>)>>

Wrapped(words) == <<Call("wrap", Text(words, 0))>>

(* The words of displayAction(). *)
Actions == [
    NEW_WALLET |-> <<6, 3, 7>>, NEW_ADDRESS |-> <<6, 3, 8>>, FORMAT |-> <<6, 8>>,
    CHANGE_NAME |-> <<6, 6, 5>>, BACKUP_WALLET |-> <<6, 7>>, RESTORE_WALLET |-> <<7, 6, 4, 7>>,
    CHANGE_KEY |-> <<6, 6, 10, 4>>, GET_MASTER_KEY |-> <<6, 6, 6, 4>>, DELETE_WALLET |-> <<6, 8, 7>>]

(* What the LPC11Uxx port asks with one prompt. *)
Questions == [
    NUKE_WALLET |-> <<6, 7, 6, 3, 6, 3, 4>>, NEW_ADDRESS |-> <<6, 3, 8>>,
    CHANGE_NAME |-> <<6, 3, 4, 2, 3, 7, 7>>, BACKUP_WALLET |-> <<2, 3, 4, 2, 6, 3, 7, 7>>,
    RESTORE_WALLET |-> <<6, 7, 6, 3, 7, 4, 1, 7>>, CHANGE_KEY |-> <<6, 3, 10, 3, 2, 3, 7, 7>>,
    GET_MASTER_KEY |-> <<6, 6, 6, 3, 2, 5>>]

FormatPrompts == <<<<6, 8, 4, 4, 6, 11>>, <<3, 3, 4, 3, 3, 4, 2, 4, 3, 8>>, <<3, 3, 6, 6, 5>>>>

UnknownCommand == <<7, 7, 2, 13, 5, 3, 6, 2, 11>>

Outputs == UNION {[1 .. n -> Amounts \X Addresses] : n \in 0 .. MaxListed}

Requests ==
    [command : DOMAIN Actions \ {"FORMAT"}, port : {"PIC32"}]
    \union [command : DOMAIN Questions, port : {"LPC11Uxx"}]
    \union [command : {"FORMAT", "unknown"}, port : {"PIC32", "LPC11Uxx"}]
    \union [command : {"halt"}, port : {"LPC11Uxx"}]
    \union [command : {"SIGN_TRANSACTION"}, outputs : Outputs, fee : Amounts \union {0}]
    \union [command : {"OTP"}, action : DOMAIN Actions]
    \union [command : {"seed"}, is_encrypted : BOOLEAN, destination_device : {0, 1}]

(* writeStringToDisplay() of several texts in a row. *)
Strings(parts) ==
    FoldLeft(LAMBDA calls, words :
                Append(calls, Call("write", Text(words, FoldLeft(LAMBDA n, c : n + Len(c.text), 0, calls)))),
             <<>>, parts)

(* "Send <amount> BTC to <address>?" *)
SendPrompt(output) ==
    Do("clear") \o Strings(<<<<4, 0>>, <<output[1]>>, <<0, 3, 2, 0>>, <<output[2]>>, <<1>>>>)

(* "Transaction fee:", the amount and "Is this okay?", each on its line. *)
FeePrompt(amount) ==
    LET calls == Strings(<<<<11, 4>>, <<amount>>, <<0, 4>>, <<2, 4, 5>>>>)
    IN  Do("clear") \o <<calls[1]>> \o Do("nextline") \o <<calls[2], calls[3]>> \o Do("nextline")
        \o <<calls[4]>>

(* The prompts of userDenied(), in order. *)
Prompts(q) ==
    CASE q.command = "SIGN_TRANSACTION" ->
            [k \in DOMAIN q.outputs |-> SendPrompt(q.outputs[k])]
            \o (IF q.outputs # <<>> /\ q.fee # 0 THEN <<FeePrompt(q.fee)>> ELSE <<>>)
      [] q.command = "FORMAT" ->
            [k \in DOMAIN FormatPrompts |-> (IF k = 1 THEN <<>> ELSE Do("clear")) \o Wrapped(FormatPrompts[k])]
      [] q.command = "unknown" -> <<Wrapped(UnknownCommand)>>
      [] OTHER -> <<Wrapped(IF q.port = "PIC32" THEN Actions[q.command] ELSE Questions[q.command])>>

Finish == Do("clear") \o Do("off") \o Do("return")

Prompt(q, k) == IF k <= Len(Prompts(q)) THEN Prompts(q)[k] \o Do("press") ELSE Finish
-----------------------------------------------------------------------------
Idle == [command |-> "none"]

(* Display memory is undefined after power up.  initSSD1306() is called. *)
Init ==
    /\ text_buffer = [k \in 0 .. CHARACTERS_PER_LINE * NUMBER_OF_LINES - 1 |-> 0]
    /\ cursor_line = 0 /\ cursor_pos = 0
    /\ gddram = [a \in 0 .. Size - 1 |-> [k \in 0 .. ByteBits - 1 |-> -1]]
    /\ pointer = 0 /\ on = FALSE
    /\ todo = Do("reset") \o Do("clear") \o Do("return")
    /\ request = Idle /\ i = 0 /\ byte_counter = 0 /\ line_number = 0
    /\ denied = TRUE /\ written = <<>> /\ seen = <<>>

userDenied(q) == Do("clear") \o Do("on") \o Prompt(q, 1)

displayOTP(action) ==
    LET text == Text(Actions[action], 0)
    IN  Do("clear") \o Do("on") \o <<Call("wrap", text)>> \o Do("nextline")
        \o <<Call("write", Text(<<4, 0>>, Len(text))), Call("write", Text(<<8>>, Len(text) + 5))>>
        \o Do("host")

clearOTP == Finish

streamError == Do("clear") \o Do("on") \o Wrapped(<<10, 14, 6, 8>>) \o Do("halt")

(* writeBackupSeed() first says whether the seed is encrypted. *)
writeBackupSeed(q) ==
    IF q.destination_device # 0 THEN Do("return")
    ELSE Do("clear") \o Do("on") \o Wrapped(IF q.is_encrypted THEN <<6, 2, 10>> ELSE <<6, 2, 3, 10>>)
         \o Do("press")

Begin(q) ==
    /\ todo = <<>> /\ request = Idle
    /\ request' = q /\ i' = IF q.command = "seed" THEN 0 ELSE 1
    /\ todo' = CASE q.command = "OTP" -> displayOTP(q.action)
                 [] q.command = "seed" -> writeBackupSeed(q)
                 [] q.command = "halt" -> streamError
                 [] OTHER -> userDenied(q)
    /\ byte_counter' = 0 /\ line_number' = 0 /\ denied' = TRUE /\ seen' = <<>>
    /\ UNCHANGED <<buffer, gddram, pointer, on, written>>

(* The next call, when it is one of ssd1306.c. *)
Execute ==
    /\ todo # <<>> /\ todo' = Tail(todo)
    /\ LET call == Head(todo) IN
       \/ call.op = "reset" /\ resetSSD1306 /\ UNCHANGED written
       \/ call.op = "clear" /\ clearDisplay /\ written' = <<>> /\ UNCHANGED on
       \/ call.op \in {"on", "off"} /\ on' = (call.op = "on") /\ UNCHANGED <<buffer, gddram, pointer, written>>
       \/ call.op = "nextline" /\ cursor_line' = nextLine(Buffer).line /\ cursor_pos' = nextLine(Buffer).pos
          /\ UNCHANGED <<text_buffer, gddram, pointer, on, written>>
       \/ call.op \in {"write", "wrap"} /\ call.text = <<>> /\ renderDisplay(text_buffer)
          /\ UNCHANGED <<buffer, on, written>>
    /\ UNCHANGED <<request, i, backup, denied, seen>>

(* The host has sent the one-time password. *)
HostAnswers ==
    /\ todo = Do("host")
    /\ todo' = clearOTP
    /\ UNCHANGED <<buffer, gddram, pointer, on, request, i, backup, denied, written, seen>>

Return ==
    /\ todo = Do("return")
    /\ todo' = <<>> /\ request' = Idle
    /\ UNCHANGED <<buffer, gddram, pointer, on, i, backup, denied, written, seen>>

(* A button answers a prompt of userDenied(). *)
PromptAnswered(cancel) ==
    /\ todo = Do("press") /\ request.command # "seed"
    /\ denied' = (cancel \/ request.command = "unknown")
    /\ i' = i + 1
    /\ todo' = IF cancel THEN Finish ELSE Prompt(request, i + 1)
    /\ UNCHANGED <<buffer, gddram, pointer, on, request, backup, written, seen>>
-----------------------------------------------------------------------------
nibbleToHex(nibble) == LET temp == nibble % 16 IN IF temp < 10 THEN 48 + temp ELSE 97 + (temp - 10)

Colon == 58

(* One round of the loop of writeBackupSeed(): the byte, and then what     *)
(* follows its last character.                                             *)
SeedByte ==
    LET str == <<nibbleToHex(seed[i] \div 16), nibbleToHex(seed[i])>>
        leader == IF byte_counter = 0 THEN <<Call("write", <<nibbleToHex(line_number), Colon>>)>>
                  ELSE IF byte_counter % 2 = 0 THEN <<Call("write", <<FONT_BLANK>>)>> ELSE <<>>
    IN  /\ todo = Do("bytes") /\ i <= SEED_LENGTH
        /\ todo' = leader \o <<Call("write", str)>> \o Do("count")
        /\ UNCHANGED <<buffer, gddram, pointer, on, request, i, backup, denied, written, seen>>

(* Mutation: the line past the last is taken to be on the display. *)
PageFullLate == cursor_line > NUMBER_OF_LINES

PageFull == displayCursorAtEnd

SeedByteDone ==
    /\ todo = Do("count")
    /\ i' = i + 1
    /\ line_number' = IF byte_counter + 1 = 6 THEN line_number + 1 ELSE line_number
    /\ byte_counter' = IF byte_counter + 1 = 6 \/ PageFull THEN 0 ELSE byte_counter + 1
    /\ todo' = Do(IF PageFull THEN "press" ELSE "bytes")
    /\ UNCHANGED <<buffer, gddram, pointer, on, request, denied, written, seen>>

(* The loop is over, and the last page waits for its answer. *)
LastPage ==
    /\ todo = Do("bytes") /\ i > SEED_LENGTH
    /\ todo' = Do("press") /\ i' = i + 1
    /\ UNCHANGED <<buffer, gddram, pointer, on, request, backup, denied, written, seen>>

(* What a user reads in the buffer: the bytes behind the leaders. *)
Value(c) == IF c < 97 THEN c - 48 ELSE c - 87

Line(n) == [k \in 1 .. CHARACTERS_PER_LINE |-> text_buffer[n * CHARACTERS_PER_LINE + k - 1]]

BytesOfLine(n) ==
    LET digits == SelectSeq(SubSeq(Line(n), 3, CHARACTERS_PER_LINE), LAMBDA c : c # FONT_BLANK)
    IN  [k \in 1 .. Len(digits) \div 2 |-> 16 * Value(digits[2 * k - 1]) + Value(digits[2 * k])]

PageBytes == FlattenSeq([n \in 1 .. NUMBER_OF_LINES |-> BytesOfLine(n - 1)])

(* A button answers the notice, a full page or the last page.  The display *)
(* is cleared in each case.                                                *)
PageAnswered(cancel) ==
    /\ todo = Do("press") /\ request.command = "seed"
    /\ seen' = IF cancel \/ i = 0 THEN seen ELSE seen \o PageBytes
    /\ i' = IF i = 0 THEN 1 ELSE i
    /\ todo' = IF cancel \/ i > SEED_LENGTH + 1 THEN Finish ELSE Do("clear") \o Do("bytes")
    /\ denied' = (cancel \/ i <= SEED_LENGTH + 1)
    /\ UNCHANGED <<buffer, gddram, pointer, on, request, backup, written>>

Next ==
    \/ \E q \in Requests : Begin(q)
    \/ WriteCharacter \/ Execute \/ HostAnswers \/ Return
    \/ SeedByte \/ SeedByteDone \/ LastPage
    \/ \E cancel \in BOOLEAN : PromptAnswered(cancel) \/ PageAnswered(cancel)

Spec == Init /\ [][Next]_vars
-----------------------------------------------------------------------------
Letters(text) == SelectSeq(text, LAMBDA c : c # FONT_BLANK)

Screen == [k \in 1 .. CHARACTERS_PER_LINE * NUMBER_OF_LINES |-> text_buffer[k - 1]]

(* The pixel at x and y. *)
Pixel(x, y) == gddram[x * Pages + (y \div ByteBits)][y % ByteBits]

PixelOf(c, dx, dy) == IF c = FONT_BLANK THEN 0
                      ELSE (c - FONT_TABLE_START) * CHARACTER_BITS + dx * CHARACTER_HEIGHT + dy

PixelsAreText ==
    \A x \in 0 .. DISPLAY_WIDTH - 1, y \in 0 .. DISPLAY_HEIGHT - 1 :
        Pixel(x, y) = PixelOf(Screen[1 + (y \div CHARACTER_HEIGHT) * CHARACTERS_PER_LINE
                                       + (x \div CHARACTER_WIDTH)],
                              x % CHARACTER_WIDTH, y % CHARACTER_HEIGHT)

(* What is waited for has been shown.  While the display is on, its pixels *)
(* are those of the text buffer, unless a string is being written.  When  *)
(* a button or the host is waited for, the display is on and shows every   *)
(* letter of the prompt, in order and without leftovers; of the longest    *)
(* "Send ... BTC to ...?" only the question mark does not fit.  A backup   *)
(* that is reported as successful was confirmed page by page and read back *)
(* as the seed, each line under its number.  When the interface is idle,   *)
(* the display is off and nothing is left in its memory.                   *)
ShownWhenAsked ==
    /\ on /\ (todo # <<>> => Head(todo).op \notin {"write", "wrap"}) => PixelsAreText
    /\ todo \in {Do("press"), Do("host"), Do("halt")} =>
         /\ on
         /\ LET lost == Len(Letters(written)) - Len(Letters(Screen))
            IN  /\ Letters(Screen) = SubSeq(Letters(written), 1, Len(Letters(Screen)))
                /\ lost = 0 \/ (lost = 1 /\ request.command = "SIGN_TRANSACTION")
    /\ todo = Do("press") /\ request.command = "seed" /\ i > 0 =>
         \A n \in 0 .. NUMBER_OF_LINES - 1 :
            BytesOfLine(n) # <<>> => Value(Line(n)[1]) = (n + (Len(seen) \div 6)) % 16
    /\ todo = <<>> =>
         /\ ~on
         /\ \A a \in DOMAIN gddram : gddram[a] = NoPixels
         /\ Letters(Screen) = <<>>
    /\ request.command = "seed" =>
         /\ seen = SubSeq(seed, 1, Len(seen))
         /\ ~denied => seen = seed
=============================================================================
