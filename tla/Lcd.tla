-------------------------------- MODULE Lcd --------------------------------
(***************************************************************************)
(* avr/lcd_and_input.c: a two-line LCD that the program writes to and the  *)
(* timer interrupt scrolls, and two buttons that the interrupt debounces.  *)
(*                                                                         *)
(* The handler of the interrupt is one step, and so is each character the  *)
(* program writes.  While a string is written, the timer fires at most     *)
(* twice: 40 characters take 6.6 ms, and it fires every 5 ms.  Neither     *)
(* side masks the other.  When the handler sends a command inside a        *)
(* string, it leaves RS_PIN low (or splits a byte), so what the LCD shows  *)
(* is unknown from then on: it is disturbed.                               *)
(***************************************************************************)
EXTENDS Integers, Sequences, SequencesExt

CONSTANTS
    NUM_COLUMNS, LineSize,          \* visible columns, and columns of a line
    SCROLL_SPEED, SCROLL_PAUSE,
    TicksPerString,
    DEBOUNCE_COUNT, CounterRange,   \* CounterRange is 256 in the code
    Lines,                          \* lengths of the two lines of each prompt of userDenied()
    SignParts, FeeParts, NoticeParts,   \* lengths of the other strings
    AmountLength, AddressLength,
    MAX_OUTPUTS, SEED_LENGTH, BytesPerLine

VARIABLES
    todo,                           \* calls that are left before the next decision
    request, i, byte_counter,
    line, current_column, max_line_size, ddram,
    scroll_pos, scroll_to_left, scroll_counter,
    accept_button, cancel_button, accept_debounce, cancel_debounce,
    current_accept_button,          \* the copy that is read first
    denied,
    ticks,                          \* interrupts since the string was begun
    disturbed,                      \* the request in which the LCD was disturbed
    up, fresh, seen                 \* history: buttons released since the last answer; answers were
                                    \* of released buttons; bytes the user has confirmed

lcd == <<line, current_column, max_line_size, ddram>>
scrolling == <<scroll_pos, scroll_to_left, scroll_counter>>
buttons == <<accept_button, cancel_button, accept_debounce, cancel_debounce>>
caller == <<request, i, byte_counter, current_accept_button, denied, fresh, seen>>
vars == <<todo, lcd, scrolling, buttons, caller, ticks, disturbed, up>>

Blank == <<"blank", 0>>

Buttons == {"accept", "cancel"}

Op == IF todo = <<>> THEN "none" ELSE Head(todo).op
-----------------------------------------------------------------------------
(* What is drawn.  A character is its string's name and its place in it.   *)
Call(op, text) == [op |-> op, text |-> text]
Do(op) == <<Call(op, <<>>)>>
String(name, length) == <<Call("write", [k \in 1 .. length |-> <<name, k>>])>>
gotoStartOfLine(n) == Do(IF n = 0 THEN "line0" ELSE "line1")

SimplePrompt(c) ==
    Do("release") \o gotoStartOfLine(0) \o String("line0", Lines[c][1])
    \o gotoStartOfLine(1) \o String("line1", Lines[c][2])

SignPrompt ==
    Do("clear") \o Do("release") \o gotoStartOfLine(0)
    \o String("part0", SignParts[1]) \o String("amount", AmountLength) \o String("part1", SignParts[2])
    \o gotoStartOfLine(1) \o String("address", AddressLength)

FeePrompt ==
    Do("clear") \o Do("release") \o gotoStartOfLine(0) \o String("part0", FeeParts[1])
    \o gotoStartOfLine(1) \o String("amount", AmountLength) \o String("part1", FeeParts[2])

(* Prompts of userDenied() in order, for list_index outputs. *)
Prompts(q) ==
    IF q.command = "SIGN_TRANSACTION"
    THEN [k \in 1 .. q.list_index |-> SignPrompt]
         \o (IF q.list_index > 0 /\ q.transaction_fee_set THEN <<FeePrompt>> ELSE <<>>)
    ELSE <<SimplePrompt(q.command)>>

Finish == Do("clear") \o Do("return")

Prompt(q, k) == IF k <= Len(Prompts(q)) THEN Prompts(q)[k] \o Do("press") ELSE Finish

Notice(is_encrypted) ==
    Do("clear") \o Do("release") \o gotoStartOfLine(0) \o String("line0", NoticeParts[1])
    \o gotoStartOfLine(1) \o String("line1", NoticeParts[IF is_encrypted THEN 2 ELSE 3])

streamError == Do("clear") \o gotoStartOfLine(0) \o String("line0", NoticeParts[1]) \o Do("halt")

Requests ==
    [command : DOMAIN Lines]
    \union [command : {"SIGN_TRANSACTION"}, list_index : 0 .. MAX_OUTPUTS, transaction_fee_set : BOOLEAN]
    \union [command : {"seed"}, is_encrypted : BOOLEAN, destination_device : {0, 1}]
    \union [command : {"error"}]
-----------------------------------------------------------------------------
Idle == [command |-> "none"]

Init ==
    /\ todo = <<>> /\ request = Idle /\ i = 0 /\ byte_counter = 0
    /\ line = 0 /\ current_column = 0 /\ max_line_size = 0
    /\ ddram = [n \in 0 .. 1 |-> [k \in 1 .. LineSize |-> Blank]]
    /\ scroll_pos = 0 /\ scroll_to_left = FALSE /\ scroll_counter = SCROLL_SPEED
    /\ accept_button = FALSE /\ cancel_button = FALSE
    /\ accept_debounce = 0 /\ cancel_debounce = 0
    /\ current_accept_button = FALSE /\ denied = TRUE
    /\ ticks = 0 /\ disturbed = "nothing"
    /\ up = Buttons /\ fresh = TRUE /\ seen = <<>>

userDenied(q) == Do("clear") \o Prompt(q, 1)

writeBackupSeed(q) ==
    IF q.destination_device # 0 THEN Do("return") ELSE Notice(q.is_encrypted) \o Do("press")

(* Nothing is said of an LCD that has been disturbed, so a behaviour ends   *)
(* with the request in which that happens.                                 *)
Begin(q) ==
    /\ todo = <<>> /\ disturbed = "nothing"
    /\ request' = q /\ i' = IF q.command = "seed" THEN 0 ELSE 1
    /\ todo' = CASE q.command = "seed" -> writeBackupSeed(q)
                 [] q.command = "error" -> streamError
                 [] OTHER -> userDenied(q)
    /\ byte_counter' = 0 /\ denied' = TRUE /\ fresh' = TRUE /\ seen' = <<>>
    /\ ticks' = 0
    /\ UNCHANGED <<lcd, scrolling, buttons, current_accept_button, disturbed, up>>

Return ==
    /\ todo = Do("return")
    /\ todo' = <<>> /\ request' = Idle /\ i' = 0 /\ byte_counter' = 0
    /\ denied' = TRUE /\ fresh' = TRUE /\ seen' = <<>>
    /\ UNCHANGED <<lcd, scrolling, buttons, current_accept_button, ticks, disturbed, up>>

clearLcd ==
    /\ Op = "clear" /\ todo' = Tail(todo)
    /\ line' = 0 /\ current_column' = 0 /\ max_line_size' = 0
    /\ ddram' = [n \in 0 .. 1 |-> [k \in 1 .. LineSize |-> Blank]]
    /\ scroll_pos' = 0 /\ scroll_to_left' = FALSE /\ scroll_counter' = SCROLL_SPEED
    /\ ticks' = 0
    /\ UNCHANGED <<buttons, caller, disturbed, up>>

(* gotoStartOfLine(): the command goes out, and then the column is reset. *)
GoToLine ==
    /\ Op \in {"line0", "line1"} /\ todo' = Do("column0") \o Tail(todo)
    /\ line' = IF Op = "line0" THEN 0 ELSE 1
    /\ ticks' = 0
    /\ UNCHANGED <<current_column, max_line_size, ddram, scrolling, buttons, caller, disturbed, up>>

ColumnZero ==
    /\ Op = "column0" /\ todo' = Tail(todo)
    /\ current_column' = 0
    /\ UNCHANGED <<line, max_line_size, ddram, scrolling, buttons, caller, ticks, disturbed, up>>

(* writeString(): RS_PIN goes high, characters are written and counted,    *)
(* and the pause before scrolling starts.                                  *)
BeginString ==
    /\ Op = "write" /\ todo' = [todo EXCEPT ![1].op = "writing"]
    /\ ticks' = 0
    /\ UNCHANGED <<lcd, scrolling, buttons, caller, disturbed, up>>

WriteCharacter ==
    /\ Op = "writing" /\ Head(todo).text # <<>> /\ current_column < LineSize
    /\ ddram' = [ddram EXCEPT ![line][current_column + 1] = Head(Head(todo).text)]
    /\ current_column' = current_column + 1
    /\ max_line_size' = IF current_column + 1 > max_line_size THEN current_column + 1 ELSE max_line_size
    /\ todo' = [todo EXCEPT ![1].text = Tail(@)]
    /\ UNCHANGED <<line, scrolling, buttons, caller, ticks, disturbed, up>>

(* Mutation: the counter runs on after a string. *)
NoPause == scroll_counter

PauseAfterString == SCROLL_PAUSE

EndString ==
    /\ Op = "writing" /\ (Head(todo).text = <<>> \/ current_column >= LineSize)
    /\ todo' = Tail(todo)
    /\ scroll_counter' = PauseAfterString
    /\ ticks' = 0
    /\ UNCHANGED <<lcd, scroll_pos, scroll_to_left, buttons, caller, disturbed, up>>
-----------------------------------------------------------------------------
(* The loops that wait read the two flags one after the other. *)
waitForNoButtonPress ==
    /\ \/ Op = "release" /\ todo' = IF accept_button THEN todo ELSE Do("release2") \o Tail(todo)
       \/ Op = "release2" /\ todo' = IF cancel_button THEN Do("release") \o Tail(todo) ELSE Tail(todo)
    /\ UNCHANGED <<lcd, scrolling, buttons, caller, ticks, disturbed, up>>

CopyAccept ==
    /\ Op = "press" /\ todo' = Do("press2")
    /\ current_accept_button' = accept_button
    /\ UNCHANGED <<lcd, scrolling, buttons, request, i, byte_counter, denied, fresh, seen, ticks, disturbed, up>>

PressAgain ==
    /\ Op = "press2" /\ ~current_accept_button /\ ~cancel_button
    /\ todo' = Do("press") /\ UNCHANGED <<lcd, scrolling, buttons, caller, ticks, disturbed, up>>

(* Mutation: a prompt is drawn without waiting for the buttons. *)
PromptAtOnce(q, k) == SelectSeq(Prompt(q, k), LAMBDA c : c.op # "release")

NextPrompt(q, k) == Prompt(q, k)

(* waitForButtonPress() returns from a prompt of userDenied(). *)
PromptAnswered(cancel) ==
    /\ request.command \notin {"seed", "error"}
    /\ denied' = (cancel \/ request.command = "unknown")
    /\ i' = i + 1
    /\ todo' = IF cancel THEN Finish ELSE NextPrompt(request, i + 1)
    /\ UNCHANGED seen

(* What a user reads: the bytes of the page. *)
Visible == SelectSeq(ddram[0] \o ddram[1], LAMBDA c : c # Blank)
PageBytes == LET bytes == SelectSeq(Visible, LAMBDA c : c[1] = "byte")
             IN  [k \in DOMAIN bytes |-> bytes[k][2]]

(* It returns from the notice (i = 0), a full page or the last page.  The  *)
(* notice is not cleared: the first page is written over it.               *)
PageAnswered(cancel) ==
    /\ request.command = "seed"
    /\ seen' = IF cancel \/ i = 0 THEN seen ELSE seen \o PageBytes
    /\ denied' = (cancel \/ i <= SEED_LENGTH)
    /\ i' = IF i = 0 THEN 1 ELSE i
    /\ todo' = IF cancel \/ i > SEED_LENGTH THEN Finish
               ELSE (IF i = 0 THEN Do("release") ELSE Do("clear")) \o Do("bytes")

Answered ==
    /\ Op = "press2" /\ (current_accept_button \/ cancel_button)
    /\ LET cancel == ~current_accept_button IN
       /\ PromptAnswered(cancel) \/ PageAnswered(cancel)
       /\ fresh' = (fresh /\ (IF cancel THEN "cancel" ELSE "accept") \in up)
    /\ up' = Buttons \ ((IF accept_button THEN {"accept"} ELSE {})
                        \union (IF cancel_button THEN {"cancel"} ELSE {}))
    /\ current_accept_button' = FALSE
    /\ UNCHANGED <<lcd, scrolling, buttons, request, byte_counter, ticks, disturbed>>

(* Mutation: the second line of a page is not started. *)
OneLine(counter) == IF counter = 0 THEN gotoStartOfLine(0) ELSE <<>>

LineOfByte(counter) == IF counter = 0 THEN gotoStartOfLine(0)
                       ELSE IF counter = BytesPerLine THEN gotoStartOfLine(1) ELSE <<>>

(* One round of the loop of writeBackupSeed(); after it the last answer. *)
SeedByte ==
    /\ todo = Do("bytes")
    /\ IF i > SEED_LENGTH
       THEN todo' = Do("release") \o Do("press") /\ UNCHANGED <<i, byte_counter>>
       ELSE IF byte_counter = 2 * BytesPerLine
       THEN todo' = Do("release") \o Do("press") /\ byte_counter' = 0 /\ UNCHANGED i
       ELSE /\ todo' = LineOfByte(byte_counter)
                        \o <<Call("write", (IF byte_counter % 2 = 0 THEN <<Blank>> ELSE <<>>) \o <<<<"byte", i>>>>)>>
                        \o Do("bytes")
            /\ byte_counter' = byte_counter + 1 /\ i' = i + 1
    /\ UNCHANGED <<lcd, scrolling, buttons, request, current_accept_button, denied, fresh, seen, ticks, disturbed, up>>
-----------------------------------------------------------------------------
(* The debouncing of one button in the handler; pressed is what the pin    *)
(* says.  The counter is not reset when the state changes.                 *)
Debounce(button, counter, pressed) ==
    IF button # pressed
    THEN LET n == (counter + 1) % CounterRange
         IN  [button |-> IF n = DEBOUNCE_COUNT THEN pressed ELSE button, counter |-> n]
    ELSE [button |-> button, counter |-> 0]

(* Mutation: scrolling goes on past the end of the longer line. *)
ScrollOn == NUM_COLUMNS - 1

ScrollWidth == NUM_COLUMNS

(* The command of a scroll step is sent while the program writes. *)
Disturb == disturbed' = IF disturbed = "nothing" /\ (Op = "column0" \/ (Op = "writing" /\ Head(todo).text # <<>>))
                        THEN request.command ELSE disturbed

Scroll ==
    IF scroll_to_left
    THEN IF scroll_pos = 0
         THEN scroll_to_left' = FALSE /\ UNCHANGED <<scroll_pos, disturbed>>
         ELSE /\ scroll_pos' = scroll_pos - 1
              /\ Disturb
              /\ UNCHANGED scroll_to_left
    ELSE IF scroll_pos = max_line_size - ScrollWidth
         THEN scroll_to_left' = TRUE /\ UNCHANGED <<scroll_pos, disturbed>>
         ELSE /\ scroll_pos' = scroll_pos + 1
              /\ Disturb
              /\ UNCHANGED scroll_to_left

(* ISR(TIMER0_COMPA_vect). *)
TimerInterrupt(accept, cancel) ==
    LET a == Debounce(accept_button, accept_debounce, accept)
        c == Debounce(cancel_button, cancel_debounce, cancel)
    IN  /\ Op \notin {"none", "halt"}
        /\ \/ Op \in {"release", "release2", "press", "press2"} /\ UNCHANGED ticks
           \/ Op \notin {"release", "release2", "press", "press2"} /\ ticks < TicksPerString /\ ticks' = ticks + 1
        /\ scroll_counter' = IF scroll_counter = 1 THEN SCROLL_SPEED ELSE scroll_counter - 1
        /\ IF scroll_counter = 1 /\ max_line_size > NUM_COLUMNS
           THEN Scroll ELSE UNCHANGED <<scroll_pos, scroll_to_left, disturbed>>
        /\ accept_button' = a.button /\ accept_debounce' = a.counter
        /\ cancel_button' = c.button /\ cancel_debounce' = c.counter
        /\ up' = up \union (IF a.button THEN {} ELSE {"accept"}) \union (IF c.button THEN {} ELSE {"cancel"})
        /\ UNCHANGED <<todo, lcd, caller>>

Next ==
    \/ \E q \in Requests : Begin(q)
    \/ Return \/ clearLcd \/ GoToLine \/ ColumnZero \/ BeginString \/ WriteCharacter \/ EndString
    \/ waitForNoButtonPress \/ CopyAccept \/ PressAgain \/ Answered \/ SeedByte
    \/ \E accept, cancel \in BOOLEAN : TimerInterrupt(accept, cancel)

Spec == Init /\ [][Next]_vars
-----------------------------------------------------------------------------
(* The text of what is asked now. *)
Asked == FlattenSeq([k \in DOMAIN Prompt(request, i) |-> Prompt(request, i)[k].text])

(* The interrupt and the program share the LCD.  The handler never sends a *)
(* command inside a string, except in a prompt whose first string is more  *)
(* than a column longer than the display ("Delete existing wallet",        *)
(* "Unknown command in userDenied()").  Otherwise a button is waited for   *)
(* only when the LCD holds all of the prompt and nothing older, and        *)
(* scrolling stays within the longer line.  Each answer is a press of its  *)
(* own, a transaction is accepted only with all of its prompts, and a      *)
(* backup only after all bytes were shown in order.                        *)
LcdShowsPrompt ==
    /\ disturbed # "nothing" => disturbed \in DOMAIN Lines /\ Lines[disturbed][1] > NUM_COLUMNS + 1
    /\ Op \in {"press", "press2"} /\ disturbed = "nothing" /\ request.command # "seed" => Visible = Asked
    /\ Op \in {"press", "press2"} /\ disturbed = "nothing" /\ request.command = "seed" /\ i > 0 =>
         Len(Visible) = Len(PageBytes)
    /\ scroll_pos \in 0 .. (IF max_line_size > NUM_COLUMNS THEN max_line_size - NUM_COLUMNS ELSE 0)
    /\ fresh
    /\ todo = Do("return") /\ ~denied =>
         /\ request.command = "SIGN_TRANSACTION" =>
              i = 1 + request.list_index + (IF request.transaction_fee_set THEN 1 ELSE 0) /\ request.list_index > 0
         /\ request.command = "seed" /\ disturbed = "nothing" => seen = [k \in 1 .. SEED_LENGTH |-> k]
         /\ request.command # "unknown"
=============================================================================
