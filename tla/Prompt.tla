------------------------------ MODULE Prompt ------------------------------
(***************************************************************************)
(* userDenied() of pic32/user_interface.c and the debouncing of the two    *)
(* pushbuttons in pic32/pushbuttons.c.  The buttons are sampled once a     *)
(* millisecond and may be in any position at each sample.                  *)
(***************************************************************************)
EXTENDS Integers, Sequences

CONSTANTS
    DEBOUNCE_COUNT,     \* samples that make a press or a release
    MaxOutputs          \* bound on the outputs of a transaction

VARIABLES
    phase,                  \* "idle", "release", "press" or "done"
    command,                \* what is being asked
    list_index,             \* outputs that the transaction parser has listed
    transaction_fee_set,    \* whether it has set a fee
    i,                      \* prompts that have been answered
    counter,                \* the debounce counter
    r,                      \* what will be returned: TRUE is denied
    answers,                \* history: the answers, in order
    quiet                   \* history: samples without a press in a row, since the last answer

promptVars == <<phase, command, list_index, transaction_fee_set, i, counter, r, answers, quiet>>

ASSUME PromptAssumption == DEBOUNCE_COUNT \in Nat \ {0} /\ MaxOutputs \in Nat

Command == {"simple", "sign", "format", "unknown"}

(* Prompts of a command when all of them are accepted.  A transaction      *)
(* without outputs has none: the fee is asked for after an acceptance.     *)
Prompts(c, outputs, fee) ==
    CASE c = "sign" -> IF outputs > 0 /\ fee THEN outputs + 1 ELSE outputs
      [] c = "format" -> 3
      [] OTHER -> 1

PromptInit ==
    /\ phase = "idle" /\ command = "simple"
    /\ list_index = 0 /\ transaction_fee_set = FALSE
    /\ i = 0 /\ counter = 0 /\ r = TRUE
    /\ answers = <<>> /\ quiet = 0

(* The parser has listed a transaction, and userDenied() is called. *)
userDenied(c, outputs, fee) ==
    /\ phase = "idle"
    /\ command' = c /\ list_index' = outputs /\ transaction_fee_set' = fee
    /\ r' = TRUE
    /\ IF Prompts(c, outputs, fee) = 0
       THEN phase' = "done" /\ counter' = 0
       ELSE phase' = "release" /\ counter' = DEBOUNCE_COUNT
    /\ UNCHANGED <<i, answers, quiet>>

(* One sample of waitForNoButtonPress().  The prompt is then displayed. *)
waitForNoButtonPress(accept, cancel) ==
    /\ phase = "release"
    /\ IF accept \/ cancel
       THEN /\ counter' = DEBOUNCE_COUNT
            /\ UNCHANGED phase
       ELSE IF counter = 1
       THEN phase' = "press" /\ counter' = DEBOUNCE_COUNT
       ELSE counter' = counter - 1 /\ UNCHANGED phase
    /\ quiet' = IF accept \/ cancel THEN 0
                ELSE IF quiet < DEBOUNCE_COUNT THEN quiet + 1 ELSE quiet
    /\ UNCHANGED <<command, list_index, transaction_fee_set, i, r, answers>>

(* Mutation: a refused prompt does not end the list. *)
AskAllPrompts(denied) == i + 1 < Prompts(command, list_index, transaction_fee_set)

(* Whether another prompt follows an answer. *)
AskNext(denied) ==
    /\ ~denied
    /\ i + 1 < Prompts(command, list_index, transaction_fee_set)

(* Mutation: the next prompt does not wait for a release. *)
PromptAtOnce == "press"

(* Every prompt starts with waitForNoButtonPress(). *)
NextPrompt == "release"

(* One sample of waitForButtonPress(), and what userDenied() does when it  *)
(* returns.  The last sample tells which button it was.                    *)
waitForButtonPress(accept, cancel) ==
    /\ phase = "press"
    /\ IF ~accept /\ ~cancel
       THEN counter' = DEBOUNCE_COUNT /\ UNCHANGED <<phase, i, r, answers, quiet>>
       ELSE IF counter > 1
       THEN counter' = counter - 1 /\ UNCHANGED <<phase, i, r, answers, quiet>>
       ELSE /\ r' = (cancel \/ command = "unknown")
            /\ answers' = Append(answers, [button |-> IF cancel THEN "cancel" ELSE "accept",
                                         released |-> quiet = DEBOUNCE_COUNT])
            /\ i' = i + 1
            /\ quiet' = 0
            /\ IF AskNext(cancel)
               THEN phase' = NextPrompt /\ counter' = DEBOUNCE_COUNT
               ELSE phase' = "done" /\ counter' = 0
    /\ UNCHANGED <<command, list_index, transaction_fee_set>>

(* userDenied() returns.  What the parser has listed by the next call is    *)
(* chosen there.                                                           *)
ReturnAnswer ==
    /\ phase = "done"
    /\ phase' = "idle" /\ command' = "simple"
    /\ list_index' = 0 /\ transaction_fee_set' = FALSE
    /\ i' = 0 /\ r' = TRUE /\ answers' = <<>> /\ quiet' = 0
    /\ UNCHANGED counter

PromptNext ==
    \/ \E c \in Command, outputs \in 0..MaxOutputs, fee \in BOOLEAN : userDenied(c, outputs, fee)
    \/ \E accept, cancel \in BOOLEAN :
          waitForNoButtonPress(accept, cancel) \/ waitForButtonPress(accept, cancel)
    \/ ReturnAnswer

PromptSpec == PromptInit /\ [][PromptNext]_promptVars
-----------------------------------------------------------------------------
(* userDenied() reports acceptance only when every prompt of the command   *)
(* was accepted by a press of its own: each output of a transaction and    *)
(* its fee, all three questions of a format.  One long press never answers *)
(* two prompts, since both buttons were released for the debounce time     *)
(* before each; no acceptance makes up for a refusal; an unknown command   *)
(* or an empty transaction is never accepted.                              *)
AcceptedMeansAll ==
    phase = "done" /\ ~r =>
        /\ command # "unknown"
        /\ command = "sign" => list_index > 0
        /\ Len(answers) = CASE command = "sign" -> list_index + (IF transaction_fee_set THEN 1 ELSE 0)
                            [] command = "format" -> 3
                            [] OTHER -> 1
        /\ \A k \in DOMAIN answers : answers[k] = [button |-> "accept", released |-> TRUE]
=============================================================================
