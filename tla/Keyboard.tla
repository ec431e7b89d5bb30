------------------------------ MODULE Keyboard ------------------------------
(***************************************************************************)
(* The keyboard of src/28_posix/keyboard.c and its reader, the shell.  The *)
(* handler of IRQ1 pushes characters at any point of the shell, which pops *)
(* them in three steps and edits a line of at most LineMax - 1 characters. *)
(***************************************************************************)
EXTENDS Integers, Sequences

CONSTANTS
    Letters,  \* keys that have a character of their own with shift
    KbSize,   \* KB_BUF_SIZE (256)
    LineMax   \* LINE_MAX in shell.c (128)

Shifts == {"lshift", "rshift"}
KeyNames == Letters \cup {"enter", "bksp", "ctrl"} \cup Shifts
NoChar == <<"none", FALSE>>
Chars == (Letters \X BOOLEAN) \cup ({"enter", "bksp"} \X {FALSE})

ASSUME KbSizeAssumption == KbSize \in Nat /\ KbSize > 1
ASSUME LineMaxAssumption == LineMax \in Nat \ {0}
ASSUME LettersAssumption == {"enter", "bksp", "ctrl", "none"} \cap Letters = {}

VARIABLES
    kb_buf, kb_head, kb_tail,  \* the ring
    shift_held,
    kbPc,        \* where the shell is: "test", "load", "advance", "handle"
    c,           \* c of buf_pop and of shell_main
    taken,       \* what the last buf_pop has returned
    line_len

ringVars == <<kb_buf, kb_head>>
readerVars == <<kb_tail, kbPc, c, taken, line_len>>
keyVars == <<ringVars, shift_held, readerVars>>

KeyInit ==
    /\ kb_buf = [i \in 0 .. KbSize - 1 |-> NoChar]
    /\ kb_head = 0 /\ kb_tail = 0
    /\ shift_held = FALSE
    /\ kbPc = "test" /\ c = NoChar /\ taken = NoChar
    /\ line_len = 0

Succ(i) == (i + 1) % KbSize

\* The two tables; a key that has no character gives 0.
Character(key) == IF key = "ctrl" THEN NoChar
                  ELSE <<key, key \in Letters /\ shift_held>>

HasRoomUnmasked == kb_head + 1 # kb_tail   \* mutant: tested before the mask
HasRoom == Succ(kb_head) # kb_tail

BufPush(char) ==
    IF HasRoom
    THEN /\ kb_buf' = [kb_buf EXCEPT ![kb_head] = char]
         /\ kb_head' = Succ(kb_head)
    ELSE UNCHANGED ringVars

\* keyboard_irq_handler, for the make code of a key (which repeats while the
\* key is down) and for its break code.
ShiftMake(key) == /\ key \in Shifts
                  /\ shift_held' = TRUE
                  /\ UNCHANGED <<ringVars, readerVars>>

\* Either shift key that goes up ends both.
ShiftBreak(key) == /\ key \in Shifts
                   /\ shift_held' = FALSE
                   /\ UNCHANGED <<ringVars, readerVars>>

Make(key) == /\ key \in KeyNames \ Shifts
             /\ IF Character(key) = NoChar THEN UNCHANGED ringVars
                ELSE BufPush(Character(key))
             /\ UNCHANGED <<shift_held, readerVars>>

\* buf_pop: the test, the load of the character, the store of the new tail.
PopEmpty == /\ kbPc = "test" /\ kb_head = kb_tail
            /\ c' = NoChar
            /\ UNCHANGED <<ringVars, shift_held, kb_tail, kbPc, taken, line_len>>
PopTest == /\ kbPc = "test" /\ kb_head # kb_tail
           /\ kbPc' = "load"
           /\ UNCHANGED <<ringVars, shift_held, kb_tail, c, taken, line_len>>
PopLoad == /\ kbPc = "load"
           /\ c' = kb_buf[kb_tail] /\ kbPc' = "advance"
           /\ UNCHANGED <<ringVars, shift_held, kb_tail, taken, line_len>>
PopAdvance == /\ kbPc = "advance"
              /\ kb_tail' = Succ(kb_tail) /\ taken' = c /\ kbPc' = "handle"
              /\ UNCHANGED <<ringVars, shift_held, c, line_len>>

\* shell_main, from the character on; enter dispatches the line.
FitsUpToEnd == line_len < LineMax   \* mutant: no place is kept for the '\0'
Fits1 == line_len < LineMax - 1

LineAfter == CASE c[1] = "enter" -> 0
               [] c[1] = "bksp" -> IF line_len > 0 THEN line_len - 1 ELSE 0
               [] OTHER -> IF Fits1 THEN line_len + 1 ELSE line_len

ShellEdit == /\ kbPc = "handle"
             /\ line_len' = LineAfter /\ kbPc' = "test" /\ c' = NoChar
             /\ UNCHANGED <<ringVars, shift_held, kb_tail, taken>>

Reader == PopEmpty \/ PopTest \/ PopLoad \/ PopAdvance \/ ShellEdit
KeyNext == \/ \E key \in KeyNames : ShiftMake(key) \/ ShiftBreak(key) \/ Make(key)
           \/ Reader

KeySpec == KeyInit /\ [][KeyNext]_keyVars
-----------------------------------------------------------------------------
\* The characters between tail and head, in order.
KbCount == (kb_head - kb_tail) % KbSize
Pending == [i \in 1 .. KbCount |-> kb_buf[(kb_tail + i - 1) % KbSize]]

\* Every character that the handler has pushed is returned once and in the
\* order of the keys, wherever in buf_pop the interrupts come, also when the
\* ring is full and has wrapped: see LossyQueue.
KeyQueue == INSTANCE LossyQueue WITH
    Items <- Chars, Capacity <- KbSize - 1, None <- NoChar, queue <- Pending
IsKeyQueue == KeyQueue!Spec

\* There is a place in line_buf for the '\0' that enter writes at line_len.
LineTerminates == line_len \in 0 .. LineMax - 1
=============================================================================
