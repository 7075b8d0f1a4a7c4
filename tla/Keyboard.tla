------------------------------- MODULE Keyboard -------------------------------
(***************************************************************************)
(* The keyboard input path: scan-code bytes from the controller, the IRQ1  *)
(* handler with its decoder and its single-producer single-consumer ring   *)
(* (kernel/arch/x86/keyboard.c), and the main loop of kernel_main that     *)
(* drains the ring.  The handler runs with interrupts off and is one       *)
(* action; keyboard_pop_char runs with interrupts on and is split at each  *)
(* access to a shared variable.                                            *)
(***************************************************************************)
EXTENDS Naturals, Sequences

CONSTANTS FastKeys,      \* bound: the keys typed while the kernel is busy
          SlowKeys,      \* bound: the keys typed while it is at rest
          KEYBOARD_QUEUE_CAPACITY,
          SequenceMod,   \* 2^32: modulus of sequence numbers and counters
          WireMax        \* bound: bytes waiting in the keyboard controller

(* A key is a scan code and whether an E0 byte precedes it. *)
Keys == FastKeys \cup SlowKeys

ASSUME KeyboardAssumption ==
  /\ Keys \subseteq [code : STRING, extended : BOOLEAN]
  /\ \A key \in Keys : key.code # "E0"
  /\ KEYBOARD_QUEUE_CAPACITY \in Nat \ {0}
  /\ SequenceMod \in Nat /\ SequenceMod > KEYBOARD_QUEUE_CAPACITY
  /\ SequenceMod % KEYBOARD_QUEUE_CAPACITY = 0
  /\ WireMax \in Nat

QueueSlots == 0 .. KEYBOARD_QUEUE_CAPACITY - 1
NoChar == "nul"
Characters == {"a", "A", "1", "!", "enter", "backspace", "space"}

VARIABLES
  character_queue, write_sequence, read_sequence, dropped_characters,
  dec,                   \* the decoder's four Booleans
  at,                    \* where the foreground code stands
  read, write, character,\* locals of keyboard_pop_char and of the main loop
  wire,                  \* bytes in the keyboard controller
  held, caps,            \* the physical keyboard: keys down, caps lock
  fast,                  \* bound: whether the user types FastKeys or SlowKeys
  taken                  \* history: the character popped last

ringVars == <<character_queue, write_sequence, read_sequence, dropped_characters>>
loopVars == <<at, read, write, character, taken>>
vars == <<ringVars, dec, loopVars, wire, held, caps, fast>>

DecoderReset == [left_shift_down |-> FALSE, right_shift_down |-> FALSE,
                 caps_lock_enabled |-> FALSE, extended_prefix_pending |-> FALSE]

Init ==
  /\ character_queue = [i \in QueueSlots |-> NoChar]
  /\ write_sequence = 0 /\ read_sequence = 0 /\ dropped_characters = 0
  /\ dec = DecoderReset
  /\ at = "init" /\ read = 0 /\ write = 0 /\ character = NoChar
  /\ wire = << >> /\ held = {} /\ caps = FALSE /\ fast \in BOOLEAN
  /\ taken = NoChar

-----------------------------------------------------------------------------
letter_for_scancode(code) == IF code = "a" THEN "a" ELSE NoChar

digit_for_scancode(code, shifted) ==
  IF code # "1" THEN NoChar ELSE IF shifted THEN "!" ELSE "1"

(* Mutant of Uppercase: shift does not undo caps lock. *)
Uppercase_either(shifted, caps_lock_enabled) == shifted \/ caps_lock_enabled

Uppercase(shifted, caps_lock_enabled) == shifted # caps_lock_enabled

(* keyboard_feed_scancode: the decoder after the byte, and the character   *)
(* it hands to queue_push (NoChar for none).                               *)
keyboard_feed_scancode(d, byte) ==
  LET result(nd, ch) == [dec |-> nd, char |-> ch]
      shifted == d.left_shift_down \/ d.right_shift_down
      letter == letter_for_scancode(byte.code)
      digit == digit_for_scancode(byte.code, shifted)
  IN  CASE byte.code = "E0" ->
             result([d EXCEPT !.extended_prefix_pending = TRUE], NoChar)
        [] byte.code # "E0" /\ d.extended_prefix_pending ->
             result([d EXCEPT !.extended_prefix_pending = FALSE], NoChar)
        [] OTHER ->
             IF byte.code = "left_shift"
             THEN result([d EXCEPT !.left_shift_down = ~ byte.released], NoChar)
             ELSE IF byte.code = "right_shift"
             THEN result([d EXCEPT !.right_shift_down = ~ byte.released], NoChar)
             ELSE IF byte.released THEN result(d, NoChar)
             ELSE IF byte.code = "caps_lock"
             THEN result([d EXCEPT !.caps_lock_enabled = ~ @], NoChar)
             ELSE IF letter # NoChar
             THEN result(d, IF Uppercase(shifted, d.caps_lock_enabled)
                            THEN "A" ELSE letter)
             ELSE IF digit # NoChar THEN result(d, digit)
             ELSE result(d, IF byte.code \in {"enter", "backspace", "space"}
                            THEN byte.code ELSE NoChar)

(* (uint32_t)(write - read) *)
Distance(w, r) == (w + SequenceMod - r) % SequenceMod

QueueFull == Distance(write_sequence, read_sequence) >= KEYBOARD_QUEUE_CAPACITY

queue_push(ch) ==
  IF QueueFull
  THEN /\ dropped_characters' = (dropped_characters + 1) % SequenceMod
       /\ UNCHANGED <<character_queue, write_sequence, read_sequence>>
  ELSE /\ character_queue' = [character_queue EXCEPT
             ![write_sequence % KEYBOARD_QUEUE_CAPACITY] = ch]
       /\ write_sequence' = (write_sequence + 1) % SequenceMod
       /\ UNCHANGED <<read_sequence, dropped_characters>>

(* An interrupt ends a hlt; elsewhere the foreground does not notice it. *)
Wake == /\ at' = IF at = "halted" THEN "pop_read" ELSE at
        /\ UNCHANGED <<read, write, character, taken>>

InterruptsOn == at \notin {"init", "failed"}

(* keyboard_handle_irq: reads at most one byte of the controller. *)
keyboard_handle_irq ==
  /\ InterruptsOn
  /\ wire # << >>
  /\ wire' = Tail(wire)
  /\ LET r == keyboard_feed_scancode(dec, Head(wire))
     IN  /\ dec' = r.dec
         /\ IF r.char = NoChar THEN UNCHANGED ringVars ELSE queue_push(r.char)
  /\ Wake
  /\ UNCHANGED <<held, caps, fast>>

(* Mutant of irq0: the timer is masked, so it does not end a hlt. *)
irq0_masked == at = "halted" /\ UNCHANGED vars

(* The timer interrupt as the halted main loop sees it. *)
irq0 == /\ at = "halted"
        /\ Wake
        /\ UNCHANGED <<ringVars, dec, wire, held, caps, fast>>

-----------------------------------------------------------------------------
Foreground(here, there) ==
  /\ at = here /\ at' = there
  /\ UNCHANGED <<character_queue, write_sequence, dropped_characters, dec,
                 wire, held, caps, fast>>

(* keyboard_init and sti: from here on IRQ1 fills the ring. *)
keyboard_init ==
  /\ at = "init" /\ at' = "boot"
  /\ write_sequence' = 0 /\ read_sequence' = 0 /\ dropped_characters' = 0
  /\ dec' = DecoderReset
  /\ UNCHANGED <<character_queue, read, write, character, taken, wire, held, caps,
                 fast>>

(* The last boot check, on the counter system_status_read reports. *)
boot_status_check ==
  /\ Foreground("boot", IF dropped_characters # 0 THEN "failed" ELSE "loop")
  /\ UNCHANGED <<read_sequence, read, write, character, taken>>

main_hlt == /\ Foreground("loop", "halted")
            /\ UNCHANGED <<read_sequence, read, write, character, taken>>

(* keyboard_pop_char, one shared access per step.  Its locals are reset    *)
(* when they are dead.                                                     *)
pop_read == /\ Foreground("pop_read", "pop_write")
            /\ read' = read_sequence
            /\ UNCHANGED <<read_sequence, write, character, taken>>

pop_write == /\ Foreground("pop_write",
                           IF read = write_sequence THEN "loop" ELSE "pop_load")
             /\ IF read = write_sequence THEN read' = 0 /\ write' = 0
                ELSE write' = write_sequence /\ UNCHANGED read
             /\ UNCHANGED <<read_sequence, character, taken>>

pop_load == /\ Foreground("pop_load", "pop_advance")
            /\ character' = character_queue[read % KEYBOARD_QUEUE_CAPACITY]
            /\ UNCHANGED <<read_sequence, read, write, taken>>

(* Mutant of pop_advance: everything up to write is dropped. *)
pop_advance_to_write == /\ Foreground("pop_advance", "handle")
                        /\ read_sequence' = write
                        /\ taken' = character
                        /\ read' = 0 /\ write' = 0
                        /\ UNCHANGED character

pop_advance == /\ Foreground("pop_advance", "handle")
               /\ read_sequence' = (read + 1) % SequenceMod
               /\ taken' = character
               /\ read' = 0 /\ write' = 0
               /\ UNCHANGED character

(* shell_runtime_handle_char, then the next keyboard_pop_char. *)
main_handle == /\ Foreground("handle", "pop_read")
               /\ character' = NoChar
               /\ UNCHANGED <<read_sequence, read, write, taken>>

foreground == \/ keyboard_init \/ boot_status_check \/ main_hlt
              \/ pop_read \/ pop_write \/ pop_load \/ pop_advance \/ main_handle

(* boot_fail: cli, hlt for ever. *)
failed == at = "failed" /\ UNCHANGED vars

-----------------------------------------------------------------------------
(* The physical keyboard (external).  `want' is what the key event means   *)
(* to the user at the time it happens; the driver never sees it.           *)
Down(code) == [code |-> code, extended |-> FALSE] \in held
Meaning(key) ==
  LET shift == Down("left_shift") \/ Down("right_shift")
  IN  IF key.extended THEN NoChar
      ELSE CASE key.code = "a" -> IF shift # caps THEN "A" ELSE "a"
             [] key.code = "1" -> IF shift THEN "!" ELSE "1"
             [] key.code \in {"enter", "backspace", "space"} -> key.code
             [] OTHER -> NoChar

ScanByte(code, released, want) == [code |-> code, released |-> released, want |-> want]

Bytes(key, released, want) ==
  IF key.extended
  THEN <<ScanByte("E0", TRUE, NoChar), ScanByte(key.code, released, want)>>
  ELSE <<ScanByte(key.code, released, want)>>

(* The main loop has handled everything and halted. *)
Resting == at = "halted" /\ write_sequence = read_sequence

KeyEvent(key, released, want) ==
  /\ at # "failed"
  /\ IF fast THEN key \in FastKeys ELSE key \in SlowKeys /\ Resting
  /\ Len(wire) + Len(Bytes(key, released, want)) <= WireMax
  /\ wire' = wire \o Bytes(key, released, want)
  /\ UNCHANGED <<ringVars, dec, loopVars, fast>>

(* A make code: the first one, or a typematic repeat while the key is held. *)
(* The lock is the driver's own notion: every make code of it toggles.      *)
press(key) == /\ KeyEvent(key, FALSE, Meaning(key))
              /\ held' = held \cup {key}
              /\ caps' = IF key.code = "caps_lock" /\ ~ key.extended
                         THEN ~ caps ELSE caps

release(key) == /\ key \in held
                /\ KeyEvent(key, TRUE, NoChar)
                /\ held' = held \ {key}
                /\ UNCHANGED caps

Next == \/ keyboard_handle_irq \/ irq0 \/ foreground \/ failed
        \/ \E key \in Keys : at # "init" /\ (press(key) \/ release(key))

(* The CPU executes and the timer interrupts a halted CPU. *)
Fairness == WF_vars(foreground) /\ WF_vars(irq0)

Spec == Init /\ [][Next]_vars /\ Fairness

-----------------------------------------------------------------------------
(* A byte is decoded as the key event meant when it happened: whatever     *)
(* E0-prefixed bytes and repeated or overlapping shift keys came before,   *)
(* the decoder's shift and caps state is the one of that moment.           *)
DecodedAsTyped ==
  wire # << >> => keyboard_feed_scancode(dec, Head(wire)).char = Head(wire).want

Buffered == [i \in 1 .. Distance(write_sequence, read_sequence) |->
               character_queue[(read_sequence + i - 1) % KEYBOARD_QUEUE_CAPACITY]]

CharFifo == INSTANCE MessageFifo WITH
  Endpoints <- {"keyboard"}, Depth <- KEYBOARD_QUEUE_CAPACITY,
  CountMod <- SequenceMod, Contents <- Characters \cup {NoChar},
  open <- IF at = "init" THEN {} ELSE {"keyboard"},
  channel <- [e \in {"keyboard"} |-> Buffered],
  refused <- [e \in {"keyboard"} |-> dropped_characters],
  delivered <- taken

(* The ring is a bounded FIFO although the handler interrupts the pop      *)
(* between its loads: every character is popped once, in order, all slots  *)
(* are used, and exactly the characters that meet a full ring are counted. *)
ImplementsCharFifo == CharFifo!Spec

(* A buffered character reaches the shell even when its interrupt came     *)
(* after the ring was found empty and before hlt: the next timer interrupt *)
(* ends the hlt.  (A boot that dropped characters halts instead.)          *)
CharactersHandled ==
  (write_sequence # read_sequence) ~> (at \in {"handle", "failed"})
================================================================================
