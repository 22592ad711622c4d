------------------------------ MODULE TtyTask ------------------------------
(***************************************************************************)
(* The tty task (device/tty.c) and the decoder it runs                     *)
(* (device/keyboard.c): task_tty, keyboard_read, in_process, put_key and   *)
(* tty_do_write, with a user who presses and releases keys of a scan code  *)
(* set 1 keyboard.                                                         *)
(*                                                                         *)
(* The path from the keyboard to the task is the queue that KeyboardPath   *)
(* implements (ScancodeQueue): a byte of the wire enters kb_buf if there   *)
(* is room and is lost otherwise.  The tty's out_buffer is used by the     *)
(* task alone, so it is the sequence of its contents (KeyboardPathProofs). *)
(* in_buffer is initialised and never used.                                *)
(***************************************************************************)
EXTENDS Keymap, SequencesExt

CONSTANTS
  Keys,         \* the keys the user has
  KbCapacity,   \* buffer_size of keyboard.c
  OutCapacity,  \* TTY_OUT_BYTES
  MaxEvents,    \* bound on the number of key events
  Paced,        \* does the user wait for the task before the next key?
  Typematic,    \* the keys that repeat their make code while they are held down
  TtyTargets    \* what the uninitialised pointer p_tty may point to

ASSUME TargetsAssumption == TtyTargets \subseteq {"mapped", "unmapped"}

ASSUME UserAssumption ==
  /\ Keys \subseteq RealKeys /\ Typematic \subseteq Keys /\ Paced \in BOOLEAN
  /\ KbCapacity \in Nat /\ OutCapacity \in Nat /\ MaxEvents \in Nat

VARIABLES
  held,         \* the keys held down
  wire,         \* the bytes the keyboard still has to send
  events,       \* the number of key events so far
  kb_buf,       \* the bytes in the keyboard ring
  pc,           \* where the task is
  key,          \* key, while keyboard_read runs: the raw key and its flags
  make,         \* make, 1 for a make code, 0 for a break code
  scan_code, code_with_E0, count_E1,
  mods,         \* shift_l, shift_r, ctrl_l, ctrl_r, alt_l, alt_r
  locks,        \* caps_lock, num_lock, scroll_lock
  out_buffer,
  screen,       \* what kprintf has been given
  typed,        \* history: the characters the user meant
  presses,      \* history: how often each lock key went down
  overflowed    \* history: the buffers that were full when an element came

userVars    == <<held, wire, events, typed, presses>>
decodeVars  == <<key, make, scan_code, code_with_E0, count_E1>>
vars == <<userVars, kb_buf, pc, decodeVars, mods, locks, out_buffer, screen, overflowed>>

Garbage == 2   \* make before keyboard_read first assigns it
Modifiers == {"shift_l", "shift_r", "ctrl_l", "ctrl_r", "alt_l", "alt_r"}
NoKey == [raw |-> "NUL", flags |-> {}]

\* The lock keys: where init_keyboard leaves each lock, and its name there.
InitialLock == [CAPS_LOCK |-> 0, NUM_LOCK |-> 1, SCROLL_LOCK |-> 0]
LockKeys == [CAPS_LOCK |-> "caps_lock", NUM_LOCK |-> "num_lock", SCROLL_LOCK |-> "scroll_lock"]

Init ==
  /\ held = {} /\ wire = <<>> /\ events = 0
  /\ kb_buf = <<>>
  /\ pc = "init_tty"
  /\ key = NoKey /\ make = Garbage /\ scan_code = 0
  /\ code_with_E0 = FALSE /\ count_E1 = 0
  /\ mods = [m \in Modifiers |-> 0]
  /\ locks = [caps_lock |-> 0, num_lock |-> 1, scroll_lock |-> 0]
  /\ out_buffer = <<>> /\ screen = <<>>
  /\ typed = <<>> /\ presses = [l \in DOMAIN InitialLock |-> 0] /\ overflowed = {}

-----------------------------------------------------------------------------
(* The user, the keyboard and the way into kb_buf. *)

\* The task has nothing left to do and waits for a byte.
AtRest ==
  /\ wire = <<>> /\ kb_buf = <<>> /\ out_buffer = <<>>
  /\ pc = "loop" /\ key = NoKey

\* The character a key means when it goes down: what is printed on it, for the
\* shift keys and the locks the user has used.
Meaning(k) ==
  LET shift == held \cap {"SHIFT_L", "SHIFT_R"} # {}
      caps  == (InitialLock["CAPS_LOCK"] + presses["CAPS_LOCK"]) % 2 = 1
      num   == (InitialLock["NUM_LOCK"] + presses["NUM_LOCK"]) % 2 = 1
      upper == Entry(CodeOf(k), 1)
  IN CASE k \in Letters -> <<IF shift # caps THEN upper ELSE k>>
       [] k = "ENTER" -> <<"newline">>
       [] k = "BACKSPACE" -> <<"backspace">>
       [] k \in DOMAIN PadDigits -> IF num THEN <<PadDigits[k]>> ELSE <<>>
       [] k \in DOMAIN PadSigns -> IF k = "PAD_ENTER" THEN <<"newline">> ELSE <<PadSigns[k]>>
       [] k \in ExtKeys \ ({"ENTER", "BACKSPACE"} \cup PadKeys) -> <<>>
       [] OTHER -> <<IF shift THEN upper ELSE k>>

UserMoves ==
  /\ pc # "init_tty"
  /\ events < MaxEvents
  /\ wire = <<>>
  /\ Paced => AtRest
  /\ events' = events + 1
  /\ UNCHANGED <<kb_buf, pc, decodeVars, mods, locks, out_buffer, screen,
                 overflowed>>

Press(k) ==
  /\ UserMoves
  /\ k \notin held \/ k \in Typematic
  /\ held' = held \cup {k}
  /\ wire' = MakeCode(k)
  /\ typed' = typed \o Meaning(k)
  /\ presses' = IF k \in DOMAIN presses /\ k \notin held
                THEN [presses EXCEPT ![k] = @ + 1] ELSE presses

Release(k) ==
  /\ UserMoves
  /\ k \in held
  /\ held' = held \ {k}
  /\ wire' = BreakCode(k)
  /\ UNCHANGED <<typed, presses>>

\* The byte path: ScancodeQueue!Offer and Accept in one step.
Arrive ==
  /\ wire # <<>>
  /\ kb_buf' = IF Len(kb_buf) < KbCapacity THEN Append(kb_buf, Head(wire)) ELSE kb_buf
  /\ wire' = Tail(wire)
  /\ overflowed' = IF Len(kb_buf) < KbCapacity THEN overflowed
                   ELSE overflowed \cup {"kb_buf"}
  /\ UNCHANGED <<held, events, typed, presses, pc, decodeVars, mods, locks, out_buffer, screen>>

-----------------------------------------------------------------------------
(* The decoder. *)

\* task_tty never sets p_tty before it hands it to init_tty, which stores
\* through it: an address with no page ends in the page fault handler.
InitTty ==
  /\ pc = "init_tty"
  /\ \E target \in TtyTargets : pc' = IF target = "mapped" THEN "loop" ELSE "halted"
  /\ UNCHANGED <<userVars, kb_buf, decodeVars, mods, locks, out_buffer, screen,
                 overflowed>>

\* get_byte_from_kbuf
GetByte(b) ==
  /\ kb_buf # <<>>
  /\ b = Head(kb_buf)
  /\ kb_buf' = Tail(kb_buf)

ReadFirst ==
  /\ pc = "loop"
  /\ GetByte(scan_code')
  /\ code_with_E0' = (scan_code' = \hE0)
  /\ count_E1' = 1
  /\ pc' = CASE scan_code' = \hE1 -> "E1" [] scan_code' = \hE0 -> "E0" [] OTHER -> "decode"
  /\ UNCHANGED <<userVars, key, make, mods, locks, out_buffer, screen,
                 overflowed>>

\* One turn of the loop that compares with pausebreak_scan_code.
PauseCode == MakeCode("PAUSEBREAK")
ReadE1 ==
  /\ pc = "E1"
  /\ \E b \in 0 .. 255 :
       /\ GetByte(b)
       /\ pc' = IF b = PauseCode[count_E1 + 1] /\ count_E1 < 5 THEN "E1" ELSE "decode"
       /\ key' = IF b = PauseCode[count_E1 + 1] /\ count_E1 = 5
                 THEN [raw |-> "PAUSEBREAK", flags |-> {}] ELSE key
  /\ count_E1' = count_E1 + 1
  /\ UNCHANGED <<userVars, make, scan_code, code_with_E0, mods, locks, out_buffer, screen,
                 overflowed>>

\* A mutant: a second byte other than 0x2a is taken for that of a PrintScreen.
ReadE0AsPrintScreen ==
  /\ pc = "E0"
  /\ GetByte(scan_code')
  /\ code_with_E0' = (scan_code' \notin {\h2A, \hB7})
  /\ pc' = IF scan_code' = \h2A THEN "E0_2A" ELSE "E0_B7"
  /\ UNCHANGED <<userVars, key, make, count_E1, mods, locks, out_buffer, screen,
                 overflowed>>

ReadE0 ==
  /\ pc = "E0"
  /\ GetByte(scan_code')
  /\ code_with_E0' = (scan_code' \notin {\h2A, \hB7})
  /\ pc' = CASE scan_code' = \h2A -> "E0_2A" [] scan_code' = \hB7 -> "E0_B7" [] OTHER -> "decode"
  /\ UNCHANGED <<userVars, key, make, count_E1, mods, locks, out_buffer, screen,
                 overflowed>>

\* The third byte of PrintScreen, make or break.
ReadThird ==
  /\ pc \in {"E0_2A", "E0_B7"}
  /\ GetByte(scan_code')
  /\ code_with_E0' = (scan_code' = \hE0)
  /\ pc' = IF scan_code' # \hE0 THEN "decode"
           ELSE IF pc = "E0_2A" THEN "E0_2A_E0" ELSE "E0_B7_E0"
  /\ UNCHANGED <<userVars, key, make, count_E1, mods, locks, out_buffer, screen,
                 overflowed>>

ReadFourth ==
  /\ pc \in {"E0_2A_E0", "E0_B7_E0"}
  /\ GetByte(scan_code')
  /\ LET complete == scan_code' = IF pc = "E0_2A_E0" THEN \h37 ELSE \hAA
     IN /\ key' = IF complete THEN [raw |-> "PRINTSCREEN", flags |-> {}] ELSE key
        /\ make' = IF complete THEN (IF pc = "E0_2A_E0" THEN 1 ELSE 0) ELSE make
  /\ pc' = "decode"
  /\ UNCHANGED <<userVars, code_with_E0, count_E1, mods, locks, out_buffer, screen,
                 overflowed>>

\* A mutant: Caps Lock acts on every key.
ColumnCapsAnyKey ==
  CASE code_with_E0 -> 2
    [] ~code_with_E0 /\ (1 \in {mods["shift_l"], mods["shift_r"]}) # (locks["caps_lock"] = 1) -> 1
    [] OTHER -> 0

\* Where keyrow[column] is, for the scancode and the keys that are down.
Column ==
  LET caps == mods["shift_l"] = 1 \/ mods["shift_r"] = 1
      letter == Entry(scan_code % FLAG_BREAK, 0) \in Letters
  IN CASE code_with_E0 -> 2
       [] ~code_with_E0 /\ caps # (locks["caps_lock"] = 1 /\ letter) -> 1
       [] OTHER -> 0

\* Mutants: a case of the switch assigns the variable of its neighbour.
ModifierOfNeighbour ==
  [SHIFT_L |-> "shift_l", SHIFT_R |-> "shift_l", CTRL_L |-> "ctrl_l",
   CTRL_R |-> "ctrl_l", ALT_L |-> "alt_l", ALT_R |-> "alt_l"]
LockOfNeighbour == [CAPS_LOCK |-> "scroll_lock", SCROLL_LOCK |-> "scroll_lock"]

\* The modifier a key sets; for the right Alt key that is alt_l.
ModifierOf == [SHIFT_L |-> "shift_l", SHIFT_R |-> "shift_r", CTRL_L |-> "ctrl_l",
               CTRL_R |-> "ctrl_r", ALT_L |-> "alt_l", ALT_R |-> "alt_l"]

\* The lock a key toggles; the case of NUM_LOCK is empty.
LockOf == [CAPS_LOCK |-> "caps_lock", SCROLL_LOCK |-> "scroll_lock"]

\* PAUSEBREAK and PRINTSCREEN are set before this point; a key that still has
\* one of these values from the byte before is not replaced.
Preset == key.flags = {} /\ key.raw \in {"PAUSEBREAK", "PRINTSCREEN"}

\* The value a numpad key gets.
PadValue(raw) ==
  CASE raw \in DOMAIN PadSigns -> PadSigns[raw]
    [] raw \in DOMAIN PadDigits /\ locks["num_lock"] = 1 -> PadDigits[raw]
    [] raw \in DOMAIN PadMoves /\ locks["num_lock"] = 0 -> PadMoves[raw]
    [] OTHER -> raw

FlagOf == [shift_l |-> "FLAG_SHIFT_L", shift_r |-> "FLAG_SHIFT_R", ctrl_l |-> "FLAG_CTRL_L",
           ctrl_r |-> "FLAG_CTRL_R", alt_l |-> "FLAG_ALT_L", alt_r |-> "FLAG_ALT_R"]

\* The key in_process is given: its value, and the flags or-ed to it.
Flagged(raw, pressed) ==
  [raw   |-> PadValue(raw),
   flags |-> {FlagOf[m] : m \in {n \in Modifiers : pressed[n] = 1}}
               \cup IF raw \in PadKeys THEN {"FLAG_PAD"} ELSE {}]

\* A mutant: no test for a full ring.
PutKeyUnchecked(c) == out_buffer' = Append(out_buffer, c) /\ UNCHANGED overflowed

\* buffer32_put(&out_buffer, ...), its result ignored
PutKey(c) ==
  IF Len(out_buffer) < OutCapacity
  THEN out_buffer' = Append(out_buffer, c) /\ UNCHANGED overflowed
  ELSE UNCHANGED out_buffer /\ overflowed' = overflowed \cup {"out_buffer"}

\* A key without FLAG_EXT goes out whole, Enter and Backspace as \n and \b;
\* the other keys have no effect yet.
InProcess(k) ==
  CASE k.raw \notin ExtKeys   -> PutKey(k)
    [] k.raw = "ENTER"     -> PutKey([raw |-> "newline", flags |-> {}])
    [] k.raw = "BACKSPACE" -> PutKey([raw |-> "backspace", flags |-> {}])
    [] OTHER               -> UNCHANGED <<out_buffer, overflowed>>

\* The rest of the loop body, from the lookup to in_process.
Decode ==
  /\ pc = "decode"
  /\ LET raw == IF Preset THEN key.raw ELSE Entry(scan_code % FLAG_BREAK, Column)
         assigned == IF Preset THEN make ELSE IF scan_code >= FLAG_BREAK THEN 0 ELSE 1
     IN /\ make' \in IF assigned = Garbage THEN {0, 1} ELSE {assigned}
        /\ mods' = IF ~Preset /\ raw \in DOMAIN ModifierOf
                   THEN [mods EXCEPT ![ModifierOf[raw]] = make'] ELSE mods
        /\ locks' = IF ~Preset /\ raw \in DOMAIN LockOf /\ make' = 1
                    THEN [locks EXCEPT ![LockOf[raw]] = 1 - @] ELSE locks
        /\ IF make' = 1
           THEN key' = Flagged(raw, mods') /\ InProcess(key')
           ELSE key' = [raw |-> raw, flags |-> {}] /\ UNCHANGED <<out_buffer, overflowed>>
  /\ pc' = "loop"
  /\ UNCHANGED <<userVars, kb_buf, scan_code, code_with_E0, count_E1, screen>>

\* A mutant: the task writes only once out_buffer is full.
ReadDoneWhenFull ==
  /\ pc = "loop"
  /\ kb_buf = <<>>
  /\ pc' = IF Len(out_buffer) = OutCapacity THEN "write" ELSE "loop"
  /\ UNCHANGED <<userVars, kb_buf, decodeVars, mods, locks, out_buffer, screen,
                 overflowed>>

\* keyboard_read returns once the ring is empty; tty_do_write follows.
ReadDone ==
  /\ pc = "loop"
  /\ kb_buf = <<>>
  /\ pc' = "write"
  /\ UNCHANGED <<userVars, kb_buf, decodeVars, mods, locks, out_buffer, screen,
                 overflowed>>

\* A mutant: the newest key is taken first.
WriteNewestKey ==
  /\ pc = "write"
  /\ out_buffer # <<>>
  /\ screen' = Append(screen, Last(out_buffer).raw)
  /\ out_buffer' = Front(out_buffer)
  /\ UNCHANGED <<userVars, kb_buf, pc, decodeVars, mods, locks, overflowed>>

\* kprintf("%c", c) keeps the low byte of c, which holds none of the flags.
WriteKey ==
  /\ pc = "write"
  /\ out_buffer # <<>>
  /\ screen' = Append(screen, Head(out_buffer).raw)
  /\ out_buffer' = Tail(out_buffer)
  /\ UNCHANGED <<userVars, kb_buf, pc, decodeVars, mods, locks,
                 overflowed>>

\* The next call of keyboard_read has a key and a make of its own.
WriteDone ==
  /\ pc = "write"
  /\ out_buffer = <<>>
  /\ pc' = "loop"
  /\ key' = NoKey
  /\ make' = Garbage
  /\ UNCHANGED <<userVars, kb_buf, scan_code, code_with_E0, count_E1, mods, locks,
                 out_buffer, screen, overflowed>>

TaskStep ==
  InitTty \/ ReadFirst \/ ReadE1 \/ ReadE0 \/ ReadThird \/ ReadFourth \/ Decode
    \/ ReadDone \/ WriteKey \/ WriteDone

Next == (\E k \in Keys : Press(k) \/ Release(k)) \/ Arrive \/ TaskStep

Spec == Init /\ [][Next]_vars

\* The keyboard sends what it has, and the task is alone on the CPU.  The user
\* owes nothing.
FairSpec == Spec /\ WF_vars(Arrive) /\ WF_vars(TaskStep)

-----------------------------------------------------------------------------
(* Properties. *)

TypeOK ==
  /\ held \subseteq Keys /\ events \in 0 .. MaxEvents
  /\ wire \in Seq(0 .. 255) /\ kb_buf \in Seq(0 .. 255) /\ Len(kb_buf) <= KbCapacity
  /\ pc \in {"init_tty", "halted", "loop", "E1", "E0", "E0_2A", "E0_B7", "E0_2A_E0",
             "E0_B7_E0", "decode", "write"}
  /\ key.flags \subseteq {FlagOf[m] : m \in Modifiers} \cup {"FLAG_PAD"}
  /\ make \in {0, 1, Garbage} /\ scan_code \in 0 .. 255
  /\ code_with_E0 \in BOOLEAN /\ count_E1 \in 0 .. 6
  /\ mods \in [Modifiers -> {0, 1}]
  /\ locks \in [{"caps_lock", "num_lock", "scroll_lock"} -> {0, 1}]
  /\ Len(out_buffer) <= OutCapacity
  /\ presses \in [DOMAIN InitialLock -> 0 .. MaxEvents] 
  /\ overflowed \subseteq {"kb_buf", "out_buffer"}

\* At rest the decoder's modifiers are the keys the user holds: no order of
\* presses and releases, on either side of the keyboard, leaves one stuck.
\* ("l shift state", "l alt state", ..., include/keyboard.h)
ModifierKeys == [shift_l |-> "SHIFT_L", shift_r |-> "SHIFT_R", ctrl_l |-> "CTRL_L",
                 ctrl_r |-> "CTRL_R", alt_l |-> "ALT_L", alt_r |-> "ALT_R"]
ModifiersTrack ==
  AtRest /\ "kb_buf" \notin overflowed =>
    \A m \in Modifiers : mods[m] = IF ModifierKeys[m] \in held THEN 1 ELSE 0

\* At rest a lock has changed as often as its key was pressed.  The comment in
\* the decoder says of the numpad "the value of these keys depends on the
\* Numlock": num_lock is a lock like the others.
LocksTrack ==
  AtRest /\ "kb_buf" \notin overflowed =>
    \A l \in DOMAIN LockKeys : locks[LockKeys[l]] = (InitialLock[l] + presses[l]) % 2

\* What reaches the screen, or is on its way there, is the beginning of what
\* the user typed: in that order, in the case the keys held and Caps Lock
\* called for, nothing twice and nothing from the codes of other keys.
Echoed == screen \o [i \in 1 .. Len(out_buffer) |-> out_buffer[i].raw]
EchoFaithful ==
  overflowed = {} => IsPrefix(Echoed, typed) /\ (AtRest => screen = typed)

\* With an output buffer too small for a burst, keys are left out of what is
\* shown, but none is invented and none overtakes another.
EchoInOrder ==
  "kb_buf" \notin overflowed => \E f \in [1 .. Len(Echoed) -> 1 .. Len(typed)] :
             \A i \in 1 .. Len(Echoed) :
               /\ Echoed[i] = typed[f[i]]
               /\ i > 1 => f[i - 1] < f[i]

\* The task waits inside a code of several bytes only for bytes of that code:
\* it does not take one key's bytes for another's, and does not block on bytes
\* that never come.
FrameSync ==
  pc \in {"E1", "E0", "E0_2A", "E0_B7", "E0_2A_E0", "E0_B7_E0"} /\ "kb_buf" \notin overflowed
    => wire # <<>> \/ kb_buf # <<>>

\* Once the user stops, all that was typed is shown: no order of arrivals
\* leaves a key in a buffer that the task does not come back to.
EchoComplete ==
  <>[](\/ overflowed # {} \/ pc = "halted"
       \/ wire = <<>> /\ kb_buf = <<>> /\ screen = typed)
=============================================================================
