------------------------------- MODULE Keymap -------------------------------
(***************************************************************************)
(* The tables of include/keymap.h and include/keyboard.h: what a key sends *)
(* (scan code set 1, the appendix of keymap.h) and what a scancode means   *)
(* (keymap[]).  A key is named by its macro, a character key by the        *)
(* character (grave accent, quote and space by their names), the value 0   *)
(* by "NUL".                                                               *)
(***************************************************************************)
EXTENDS Integers, Sequences

FLAG_BREAK == \h80

\* Column 0 and column 1 of keymap[] for the codes 0x01 to 0x53.
Unshifted == <<
  "ESC", "1", "2", "3", "4", "5", "6", "7", "8", "9", "0", "-", "=", "BACKSPACE", "TAB",
  "q", "w", "e", "r", "t", "y", "u", "i", "o", "p", "[", "]", "ENTER", "CTRL_L",
  "a", "s", "d", "f", "g", "h", "j", "k", "l", ";", "'", "grave", "SHIFT_L", "\\",
  "z", "x", "c", "v", "b", "n", "m", ",", ".", "/", "SHIFT_R", "*", "ALT_L", "space",
  "CAPS_LOCK", "F1", "F2", "F3", "F4", "F5", "F6", "F7", "F8", "F9", "F10",
  "NUM_LOCK", "SCROLL_LOCK", "PAD_7", "PAD_8", "PAD_9", "PAD_MINUS", "PAD_4", "PAD_5",
  "PAD_6", "PAD_PLUS", "PAD_1", "PAD_2", "PAD_3", "PAD_0", "PAD_DOT" >>

Shifted == <<
  "ESC", "!", "@", "#", "$", "%", "^", "&", "*", "(", ")", "_", "+", "BACKSPACE", "TAB",
  "Q", "W", "E", "R", "T", "Y", "U", "I", "O", "P", "{", "}", "ENTER", "CTRL_L",
  "A", "S", "D", "F", "G", "H", "J", "K", "L", ":", "quote", "~", "SHIFT_L", "|",
  "Z", "X", "C", "V", "B", "N", "M", "<", ">", "?", "SHIFT_R", "*", "ALT_L", "space",
  "CAPS_LOCK", "F1", "F2", "F3", "F4", "F5", "F6", "F7", "F8", "F9", "F10",
  "NUM_LOCK", "SCROLL_LOCK", "7", "8", "9", "-", "4", "5", "6", "+", "1", "2", "3",
  "0", "." >>

\* Column 2, where it is not 0.
AfterE0 == [c \in {\h1C, \h1D, \h35, \h38, \h47, \h48, \h49, \h4B, \h4D, \h4F, \h50,
                   \h51, \h52, \h53, \h5B, \h5C, \h5D} |->
  CASE c = \h1C -> "PAD_ENTER" [] c = \h1D -> "CTRL_R"  [] c = \h35 -> "PAD_SLASH"
    [] c = \h38 -> "ALT_R"     [] c = \h47 -> "HOME"    [] c = \h48 -> "UP"
    [] c = \h49 -> "PAGEUP"    [] c = \h4B -> "LEFT"    [] c = \h4D -> "RIGHT"
    [] c = \h4F -> "END"       [] c = \h50 -> "DOWN"    [] c = \h51 -> "PAGEDOWN"
    [] c = \h52 -> "INSERT"    [] c = \h53 -> "DELETE"  [] c = \h5B -> "GUI_L"
    [] c = \h5C -> "GUI_R"     [] c = \h5D -> "APPS"]

\* keymap[code * MAP_COLS + column], for column in 0 .. 2
Entry(code, column) ==
  CASE column = 2 /\ code \in DOMAIN AfterE0 -> AfterE0[code]
    [] column < 2 /\ code \in {\h57, \h58} -> IF code = \h57 THEN "F11" ELSE "F12"
    [] column = 0 /\ code \in 1 .. Len(Unshifted) -> Unshifted[code]
    [] column = 1 /\ code \in 1 .. Len(Shifted) -> Shifted[code]
    [] OTHER -> "NUL"

\* The keys of the keyboard: those of columns 0 and 2, and the two that
\* send a code of their own.
RealKeys == {Unshifted[c] : c \in 1 .. Len(Unshifted)} \cup {AfterE0[c] : c \in DOMAIN AfterE0}
              \cup {"F11", "F12", "PRINTSCREEN", "PAUSEBREAK"}

\* The entries whose column 0 is in 'a' .. 'z'.
Letters == {Unshifted[c] : c \in (\h10 .. \h19) \cup (\h1E .. \h26) \cup (\h2C .. \h32)}

PadDigits == [PAD_0 |-> "0", PAD_1 |-> "1", PAD_2 |-> "2", PAD_3 |-> "3", PAD_4 |-> "4",
              PAD_5 |-> "5", PAD_6 |-> "6", PAD_7 |-> "7", PAD_8 |-> "8", PAD_9 |-> "9",
              PAD_DOT |-> "."]
PadSigns  == [PAD_SLASH |-> "/", PAD_STAR |-> "*", PAD_MINUS |-> "-", PAD_PLUS |-> "+",
              PAD_ENTER |-> "ENTER"]
PadMoves  == [PAD_0 |-> "INSERT", PAD_1 |-> "END", PAD_2 |-> "DOWN", PAD_3 |-> "PAGEDOWN",
              PAD_4 |-> "LEFT", PAD_6 |-> "RIGHT", PAD_7 |-> "HOME", PAD_8 |-> "UP",
              PAD_9 |-> "PAGEUP", PAD_DOT |-> "DELETE"]
PadKeys   == DOMAIN PadDigits \cup DOMAIN PadSigns

\* The keys whose value has FLAG_EXT.
ExtKeys ==
  {"ESC", "TAB", "ENTER", "BACKSPACE", "GUI_L", "GUI_R", "APPS", "SHIFT_L", "SHIFT_R",
   "CTRL_L", "CTRL_R", "ALT_L", "ALT_R", "CAPS_LOCK", "NUM_LOCK", "SCROLL_LOCK", "F1",
   "F2", "F3", "F4", "F5", "F6", "F7", "F8", "F9", "F10", "F11", "F12", "PRINTSCREEN",
   "PAUSEBREAK", "INSERT", "DELETE", "HOME", "END", "PAGEUP", "PAGEDOWN", "UP", "DOWN",
   "LEFT", "RIGHT"} \cup PadKeys

-----------------------------------------------------------------------------
(* What the keyboard sends for a key: scan code set 1. *)

\* The code of a key of column 0.
CodeOf(k) == CHOOSE c \in 1 .. 127 : Entry(c, 0) = k

MakeCode(k) ==
  CASE k = "PRINTSCREEN" -> <<\hE0, \h2A, \hE0, \h37>>
    [] k = "PAUSEBREAK"  -> <<\hE1, \h1D, \h45, \hE1, \h9D, \hC5>>
    [] \E c \in 1 .. 127 : Entry(c, 2) = k ->
         <<\hE0, CHOOSE c \in 1 .. 127 : Entry(c, 2) = k>>
    [] OTHER -> <<CodeOf(k)>>

\* A break code is the make code with FLAG_BREAK; Pause has none.
BreakCode(k) ==
  CASE k = "PRINTSCREEN" -> <<\hE0, \hB7, \hE0, \hAA>>
    [] k = "PAUSEBREAK"  -> <<>>
    [] OTHER -> [MakeCode(k) EXCEPT ![Len(MakeCode(k))] = @ + FLAG_BREAK]
=============================================================================
