--------------------------- MODULE TtyTaskProofs ---------------------------
(***************************************************************************)
(* Proofs about the tty task and its decoder: for every set of keys of the *)
(* keyboard, every capacity of the buffers and every number of key events, *)
(* the decoder keeps in step with the codes on the wire, its modifiers and *)
(* locks follow the user's hands, and what it shows is what was typed.     *)
(*                                                                         *)
(* The argument: the bytes under way (kb_buf and wire) always lead the     *)
(* decoder, one byte at a time, from the state it is in to one that agrees *)
(* with the user.  A key event appends the bytes of one code to them, and  *)
(* one lookup in the tables of keymap.h shows where they lead; a step of   *)
(* the task takes the first of them away.                                  *)
(***************************************************************************)
EXTENDS TtyTask, SequenceTheorems, TLAPS

-----------------------------------------------------------------------------
(* The tables. *)

Specials == {"PRINTSCREEN", "PAUSEBREAK"}

LEMMA PadDomains ==
  /\ DOMAIN PadDigits = {"PAD_0", "PAD_1", "PAD_2", "PAD_3", "PAD_4", "PAD_5", "PAD_6",
                         "PAD_7", "PAD_8", "PAD_9", "PAD_DOT"}
  /\ DOMAIN PadSigns = {"PAD_SLASH", "PAD_STAR", "PAD_MINUS", "PAD_PLUS", "PAD_ENTER"}
  BY DEF PadDigits, PadSigns

\* The two columns of a row: two characters, one key without a character, or a
\* key of the numpad and its character.
Pair(u, v) ==
  \/ u \notin ExtKeys /\ v \notin ExtKeys
  \/ u = v /\ u \in ExtKeys \ (PadKeys \cup Specials)
  \/ u \in DOMAIN PadDigits /\ v = PadDigits[u]
  \/ u \in {"PAD_MINUS", "PAD_PLUS"} /\ v = PadSigns[u]

Row(c) == Pair(Unshifted[c], Shifted[c])

LEMMA TableLengths == Len(Unshifted) = 83 /\ Len(Shifted) = 83
  BY DEF Unshifted, Shifted

Text(c) == Unshifted[c] # "NUL" /\ Shifted[c] # "NUL"

LEMMA TextsGiven == \A c \in 1 .. 83 : Text(c)
<1>1. Text(1) /\ Text(2) /\ Text(3) /\ Text(4) /\ Text(5) /\ Text(6) /\ Text(7)
      /\ Text(8) /\ Text(9) /\ Text(10) /\ Text(11) /\ Text(12) /\ Text(13) /\ Text(14)
  BY SMTT(60) DEF Text, Unshifted, Shifted
<1>2. Text(15) /\ Text(16) /\ Text(17) /\ Text(18) /\ Text(19) /\ Text(20) /\ Text(21)
      /\ Text(22) /\ Text(23) /\ Text(24) /\ Text(25) /\ Text(26) /\ Text(27) /\ Text(28)
  BY SMTT(60) DEF Text, Unshifted, Shifted
<1>3. Text(29) /\ Text(30) /\ Text(31) /\ Text(32) /\ Text(33) /\ Text(34) /\ Text(35)
      /\ Text(36) /\ Text(37) /\ Text(38) /\ Text(39) /\ Text(40) /\ Text(41) /\ Text(42)
  BY SMTT(60) DEF Text, Unshifted, Shifted
<1>4. Text(43) /\ Text(44) /\ Text(45) /\ Text(46) /\ Text(47) /\ Text(48) /\ Text(49)
      /\ Text(50) /\ Text(51) /\ Text(52) /\ Text(53) /\ Text(54) /\ Text(55) /\ Text(56)
  BY SMTT(60) DEF Text, Unshifted, Shifted
<1>5. Text(57) /\ Text(58) /\ Text(59) /\ Text(60) /\ Text(61) /\ Text(62) /\ Text(63)
      /\ Text(64) /\ Text(65) /\ Text(66) /\ Text(67) /\ Text(68) /\ Text(69) /\ Text(70)
  BY SMTT(60) DEF Text, Unshifted, Shifted
<1>6. Text(71) /\ Text(72) /\ Text(73) /\ Text(74) /\ Text(75) /\ Text(76) /\ Text(77)
      /\ Text(78) /\ Text(79) /\ Text(80) /\ Text(81) /\ Text(82) /\ Text(83)
  BY SMTT(60) DEF Text, Unshifted, Shifted
<1> QED
  BY <1>1, <1>2, <1>3, <1>4, <1>5, <1>6

LEMMA Rows == \A c \in 1 .. 83 : Row(c)
<1> USE PadDomains DEF Row, Pair, ExtKeys, PadKeys, PadDigits, PadSigns, Specials
<1>1. Row(1) /\ Row(2) /\ Row(3) /\ Row(4) /\ Row(5) /\ Row(6)
  BY SMTT(60) DEF Unshifted, Shifted
<1>2. Row(7) /\ Row(8) /\ Row(9) /\ Row(10) /\ Row(11) /\ Row(12)
  BY SMTT(60) DEF Unshifted, Shifted
<1>3. Row(13) /\ Row(14) /\ Row(15) /\ Row(16) /\ Row(17) /\ Row(18)
  BY SMTT(60) DEF Unshifted, Shifted
<1>4. Row(19) /\ Row(20) /\ Row(21) /\ Row(22) /\ Row(23) /\ Row(24)
  BY SMTT(60) DEF Unshifted, Shifted
<1>5. Row(25) /\ Row(26) /\ Row(27) /\ Row(28) /\ Row(29) /\ Row(30)
  BY SMTT(60) DEF Unshifted, Shifted
<1>6. Row(31) /\ Row(32) /\ Row(33) /\ Row(34) /\ Row(35) /\ Row(36)
  BY SMTT(60) DEF Unshifted, Shifted
<1>7. Row(37) /\ Row(38) /\ Row(39) /\ Row(40) /\ Row(41) /\ Row(42)
  BY SMTT(60) DEF Unshifted, Shifted
<1>8. Row(43) /\ Row(44) /\ Row(45) /\ Row(46) /\ Row(47) /\ Row(48)
  BY SMTT(60) DEF Unshifted, Shifted
<1>9. Row(49) /\ Row(50) /\ Row(51) /\ Row(52) /\ Row(53) /\ Row(54)
  BY SMTT(60) DEF Unshifted, Shifted
<1>10. Row(55) /\ Row(56) /\ Row(57) /\ Row(58) /\ Row(59) /\ Row(60)
  BY SMTT(60) DEF Unshifted, Shifted
<1>11. Row(61) /\ Row(62) /\ Row(63) /\ Row(64) /\ Row(65) /\ Row(66)
  BY SMTT(60) DEF Unshifted, Shifted
<1>12. Row(67) /\ Row(68) /\ Row(69) /\ Row(70) /\ Row(71) /\ Row(72)
  BY SMTT(60) DEF Unshifted, Shifted
<1>13. Row(73) /\ Row(74) /\ Row(75) /\ Row(76) /\ Row(77) /\ Row(78)
  BY SMTT(60) DEF Unshifted, Shifted
<1>14. Row(79) /\ Row(80) /\ Row(81) /\ Row(82) /\ Row(83)
  BY SMTT(60) DEF Unshifted, Shifted
<1> HIDE DEF Row
<1> QED
  BY <1>1, <1>2, <1>3, <1>4, <1>5, <1>6, <1>7,
     <1>8, <1>9, <1>10, <1>11, <1>12, <1>13, <1>14

E0Keys == {"PAD_ENTER", "CTRL_R", "PAD_SLASH", "ALT_R", "HOME", "UP", "PAGEUP", "LEFT", "RIGHT",
           "END", "DOWN", "PAGEDOWN", "INSERT", "DELETE", "GUI_L", "GUI_R", "APPS"}

E0Codes == {28, 29, 53, 56, 71, 72, 73, 75, 77, 79, 80, 81, 82, 83, 91, 92, 93}

LEMMA E0Rows == DOMAIN AfterE0 = E0Codes /\ \A c \in E0Codes : AfterE0[c] \in E0Keys
  BY DEF AfterE0, E0Codes, E0Keys

\* The keys with a code of one byte.
OneByte == 1 .. 83 \cup {87, 88}

LEMMA EntryLow == \A c \in 1 .. 83 : Entry(c, 0) = Unshifted[c] /\ Entry(c, 1) = Shifted[c]
  BY TableLengths DEF Entry

LEMMA EntryFn ==
  /\ Entry(87, 0) = "F11" /\ Entry(87, 1) = "F11"
  /\ Entry(88, 0) = "F12" /\ Entry(88, 1) = "F12"
<1>1. \A c \in {87, 88} : c \notin 1 .. 83 /\ c \notin {1} /\ 0 # 2
  OBVIOUS
<1> QED
  BY TableLengths DEF Entry

LEMMA EntryE0 ==
  ASSUME NEW c \in Int
  PROVE  /\ c \in E0Codes => Entry(c, 2) = AfterE0[c]
         /\ c \notin E0Codes => Entry(c, 2) = "NUL"
  BY E0Rows DEF Entry

LEMMA EntryElse == ASSUME NEW c \in Int, c \notin OneByte PROVE Entry(c, 0) = "NUL" /\ Entry(c, 1) = "NUL"
  BY TableLengths DEF Entry, OneByte


\* What the tables and the numpad's tables give.
Texts ==
  {Unshifted[c] : c \in 1 .. 83} \cup {Shifted[c] : c \in 1 .. 83}
    \cup {AfterE0[c] : c \in E0Codes} \cup {PadDigits[p] : p \in DOMAIN PadDigits}
    \cup {PadSigns[p] : p \in DOMAIN PadSigns} \cup {PadMoves[p] : p \in DOMAIN PadMoves}
    \cup {"F11", "F12", "NUL", "PRINTSCREEN", "PAUSEBREAK", "newline", "backspace"}

LEMMA EntryText == ASSUME NEW c \in Int, NEW col \in 0 .. 2 PROVE Entry(c, col) \in Texts
<1>1. CASE col = 2
  BY <1>1, EntryE0 DEF Texts
<1>2. CASE col < 2 /\ c \notin OneByte
  BY <1>2, EntryElse DEF Texts
<1>3. CASE col < 2 /\ c \in 1 .. 83
  BY <1>3, EntryLow DEF Texts
<1>4. CASE col < 2 /\ c \in {87, 88}
  BY <1>4, EntryFn DEF Texts
<1> QED
  BY <1>1, <1>2, <1>3, <1>4 DEF OneByte

\* No entry is one of the two keys the tables do not hold.
LEMMA EntryNotSpecial == ASSUME NEW c \in Int, NEW col \in 0 .. 2 PROVE Entry(c, col) \notin Specials
<1>1. CASE col = 2
  BY <1>1, EntryE0, E0Rows DEF E0Keys, Specials
<1>2. CASE col < 2 /\ c \notin OneByte
  BY <1>2, EntryElse DEF Specials
<1>3. CASE col < 2 /\ c \in 1 .. 83
  <2>1. Row(c) /\ (Entry(c, col) = Unshifted[c] \/ Entry(c, col) = Shifted[c])
    BY <1>3, Rows, EntryLow
  <2>2. Specials \subseteq ExtKeys
    BY DEF Specials, ExtKeys
  <2>3. \A p \in DOMAIN PadDigits : p \notin Specials /\ PadDigits[p] \notin Specials
    BY PadDomains DEF PadDigits, Specials
  <2>4. \A p \in {"PAD_MINUS", "PAD_PLUS"} : p \notin Specials /\ PadSigns[p] \notin Specials
    BY DEF PadSigns, Specials
  <2> QED
    BY <2>1, <2>2, <2>3, <2>4 DEF Row, Pair
<1>4. CASE col < 2 /\ c \in {87, 88}
  BY <1>4, EntryFn DEF Specials
<1> QED
  BY <1>1, <1>2, <1>3, <1>4 DEF OneByte

-----------------------------------------------------------------------------
(* The codes. *)

LEMMA RealKeyRows ==
  ASSUME NEW k \in RealKeys
  PROVE  /\ k # "NUL"
         /\ \/ \E c \in 1 .. 83 : k = Unshifted[c]
            \/ \E c \in E0Codes : k = AfterE0[c]
            \/ k \in {"F11", "F12"}
            \/ k \in Specials
<1>1. \/ \E c \in 1 .. 83 : k = Unshifted[c]
      \/ \E c \in E0Codes : k = AfterE0[c]
      \/ k \in {"F11", "F12"}
      \/ k \in Specials
  BY TableLengths, E0Rows DEF RealKeys, Specials
<1>2. k # "NUL"
  BY <1>1, TextsGiven, E0Rows DEF Text, E0Keys, Specials
<1> QED
  BY <1>1, <1>2

LEMMA NotSpecialCode == ~(\E c \in 1 .. 127 : Entry(c, 2) \in Specials)
  BY EntryNotSpecial

LEMMA SpecialCodes ==
  /\ MakeCode("PRINTSCREEN") = <<\hE0, \h2A, \hE0, \h37>>
  /\ BreakCode("PRINTSCREEN") = <<\hE0, \hB7, \hE0, \hAA>>
  /\ MakeCode("PAUSEBREAK") = <<\hE1, \h1D, \h45, \hE1, \h9D, \hC5>>
  /\ BreakCode("PAUSEBREAK") = <<>>
  BY NotSpecialCode DEF MakeCode, BreakCode, Specials

\* The keys of column 2.
HasE0(k) == \E c \in 1 .. 127 : Entry(c, 2) = k

\* A key of column 2 sends \hE0 and its code there.
LEMMA E0Code ==
  ASSUME NEW k \in RealKeys \ Specials, HasE0(k)
  PROVE  \E c \in E0Codes : /\ k = AfterE0[c] /\ k \in E0Keys
                            /\ MakeCode(k) = <<\hE0, c>>
                            /\ BreakCode(k) = <<\hE0, c + FLAG_BREAK>>
<1> DEFINE c == CHOOSE d \in 1 .. 127 : Entry(d, 2) = k
<1>1. c \in 1 .. 127 /\ Entry(c, 2) = k
  BY SMTT(30) DEF HasE0
<1>2. MakeCode(k) = <<\hE0, c>>
  BY DEF MakeCode, Specials, HasE0
<1> HIDE DEF c
<1>3. k # "NUL"
  BY RealKeyRows
<1>4. c \in E0Codes /\ k = AfterE0[c] /\ k \in E0Keys
  BY <1>1, <1>3, EntryE0, E0Rows
<1>5. BreakCode(k) = [MakeCode(k) EXCEPT ![Len(MakeCode(k))] = @ + FLAG_BREAK]
  BY DEF BreakCode, Specials
<1>6. BreakCode(k) = <<\hE0, c + FLAG_BREAK>>
  BY <1>1, <1>2, <1>5
<1> QED
  BY <1>2, <1>4, <1>6

\* Any other key sends its code of column 0.
LEMMA OneByteCode ==
  ASSUME NEW k \in RealKeys \ Specials, ~HasE0(k)
  PROVE  /\ CodeOf(k) \in OneByte /\ Entry(CodeOf(k), 0) = k
         /\ MakeCode(k) = <<CodeOf(k)>> /\ BreakCode(k) = <<CodeOf(k) + FLAG_BREAK>>
<1>1. k # "NUL"
  BY RealKeyRows
<1>2. \E c \in 1 .. 127 : Entry(c, 0) = k
  <2>1. CASE \E c \in 1 .. 83 : k = Unshifted[c]
    BY <2>1, EntryLow
  <2>2. CASE \E c \in E0Codes : k = AfterE0[c]
    <3>1. PICK c \in E0Codes : k = AfterE0[c]
      BY <2>2
    <3>2. Entry(c, 2) = k /\ c \in 1 .. 127
      BY <3>1, EntryE0 DEF E0Codes
    <3> QED
      BY <3>2 DEF HasE0
  <2>3. CASE k \in {"F11", "F12"}
    BY <2>3, EntryFn
  <2> QED
    BY <2>1, <2>2, <2>3, RealKeyRows
<1>3. CodeOf(k) \in 1 .. 127 /\ Entry(CodeOf(k), 0) = k
  BY <1>2 DEF CodeOf
<1>4. CodeOf(k) \in OneByte
  BY <1>1, <1>3, EntryElse
<1>5. MakeCode(k) = <<CodeOf(k)>>
  BY DEF MakeCode, Specials, HasE0
<1>6. BreakCode(k) = [MakeCode(k) EXCEPT ![Len(MakeCode(k))] = @ + FLAG_BREAK]
  BY DEF BreakCode, Specials
<1>7. BreakCode(k) = <<CodeOf(k) + FLAG_BREAK>>
  BY <1>3, <1>5, <1>6
<1> QED
  BY <1>3, <1>4, <1>5, <1>7

\* What a key sends are bytes.
LEMMA CodesAreBytes ==
  ASSUME NEW k \in RealKeys
  PROVE  MakeCode(k) \in Seq(0 .. 255) /\ BreakCode(k) \in Seq(0 .. 255)
<1>1. CASE k \in Specials
  <2>1. <<\hE0, \h2A, \hE0, \h37>> \in Seq(0 .. 255) /\ <<\hE0, \hB7, \hE0, \hAA>> \in Seq(0 .. 255)
    OBVIOUS
  <2>2. <<\hE1, \h1D, \h45, \hE1, \h9D, \hC5>> \in Seq(0 .. 255) /\ <<>> \in Seq(0 .. 255)
    OBVIOUS
  <2>3. CASE k = "PRINTSCREEN"
    BY <2>1, <2>3, SpecialCodes, ZenonT(40)
  <2>4. CASE k = "PAUSEBREAK"
    BY <2>2, <2>4, SpecialCodes, Zenon
  <2> QED
    BY <1>1, <2>3, <2>4 DEF Specials
<1>2. CASE k \notin Specials /\ HasE0(k)
  <2>1. PICK c \in E0Codes : MakeCode(k) = <<\hE0, c>> /\ BreakCode(k) = <<\hE0, c + FLAG_BREAK>>
    BY <1>2, E0Code
  <2>2. c \in 0 .. 255 /\ c + FLAG_BREAK \in 0 .. 255
    BY DEF E0Codes, FLAG_BREAK
  <2>3. \A b \in 0 .. 255 : <<\hE0, b>> \in Seq(0 .. 255)
    OBVIOUS
  <2> QED
    BY <2>1, <2>2, <2>3
<1>3. CASE k \notin Specials /\ ~HasE0(k)
  <2>1. CodeOf(k) \in 0 .. 255 /\ CodeOf(k) + FLAG_BREAK \in 0 .. 255
    BY <1>3, OneByteCode DEF OneByte, FLAG_BREAK
  <2>2. \A b \in 0 .. 255 : <<b>> \in Seq(0 .. 255)
    OBVIOUS
  <2> QED
    BY <1>3, <2>1, <2>2, OneByteCode
<1> QED
  BY <1>1, <1>2, <1>3

-----------------------------------------------------------------------------
(* The decoder as a function of one byte: what a state of it becomes, when *)
(* the bytes are those of whole codes.                                      *)

Reading  == {"E1", "E0", "E0_2A", "E0_B7", "E0_2A_E0", "E0_B7_E0"}
Locks    == {"caps_lock", "num_lock", "scroll_lock"}

\* The entry that Decode finds, for any scancode, modifiers and locks: after
\* \hE0, and without it.
E0Raw(b) == Entry(b % FLAG_BREAK, 2)
ColumnOf(b, m, l) ==
  IF (m["shift_l"] = 1 \/ m["shift_r"] = 1)
       # (l["caps_lock"] = 1 /\ Entry(b % FLAG_BREAK, 0) \in Letters)
  THEN 1 ELSE 0
LowRaw(b, m, l) == Entry(b % FLAG_BREAK, ColumnOf(b, m, l))
MakeOf(b) == IF b >= FLAG_BREAK THEN 0 ELSE 1
ModsOf(raw, mk, m) == IF raw \in DOMAIN ModifierOf THEN [m EXCEPT ![ModifierOf[raw]] = mk] ELSE m
LocksOf(raw, mk, l) ==
  IF raw \in DOMAIN LockOf /\ mk = 1 THEN [l EXCEPT ![LockOf[raw]] = 1 - @] ELSE l
PadOf(raw, l) ==
  IF raw \in DOMAIN PadSigns THEN PadSigns[raw]
  ELSE IF raw \in DOMAIN PadDigits /\ l["num_lock"] = 1 THEN PadDigits[raw]
  ELSE IF raw \in DOMAIN PadMoves /\ l["num_lock"] = 0 THEN PadMoves[raw]
  ELSE raw
Shown(v) ==
  IF v \notin ExtKeys THEN <<v>>
  ELSE IF v = "ENTER" THEN <<"newline">>
  ELSE IF v = "BACKSPACE" THEN <<"backspace">>
  ELSE <<>>
OutOf(raw, mk, l) == IF mk = 1 THEN Shown(PadOf(raw, l)) ELSE <<>>

States == [at : Reading \cup {"loop"}, count : 0 .. 5, mods : [Modifiers -> {0, 1}],
           locks : [Locks -> {0, 1}], out : Seq(Texts)]

Decoded(D, mk, raw) ==
  [at |-> "loop", count |-> 0, mods |-> ModsOf(raw, mk, D.mods),
   locks |-> LocksOf(raw, mk, D.locks), out |-> D.out \o OutOf(raw, mk, D.locks)]
DecodedLow(D, b) == Decoded(D, MakeOf(b), LowRaw(b, D.mods, D.locks))
DecodedE0(D, b) == Decoded(D, MakeOf(b), E0Raw(b))

Expected(D, b) ==
  \/ D.at \in {"loop", "E0"}
  \/ D.at = "E1" /\ b = PauseCode[D.count + 1]
  \/ D.at \in {"E0_2A", "E0_B7"} /\ b = \hE0
  \/ D.at = "E0_2A_E0" /\ b = \h37
  \/ D.at = "E0_B7_E0" /\ b = \hAA

Moved(D, at, count) ==
  [at |-> at, count |-> count, mods |-> D.mods, locks |-> D.locks, out |-> D.out]

After(D, b) ==
  IF D.at = "loop" THEN
    IF b = \hE0 THEN Moved(D, "E0", 0)
    ELSE IF b = \hE1 THEN Moved(D, "E1", 1)
    ELSE DecodedLow(D, b)
  ELSE IF D.at = "E0" THEN
    IF b = \h2A THEN Moved(D, "E0_2A", 0)
    ELSE IF b = \hB7 THEN Moved(D, "E0_B7", 0)
    ELSE DecodedE0(D, b)
  ELSE IF D.at = "E1" /\ D.count < 5 THEN Moved(D, "E1", D.count + 1)
  ELSE IF D.at = "E0_2A" THEN Moved(D, "E0_2A_E0", 0)
  ELSE IF D.at = "E0_B7" THEN Moved(D, "E0_B7_E0", 0)
  ELSE Moved(D, "loop", 0)

\* The byte completes one of the two keys that have a code of their own.
Special(D, b) == (D.at = "E1" /\ D.count = 5) \/ D.at \in {"E0_2A_E0", "E0_B7_E0"}

\* The states a sequence of bytes leads through.
Run(r, bytes) ==
  /\ r \in [0 .. Len(bytes) -> States]
  /\ \A i \in 1 .. Len(bytes) : Expected(r[i - 1], bytes[i]) /\ r[i] = After(r[i - 1], bytes[i])

-----------------------------------------------------------------------------
(* What a whole code does. *)

LEMMA OneByteRows == \A c \in OneByte : Pair(Entry(c, 0), Entry(c, 1))
<1>1. \A c \in 1 .. 83 : Pair(Entry(c, 0), Entry(c, 1))
  BY Rows, EntryLow DEF Row
<1>2. Pair("F11", "F11") /\ Pair("F12", "F12")
  BY PadDomains DEF Pair, ExtKeys, PadKeys, Specials
<1> QED
  BY <1>1, <1>2, EntryFn DEF OneByte

\* The keys that have an effect of their own are in both columns of their row.
Acting == DOMAIN ModifierOf \cup DOMAIN LockOf

LEMMA ActingKeys ==
  /\ DOMAIN ModifierOf = {"SHIFT_L", "SHIFT_R", "CTRL_L", "CTRL_R", "ALT_L", "ALT_R"}
  /\ DOMAIN LockOf = {"CAPS_LOCK", "SCROLL_LOCK"}
  /\ Acting \subseteq ExtKeys \ PadKeys
  BY PadDomains DEF ModifierOf, LockOf, Acting, ExtKeys, PadKeys

LEMMA PadTexts ==
  /\ \A p \in DOMAIN PadDigits : PadDigits[p] \notin ExtKeys
  /\ \A p \in DOMAIN PadSigns \ {"PAD_ENTER"} : PadSigns[p] \notin ExtKeys
  /\ PadSigns["PAD_ENTER"] = "ENTER"
<1>1. \A p \in DOMAIN PadDigits : PadDigits[p] \in {"0", "1", "2", "3", "4", "5", "6", "7", "8", "9", "."}
  BY PadDomains DEF PadDigits
<1>2. \A p \in DOMAIN PadSigns \ {"PAD_ENTER"} : PadSigns[p] \in {"/", "*", "-", "+"}
  BY PadDomains DEF PadSigns
<1>3. {"0", "1", "2", "3", "4", "5", "6", "7", "8", "9", ".", "/", "*", "-", "+"} \cap ExtKeys = {}
  BY PadDomains DEF ExtKeys, PadKeys
<1>4. PadSigns["PAD_ENTER"] = "ENTER"
  BY DEF PadSigns
<1> QED
  BY <1>1, <1>2, <1>3, <1>4

LEMMA ActingBothColumns ==
  ASSUME NEW u, NEW v, Pair(u, v), u \in Acting \/ v \in Acting
  PROVE  u = v
<1>1. u \in DOMAIN PadDigits \cup {"PAD_MINUS", "PAD_PLUS"} => u \in PadKeys
  BY PadDomains DEF PadKeys
<1>2. u \in {"PAD_MINUS", "PAD_PLUS"} => u \in DOMAIN PadSigns \ {"PAD_ENTER"}
  BY PadDomains
<1> QED
  BY <1>1, <1>2, ActingKeys, PadTexts DEF Pair

\* The letters are characters.
LEMMA LettersPlain == Letters \cap ExtKeys = {}
<1> DEFINE Plain(c) == Unshifted[c] \notin ExtKeys
<1>1. Plain(16) /\ Plain(17) /\ Plain(18) /\ Plain(19) /\ Plain(20) /\ Plain(21) /\ Plain(22)
      /\ Plain(23) /\ Plain(24) /\ Plain(25)
  BY PadDomains DEF ExtKeys, PadKeys, Unshifted
<1>2. Plain(30) /\ Plain(31) /\ Plain(32) /\ Plain(33) /\ Plain(34) /\ Plain(35) /\ Plain(36)
      /\ Plain(37) /\ Plain(38)
  BY PadDomains DEF ExtKeys, PadKeys, Unshifted
<1>3. Plain(44) /\ Plain(45) /\ Plain(46) /\ Plain(47) /\ Plain(48) /\ Plain(49) /\ Plain(50)
  BY PadDomains DEF ExtKeys, PadKeys, Unshifted
<1> HIDE DEF Plain
<1>4. \A c \in 16 .. 25 \cup 30 .. 38 \cup 44 .. 50 : Plain(c)
  BY <1>1, <1>2, <1>3
<1> QED
  BY <1>4 DEF Plain, Letters

\* What is shown of either column.
LEMMA ShownOfPair ==
  ASSUME NEW u, NEW v, Pair(u, v), NEW l, l["num_lock"] = 1
  PROVE  /\ u \notin ExtKeys => Shown(PadOf(u, l)) = <<u>> /\ Shown(PadOf(v, l)) = <<v>>
         /\ u \in DOMAIN PadDigits => /\ Shown(PadOf(u, l)) = <<PadDigits[u]>>
                                      /\ Shown(PadOf(v, l)) = <<PadDigits[u]>>
         /\ u \in DOMAIN PadSigns => /\ Shown(PadOf(u, l)) = <<PadSigns[u]>>
                                     /\ Shown(PadOf(v, l)) = <<PadSigns[u]>>
         /\ u = "ENTER" => Shown(PadOf(u, l)) = <<"newline">> /\ Shown(PadOf(v, l)) = <<"newline">>
         /\ u = "BACKSPACE" => Shown(PadOf(u, l)) = <<"backspace">> /\ Shown(PadOf(v, l)) = <<"backspace">>
         /\ u \in ExtKeys \ ({"ENTER", "BACKSPACE"} \cup PadKeys) =>
              Shown(PadOf(u, l)) = <<>> /\ Shown(PadOf(v, l)) = <<>>
<1>1. PadKeys \subseteq ExtKeys /\ PadKeys = DOMAIN PadDigits \cup DOMAIN PadSigns
      /\ DOMAIN PadDigits \cap DOMAIN PadSigns = {}
  BY PadDomains DEF ExtKeys, PadKeys
<1>2. {"ENTER", "BACKSPACE"} \subseteq ExtKeys \ PadKeys
  BY PadDomains DEF ExtKeys, PadKeys
<1>3. \A x : x \notin PadKeys => PadOf(x, l) = x
  BY <1>1 DEF PadOf
<1>4. \A x \in DOMAIN PadDigits : PadOf(x, l) = PadDigits[x]
  BY <1>1 DEF PadOf
<1>5. \A x \in DOMAIN PadSigns : PadOf(x, l) = PadSigns[x]
  BY <1>1 DEF PadOf
<1>6. \A x : x \notin ExtKeys => Shown(x) = <<x>>
  BY DEF Shown
<1>7. Shown("ENTER") = <<"newline">> /\ Shown("BACKSPACE") = <<"backspace">>
      /\ \A x \in ExtKeys \ {"ENTER", "BACKSPACE"} : Shown(x) = <<>>
  BY <1>2 DEF Shown
<1>8. {"PAD_MINUS", "PAD_PLUS"} \subseteq DOMAIN PadSigns \ {"PAD_ENTER"}
  BY PadDomains
<1>9. CASE u \notin ExtKeys /\ v \notin ExtKeys
  BY <1>1, <1>2, <1>3, <1>6, <1>9
<1>10. CASE u = v /\ u \in ExtKeys \ (PadKeys \cup Specials)
  BY <1>1, <1>2, <1>3, <1>7, <1>10
<1>11. CASE u \in DOMAIN PadDigits /\ v = PadDigits[u]
  BY <1>1, <1>2, <1>3, <1>4, <1>6, <1>11, PadTexts
<1>12. CASE u \in {"PAD_MINUS", "PAD_PLUS"} /\ v = PadSigns[u]
  BY <1>1, <1>2, <1>3, <1>5, <1>6, <1>8, <1>12, PadTexts
<1> QED
  BY <1>9, <1>10, <1>11, <1>12 DEF Pair

LEMMA ModsType ==
  ASSUME NEW raw, NEW mk \in {0, 1}, NEW m \in [Modifiers -> {0, 1}]
  PROVE  ModsOf(raw, mk, m) \in [Modifiers -> {0, 1}]
  BY DEF ModsOf

LEMMA LocksType ==
  ASSUME NEW raw, NEW mk \in {0, 1}, NEW l \in [Locks -> {0, 1}]
  PROVE  LocksOf(raw, mk, l) \in [Locks -> {0, 1}]
<1>1. \A x \in DOMAIN LockOf : LockOf[x] \in Locks
  BY ActingKeys DEF LockOf, Locks
<1>2. \A x \in Locks : 1 - l[x] \in {0, 1}
  OBVIOUS
<1> QED
  BY <1>1, <1>2 DEF LocksOf

LEMMA OutType ==
  ASSUME NEW raw \in Texts, NEW mk, NEW l
  PROVE  OutOf(raw, mk, l) \in Seq(Texts)
<1>1. PadOf(raw, l) \in Texts
  BY DEF PadOf, Texts
<1>2. {"newline", "backspace"} \subseteq Texts
  BY DEF Texts
<1>3. \A x \in Texts : <<x>> \in Seq(Texts)
  OBVIOUS
<1> QED
  BY <1>1, <1>2, <1>3 DEF OutOf, Shown

LEMMA DecodedType ==
  ASSUME NEW D \in States, NEW mk \in {0, 1}, NEW raw \in Texts
  PROVE  Decoded(D, mk, raw) \in States
<1>1. D.mods \in [Modifiers -> {0, 1}] /\ D.locks \in [Locks -> {0, 1}] /\ D.out \in Seq(Texts)
  BY DEF States
<1>2. ModsOf(raw, mk, D.mods) \in [Modifiers -> {0, 1}]
  BY <1>1, ModsType
<1>3. LocksOf(raw, mk, D.locks) \in [Locks -> {0, 1}]
  BY <1>1, LocksType
<1>4. D.out \o OutOf(raw, mk, D.locks) \in Seq(Texts)
  BY <1>1, OutType
<1> QED
  BY <1>2, <1>3, <1>4 DEF States, Decoded

LEMMA DecodedTypes ==
  ASSUME NEW D \in States, NEW b \in 0 .. 255
  PROVE  DecodedLow(D, b) \in States /\ DecodedE0(D, b) \in States
<1>1. MakeOf(b) \in {0, 1}
  BY DEF MakeOf
<1>2. b % FLAG_BREAK \in Int /\ ColumnOf(b, D.mods, D.locks) \in 0 .. 2 /\ 2 \in 0 .. 2
  BY DEF FLAG_BREAK, ColumnOf
<1>3. LowRaw(b, D.mods, D.locks) \in Texts /\ E0Raw(b) \in Texts
  BY <1>2, EntryText DEF LowRaw, E0Raw
<1> QED
  BY <1>1, <1>3, DecodedType DEF DecodedLow, DecodedE0

LEMMA MovedType ==
  ASSUME NEW D \in States, NEW at \in Reading \cup {"loop"}, NEW n \in 0 .. 5
  PROVE  Moved(D, at, n) \in States
  BY DEF Moved, States

\* The byte of a code that tells a break from a make.
Byte(c, mk) == IF mk = 1 THEN c ELSE c + FLAG_BREAK

\* E is where D leads when the key k acts and shows out.
Effect(E, k, mk, D, out) ==
  /\ E.at = "loop" /\ E.count = 0
  /\ E.mods = ModsOf(k, mk, D.mods)
  /\ E.locks = LocksOf(k, mk, D.locks)
  /\ E.out = D.out \o out

LEMMA DecodedEffect ==
  ASSUME NEW k, NEW raw, NEW mk, NEW D, raw = k \/ ~(raw \in Acting \/ k \in Acting)
  PROVE  Effect(Decoded(D, mk, raw), k, mk, D, OutOf(raw, mk, D.locks))
<1>1. ModsOf(raw, mk, D.mods) = ModsOf(k, mk, D.mods)
  BY DEF ModsOf, Acting
<1>2. LocksOf(raw, mk, D.locks) = LocksOf(k, mk, D.locks)
  BY DEF LocksOf, Acting
<1> QED
  BY <1>1, <1>2 DEF Effect, Decoded

\* Both columns of a key's row act alike, so its code does what the key does.
LEMMA OneByteDecoded ==
  ASSUME NEW k \in RealKeys \ Specials, ~HasE0(k), NEW D \in States, NEW mk \in {0, 1}
  PROVE  /\ Byte(CodeOf(k), mk) \in 0 .. 255 \ {\hE0, \hE1}
         /\ Effect(DecodedLow(D, Byte(CodeOf(k), mk)), k, mk, D,
                   OutOf(LowRaw(CodeOf(k), D.mods, D.locks), mk, D.locks))
<1> DEFINE c == CodeOf(k)
           b == Byte(c, mk)
           raw == LowRaw(b, D.mods, D.locks)
<1>1. c \in OneByte /\ Entry(c, 0) = k
  BY OneByteCode
<1>2. b \in 0 .. 255 \ {\hE0, \hE1} /\ b % FLAG_BREAK = c /\ MakeOf(b) = mk /\ c % FLAG_BREAK = c
  BY <1>1 DEF OneByte, FLAG_BREAK, MakeOf, Byte
<1>3. raw = LowRaw(c, D.mods, D.locks)
  BY <1>2 DEF LowRaw, ColumnOf
<1>4. raw \in {Entry(c, 0), Entry(c, 1)}
  BY <1>2 DEF LowRaw, ColumnOf
<1>5. Pair(Entry(c, 0), Entry(c, 1))
  BY <1>1, OneByteRows
<1>6. raw = k \/ ~(raw \in Acting \/ k \in Acting)
  BY <1>1, <1>4, <1>5, ActingBothColumns
<1>7. DecodedLow(D, b) = Decoded(D, mk, raw)
  BY <1>2 DEF DecodedLow
<1> HIDE DEF raw, b
<1>8. Effect(Decoded(D, mk, raw), k, mk, D, OutOf(raw, mk, D.locks))
  BY <1>6, DecodedEffect
<1> QED
  BY <1>2, <1>3, <1>7, <1>8 DEF b

LEMMA E0Decoded ==
  ASSUME NEW k \in E0Keys, NEW c \in E0Codes, k = AfterE0[c], NEW D \in States, NEW mk \in {0, 1}
  PROVE  /\ Byte(c, mk) \in 0 .. 255 \ {\h2A, \hB7}
         /\ Effect(DecodedE0(D, Byte(c, mk)), k, mk, D, OutOf(k, mk, D.locks))
<1> DEFINE b == Byte(c, mk)
<1>1. b \in 0 .. 255 \ {\h2A, \hB7} /\ b % FLAG_BREAK = c /\ MakeOf(b) = mk /\ c \in Int
  BY DEF E0Codes, FLAG_BREAK, MakeOf, Byte
<1>2. E0Raw(b) = k
  BY <1>1, EntryE0 DEF E0Raw
<1>3. DecodedE0(D, b) = Decoded(D, mk, k)
  BY <1>1, <1>2 DEF DecodedE0
<1> HIDE DEF b
<1>4. Effect(Decoded(D, mk, k), k, mk, D, OutOf(k, mk, D.locks))
  BY DecodedEffect
<1> QED
  BY <1>1, <1>3, <1>4 DEF b

\* What a code does when it begins in the state D: it moves the modifier and
\* the lock of its key, and shows what the key shows.
Yield(k, mk, m, l) ==
  IF k \in Specials THEN <<>>
  ELSE IF HasE0(k) THEN OutOf(k, mk, l)
  ELSE OutOf(LowRaw(CodeOf(k), m, l), mk, l)

CodeRun(r, k, mk, code, D) ==
  /\ Run(r, code)
  /\ r[0] = D
  /\ r[Len(code)].at = "loop" /\ r[Len(code)].count = 0
  /\ r[Len(code)].mods = ModsOf(k, mk, D.mods)
  /\ r[Len(code)].locks = LocksOf(k, mk, D.locks)
  /\ r[Len(code)].out = D.out \o Yield(k, mk, D.mods, D.locks)
  /\ \A i \in 0 .. Len(code) : r[i].out \in {D.out, r[Len(code)].out}
  /\ \A i \in 1 .. Len(code) : Special(r[i - 1], code[i]) => k \in Specials /\ i = Len(code)

LEMMA CodeRunIntro ==
  ASSUME NEW r, NEW k, NEW mk, NEW code, NEW D, NEW E, NEW n \in Nat,
         Run(r, code), r[0] = D, Len(code) = n, r[n] = E, E.at = "loop", E.count = 0,
         E.mods = ModsOf(k, mk, D.mods), E.locks = LocksOf(k, mk, D.locks),
         E.out = D.out \o Yield(k, mk, D.mods, D.locks),
         \A i \in 0 .. n : r[i].out \in {D.out, E.out},
         \A i \in 1 .. n : Special(r[i - 1], code[i]) => k \in Specials /\ i = n
  PROVE  CodeRun(r, k, mk, code, D)
  BY DEF CodeRun

CodeOfKey(k, mk) == IF mk = 1 THEN MakeCode(k) ELSE BreakCode(k)

LEMMA OneByteRun ==
  ASSUME NEW k \in RealKeys \ Specials, ~HasE0(k),
         NEW D \in States, D.at = "loop", D.count = 0, NEW mk \in {0, 1}
  PROVE  \E r : CodeRun(r, k, mk, CodeOfKey(k, mk), D)
<1>0. /\ Byte(CodeOf(k), mk) \in 0 .. 255 \ {\hE0, \hE1}
      /\ Effect(DecodedLow(D, Byte(CodeOf(k), mk)), k, mk, D,
                OutOf(LowRaw(CodeOf(k), D.mods, D.locks), mk, D.locks))
  BY OneByteDecoded
<1> DEFINE b == Byte(CodeOf(k), mk)
           E == DecodedLow(D, b)
           code == CodeOfKey(k, mk)
           r == [i \in 0 .. 1 |-> IF i = 0 THEN D ELSE E]
<1>1. code = <<b>>
  BY OneByteCode DEF CodeOfKey, Byte
<1>2. /\ b \in 0 .. 255 \ {\hE0, \hE1}
      /\ E.at = "loop" /\ E.count = 0
      /\ E.mods = ModsOf(k, mk, D.mods)
      /\ E.locks = LocksOf(k, mk, D.locks)
      /\ E.out = D.out \o Yield(k, mk, D.mods, D.locks)
  <2>1. Yield(k, mk, D.mods, D.locks) = OutOf(LowRaw(CodeOf(k), D.mods, D.locks), mk, D.locks)
    BY DEF Yield
  <2>2. /\ b \in 0 .. 255 \ {\hE0, \hE1}
        /\ E.at = "loop" /\ E.count = 0
        /\ E.mods = ModsOf(k, mk, D.mods)
        /\ E.locks = LocksOf(k, mk, D.locks)
        /\ E.out = D.out \o OutOf(LowRaw(CodeOf(k), D.mods, D.locks), mk, D.locks)
    <3>1. /\ b \in 0 .. 255 \ {\hE0, \hE1}
          /\ Effect(E, k, mk, D, OutOf(LowRaw(CodeOf(k), D.mods, D.locks), mk, D.locks))
      BY <1>0
    <3> HIDE DEF b, E
    <3> QED
      BY <3>1 DEF Effect
  <2> HIDE DEF b, E
  <2> QED
    BY <2>1, <2>2
<1>3. E \in States
  BY <1>2, DecodedTypes
<1>4. After(D, b) = E /\ Expected(D, b) /\ ~Special(D, b)
  BY <1>2 DEF After, Expected, Special
<1> HIDE DEF b, E, code
<1>5. Len(code) = 1 /\ code[1] = b
  BY <1>1
<1>6. r \in [0 .. 1 -> States] /\ r[0] = D /\ r[1] = E
  BY <1>3
<1> HIDE DEF r
<1>7. Run(r, code)
  <2>1. \A i \in 1 .. Len(code) : i = 1
    BY <1>5
  <2> QED
    BY <1>4, <1>5, <1>6, <2>1 DEF Run
<1>8. \A i \in 0 .. Len(code) : r[i].out \in {D.out, r[Len(code)].out}
  BY <1>5, <1>6
<1>9. \A i \in 1 .. Len(code) : ~Special(r[i - 1], code[i])
  BY <1>4, <1>5, <1>6
<1>10. CodeRun(r, k, mk, code, D)
  BY <1>2, <1>5, <1>6, <1>7, <1>8, <1>9, ZenonT(40) DEF CodeRun
<1> QED
  BY <1>10 DEF code

LEMMA E0Run ==
  ASSUME NEW k \in RealKeys \ Specials, HasE0(k),
         NEW D \in States, D.at = "loop", D.count = 0, NEW mk \in {0, 1}
  PROVE  \E r : CodeRun(r, k, mk, CodeOfKey(k, mk), D)
<1>1. PICK c \in E0Codes : /\ k = AfterE0[c] /\ k \in E0Keys /\ MakeCode(k) = <<\hE0, c>>
                           /\ BreakCode(k) = <<\hE0, c + FLAG_BREAK>>
  BY E0Code
<1> DEFINE b == Byte(c, mk)
           M == Moved(D, "E0", 0)
           E == DecodedE0(M, b)
           code == CodeOfKey(k, mk)
           r == [i \in 0 .. 2 |-> IF i = 0 THEN D ELSE IF i = 1 THEN M ELSE E]
<1>2. code = <<\hE0, b>>
  BY <1>1 DEF CodeOfKey, Byte
<1>3. M \in States /\ M.at = "E0" /\ M.mods = D.mods /\ M.locks = D.locks /\ M.out = D.out
  <2>1. "E0" \in Reading \cup {"loop"} /\ 0 \in 0 .. 5
    BY DEF Reading
  <2>2. M \in States
    BY <2>1, MovedType
  <2> QED
    BY <2>2 DEF Moved
<1> HIDE DEF M
<1>4. /\ b \in 0 .. 255 \ {\h2A, \hB7}
      /\ E.at = "loop" /\ E.count = 0
      /\ E.mods = ModsOf(k, mk, D.mods)
      /\ E.locks = LocksOf(k, mk, D.locks)
      /\ E.out = D.out \o Yield(k, mk, D.mods, D.locks)
  <2>1. Yield(k, mk, M.mods, M.locks) = OutOf(k, mk, M.locks)
    BY DEF Yield
  <2>2. /\ b \in 0 .. 255 \ {\h2A, \hB7}
        /\ E.at = "loop" /\ E.count = 0
        /\ E.mods = ModsOf(k, mk, M.mods)
        /\ E.locks = LocksOf(k, mk, M.locks)
        /\ E.out = M.out \o OutOf(k, mk, M.locks)
    <3>1. b \in 0 .. 255 \ {\h2A, \hB7} /\ Effect(E, k, mk, M, OutOf(k, mk, M.locks))
      BY <1>1, <1>3, E0Decoded
    <3> HIDE DEF b, E
    <3> QED
      BY <3>1 DEF Effect
  <2> HIDE DEF b, E
  <2> QED
    BY <1>3, <2>1, <2>2
<1>5. E \in States
  BY <1>3, <1>4, DecodedTypes
<1>6. After(D, \hE0) = M /\ Expected(D, \hE0) /\ ~Special(D, \hE0)
  BY DEF After, Expected, Special, M
<1>7. After(M, b) = E /\ Expected(M, b) /\ ~Special(M, b)
  BY <1>3, <1>4 DEF After, Expected, Special
<1> HIDE DEF b, E, code
<1>8. Len(code) = 2 /\ code[1] = \hE0 /\ code[2] = b
  BY <1>2
<1>9. r \in [0 .. 2 -> States] /\ r[0] = D /\ r[1] = M /\ r[2] = E
  BY <1>3, <1>5
<1> HIDE DEF r
<1>10. \A i \in 1 .. Len(code) : i = 1 \/ i = 2
  BY <1>8
<1>11. Run(r, code)
  BY <1>6, <1>7, <1>8, <1>9, <1>10 DEF Run
<1>12. \A i \in 0 .. 2 : r[i].out \in {D.out, E.out}
  BY <1>3, <1>9
<1>13. \A i \in 1 .. 2 : ~Special(r[i - 1], code[i])
  BY <1>6, <1>7, <1>8, <1>9, <1>10
<1>14. CodeRun(r, k, mk, code, D)
  BY <1>4, <1>8, <1>9, <1>11, <1>12, <1>13, CodeRunIntro, ZenonT(40)
<1> QED
  BY <1>14 DEF code

\* Neither of the two keys with a code of its own acts or shows anything.
LEMMA SpecialPlain ==
  ASSUME NEW k \in Specials, NEW mk, NEW D \in States
  PROVE  /\ ModsOf(k, mk, D.mods) = D.mods /\ LocksOf(k, mk, D.locks) = D.locks
         /\ D.out \o Yield(k, mk, D.mods, D.locks) = D.out
<1>1. k \notin DOMAIN ModifierOf /\ k \notin DOMAIN LockOf
  BY ActingKeys DEF Specials
<1>2. D.out \in Seq(Texts) /\ D.out \o <<>> = D.out
  BY DEF States
<1> QED
  BY <1>1, <1>2 DEF ModsOf, LocksOf, Yield

LEMMA PrintScreenRun ==
  ASSUME NEW D \in States, D.at = "loop", D.count = 0, NEW mk \in {0, 1}
  PROVE  \E r : CodeRun(r, "PRINTSCREEN", mk, CodeOfKey("PRINTSCREEN", mk), D)
<1> DEFINE k == "PRINTSCREEN"
           code == CodeOfKey(k, mk)
           second == IF mk = 1 THEN "E0_2A" ELSE "E0_B7"
           third == IF mk = 1 THEN "E0_2A_E0" ELSE "E0_B7_E0"
           M1 == Moved(D, "E0", 0)
           M2 == Moved(D, second, 0)
           M3 == Moved(D, third, 0)
           M4 == Moved(D, "loop", 0)
           r == [i \in 0 .. 4 |-> IF i = 0 THEN D ELSE IF i = 1 THEN M1 ELSE IF i = 2 THEN M2
                                  ELSE IF i = 3 THEN M3 ELSE M4]
<1>1. /\ Len(code) = 4 /\ code[1] = \hE0 /\ code[2] = (IF mk = 1 THEN \h2A ELSE \hB7)
      /\ code[3] = \hE0 /\ code[4] = (IF mk = 1 THEN \h37 ELSE \hAA)
  BY SpecialCodes DEF CodeOfKey
<1>2. M1 \in States /\ M2 \in States /\ M3 \in States /\ M4 \in States
  BY MovedType DEF Reading
<1>3. After(D, \hE0) = M1 /\ Expected(D, \hE0) /\ ~Special(D, \hE0)
  BY DEF After, Expected, Special
<1>4. After(M1, code[2]) = M2 /\ Expected(M1, code[2]) /\ ~Special(M1, code[2])
  <2>1. M1.at = "E0"
    BY DEF Moved
  <2>2. \A at, n : Moved(M1, at, n) = Moved(D, at, n)
    BY DEF Moved
  <2> HIDE DEF M1, code
  <2>3. CASE mk = 1
    BY <1>1, <2>1, <2>2, <2>3 DEF After, Expected, Special
  <2>4. CASE mk = 0
    BY <1>1, <2>1, <2>2, <2>4 DEF After, Expected, Special
  <2> QED
    BY <2>3, <2>4
<1>5. After(M2, \hE0) = M3 /\ Expected(M2, \hE0) /\ ~Special(M2, \hE0)
  BY DEF After, Expected, Special, Moved
<1>6. After(M3, code[4]) = M4 /\ Expected(M3, code[4])
  BY <1>1 DEF After, Expected, Moved
<1>7. /\ M1.out = D.out /\ M2.out = D.out /\ M3.out = D.out /\ M4.out = D.out
      /\ M4.at = "loop" /\ M4.count = 0 /\ M4.mods = D.mods /\ M4.locks = D.locks
  BY DEF Moved
<1> HIDE DEF M1, M2, M3, M4, code
<1>8. r \in [0 .. 4 -> States] /\ r[0] = D /\ r[1] = M1 /\ r[2] = M2 /\ r[3] = M3 /\ r[4] = M4
  BY <1>2
<1> HIDE DEF r
<1>9. \A i \in 1 .. Len(code) : i = 1 \/ i = 2 \/ i = 3 \/ i = 4
  BY <1>1
<1>10. Run(r, code)
  BY <1>1, <1>3, <1>4, <1>5, <1>6, <1>8, <1>9 DEF Run
<1>11. \A i \in 0 .. 4 : r[i].out \in {D.out, M4.out}
  BY <1>7, <1>8
<1>12. k \in Specials
  BY DEF Specials
<1>13. \A i \in 1 .. 4 : Special(r[i - 1], code[i]) => i = 4
  BY <1>1, <1>3, <1>4, <1>5, <1>8, <1>9
<1>14. CodeRun(r, k, mk, code, D)
  <2>1. /\ M4.mods = ModsOf(k, mk, D.mods) /\ M4.locks = LocksOf(k, mk, D.locks)
        /\ M4.out = D.out \o Yield(k, mk, D.mods, D.locks)
    BY <1>7, <1>12, SpecialPlain
  <2> HIDE DEF k
  <2> QED
    BY <1>1, <1>7, <1>8, <1>10, <1>11, <1>12, <1>13, <2>1, CodeRunIntro, ZenonT(40)
<1> QED
  BY <1>14 DEF code, k

LEMMA PauseRun ==
  ASSUME NEW D \in States, D.at = "loop", D.count = 0, NEW mk \in {0, 1}
  PROVE  \E r : CodeRun(r, "PAUSEBREAK", mk, CodeOfKey("PAUSEBREAK", mk), D)
<1> DEFINE k == "PAUSEBREAK"
           code == CodeOfKey(k, mk)
<1>1. k \in Specials
  BY DEF Specials
<1>2. CASE mk = 0
  <2> DEFINE r == [i \in 0 .. 0 |-> D]
  <2>1. Len(code) = 0
    BY <1>2, SpecialCodes DEF CodeOfKey
  <2> HIDE DEF code
  <2>2. r \in [0 .. 0 -> States] /\ r[0] = D
    OBVIOUS
  <2> HIDE DEF r
  <2>3. Run(r, code)
    BY <2>1, <2>2 DEF Run
  <2>4. /\ D.mods = ModsOf(k, mk, D.mods) /\ D.locks = LocksOf(k, mk, D.locks)
        /\ D.out = D.out \o Yield(k, mk, D.mods, D.locks)
    BY <1>1, SpecialPlain
  <2>5. (\A i \in 0 .. 0 : r[i].out \in {D.out, D.out}) /\ 1 .. 0 = {}
    BY <2>2
  <2> HIDE DEF k
  <2>6. CodeRun(r, k, mk, code, D)
    BY <2>1, <2>2, <2>3, <2>4, <2>5, CodeRunIntro
  <2> QED
    BY <2>6 DEF code, k
<1>3. CASE mk = 1
  <2> DEFINE M(i) == Moved(D, "E1", i)
             L == Moved(D, "loop", 0)
             r == [i \in 0 .. 6 |-> IF i = 0 THEN D ELSE IF i = 6 THEN L ELSE M(i)]
  <2>1. code = PauseCode /\ code[1] = \hE1 /\ Len(code) = 6
    BY <1>3, SpecialCodes DEF CodeOfKey, PauseCode
  <2>2. \A i \in 0 .. 5 : M(i) \in States
    BY MovedType DEF Reading
  <2>3. L \in States
    BY MovedType
  <2>4. After(D, \hE1) = M(1) /\ Expected(D, \hE1) /\ ~Special(D, \hE1)
    BY DEF After, Expected, Special
  <2>5. \A i \in 1 .. 5 : /\ Expected(M(i), PauseCode[i + 1])
                          /\ After(M(i), PauseCode[i + 1]) = IF i = 5 THEN L ELSE M(i + 1)
                          /\ Special(M(i), PauseCode[i + 1]) => i = 5
    BY DEF After, Expected, Special, Moved
  <2>6. /\ \A i \in 0 .. 5 : M(i).out = D.out
        /\ L.out = D.out /\ L.at = "loop" /\ L.count = 0 /\ L.mods = D.mods /\ L.locks = D.locks
    BY DEF Moved
  <2> HIDE DEF M, L, code
  <2>7. r \in [0 .. 6 -> States] /\ r[0] = D /\ r[6] = L /\ \A i \in 1 .. 5 : r[i] = M(i)
    BY <2>2, <2>3
  <2> HIDE DEF r
  <2>8. \A i \in 1 .. 6 : /\ Expected(r[i - 1], code[i])
                          /\ r[i] = After(r[i - 1], code[i])
                          /\ Special(r[i - 1], code[i]) => i = 6
    <3> TAKE i \in 1 .. 6
    <3>1. CASE i = 1
      BY <2>1, <2>4, <2>7, <3>1
    <3>2. CASE i \in 2 .. 6
      <4>1. i - 1 \in 1 .. 5 /\ (i - 1) + 1 = i
        BY <3>2
      <4> QED
        BY <2>1, <2>5, <2>7, <3>2, <4>1
    <3> QED
      BY <3>1, <3>2
  <2>9. Run(r, code)
    BY <2>1, <2>7, <2>8 DEF Run
  <2>10. \A i \in 0 .. 6 : r[i].out \in {D.out, L.out}
    BY <2>6, <2>7
  <2>11. /\ L.mods = ModsOf(k, mk, D.mods) /\ L.locks = LocksOf(k, mk, D.locks)
         /\ L.out = D.out \o Yield(k, mk, D.mods, D.locks)
    BY <1>1, <2>6, SpecialPlain
  <2> HIDE DEF k
  <2>12. CodeRun(r, k, mk, code, D)
    BY <1>1, <2>1, <2>6, <2>7, <2>8, <2>9, <2>10, <2>11, CodeRunIntro
  <2> QED
    BY <2>12 DEF code, k
<1> QED
  BY <1>2, <1>3

\* The code of any key, pressed or released.
LEMMA KeyRun ==
  ASSUME NEW k \in RealKeys, NEW D \in States, D.at = "loop", D.count = 0, NEW mk \in {0, 1}
  PROVE  \E r : CodeRun(r, k, mk, CodeOfKey(k, mk), D)
<1>1. CASE k \notin Specials
  BY <1>1, OneByteRun, E0Run
<1>2. CASE k \in Specials
  BY <1>2, PrintScreenRun, PauseRun DEF Specials
<1> QED
  BY <1>1, <1>2

-----------------------------------------------------------------------------
(* Types. *)

Flags   == {FlagOf[m] : m \in Modifiers} \cup {"FLAG_PAD"}
KeyRecs == [raw : Texts, flags : SUBSET Flags]

TypeInv ==
  /\ TypeOK
  /\ key \in KeyRecs /\ out_buffer \in Seq(KeyRecs)
  /\ screen \in Seq(Texts) /\ typed \in Seq(Texts)
  /\ \A l \in DOMAIN InitialLock : presses[l] <= events
  /\ "NUM_LOCK" \notin Keys => presses["NUM_LOCK"] = 0
  /\ pc = "E1" => count_E1 \in 1 .. 5

LEMMA PadValueOf == ASSUME NEW raw PROVE PadValue(raw) = PadOf(raw, locks)
<1>1. DOMAIN PadMoves \cap DOMAIN PadSigns = {}
  BY PadDomains DEF PadMoves
<1>2. CASE raw \in DOMAIN PadSigns
  <2>1. raw \notin DOMAIN PadDigits /\ raw \notin DOMAIN PadMoves
    BY <1>1, <1>2, PadDomains
  <2> QED
    BY <1>2, <2>1 DEF PadValue, PadOf
<1>3. CASE raw \notin DOMAIN PadSigns /\ locks["num_lock"] = 1
  <2>1. locks["num_lock"] # 0
    BY <1>3
  <2> QED
    BY <1>3, <2>1 DEF PadValue, PadOf
<1>4. CASE raw \notin DOMAIN PadSigns /\ locks["num_lock"] # 1
  BY <1>4 DEF PadValue, PadOf
<1> QED
  BY <1>2, <1>3, <1>4

LEMMA PadOfText == ASSUME NEW raw \in Texts, NEW l PROVE PadOf(raw, l) \in Texts
  BY DEF PadOf, Texts


\* Meaning, arm by arm.
ShiftHeld == held \cap {"SHIFT_L", "SHIFT_R"} # {}
CapsOn == (InitialLock["CAPS_LOCK"] + presses["CAPS_LOCK"]) % 2 = 1
NumOn == (InitialLock["NUM_LOCK"] + presses["NUM_LOCK"]) % 2 = 1
Printed(k, on) == <<IF on THEN Entry(CodeOf(k), 1) ELSE k>>

LEMMA MeaningArms ==
  ASSUME NEW k
  PROVE  /\ k \in Letters => Meaning(k) = Printed(k, ShiftHeld # CapsOn)
         /\ k = "ENTER" => Meaning(k) = <<"newline">>
         /\ k = "BACKSPACE" => Meaning(k) = <<"backspace">>
         /\ k \in DOMAIN PadDigits => Meaning(k) = IF NumOn THEN <<PadDigits[k]>> ELSE <<>>
         /\ k \in DOMAIN PadSigns =>
              Meaning(k) = IF k = "PAD_ENTER" THEN <<"newline">> ELSE <<PadSigns[k]>>
         /\ k \in ExtKeys \ ({"ENTER", "BACKSPACE"} \cup PadKeys) => Meaning(k) = <<>>
         /\ k \notin ExtKeys /\ k \notin Letters => Meaning(k) = Printed(k, ShiftHeld)
<1>1. PadKeys \subseteq ExtKeys /\ PadKeys = DOMAIN PadDigits \cup DOMAIN PadSigns
      /\ DOMAIN PadDigits \cap DOMAIN PadSigns = {}
  BY PadDomains DEF ExtKeys, PadKeys
<1>2. {"ENTER", "BACKSPACE"} \subseteq ExtKeys \ PadKeys /\ "ENTER" # "BACKSPACE"
  BY PadDomains DEF ExtKeys, PadKeys
<1>3. CASE k \in Letters
  <2>1. k \notin ExtKeys
    BY <1>3, LettersPlain
  <2> QED
    BY <1>1, <1>2, <1>3, <2>1 DEF Meaning, Printed, ShiftHeld, CapsOn
<1>4. CASE k \in {"ENTER", "BACKSPACE"}
  <2>1. k \notin Letters
    BY <1>2, <1>4, LettersPlain
  <2> QED
    BY <1>1, <1>2, <1>4, <2>1 DEF Meaning
<1>5. CASE k \in PadKeys
  <2>1. k \notin Letters
    BY <1>1, <1>5, LettersPlain
  <2> QED
    BY <1>1, <1>2, <1>5, <2>1 DEF Meaning, NumOn
<1>6. CASE k \in ExtKeys \ ({"ENTER", "BACKSPACE"} \cup PadKeys)
  <2>1. k \notin Letters
    BY <1>6, LettersPlain
  <2> QED
    BY <1>1, <1>6, <2>1 DEF Meaning
<1>7. CASE k \notin ExtKeys /\ k \notin Letters
  BY <1>1, <1>2, <1>7 DEF Meaning, Printed, ShiftHeld
<1> QED
  BY <1>1, <1>2, <1>3, <1>4, <1>5, <1>6, <1>7

\* A key without a name of its own sends one byte, and stands in column 0.
LEMMA CharacterKey ==
  ASSUME NEW k \in RealKeys, k \notin ExtKeys
  PROVE  ~HasE0(k) /\ k \notin Specials
<1>1. E0Keys \subseteq ExtKeys /\ Specials \subseteq ExtKeys
  BY PadDomains DEF ExtKeys, E0Keys, PadKeys, Specials
<1>2. k # "NUL"
  BY RealKeyRows
<1>3. ~HasE0(k)
  BY <1>1, <1>2, EntryE0, E0Rows DEF HasE0
<1> QED
  BY <1>1, <1>3

LEMMA MeaningText == ASSUME NEW k \in RealKeys PROVE Meaning(k) \in Seq(Texts)
<1>1. \A x \in Texts : <<x>> \in Seq(Texts)
  OBVIOUS
<1>2. <<>> \in Seq(Texts)
  OBVIOUS
<1>3. ASSUME NEW on, k \notin ExtKeys PROVE Printed(k, on) \in Seq(Texts)
  <2>1. CodeOf(k) \in OneByte /\ Entry(CodeOf(k), 0) = k
    BY <1>3, CharacterKey, OneByteCode
  <2>2. CodeOf(k) \in Int
    BY <2>1 DEF OneByte
  <2>3. Entry(CodeOf(k), 0) \in Texts /\ Entry(CodeOf(k), 1) \in Texts
    BY <2>2, EntryText
  <2> QED
    BY <1>1, <2>1, <2>3 DEF Printed
<1>4. PadKeys = DOMAIN PadDigits \cup DOMAIN PadSigns
  BY DEF PadKeys
<1>5. "newline" \in Texts /\ "backspace" \in Texts
  BY DEF Texts
<1>6. (\A p \in DOMAIN PadDigits : PadDigits[p] \in Texts) /\ (\A p \in DOMAIN PadSigns : PadSigns[p] \in Texts)
  BY DEF Texts
<1>7. CASE k \notin ExtKeys
  <2>1. \/ Meaning(k) = Printed(k, ShiftHeld # CapsOn)
        \/ Meaning(k) = Printed(k, ShiftHeld)
    BY <1>7, MeaningArms
  <2> QED
    BY <1>3, <1>7, <2>1
<1>8. CASE k \in ExtKeys
  BY <1>1, <1>2, <1>4, <1>5, <1>6, <1>8, MeaningArms
<1> QED
  BY <1>7, <1>8

-----------------------------------------------------------------------------
(* The steps of the decoder. *)

\* What the lookup finds, when it is made.
Found == IF code_with_E0 THEN E0Raw(scan_code) ELSE LowRaw(scan_code, mods, locks)
Pending == pc = "decode" /\ ~Preset

\* The sequence out, of at most one character, goes into out_buffer.
Emits(out) ==
  \/ out = <<>> /\ UNCHANGED <<out_buffer, overflowed>>
  \/ \E x \in Texts, f \in SUBSET Flags : out = <<x>> /\ PutKey([raw |-> x, flags |-> f])

LEMMA FoundText ==
  ASSUME TypeInv
  PROVE  Found \in Texts /\ Found \notin Specials /\ MakeOf(scan_code) \in {0, 1}
<1>1. scan_code % FLAG_BREAK \in Int /\ MakeOf(scan_code) \in {0, 1}
  BY DEF TypeInv, TypeOK, FLAG_BREAK, MakeOf
<1>2. ColumnOf(scan_code, mods, locks) \in 0 .. 2 /\ 2 \in 0 .. 2
  BY DEF ColumnOf
<1> QED
  BY <1>1, <1>2, EntryText, EntryNotSpecial DEF Found, E0Raw, LowRaw

LEMMA FoundEntry ==
  ASSUME TypeInv
  PROVE  Entry(scan_code % FLAG_BREAK, Column) = Found
<1>1. CASE code_with_E0
  BY <1>1 DEF Column, Found, E0Raw
<1>2. CASE ~code_with_E0
  <2>1. Column = ColumnOf(scan_code, mods, locks)
    BY <1>2 DEF Column, ColumnOf
  <2> QED
    BY <1>2, <2>1 DEF Found, LowRaw
<1> QED
  BY <1>1, <1>2

LEMMA PadOfNotSpecial == ASSUME NEW raw, raw \notin Specials, NEW l PROVE PadOf(raw, l) \notin Specials
<1>1. \A p \in DOMAIN PadSigns : PadSigns[p] \notin Specials
  BY DEF PadSigns, Specials
<1>2. \A p \in DOMAIN PadDigits : PadDigits[p] \notin Specials
  BY DEF PadDigits, Specials
<1>3. \A p \in DOMAIN PadMoves : PadMoves[p] \notin Specials
  BY DEF PadMoves, Specials
<1> QED
  BY <1>1, <1>2, <1>3 DEF PadOf

LEMMA SpecialPad ==
  ASSUME NEW raw \in Specials, NEW l
  PROVE  PadOf(raw, l) = raw /\ raw \in ExtKeys \ {"ENTER", "BACKSPACE"}
<1>1. raw \notin DOMAIN PadSigns /\ raw \notin DOMAIN PadDigits /\ raw \notin DOMAIN PadMoves
  BY PadDomains DEF Specials, PadMoves
<1> QED
  BY <1>1 DEF PadOf, ExtKeys, Specials

\* What in_process does with a key.
LEMMA InProcessEmits ==
  ASSUME NEW k \in KeyRecs, InProcess(k)
  PROVE  Emits(Shown(k.raw))
<1>1. k.raw \in Texts /\ k.flags \in SUBSET Flags /\ k = [raw |-> k.raw, flags |-> k.flags]
  BY DEF KeyRecs
<1>2. {"ENTER", "BACKSPACE"} \subseteq ExtKeys /\ "ENTER" # "BACKSPACE"
  BY DEF ExtKeys
<1>3. "newline" \in Texts /\ "backspace" \in Texts /\ {} \in SUBSET Flags
  BY DEF Texts
<1>4. CASE k.raw \notin ExtKeys
  BY <1>1, <1>2, <1>4 DEF InProcess, Emits, Shown
<1>5. CASE k.raw = "ENTER"
  BY <1>2, <1>3, <1>5 DEF InProcess, Emits, Shown
<1>6. CASE k.raw = "BACKSPACE"
  BY <1>2, <1>3, <1>6 DEF InProcess, Emits, Shown
<1>7. CASE k.raw \in ExtKeys \ {"ENTER", "BACKSPACE"}
  BY <1>7 DEF InProcess, Emits, Shown
<1> QED
  BY <1>4, <1>5, <1>6, <1>7

LEMMA FlaggedType ==
  ASSUME NEW raw \in Texts, NEW m
  PROVE  Flagged(raw, m) \in KeyRecs /\ Flagged(raw, m).raw = PadOf(raw, locks)
<1>1. PadValue(raw) = PadOf(raw, locks) /\ PadOf(raw, locks) \in Texts
  BY PadValueOf, PadOfText
<1>2. {FlagOf[x] : x \in {n \in Modifiers : m[n] = 1}} \cup (IF raw \in PadKeys THEN {"FLAG_PAD"} ELSE {})
        \subseteq Flags
  BY DEF Flags
<1> QED
  BY <1>1, <1>2 DEF Flagged, KeyRecs

\* A lookup: the key found acts, and what it shows goes out.
LEMMA DecodePending ==
  ASSUME TypeInv, Decode, ~Preset
  PROVE  /\ mods' = ModsOf(Found, MakeOf(scan_code), mods)
         /\ locks' = LocksOf(Found, MakeOf(scan_code), locks)
         /\ make' = MakeOf(scan_code)
         /\ key' \in KeyRecs /\ key'.raw \notin Specials
         /\ Emits(OutOf(Found, MakeOf(scan_code), locks))
<1>1. Found \in Texts /\ Found \notin Specials /\ MakeOf(scan_code) \in {0, 1}
  BY FoundText
<1>2. make' = MakeOf(scan_code)
  <2>1. MakeOf(scan_code) # Garbage
    BY <1>1 DEF Garbage
  <2> QED
    BY <2>1 DEF Decode, MakeOf
<1>3. mods' = ModsOf(Found, make', mods) /\ locks' = LocksOf(Found, make', locks)
  BY FoundEntry DEF Decode, ModsOf, LocksOf
<1>4. CASE make' = 1
  <2>1. key' = Flagged(Found, mods') /\ InProcess(key')
    BY <1>4, FoundEntry DEF Decode
  <2>2. key' \in KeyRecs /\ key'.raw = PadOf(Found, locks)
    BY <1>1, <2>1, FlaggedType
  <2>3. key'.raw \notin Specials
    BY <1>1, <2>2, PadOfNotSpecial
  <2>4. Emits(Shown(key'.raw))
    BY <2>1, <2>2, InProcessEmits
  <2>5. Emits(OutOf(Found, MakeOf(scan_code), locks))
    BY <1>2, <1>4, <2>2, <2>4 DEF OutOf
  <2> QED
    BY <1>2, <1>3, <2>2, <2>3, <2>5
<1>5. CASE make' = 0
  <2>1. key' = [raw |-> Found, flags |-> {}] /\ UNCHANGED <<out_buffer, overflowed>>
    BY <1>5, FoundEntry DEF Decode
  <2>2. key' \in KeyRecs /\ key'.raw \notin Specials
    BY <1>1, <2>1 DEF KeyRecs
  <2>3. Emits(OutOf(Found, MakeOf(scan_code), locks))
    BY <1>2, <1>5, <2>1 DEF OutOf, Emits
  <2> QED
    BY <1>2, <1>3, <2>2, <2>3
<1> QED
  BY <1>1, <1>2, <1>4, <1>5

\* Without one, nothing acts and nothing goes out.
LEMMA DecodePreset ==
  ASSUME TypeInv, Decode, Preset
  PROVE  /\ mods' = mods /\ locks' = locks
         /\ make' \in {0, 1}
         /\ key' \in KeyRecs /\ key'.raw \in Specials
         /\ UNCHANGED <<out_buffer, overflowed>>
<1>1. key.raw \in Specials /\ key.raw \in Texts
  BY DEF Preset, Specials, TypeInv, KeyRecs
<1>2. mods' = mods /\ locks' = locks
  BY DEF Decode
<1>3. make' \in {0, 1}
  BY DEF Decode, TypeInv, TypeOK, Garbage
<1>4. CASE make' = 1
  <2>1. key' = Flagged(key.raw, mods') /\ InProcess(key')
    BY <1>4 DEF Decode
  <2>2. key' \in KeyRecs /\ key'.raw = key.raw /\ key.raw \in ExtKeys \ {"ENTER", "BACKSPACE"}
    BY <1>1, <2>1, FlaggedType, SpecialPad
  <2>3. UNCHANGED <<out_buffer, overflowed>>
    BY <2>1, <2>2 DEF InProcess
  <2> QED
    BY <1>1, <1>2, <1>3, <2>2, <2>3
<1>5. CASE make' = 0
  <2>1. key' = [raw |-> key.raw, flags |-> {}] /\ UNCHANGED <<out_buffer, overflowed>>
    BY <1>5 DEF Decode
  <2> QED
    BY <1>1, <1>2, <1>3, <2>1 DEF KeyRecs
<1> QED
  BY <1>3, <1>4, <1>5

LEMMA EmitsType ==
  ASSUME NEW out, Emits(out), out_buffer \in Seq(KeyRecs), Len(out_buffer) <= OutCapacity,
         overflowed \subseteq {"kb_buf", "out_buffer"}
  PROVE  /\ out_buffer' \in Seq(KeyRecs) /\ Len(out_buffer') <= OutCapacity
         /\ overflowed' \subseteq {"kb_buf", "out_buffer"}
<1>1. CASE UNCHANGED <<out_buffer, overflowed>>
  BY <1>1
<1>2. ASSUME NEW x \in Texts, NEW f \in SUBSET Flags, PutKey([raw |-> x, flags |-> f])
      PROVE  /\ out_buffer' \in Seq(KeyRecs) /\ Len(out_buffer') <= OutCapacity
             /\ overflowed' \subseteq {"kb_buf", "out_buffer"}
  <2>1. [raw |-> x, flags |-> f] \in KeyRecs
    BY DEF KeyRecs
  <2>2. CASE Len(out_buffer) < OutCapacity
    <3>1. out_buffer' = Append(out_buffer, [raw |-> x, flags |-> f]) /\ UNCHANGED overflowed
      BY <1>2, <2>2 DEF PutKey
    <3>2. Len(out_buffer') = Len(out_buffer) + 1 /\ out_buffer' \in Seq(KeyRecs)
      BY <2>1, <3>1
    <3> QED
      BY <2>2, <3>1, <3>2, UserAssumption
  <2>3. CASE ~(Len(out_buffer) < OutCapacity)
    BY <1>2, <2>3 DEF PutKey
  <2> QED
    BY <2>2, <2>3
<1> QED
  BY <1>1, <1>2 DEF Emits

-----------------------------------------------------------------------------
(* Type correctness. *)

LEMMA TypeInit == Init => TypeInv
<1> SUFFICES ASSUME Init PROVE TypeInv
  OBVIOUS
<1>1. TypeOK
  <2>1. mods \in [Modifiers -> {0, 1}]
    BY DEF Init
  <2>2. locks \in [{"caps_lock", "num_lock", "scroll_lock"} -> {0, 1}]
    BY DEF Init
  <2>3. presses \in [DOMAIN InitialLock -> 0 .. MaxEvents]
    BY UserAssumption DEF Init
  <2>4. /\ held \subseteq Keys /\ events \in 0 .. MaxEvents
        /\ wire \in Seq(0 .. 255) /\ kb_buf \in Seq(0 .. 255) /\ Len(kb_buf) <= KbCapacity
        /\ Len(out_buffer) <= OutCapacity /\ overflowed \subseteq {"kb_buf", "out_buffer"}
    BY UserAssumption DEF Init
  <2>5. /\ pc = "init_tty" /\ key.flags = {} /\ make = Garbage /\ scan_code = 0
        /\ count_E1 = 0
    BY DEF Init, NoKey
  <2>6. /\ pc \in {"init_tty", "halted", "loop", "E1", "E0", "E0_2A", "E0_B7", "E0_2A_E0",
                   "E0_B7_E0", "decode", "write"}
        /\ key.flags \subseteq {FlagOf[m] : m \in Modifiers} \cup {"FLAG_PAD"}
        /\ make \in {0, 1, Garbage} /\ scan_code \in 0 .. 255
        /\ count_E1 \in 0 .. 6
    BY <2>5 DEF Garbage
  <2>7. code_with_E0 \in BOOLEAN
    BY DEF Init
  <2> QED
    BY <2>1, <2>2, <2>3, <2>4, <2>6, <2>7 DEF TypeOK
<1>2. key \in KeyRecs
  BY DEF Init, NoKey, KeyRecs, Texts
<1> QED
  BY <1>1, <1>2 DEF Init, TypeInv, InitialLock

LEMMA TypeStep == TypeInv /\ [Next]_vars => TypeInv'
<1> SUFFICES ASSUME TypeInv, [Next]_vars PROVE TypeInv'
  OBVIOUS
<1> USE UserAssumption DEF TypeInv, TypeOK
<1>1. ASSUME NEW k \in Keys, Press(k) PROVE TypeInv'
  <2>1. k \in RealKeys /\ MakeCode(k) \in Seq(0 .. 255) /\ Meaning(k) \in Seq(Texts)
    BY CodesAreBytes, MeaningText
  <2>2. typed' \in Seq(Texts) /\ wire' \in Seq(0 .. 255)
    BY <1>1, <2>1 DEF Press
  <2>3. events < MaxEvents /\ events' = events + 1
    BY <1>1 DEF Press, UserMoves
  <2>4. /\ presses' \in [DOMAIN InitialLock -> 0 .. MaxEvents]
        /\ \A l \in DOMAIN InitialLock : presses'[l] <= events'
        /\ "NUM_LOCK" \notin Keys => presses'["NUM_LOCK"] = 0
    <3>1. DOMAIN presses = DOMAIN InitialLock /\ "NUM_LOCK" \in DOMAIN InitialLock
      BY DEF InitialLock
    <3>2. CASE k \in DOMAIN presses /\ k \notin held
      <4>1. presses' = [presses EXCEPT ![k] = @ + 1]
        BY <1>1, <3>2 DEF Press
      <4> QED
        BY <2>3, <3>1, <3>2, <4>1, SMTT(30)
    <3>3. CASE ~(k \in DOMAIN presses /\ k \notin held)
      <4>1. presses' = presses
        BY <1>1, <3>3 DEF Press
      <4> QED
        BY <2>3, <3>1, <4>1
    <3> QED
      BY <3>2, <3>3
  <2>5. /\ held' \subseteq Keys /\ events' \in 0 .. MaxEvents
        /\ UNCHANGED <<kb_buf, pc, key, make, scan_code, code_with_E0, count_E1, mods, locks,
                       out_buffer, screen, overflowed>>
    BY <1>1, <2>3 DEF Press, UserMoves, decodeVars
  <2> QED
    BY <2>2, <2>4, <2>5
<1>2. ASSUME NEW k \in Keys, Release(k) PROVE TypeInv'
  <2>1. BreakCode(k) \in Seq(0 .. 255)
    BY CodesAreBytes
  <2>2. /\ held' \subseteq Keys /\ events' = events + 1 /\ events' \in 0 .. MaxEvents
        /\ wire' \in Seq(0 .. 255)
        /\ UNCHANGED <<typed, presses, kb_buf, pc, key, make, scan_code, code_with_E0, count_E1,
                       mods, locks, out_buffer, screen, overflowed>>
    BY <1>2, <2>1 DEF Release, UserMoves, decodeVars
  <2>3. \A l \in DOMAIN InitialLock : presses'[l] <= events'
    BY <2>2
  <2> QED
    BY <2>2, <2>3
<1>3. CASE Arrive
  <2>1. wire' \in Seq(0 .. 255) /\ kb_buf' \in Seq(0 .. 255) /\ Len(kb_buf') <= KbCapacity
    BY <1>3 DEF Arrive
  <2>2. overflowed' \subseteq {"kb_buf", "out_buffer"}
    BY <1>3 DEF Arrive
  <2>3. UNCHANGED <<held, events, typed, presses, pc, key, make, scan_code, code_with_E0,
                    count_E1, mods, locks, out_buffer, screen>>
    BY <1>3 DEF Arrive, decodeVars
  <2> QED
    BY <2>1, <2>2, <2>3
<1>4. CASE InitTty
  BY <1>4 DEF InitTty, userVars, decodeVars
<1>5. CASE ReadFirst
  <2>1. kb_buf' \in Seq(0 .. 255) /\ Len(kb_buf') <= KbCapacity /\ scan_code' \in 0 .. 255
    <3>1. scan_code' = Head(kb_buf) /\ kb_buf' = Tail(kb_buf) /\ kb_buf # <<>>
      BY <1>5 DEF ReadFirst, GetByte
    <3> QED
      BY <3>1, HeadTailProperties
  <2>2. pc' \in {"E1", "E0", "decode"} /\ count_E1' = 1 /\ code_with_E0' \in BOOLEAN
    BY <1>5 DEF ReadFirst
  <2>3. UNCHANGED <<userVars, key, make, mods, locks, out_buffer, screen, overflowed>>
    BY <1>5 DEF ReadFirst
  <2> QED
    BY <2>1, <2>2, <2>3 DEF userVars
<1>6. CASE ReadE1
  <2>1. kb_buf' \in Seq(0 .. 255) /\ Len(kb_buf') <= KbCapacity
    BY <1>6 DEF ReadE1, GetByte
  <2>2. /\ pc' \in {"E1", "decode"} /\ count_E1' = count_E1 + 1 /\ count_E1 \in 1 .. 5
        /\ pc' = "E1" => count_E1 < 5
    BY <1>6 DEF ReadE1
  <2>3. key' \in KeyRecs
    <3>1. [raw |-> "PAUSEBREAK", flags |-> {}] \in KeyRecs
      BY DEF KeyRecs, Texts
    <3> QED
      BY <1>6, <3>1 DEF ReadE1
  <2>4. key'.flags \subseteq Flags
    BY <2>3 DEF KeyRecs
  <2>5. UNCHANGED <<userVars, make, scan_code, code_with_E0, mods, locks, out_buffer, screen,
                    overflowed>>
    BY <1>6 DEF ReadE1
  <2> QED
    BY <2>1, <2>2, <2>3, <2>4, <2>5 DEF userVars, Flags
<1>7. CASE ReadE0
  <2>1. kb_buf' \in Seq(0 .. 255) /\ Len(kb_buf') <= KbCapacity /\ scan_code' \in 0 .. 255
    <3>1. scan_code' = Head(kb_buf) /\ kb_buf' = Tail(kb_buf) /\ kb_buf # <<>>
      BY <1>7 DEF ReadE0, GetByte
    <3> QED
      BY <3>1, HeadTailProperties
  <2>2. pc' \in {"E0_2A", "E0_B7", "decode"} /\ code_with_E0' \in BOOLEAN
    BY <1>7 DEF ReadE0
  <2>3. UNCHANGED <<userVars, key, make, count_E1, mods, locks, out_buffer, screen, overflowed>>
    BY <1>7 DEF ReadE0
  <2> QED
    BY <2>1, <2>2, <2>3 DEF userVars
<1>8. CASE ReadThird
  <2>1. kb_buf' \in Seq(0 .. 255) /\ Len(kb_buf') <= KbCapacity /\ scan_code' \in 0 .. 255
    <3>1. scan_code' = Head(kb_buf) /\ kb_buf' = Tail(kb_buf) /\ kb_buf # <<>>
      BY <1>8 DEF ReadThird, GetByte
    <3> QED
      BY <3>1, HeadTailProperties
  <2>2. pc' \in {"E0_2A_E0", "E0_B7_E0", "decode"} /\ code_with_E0' \in BOOLEAN
    BY <1>8 DEF ReadThird
  <2>3. UNCHANGED <<userVars, key, make, count_E1, mods, locks, out_buffer, screen, overflowed>>
    BY <1>8 DEF ReadThird
  <2> QED
    BY <2>1, <2>2, <2>3 DEF userVars
<1>9. CASE ReadFourth
  <2>1. kb_buf' \in Seq(0 .. 255) /\ Len(kb_buf') <= KbCapacity /\ scan_code' \in 0 .. 255
    <3>1. scan_code' = Head(kb_buf) /\ kb_buf' = Tail(kb_buf) /\ kb_buf # <<>>
      BY <1>9 DEF ReadFourth, GetByte
    <3> QED
      BY <3>1, HeadTailProperties
  <2>2. pc' = "decode" /\ make' \in {0, 1, Garbage}
    BY <1>9 DEF ReadFourth
  <2>3. key' \in KeyRecs
    <3>1. [raw |-> "PRINTSCREEN", flags |-> {}] \in KeyRecs
      BY DEF KeyRecs, Texts
    <3> QED
      BY <1>9, <3>1 DEF ReadFourth
  <2>4. key'.flags \subseteq Flags
    BY <2>3 DEF KeyRecs
  <2>5. UNCHANGED <<userVars, code_with_E0, count_E1, mods, locks, out_buffer, screen, overflowed>>
    BY <1>9 DEF ReadFourth
  <2> QED
    BY <2>1, <2>2, <2>3, <2>4, <2>5 DEF userVars, Flags
<1>10. CASE Decode
  <2>1. pc' = "loop" /\ UNCHANGED <<userVars, kb_buf, scan_code, code_with_E0, count_E1, screen>>
    BY <1>10 DEF Decode
  <2>2. Found \in Texts /\ MakeOf(scan_code) \in {0, 1}
    BY FoundText
  <2>3. /\ key' \in KeyRecs /\ make' \in {0, 1}
        /\ mods' \in [Modifiers -> {0, 1}] /\ locks' \in [Locks -> {0, 1}]
        /\ \E out : Emits(out)
    <3>1. CASE Preset
      BY <1>10, <3>1, DecodePreset DEF Emits, Locks
    <3>2. CASE ~Preset
      <4>1. /\ mods' = ModsOf(Found, MakeOf(scan_code), mods)
            /\ locks' = LocksOf(Found, MakeOf(scan_code), locks)
            /\ make' = MakeOf(scan_code) /\ key' \in KeyRecs
            /\ Emits(OutOf(Found, MakeOf(scan_code), locks))
        BY <1>10, <3>2, DecodePending
      <4>2. mods \in [Modifiers -> {0, 1}] /\ locks \in [Locks -> {0, 1}]
        BY DEF Locks
      <4>3. mods' \in [Modifiers -> {0, 1}]
        BY <2>2, <4>1, <4>2, ModsType
      <4>4. locks' \in [Locks -> {0, 1}]
        BY <2>2, <4>1, <4>2, LocksType
      <4> QED
        BY <2>2, <4>1, <4>3, <4>4
    <3> QED
      BY <3>1, <3>2
  <2>4. /\ out_buffer' \in Seq(KeyRecs) /\ Len(out_buffer') <= OutCapacity
        /\ overflowed' \subseteq {"kb_buf", "out_buffer"}
    BY <2>3, EmitsType
  <2>5. key'.flags \subseteq Flags
    BY <2>3 DEF KeyRecs
  <2> QED
    BY <2>1, <2>3, <2>4, <2>5 DEF userVars, Flags, Locks
<1>11. CASE ReadDone
  BY <1>11 DEF ReadDone, userVars, decodeVars
<1>12. CASE WriteKey
  <2>1. Head(out_buffer) \in KeyRecs /\ Tail(out_buffer) \in Seq(KeyRecs)
        /\ Len(Tail(out_buffer)) <= OutCapacity
    BY <1>12 DEF WriteKey
  <2>2. Head(out_buffer).raw \in Texts
    BY <2>1 DEF KeyRecs
  <2>3. screen' \in Seq(Texts)
    BY <1>12, <2>2 DEF WriteKey
  <2> QED
    BY <1>12, <2>1, <2>3 DEF WriteKey, userVars, decodeVars
<1>13. CASE WriteDone
  <2>1. NoKey \in KeyRecs /\ NoKey.flags = {}
    BY DEF NoKey, KeyRecs, Texts
  <2> QED
    BY <1>13, <2>1 DEF WriteDone, userVars, Garbage
<1>14. CASE UNCHANGED vars
  BY <1>14 DEF vars, userVars, decodeVars
<1> QED
  BY <1>1, <1>2, <1>3, <1>4, <1>5, <1>6, <1>7, <1>8, <1>9, <1>10, <1>11, <1>12, <1>13, <1>14
     DEF Next, TaskStep

\* The variables of the task keep their types: the rings their sizes, the
\* modifiers and the locks 0 or 1, count_E1 within the code of the Pause key.
THEOREM TaskTypes == Spec => []TypeOK
<1>1. TypeInv => TypeOK
  BY DEF TypeInv
<1> QED
  BY <1>1, TypeInit, TypeStep, PTL DEF Spec

-----------------------------------------------------------------------------
(* The decoder's modifiers and locks, and what the user did. *)

\* The user waits for the task, or has no key whose code is its own: only then
\* does a key keep a value for one byte at most.
Unhurried == Paced \/ Keys \cap Specials = {}

\* The user has no Num Lock key, and lock keys do not repeat.
LocksPlain == "NUM_LOCK" \notin Keys /\ DOMAIN LockOf \cap Typematic = {}

\* The right Alt key sets the variable of the left one.
Exempt == IF "ALT_R" \in Keys THEN {"alt_l", "alt_r"} ELSE {}
ModsAgree(m, h) == \A x \in Modifiers \ Exempt : m[x] = IF ModifierKeys[x] \in h THEN 1 ELSE 0
LocksAgree(l, p) ==
  l["caps_lock"] = p["CAPS_LOCK"] % 2 /\ l["num_lock"] = 1 /\ l["scroll_lock"] = p["SCROLL_LOCK"] % 2

LEMMA ModifierPairs ==
  /\ \A k \in DOMAIN ModifierOf \ {"ALT_R"} :
       /\ ModifierOf[k] \in Modifiers /\ ModifierKeys[ModifierOf[k]] = k
       /\ \A x \in Modifiers : ModifierKeys[x] = k => x = ModifierOf[k]
  /\ ModifierOf["ALT_R"] = "alt_l" /\ ModifierKeys["alt_r"] = "ALT_R"
  /\ \A x \in Modifiers : ModifierKeys[x] \in DOMAIN ModifierOf
  /\ \A x \in Modifiers : ModifierKeys[x] = "ALT_R" => x = "alt_r"
  BY ActingKeys DEF ModifierOf, ModifierKeys, Modifiers

LEMMA ModsStep ==
  ASSUME NEW k \in Keys, NEW m \in [Modifiers -> {0, 1}], NEW h, ModsAgree(m, h)
  PROVE  ModsAgree(ModsOf(k, 1, m), h \cup {k}) /\ ModsAgree(ModsOf(k, 0, m), h \ {k})
<1>1. CASE k \notin DOMAIN ModifierOf
  BY <1>1, ModifierPairs DEF ModsAgree, ModsOf
<1>2. CASE k \in DOMAIN ModifierOf \ {"ALT_R"}
  BY <1>2, ModifierPairs DEF ModsAgree, ModsOf
<1>3. CASE k = "ALT_R"
  BY <1>3, ModifierPairs, ActingKeys DEF ModsAgree, ModsOf, Exempt
<1> QED
  BY <1>1, <1>2, <1>3

LEMMA Parity == ASSUME NEW n \in Nat PROVE (n + 1) % 2 = 1 - (n % 2)
  OBVIOUS

\* A lock follows its key: it is toggled when the key goes down.
LEMMA LocksStep ==
  ASSUME NEW k \in Keys, NEW l \in [Locks -> {0, 1}], NEW p \in [DOMAIN InitialLock -> Nat],
         LocksPlain, LocksAgree(l, p)
  PROVE  /\ LocksAgree(LocksOf(k, 1, l), IF k \in DOMAIN p THEN [p EXCEPT ![k] = @ + 1] ELSE p)
         /\ LocksAgree(LocksOf(k, 0, l), p)
<1>1. DOMAIN p = {"CAPS_LOCK", "NUM_LOCK", "SCROLL_LOCK"} /\ k # "NUM_LOCK"
  BY DEF InitialLock, LocksPlain
<1>2. p["CAPS_LOCK"] \in Nat /\ p["SCROLL_LOCK"] \in Nat
  BY <1>1
<1>3. LocksAgree(LocksOf(k, 0, l), p)
  BY DEF LocksOf
<1>4. CASE k \notin {"CAPS_LOCK", "SCROLL_LOCK"}
  BY <1>1, <1>3, <1>4, ActingKeys DEF LocksOf
<1>5. CASE k = "CAPS_LOCK"
  <2>1. LocksOf(k, 1, l) = [l EXCEPT !["caps_lock"] = 1 - @]
    BY <1>5, ActingKeys DEF LocksOf, LockOf
  <2>2. (p["CAPS_LOCK"] + 1) % 2 = 1 - (p["CAPS_LOCK"] % 2)
    BY <1>2, Parity
  <2> QED
    BY <1>1, <1>3, <1>5, <2>1, <2>2 DEF LocksAgree, Locks
<1>6. CASE k = "SCROLL_LOCK"
  <2>1. LocksOf(k, 1, l) = [l EXCEPT !["scroll_lock"] = 1 - @]
    BY <1>6, ActingKeys DEF LocksOf, LockOf
  <2>2. (p["SCROLL_LOCK"] + 1) % 2 = 1 - (p["SCROLL_LOCK"] % 2)
    BY <1>2, Parity
  <2> QED
    BY <1>1, <1>3, <1>6, <2>1, <2>2 DEF LocksAgree, Locks
<1> QED
  BY <1>3, <1>4, <1>5, <1>6

\* Which column, once the decoder agrees with the user.
LEMMA ColumnMeant ==
  ASSUME TypeInv, LocksPlain, NEW m \in [Modifiers -> {0, 1}], NEW l \in [Locks -> {0, 1}],
         ModsAgree(m, held), LocksAgree(l, presses), NEW c \in OneByte
  PROVE  /\ Entry(c, 0) \in Letters =>
              ColumnOf(c, m, l) = IF ShiftHeld # CapsOn THEN 1 ELSE 0
         /\ Entry(c, 0) \notin Letters => ColumnOf(c, m, l) = IF ShiftHeld THEN 1 ELSE 0
<1>1. m["shift_l"] = (IF "SHIFT_L" \in held THEN 1 ELSE 0)
      /\ m["shift_r"] = (IF "SHIFT_R" \in held THEN 1 ELSE 0)
  BY DEF ModsAgree, Modifiers, Exempt, ModifierKeys
<1>2. (m["shift_l"] = 1 \/ m["shift_r"] = 1) <=> ShiftHeld
  BY <1>1 DEF ShiftHeld
<1>3. presses["CAPS_LOCK"] \in Nat /\ InitialLock["CAPS_LOCK"] = 0
  BY UserAssumption DEF TypeInv, TypeOK, InitialLock
<1>4. InitialLock["CAPS_LOCK"] + presses["CAPS_LOCK"] = presses["CAPS_LOCK"]
  BY <1>3
<1>5. (l["caps_lock"] = 1) <=> CapsOn
  BY <1>4 DEF CapsOn, LocksAgree
<1>6. c % FLAG_BREAK = c
  BY DEF OneByte, FLAG_BREAK
<1>7. CASE Entry(c, 0) \in Letters
  BY <1>2, <1>5, <1>6, <1>7 DEF ColumnOf
<1>8. CASE Entry(c, 0) \notin Letters
  BY <1>2, <1>6, <1>8 DEF ColumnOf
<1> QED
  BY <1>7, <1>8

\* What the code of a key shows is what the key means.
LEMMA YieldMeant ==
  ASSUME TypeInv, LocksPlain, NEW k \in Keys,
         NEW m \in [Modifiers -> {0, 1}], NEW l \in [Locks -> {0, 1}],
         ModsAgree(m, held), LocksAgree(l, presses)
  PROVE  Yield(k, 1, m, l) = Meaning(k)
<1>0. k \in RealKeys
  BY UserAssumption
<1>1. l["num_lock"] = 1 /\ NumOn
  <2>1. presses["NUM_LOCK"] = 0 /\ InitialLock["NUM_LOCK"] = 1
    BY DEF TypeInv, LocksPlain, InitialLock
  <2>2. InitialLock["NUM_LOCK"] + presses["NUM_LOCK"] = 1 /\ 1 % 2 = 1
    BY <2>1
  <2>3. (InitialLock["NUM_LOCK"] + presses["NUM_LOCK"]) % 2 = 1
    BY <2>2
  <2> QED
    BY <2>3 DEF LocksAgree, NumOn
<1>2. PadKeys \subseteq ExtKeys /\ PadKeys = DOMAIN PadDigits \cup DOMAIN PadSigns
      /\ DOMAIN PadDigits \cap DOMAIN PadSigns = {}
  BY PadDomains DEF ExtKeys, PadKeys
<1>3. {"ENTER", "BACKSPACE"} \subseteq ExtKeys \ PadKeys
  BY PadDomains DEF ExtKeys, PadKeys
<1>4. CASE k \in Specials
  <2>1. k \in ExtKeys \ ({"ENTER", "BACKSPACE"} \cup PadKeys)
    BY <1>4, PadDomains DEF Specials, ExtKeys, PadKeys
  <2> QED
    BY <1>4, <2>1, MeaningArms DEF Yield
<1>5. CASE k \notin Specials /\ HasE0(k)
  <2>1. Yield(k, 1, m, l) = Shown(PadOf(k, l))
    BY <1>5 DEF Yield, OutOf
  <2>2. k \in E0Keys
    BY <1>0, <1>5, E0Code
  <2>3. CASE k \notin {"PAD_ENTER", "PAD_SLASH"}
    <3>1. k \in ExtKeys \ ({"ENTER", "BACKSPACE"} \cup PadKeys)
      BY <2>2, <2>3, PadDomains DEF E0Keys, ExtKeys, PadKeys
    <3>2. Pair(k, k)
      BY <1>5, <3>1 DEF Pair
    <3>3. Shown(PadOf(k, l)) = <<>>
      BY <1>1, <3>1, <3>2, ShownOfPair
    <3> QED
      BY <2>1, <3>1, <3>3, MeaningArms
  <2>4. CASE k = "PAD_ENTER"
    <3>1. PadOf(k, l) = "ENTER"
      BY <2>4, PadDomains, PadTexts DEF PadOf
    <3>2. Shown("ENTER") = <<"newline">>
      BY <1>3 DEF Shown
    <3>3. Meaning(k) = <<"newline">>
      BY <2>4, PadDomains, MeaningArms
    <3> QED
      BY <2>1, <3>1, <3>2, <3>3
  <2>5. CASE k = "PAD_SLASH"
    <3>1. PadOf(k, l) = PadSigns[k] /\ PadSigns[k] \notin ExtKeys
      BY <2>5, PadDomains, PadTexts DEF PadOf
    <3>2. Shown(PadSigns[k]) = <<PadSigns[k]>>
      BY <3>1 DEF Shown
    <3>3. Meaning(k) = <<PadSigns[k]>>
      BY <2>5, PadDomains, MeaningArms
    <3> QED
      BY <2>1, <3>1, <3>2, <3>3
  <2> QED
    BY <2>3, <2>4, <2>5
<1>6. CASE k \notin Specials /\ ~HasE0(k)
  <2> DEFINE c == CodeOf(k)
             u == Entry(c, 0)
             v == Entry(c, 1)
             raw == LowRaw(c, m, l)
  <2>1. c \in OneByte /\ u = k
    BY <1>0, <1>6, OneByteCode
  <2>2. Pair(u, v)
    BY <2>1, OneByteRows
  <2>3. Yield(k, 1, m, l) = Shown(PadOf(raw, l))
    BY <1>6 DEF Yield, OutOf
  <2>4. c % FLAG_BREAK = c
    BY <2>1 DEF OneByte, FLAG_BREAK
  <2>5. raw = IF ColumnOf(c, m, l) = 1 THEN v ELSE u
    BY <2>4 DEF LowRaw, ColumnOf
  <2>6. /\ k \in Letters => ColumnOf(c, m, l) = IF ShiftHeld # CapsOn THEN 1 ELSE 0
        /\ k \notin Letters => ColumnOf(c, m, l) = IF ShiftHeld THEN 1 ELSE 0
    BY <2>1, ColumnMeant
  <2> HIDE DEF raw
  <2>7. CASE k \notin ExtKeys
    <3>1. Shown(PadOf(u, l)) = <<u>> /\ Shown(PadOf(v, l)) = <<v>>
      BY <1>1, <2>1, <2>2, <2>7, ShownOfPair
    <3>2. CASE k \in Letters
      <4>1. Meaning(k) = <<IF ShiftHeld # CapsOn THEN v ELSE k>>
        BY <3>2, MeaningArms DEF Printed
      <4> QED
        BY <2>1, <2>3, <2>5, <2>6, <3>1, <3>2, <4>1
    <3>3. CASE k \notin Letters
      <4>1. Meaning(k) = <<IF ShiftHeld THEN v ELSE k>>
        BY <2>7, <3>3, MeaningArms DEF Printed
      <4> QED
        BY <2>1, <2>3, <2>5, <2>6, <3>1, <3>3, <4>1
    <3> QED
      BY <3>2, <3>3
  <2>8. CASE k \in DOMAIN PadDigits
    <3>1. Shown(PadOf(u, l)) = <<PadDigits[k]>> /\ Shown(PadOf(v, l)) = <<PadDigits[k]>>
      BY <1>1, <2>1, <2>2, <2>8, ShownOfPair
    <3>2. Meaning(k) = <<PadDigits[k]>>
      BY <1>1, <2>8, MeaningArms
    <3> QED
      BY <2>3, <2>5, <3>1, <3>2
  <2>9. CASE k \in DOMAIN PadSigns
    <3>1. Shown(PadOf(u, l)) = <<PadSigns[k]>> /\ Shown(PadOf(v, l)) = <<PadSigns[k]>>
      BY <1>1, <2>1, <2>2, <2>9, ShownOfPair
    <3>2. k # "PAD_ENTER"
      <4>1. "PAD_ENTER" \notin {"PAD_MINUS", "PAD_PLUS"} /\ "PAD_ENTER" \in ExtKeys
            /\ "PAD_ENTER" \in PadKeys /\ "PAD_ENTER" \notin DOMAIN PadDigits
        BY <1>2, PadDomains
      <4> QED
        BY <2>1, <2>2, <4>1 DEF Pair
    <3>3. Meaning(k) = <<PadSigns[k]>>
      BY <2>9, <3>2, MeaningArms
    <3> QED
      BY <2>3, <2>5, <3>1, <3>3
  <2>10. CASE k \in {"ENTER", "BACKSPACE"}
    BY <1>1, <2>1, <2>2, <2>3, <2>5, <2>10, ShownOfPair, MeaningArms
  <2>11. CASE k \in ExtKeys \ ({"ENTER", "BACKSPACE"} \cup PadKeys)
    <3>1. Shown(PadOf(u, l)) = <<>> /\ Shown(PadOf(v, l)) = <<>>
      BY <1>1, <2>1, <2>2, <2>11, ShownOfPair
    <3>2. Meaning(k) = <<>>
      BY <2>11, MeaningArms
    <3> QED
      BY <2>3, <2>5, <3>1, <3>2
  <2> QED
    BY <1>2, <2>7, <2>8, <2>9, <2>10, <2>11
<1> QED
  BY <1>4, <1>5, <1>6

LEMMA YieldNothing == ASSUME NEW k, NEW m, NEW l PROVE Yield(k, 0, m, l) = <<>>
  BY DEF Yield, OutOf

-----------------------------------------------------------------------------
(* Sequences: what is shown against what was typed. *)

Begins(s, t) == Len(s) <= Len(t) /\ \A i \in 1 .. Len(s) : s[i] = t[i]
Embeds(s, t) ==
  \E f \in [1 .. Len(s) -> 1 .. Len(t)] :
    \A i \in 1 .. Len(s) : s[i] = t[f[i]] /\ (i > 1 => f[i - 1] < f[i])

LEMMA BeginsTrans ==
  ASSUME NEW s \in Seq(Texts), NEW t \in Seq(Texts), NEW u \in Seq(Texts), Begins(s, t), Begins(t, u)
  PROVE  Begins(s, u)
  BY DEF Begins

LEMMA BeginsConcat ==
  ASSUME NEW s \in Seq(Texts), NEW t \in Seq(Texts)
  PROVE  Begins(s, s \o t) /\ Begins(s, s)
  BY DEF Begins

LEMMA BeginsPrefix ==
  ASSUME NEW s \in Seq(Texts), NEW t \in Seq(Texts), Begins(s, t)
  PROVE  IsPrefix(s, t)
<1>1. Len(s) \in Nat /\ Len(s) <= Len(t) /\ Len(t) \in Nat
  BY DEF Begins
<1>2. SubSeq(s, 1, Len(s)) = SubSeq(t, 1, Len(s))
  BY <1>1 DEF Begins
<1> QED
  BY <1>1, <1>2 DEF IsPrefix

LEMMA EmbedsSelf == ASSUME NEW s \in Seq(Texts) PROVE Embeds(s, s)
<1> DEFINE f == [i \in 1 .. Len(s) |-> i]
<1>1. f \in [1 .. Len(s) -> 1 .. Len(s)] /\ \A i \in 1 .. Len(s) : f[i] = i
  OBVIOUS
<1>2. \A i \in 1 .. Len(s) : i > 1 => i - 1 \in 1 .. Len(s) /\ i - 1 < i
  OBVIOUS
<1>3. \A i \in 1 .. Len(s) : s[i] = s[f[i]] /\ (i > 1 => f[i - 1] < f[i])
  BY <1>1, <1>2
<1> HIDE DEF f
<1> QED
  BY <1>1, <1>3 DEF Embeds

LEMMA EmbedsBegins ==
  ASSUME NEW s \in Seq(Texts), NEW t \in Seq(Texts), NEW u \in Seq(Texts), Embeds(s, t), Begins(t, u)
  PROVE  Embeds(s, u)
<1>1. PICK f \in [1 .. Len(s) -> 1 .. Len(t)] :
        \A i \in 1 .. Len(s) : s[i] = t[f[i]] /\ (i > 1 => f[i - 1] < f[i])
  BY DEF Embeds
<1>2. Len(t) <= Len(u) /\ Len(t) \in Nat /\ Len(u) \in Nat /\ \A i \in 1 .. Len(t) : t[i] = u[i]
  BY DEF Begins
<1>3. f \in [1 .. Len(s) -> 1 .. Len(u)]
  BY <1>2
<1>4. \A i \in 1 .. Len(s) : s[i] = u[f[i]] /\ (i > 1 => f[i - 1] < f[i])
  BY <1>1, <1>2
<1> QED
  BY <1>3, <1>4 DEF Embeds

LEMMA EmbedsFront ==
  ASSUME NEW s \in Seq(Texts), NEW o \in Seq(Texts), NEW t \in Seq(Texts), Embeds(s \o o, t)
  PROVE  Embeds(s, t)
<1>1. PICK f \in [1 .. Len(s \o o) -> 1 .. Len(t)] :
        \A i \in 1 .. Len(s \o o) : (s \o o)[i] = t[f[i]] /\ (i > 1 => f[i - 1] < f[i])
  BY DEF Embeds
<1> DEFINE g == [i \in 1 .. Len(s) |-> f[i]]
<1>2. Len(s \o o) = Len(s) + Len(o) /\ Len(s) \in Nat /\ Len(o) \in Nat
      /\ \A i \in 1 .. Len(s) : (s \o o)[i] = s[i]
  OBVIOUS
<1>3. \A i \in 1 .. Len(s) : i \in 1 .. Len(s \o o) /\ (i > 1 => i - 1 \in 1 .. Len(s))
  BY <1>2
<1>4. g \in [1 .. Len(s) -> 1 .. Len(t)]
  BY <1>3
<1>5. \A i \in 1 .. Len(s) : s[i] = t[g[i]] /\ (i > 1 => g[i - 1] < g[i])
  BY <1>1, <1>2, <1>3
<1> HIDE DEF g
<1> QED
  BY <1>4, <1>5 DEF Embeds

LEMMA EmbedsConcat ==
  ASSUME NEW s \in Seq(Texts), NEW t \in Seq(Texts), NEW o \in Seq(Texts), Embeds(s, t)
  PROVE  Embeds(s \o o, t \o o)
<1>1. PICK f \in [1 .. Len(s) -> 1 .. Len(t)] :
        \A i \in 1 .. Len(s) : s[i] = t[f[i]] /\ (i > 1 => f[i - 1] < f[i])
  BY DEF Embeds
<1> DEFINE n == Len(s)
           m == Len(t)
           k == Len(o)
           g == [i \in 1 .. n + k |-> IF i <= n THEN f[i] ELSE m + (i - n)]
<1>2. n \in Nat /\ m \in Nat /\ k \in Nat /\ Len(s \o o) = n + k /\ Len(t \o o) = m + k
  OBVIOUS
<1>3. /\ \A i \in 1 .. n : (s \o o)[i] = s[i]
      /\ \A i \in 1 .. k : (s \o o)[n + i] = o[i] /\ (t \o o)[m + i] = o[i]
      /\ \A i \in 1 .. m : (t \o o)[i] = t[i]
  OBVIOUS
<1> HIDE DEF n, m, k
<1>4. \A i \in 1 .. n : f[i] \in 1 .. m
  BY <1>1 DEF n, m
<1>5. g \in [1 .. n + k -> 1 .. m + k]
  BY <1>2, <1>4
<1>6. /\ \A i \in 1 .. n : g[i] = f[i]
      /\ \A i \in 1 .. k : g[n + i] = m + i
  <2>1. \A i \in 1 .. n : i \in 1 .. n + k /\ i <= n
    BY <1>2
  <2>2. \A i \in 1 .. k : n + i \in 1 .. n + k /\ ~(n + i <= n) /\ (n + i) - n = i
    BY <1>2
  <2> QED
    BY <2>1, <2>2
<1> HIDE DEF g
<1> DEFINE Kept(i) == (s \o o)[i] = (t \o o)[g[i]] /\ (i > 1 => g[i - 1] < g[i])
<1>7. ASSUME NEW i \in 1 .. n PROVE Kept(i)
  <2>1. s[i] = t[f[i]] /\ (i > 1 => f[i - 1] < f[i])
    BY <1>1 DEF n
  <2>2. i > 1 => i - 1 \in 1 .. n
    BY <1>2
  <2> QED
    BY <1>3, <1>4, <1>6, <2>1, <2>2
<1>8. ASSUME NEW i \in 1 .. k PROVE Kept(n + i)
  <2>1. (s \o o)[n + i] = (t \o o)[g[n + i]]
    BY <1>3, <1>6
  <2>2. CASE i = 1
    <3>1. n + i - 1 = n /\ g[n + i] = m + 1
      BY <1>2, <1>6, <2>2
    <3>2. n >= 1 => g[n] = f[n] /\ f[n] \in 1 .. m
      BY <1>2, <1>4, <1>6
    <3> QED
      BY <1>2, <2>1, <2>2, <3>1, <3>2
  <2>3. CASE i > 1
    <3>1. i - 1 \in 1 .. k /\ n + i - 1 = n + (i - 1)
      BY <1>2, <2>3
    <3>2. g[n + (i - 1)] = m + (i - 1) /\ g[n + i] = m + i
      BY <1>6, <3>1
    <3> QED
      BY <1>2, <2>1, <3>1, <3>2
  <2>4. i = 1 \/ i > 1
    BY <1>2
  <2> QED
    BY <2>2, <2>3, <2>4
<1> HIDE DEF Kept
<1>9. (\A i \in 1 .. n : Kept(i)) /\ (\A i \in 1 .. k : Kept(n + i))
  BY <1>7, <1>8
<1>10. \A i \in 1 .. n + k : Kept(i)
  <2>1. \A i \in 1 .. n + k : i \in 1 .. n \/ (i - n \in 1 .. k /\ n + (i - n) = i)
    BY <1>2
  <2> QED
    BY <1>9, <2>1
<1> QED
  BY <1>2, <1>5, <1>10 DEF Embeds, Kept, n, m

\* What a sequence of keys shows.
Raws(q) == [i \in 1 .. Len(q) |-> q[i].raw]

LEMMA RawsType == ASSUME NEW q \in Seq(KeyRecs) PROVE Raws(q) \in Seq(Texts) /\ Len(Raws(q)) = Len(q)
<1>1. \A i \in 1 .. Len(q) : q[i].raw \in Texts
  <2>1. \A i \in 1 .. Len(q) : q[i] \in KeyRecs
    OBVIOUS
  <2> QED
    BY <2>1 DEF KeyRecs
<1> QED
  BY <1>1 DEF Raws

LEMMA RawsAppend ==
  ASSUME NEW q \in Seq(KeyRecs), NEW k \in KeyRecs
  PROVE  Raws(Append(q, k)) = Raws(q) \o <<k.raw>>
<1>1. k.raw \in Texts
  BY DEF KeyRecs
<1>2. Append(q, k) \in Seq(KeyRecs) /\ Len(Append(q, k)) = Len(q) + 1
  OBVIOUS
<1>3. Raws(Append(q, k)) \in Seq(Texts) /\ Len(Raws(Append(q, k))) = Len(q) + 1
  BY <1>2, RawsType
<1>4. Raws(q) \in Seq(Texts) /\ Len(Raws(q)) = Len(q)
  BY RawsType
<1>5. Raws(q) \o <<k.raw>> \in Seq(Texts) /\ Len(Raws(q) \o <<k.raw>>) = Len(q) + 1
  BY <1>1, <1>4
<1>6. ASSUME NEW i \in 1 .. Len(q) + 1
      PROVE  Raws(Append(q, k))[i] = (Raws(q) \o <<k.raw>>)[i]
  <2>1. Raws(Append(q, k))[i] = Append(q, k)[i].raw
    BY <1>2 DEF Raws
  <2>2. CASE i \in 1 .. Len(q)
    <3>1. Append(q, k)[i] = q[i] /\ Raws(q)[i] = q[i].raw
      BY <2>2 DEF Raws
    <3> QED
      BY <1>1, <1>4, <2>1, <2>2, <3>1
  <2>3. CASE i = Len(q) + 1
    <3>1. Append(q, k)[i] = k
      BY <2>3
    <3> QED
      BY <1>1, <1>4, <2>1, <2>3, <3>1
  <2>4. i \in 1 .. Len(q) \/ i = Len(q) + 1
    OBVIOUS
  <2> QED
    BY <2>2, <2>3, <2>4
<1> QED
  BY <1>3, <1>5, <1>6, SeqEqual

LEMMA RawsHead ==
  ASSUME NEW q \in Seq(KeyRecs), q # <<>>
  PROVE  Raws(q) = <<Head(q).raw>> \o Raws(Tail(q))
<1>1. Head(q) \in KeyRecs /\ Tail(q) \in Seq(KeyRecs) /\ Len(Tail(q)) = Len(q) - 1
      /\ Head(q) = q[1] /\ \A i \in 1 .. Len(Tail(q)) : Tail(q)[i] = q[i + 1]
  BY HeadTailProperties
<1>2. Head(q).raw \in Texts
  BY <1>1 DEF KeyRecs
<1>3. Raws(q) \in Seq(Texts) /\ Len(Raws(q)) = Len(q)
  BY RawsType
<1>4. Raws(Tail(q)) \in Seq(Texts) /\ Len(Raws(Tail(q))) = Len(q) - 1
  BY <1>1, RawsType
<1>5. <<Head(q).raw>> \o Raws(Tail(q)) \in Seq(Texts) /\ Len(<<Head(q).raw>> \o Raws(Tail(q))) = Len(q)
  BY <1>2, <1>4
<1>6. ASSUME NEW i \in 1 .. Len(q)
      PROVE  Raws(q)[i] = (<<Head(q).raw>> \o Raws(Tail(q)))[i]
  <2>1. Raws(q)[i] = q[i].raw
    BY DEF Raws
  <2>2. CASE i = 1
    BY <1>1, <1>2, <1>4, <2>1, <2>2
  <2>3. CASE i > 1
    <3>1. i - 1 \in 1 .. Len(Tail(q)) /\ (i - 1) + 1 = i
      BY <1>1, <2>3
    <3>2. Raws(Tail(q))[i - 1] = Tail(q)[i - 1].raw
      BY <3>1 DEF Raws
    <3>3. Tail(q)[i - 1] = q[i]
      BY <1>1, <3>1
    <3>4. (<<Head(q).raw>> \o Raws(Tail(q)))[i] = Raws(Tail(q))[i - 1]
      BY <1>1, <1>2, <1>4, <2>3, <3>1
    <3> QED
      BY <2>1, <3>2, <3>3, <3>4
  <2>4. i = 1 \/ i > 1
    OBVIOUS
  <2> QED
    BY <2>2, <2>3, <2>4
<1> QED
  BY SMTT(30), <1>3, <1>5, <1>6, SeqEqual

-----------------------------------------------------------------------------
(* Runs. *)

LEMMA RunTail ==
  ASSUME NEW s \in Seq(0 .. 255), s # <<>>, NEW st, Run(st, s)
  PROVE  Run([i \in 0 .. Len(Tail(s)) |-> st[i + 1]], Tail(s))
<1>1. Tail(s) \in Seq(0 .. 255) /\ Len(Tail(s)) = Len(s) - 1
      /\ \A i \in 1 .. Len(Tail(s)) : Tail(s)[i] = s[i + 1]
  BY HeadTailProperties
<1> DEFINE n == Len(Tail(s))
           r == [i \in 0 .. n |-> st[i + 1]]
<1>2. st \in [0 .. n + 1 -> States] /\ n \in Nat /\ Len(s) = n + 1
  BY <1>1 DEF Run
<1>3. r \in [0 .. n -> States] /\ \A i \in 0 .. n : r[i] = st[i + 1]
  BY <1>2
<1>4. ASSUME NEW i \in 1 .. n
      PROVE  Expected(r[i - 1], Tail(s)[i]) /\ r[i] = After(r[i - 1], Tail(s)[i])
  <2>1. i + 1 \in 1 .. Len(s) /\ (i + 1) - 1 = i /\ i - 1 \in 0 .. n /\ (i - 1) + 1 = i /\ i \in 0 .. n
    BY <1>2
  <2>2. Expected(st[i], s[i + 1]) /\ st[i + 1] = After(st[i], s[i + 1])
    BY <2>1 DEF Run
  <2>3. r[i - 1] = st[i] /\ r[i] = st[i + 1] /\ Tail(s)[i] = s[i + 1]
    BY <1>1, <1>3, <2>1
  <2> QED
    BY <2>2, <2>3
<1> HIDE DEF r
<1>5. Run(r, Tail(s))
  BY <1>3, <1>4 DEF Run
<1> QED
  BY <1>5 DEF r

\* The run st over n bytes, followed by the run r over m.
Joined(st, n, r, m) == [i \in 0 .. n + m |-> IF i <= n THEN st[i] ELSE r[i - n]]

LEMMA JoinedAt ==
  ASSUME NEW st, NEW n \in Nat, NEW r, NEW m \in Nat, r[0] = st[n]
  PROVE  /\ \A i \in 0 .. n : Joined(st, n, r, m)[i] = st[i]
         /\ \A i \in 0 .. m : Joined(st, n, r, m)[n + i] = r[i]
<1>1. \A i \in 0 .. n : Joined(st, n, r, m)[i] = st[i]
  BY DEF Joined
<1>2. ASSUME NEW i \in 0 .. m PROVE Joined(st, n, r, m)[n + i] = r[i]
  <2>1. n + i \in 0 .. n + m /\ (n + i) - n = i /\ (n + i <= n <=> i = 0)
    OBVIOUS
  <2> QED
    BY <1>1, <2>1 DEF Joined
<1> QED
  BY <1>1, <1>2

LEMMA RunJoined ==
  ASSUME NEW s \in Seq(0 .. 255), NEW t \in Seq(0 .. 255), NEW st, NEW r,
         Run(st, s), Run(r, t), r[0] = st[Len(s)]
  PROVE  Run(Joined(st, Len(s), r, Len(t)), s \o t)
<1> DEFINE n == Len(s)
           m == Len(t)
           j == Joined(st, n, r, m)
<1>1. /\ n \in Nat /\ m \in Nat /\ Len(s \o t) = n + m
      /\ \A i \in 1 .. n : (s \o t)[i] = s[i]
      /\ \A i \in 1 .. m : (s \o t)[n + i] = t[i]
  OBVIOUS
<1>2. /\ \A i \in 0 .. n : j[i] = st[i]
      /\ \A i \in 0 .. m : j[n + i] = r[i]
  BY <1>1, JoinedAt
<1>3. st \in [0 .. n -> States] /\ r \in [0 .. m -> States]
  BY DEF Run
<1>4. j \in [0 .. n + m -> States]
  <2>1. ASSUME NEW i \in 0 .. n + m PROVE (IF i <= n THEN st[i] ELSE r[i - n]) \in States
    <3>1. CASE i <= n
      BY SMTT(30), <1>1, <1>3, <3>1
    <3>2. CASE ~(i <= n)
      <4>1. i - n \in 0 .. m
        BY <1>1, <3>2
      <4> QED
        BY <1>3, <3>2, <4>1
    <3> QED
      BY <3>1, <3>2
  <2> QED
    BY <2>1 DEF Joined
<1> HIDE DEF j
<1>5. ASSUME NEW i \in 1 .. n + m
      PROVE  Expected(j[i - 1], (s \o t)[i]) /\ j[i] = After(j[i - 1], (s \o t)[i])
  <2>1. CASE i <= n
    <3>1. i \in 1 .. n /\ i - 1 \in 0 .. n /\ i \in 0 .. n
      BY <1>1, <2>1
    <3>2. Expected(st[i - 1], s[i]) /\ st[i] = After(st[i - 1], s[i])
      BY <3>1 DEF Run
    <3>3. j[i - 1] = st[i - 1] /\ j[i] = st[i] /\ (s \o t)[i] = s[i]
      BY <1>1, <1>2, <3>1
    <3> QED
      BY <3>2, <3>3
  <2>2. CASE ~(i <= n)
    <3>1. PICK k \in 1 .. m : i = n + k
      <4>1. i - n \in 1 .. m /\ i = n + (i - n)
        BY <1>1, <2>2
      <4> QED
        BY <4>1
    <3>2. i - 1 = n + (k - 1) /\ k - 1 \in 0 .. m /\ k \in 0 .. m
      BY <1>1, <3>1
    <3>3. Expected(r[k - 1], t[k]) /\ r[k] = After(r[k - 1], t[k])
      BY <3>1 DEF Run
    <3>4. j[i - 1] = r[k - 1] /\ j[i] = r[k] /\ (s \o t)[i] = t[k]
      BY <1>1, <1>2, <3>1, <3>2
    <3> QED
      BY <3>3, <3>4
  <2> QED
    BY <2>1, <2>2
<1>6. Run(j, s \o t)
  BY <1>1, <1>4, <1>5 DEF Run
<1> QED
  BY <1>6 DEF j

-----------------------------------------------------------------------------
(* The invariant: the bytes under way lead the decoder to where the user is. *)

Rest == kb_buf \o wire

\* The modifiers, the locks and the shown characters, with the key that was
\* read and not looked up yet.
NextMods  == IF Pending THEN ModsOf(Found, MakeOf(scan_code), mods) ELSE mods
NextLocks == IF Pending THEN LocksOf(Found, MakeOf(scan_code), locks) ELSE locks
Coming    == IF Pending THEN OutOf(Found, MakeOf(scan_code), locks) ELSE <<>>

\* D is the state of the decoder.
At(D) ==
  /\ D.at = IF pc \in Reading THEN pc ELSE "loop"
  /\ D.count = IF pc = "E1" THEN count_E1 ELSE 0
Agrees(D) == D.mods = NextMods /\ D.locks = NextLocks
Shows(D) == Embeds(Echoed \o Coming, D.out)
              /\ ("out_buffer" \notin overflowed => D.out = Echoed \o Coming)
Link(D) == At(D) /\ (Unhurried => Agrees(D) /\ Shows(D))

\* In the state D the decoder agrees with the user.
Goal(D) ==
  /\ D.at = "loop" /\ D.count = 0
  /\ ModsAgree(D.mods, held)
  /\ LocksPlain => LocksAgree(D.locks, presses) /\ D.out = typed

\* Only the last byte of a key with a code of its own completes it.
Completes(D, b, last) == Special(D, b) => Keys \cap Specials # {} /\ (Paced => last)

Path(st) ==
  /\ Run(st, Rest)
  /\ Link(st[0])
  /\ Goal(st[Len(Rest)])
  /\ \A i \in 1 .. Len(Rest) : Completes(st[i - 1], Rest[i], i = Len(Rest))
  /\ LocksPlain => \A i \in 0 .. Len(Rest) : Begins(st[i].out, typed)

\* The value of such a key stays in key until the next lookup.
Leftover == key.raw \in Specials => Keys \cap Specials # {} /\ (Paced => Rest = <<>>)

PathInv == TypeInv /\ ("kb_buf" \notin overflowed => Leftover /\ \E st : Path(st))

LEMMA RestType ==
  ASSUME TypeInv
  PROVE  /\ Rest \in Seq(0 .. 255) /\ Len(Rest) = Len(kb_buf) + Len(wire)
         /\ Rest = <<>> <=> kb_buf = <<>> /\ wire = <<>>
         /\ kb_buf # <<>> => Head(Rest) = Head(kb_buf) /\ Tail(Rest) = Tail(kb_buf) \o wire
<1>1. kb_buf \in Seq(0 .. 255) /\ wire \in Seq(0 .. 255)
  BY DEF TypeInv, TypeOK
<1>2. Rest \in Seq(0 .. 255) /\ Len(Rest) = Len(kb_buf) + Len(wire)
  BY <1>1 DEF Rest
<1>3. Rest = <<>> <=> kb_buf = <<>> /\ wire = <<>>
  BY SMTT(30), <1>1, <1>2
<1>4. ASSUME kb_buf # <<>>
      PROVE  Head(Rest) = Head(kb_buf) /\ Tail(Rest) = Tail(kb_buf) \o wire
  <2>1. Rest[1] = kb_buf[1]
    BY <1>1, <1>4 DEF Rest
  <2>2. Head(Rest) = Head(kb_buf)
    BY <1>1, <1>2, <1>4, <2>1
  <2>3. /\ Tail(kb_buf) \in Seq(0 .. 255) /\ Len(Tail(kb_buf)) = Len(kb_buf) - 1
        /\ \A i \in 1 .. Len(Tail(kb_buf)) : Tail(kb_buf)[i] = kb_buf[i + 1]
    BY <1>1, <1>4, HeadTailProperties
  <2>4. /\ Tail(Rest) \in Seq(0 .. 255) /\ Len(Tail(Rest)) = Len(Rest) - 1
        /\ \A i \in 1 .. Len(Tail(Rest)) : Tail(Rest)[i] = Rest[i + 1]
    BY <1>2, <1>3, <1>4, HeadTailProperties
  <2>5. Tail(kb_buf) \o wire \in Seq(0 .. 255) /\ Len(Tail(kb_buf) \o wire) = Len(Rest) - 1
    BY <1>1, <1>2, <2>3
  <2>6. ASSUME NEW i \in 1 .. Len(Tail(Rest)) PROVE Tail(Rest)[i] = (Tail(kb_buf) \o wire)[i]
    <3>1. Tail(Rest)[i] = (kb_buf \o wire)[i + 1]
      BY <2>4 DEF Rest
    <3>2. CASE i <= Len(kb_buf) - 1
      BY <1>1, <2>3, <3>1, <3>2
    <3>3. CASE i > Len(kb_buf) - 1
      <4>1. (kb_buf \o wire)[i + 1] = wire[i + 1 - Len(kb_buf)]
        BY <1>1, <1>2, <2>4, <3>3
      <4>2. (Tail(kb_buf) \o wire)[i] = wire[i - (Len(kb_buf) - 1)]
        BY <1>1, <1>2, <2>3, <2>4, <3>3
      <4>3. i + 1 - Len(kb_buf) = i - (Len(kb_buf) - 1)
        BY <1>1
      <4> QED
        BY <3>1, <4>1, <4>2, <4>3
    <3>4. i <= Len(kb_buf) - 1 \/ i > Len(kb_buf) - 1
      BY <1>1
    <3> QED
      BY <3>2, <3>3, <3>4
  <2> QED
    BY <2>2, <2>4, <2>5, <2>6, SeqEqual
<1> QED
  BY <1>2, <1>3, <1>4

LEMMA EchoedType == ASSUME TypeInv PROVE Echoed = screen \o Raws(out_buffer) /\ Echoed \in Seq(Texts)
<1>1. Echoed = screen \o Raws(out_buffer)
  BY DEF Echoed, Raws
<1>2. Raws(out_buffer) \in Seq(Texts) /\ screen \in Seq(Texts)
  BY RawsType DEF TypeInv
<1> QED
  BY <1>1, <1>2

LEMMA ComingType == ASSUME TypeInv PROVE Coming \in Seq(Texts)
  BY FoundText, OutType DEF Coming

\* What Link depends on.
LEMMA LinkFrame ==
  ASSUME NEW D, Link(D),
         UNCHANGED <<pc, key, scan_code, code_with_E0, count_E1, mods, locks, out_buffer, screen>>,
         "out_buffer" \in overflowed' <=> "out_buffer" \in overflowed
  PROVE  Link(D)'
<1>1. Pending' <=> Pending
  BY DEF Pending, Preset
<1>2. Found' = Found
  BY DEF Found
<1>3. NextMods' = NextMods /\ NextLocks' = NextLocks /\ Coming' = Coming
  BY <1>1, <1>2 DEF NextMods, NextLocks, Coming
<1>4. Echoed' = Echoed
  BY DEF Echoed
<1>5. At(D)' <=> At(D)
  BY DEF At
<1>6. Agrees(D)' <=> Agrees(D)
  BY <1>3 DEF Agrees
<1>7. Shows(D)' <=> Shows(D)
  BY <1>3, <1>4 DEF Shows
<1> QED
  BY <1>5, <1>6, <1>7 DEF Link

\* A step that takes no byte and adds none keeps the path.
LEMMA PathKept ==
  ASSUME NEW st, Path(st), Link(st[0])', Rest' = Rest, UNCHANGED <<held, presses, typed>>
  PROVE  Path(st)'
<1>1. \A D : Goal(D) => Goal(D)'
  BY DEF Goal
<1> QED
  BY <1>1 DEF Path

\* A step of the task that takes a byte takes one step of the path.
LEMMA PathRead ==
  ASSUME TypeInv, NEW st, Path(st), NEW b, b = Head(kb_buf), kb_buf # <<>>, kb_buf' = Tail(kb_buf),
         UNCHANGED <<wire, held, presses, typed>>,
         Link(After(st[0], b))'
  PROVE  \E r : Path(r)'
<1>0. PICK r, n : r = [i \in 0 .. Len(Tail(Rest)) |-> st[i + 1]] /\ n = Len(Rest)
  OBVIOUS
<1>1. /\ Rest \in Seq(0 .. 255) /\ Rest # <<>> /\ n \in Nat \ {0}
      /\ Head(Rest) = b /\ Tail(Rest) = Rest'
  BY <1>0, RestType DEF Rest
<1>2. /\ Rest' \in Seq(0 .. 255) /\ Len(Rest') = n - 1
      /\ \A i \in 1 .. n - 1 : Rest'[i] = Rest[i + 1]
  BY <1>0, <1>1, HeadTailProperties
<1>3. Run(r, Tail(Rest))
  BY <1>0, <1>1, RunTail DEF Path
<1>4. \A i \in 0 .. n - 1 : r[i] = st[i + 1]
  BY <1>0, <1>1, <1>2
<1>5. st[1] = After(st[0], b)
  <2>1. 1 \in 1 .. n /\ 1 - 1 = 0 /\ Rest[1] = b
    BY <1>1
  <2> QED
    BY <1>0, <2>1 DEF Path, Run
<1>6. Link(r[0])'
  <2>1. r[0] = After(st[0], b)
    BY <1>1, <1>4, <1>5
  <2> QED
    BY <2>1
<1>7. Goal(r[n - 1])'
  <2>1. r[n - 1] = st[n]
    BY <1>1, <1>4
  <2> QED
    BY <1>0, <2>1 DEF Path, Goal
<1>8. ASSUME NEW i \in 1 .. n - 1 PROVE Completes(r[i - 1], Rest'[i], i = n - 1)
  <2>1. i + 1 \in 1 .. n /\ (i + 1) - 1 = i /\ i - 1 \in 0 .. n - 1 /\ (i - 1) + 1 = i
        /\ (i + 1 = n <=> i = n - 1)
    BY <1>1
  <2>2. Completes(st[i], Rest[i + 1], i + 1 = n)
    BY <1>0, <2>1 DEF Path
  <2>3. r[i - 1] = st[i] /\ Rest'[i] = Rest[i + 1]
    BY <1>2, <1>4, <2>1
  <2> QED
    BY <2>1, <2>2, <2>3 DEF Completes
<1>9. LocksPlain => \A i \in 0 .. n - 1 : Begins(r[i].out, typed)
  <2>1. \A i \in 0 .. n - 1 : i + 1 \in 0 .. n
    BY <1>1
  <2> QED
    BY <1>0, <1>4, <2>1 DEF Path
<1>10. Path(r)'
  BY <1>1, <1>2, <1>3, <1>6, <1>7, <1>8, <1>9 DEF Path, Completes
<1> QED
  BY <1>10

\* A key event appends the path of its code.
LEMMA PathEvent ==
  ASSUME TypeInv, NEW k \in Keys, NEW mk \in {0, 1}, NEW st, Path(st), Link(st[0])',
         wire = <<>>, wire' = CodeOfKey(k, mk), kb_buf' = kb_buf, Paced => Rest = <<>>,
         LocksPlain => typed' \in Seq(Texts) /\ Begins(typed, typed'),
         \A E : (/\ E.at = "loop" /\ E.count = 0
                 /\ E.mods = ModsOf(k, mk, st[Len(Rest)].mods)
                 /\ E.locks = LocksOf(k, mk, st[Len(Rest)].locks)
                 /\ E.out = st[Len(Rest)].out
                              \o Yield(k, mk, st[Len(Rest)].mods, st[Len(Rest)].locks))
                => Goal(E)'
  PROVE  \E r : Path(r)'
<1>0. PICK n : n = Len(Rest)
  OBVIOUS
<1> DEFINE D == st[n]
           code == CodeOfKey(k, mk)
           m == Len(code)
<1>1. Rest \in Seq(0 .. 255) /\ n \in Nat /\ k \in RealKeys
  BY <1>0, RestType, UserAssumption
<1>2. code \in Seq(0 .. 255) /\ m \in Nat
  BY <1>1, CodesAreBytes DEF CodeOfKey
<1>3. Rest' = Rest \o code /\ Len(Rest') = n + m
  <2>1. kb_buf \in Seq(0 .. 255) /\ kb_buf \o <<>> = kb_buf
    BY DEF TypeInv, TypeOK
  <2> QED
    BY <1>0, <1>1, <1>2, <2>1 DEF Rest
<1>4. D \in States /\ D.at = "loop" /\ D.count = 0
  BY <1>0, <1>1 DEF Path, Run, Goal
<1>5. PICK r : CodeRun(r, k, mk, code, D)
  BY <1>1, <1>4, KeyRun
<1> DEFINE j == Joined(st, n, r, m)
<1>6. Run(st, Rest) /\ Run(r, code) /\ r[0] = st[n]
  BY <1>0, <1>5 DEF Path, CodeRun
<1>7. Run(j, Rest')
  BY <1>0, <1>1, <1>2, <1>3, <1>6, RunJoined
<1>8. (\A i \in 0 .. n : j[i] = st[i]) /\ (\A i \in 0 .. m : j[n + i] = r[i])
  BY <1>1, <1>2, <1>6, JoinedAt
<1> HIDE DEF j, code
<1>9. Link(j[0])'
  <2>1. j[0] = st[0]
    BY <1>1, <1>8
  <2> QED
    BY <2>1
<1>10. Goal(j[n + m])'
  <2>1. j[n + m] = r[m]
    BY <1>2, <1>8
  <2> QED
    BY <1>0, <1>5, <2>1 DEF CodeRun
<1>11. ASSUME NEW i \in 1 .. n + m PROVE Completes(j[i - 1], Rest'[i], i = n + m)
  <2>1. CASE i \in 1 .. n
    <3>1. j[i - 1] = st[i - 1] /\ Rest'[i] = Rest[i]
      BY <1>1, <1>2, <1>3, <1>8, <2>1
    <3>2. Completes(st[i - 1], Rest[i], i = n)
      BY <1>0, <2>1 DEF Path
    <3>3. ~Paced
      BY <1>0, <1>1, <2>1
    <3> QED
      BY <3>1, <3>2, <3>3 DEF Completes
  <2>2. CASE i - n \in 1 .. m
    <3>1. /\ j[n + (i - n - 1)] = r[i - n - 1] /\ n + (i - n - 1) = i - 1
          /\ (i = n + m <=> i - n = m) /\ Rest'[i] = code[i - n]
      <4>1. i - n - 1 \in 0 .. m /\ n + (i - n - 1) = i - 1
        BY <1>1, <2>2
      <4>2. Rest'[i] = code[i - n]
        BY <1>1, <1>2, <1>3, <2>2
      <4> QED
        BY <1>1, <1>2, <1>8, <4>1, <4>2
    <3>2. Special(r[i - n - 1], code[i - n]) => k \in Specials /\ i - n = m
      BY <1>5, <2>2 DEF CodeRun
    <3> QED
      BY <3>1, <3>2 DEF Completes
  <2>3. i \in 1 .. n \/ i - n \in 1 .. m
    BY <1>1, <1>2
  <2> QED
    BY <2>1, <2>2, <2>3
<1>12. ASSUME LocksPlain, NEW i \in 0 .. n + m PROVE Begins(j[i].out, typed')
  <2>1. typed \in Seq(Texts) /\ typed' \in Seq(Texts) /\ Begins(typed, typed')
    BY <1>12 DEF TypeInv
  <2>2. ASSUME NEW l \in 0 .. n PROVE Begins(st[l].out, typed')
    <3>1. st[l].out \in Seq(Texts)
      BY <1>0, <1>6 DEF Run, States
    <3>2. Begins(st[l].out, typed)
      BY <1>0, <1>12 DEF Path
    <3> QED
      BY <2>1, <3>1, <3>2, BeginsTrans
  <2>3. CASE i \in 0 .. n
    BY <1>8, <2>2, <2>3
  <2>4. CASE i - n \in 1 .. m
    <3>1. i - n \in 0 .. m /\ n + (i - n) = i
      BY <1>1, <2>4
    <3>2. j[i] = r[i - n]
      BY <1>8, <3>1
    <3>3. r[i - n].out \in {D.out, r[m].out}
      BY <1>5, <3>1 DEF CodeRun
    <3>4. Begins(D.out, typed')
      BY <1>1, <2>2
    <3>5. Goal(r[m])'
      BY <1>0, <1>5 DEF CodeRun
    <3>6. Begins(r[m].out, typed')
      <4>1. r[m].out = typed'
        BY <1>12, <3>5 DEF Goal
      <4> QED
        BY <2>1, <4>1, BeginsConcat
    <3> QED
      BY <3>2, <3>3, <3>4, <3>6
  <2>5. i \in 0 .. n \/ i - n \in 1 .. m
    BY <1>1, <1>2
  <2> QED
    BY <2>3, <2>4, <2>5
<1>13. Path(j)'
  BY <1>3, <1>7, <1>9, <1>10, <1>11, <1>12 DEF Path, Completes
<1> QED
  BY <1>13

-----------------------------------------------------------------------------
(* The invariant, step by step. *)

LEMMA PathInit == Init => PathInv
<1> SUFFICES ASSUME Init PROVE PathInv
  OBVIOUS
<1>1. TypeInv
  BY TypeInit
<1> DEFINE D == [at |-> "loop", count |-> 0, mods |-> [m \in Modifiers |-> 0],
                 locks |-> [caps_lock |-> 0, num_lock |-> 1, scroll_lock |-> 0], out |-> <<>>]
           st == [i \in 0 .. 0 |-> D]
<1>2. Rest = <<>> /\ Echoed = <<>> /\ ~Pending /\ key.raw \notin Specials
  <2>1. Raws(out_buffer) = <<>>
    BY DEF Init, Raws
  <2> QED
    BY <1>1, <2>1, EchoedType DEF Init, Rest, Pending, NoKey, Specials
<1>3. D \in States
  <2>1. [caps_lock |-> 0, num_lock |-> 1, scroll_lock |-> 0] \in [Locks -> {0, 1}]
    BY DEF Locks
  <2>2. [m \in Modifiers |-> 0] \in [Modifiers -> {0, 1}]
    OBVIOUS
  <2>3. <<>> \in Seq(Texts)
    OBVIOUS
  <2> QED
    BY <2>1, <2>2, <2>3 DEF States
<1>4. /\ D.at = "loop" /\ D.count = 0 /\ D.mods = mods /\ D.locks = locks /\ D.out = <<>>
  BY DEF Init
<1> HIDE DEF D
<1>5. st \in [0 .. 0 -> States] /\ st[0] = D
  BY <1>3
<1> HIDE DEF st
<1>6. Run(st, Rest)
  BY <1>2, <1>5 DEF Run
<1>7. Link(D)
  <2>1. Coming = <<>> /\ NextMods = mods /\ NextLocks = locks
    BY <1>2 DEF Coming, NextMods, NextLocks
  <2>2. Echoed \o Coming = <<>> /\ <<>> \in Seq(Texts)
    BY <1>2, <2>1
  <2>3. Embeds(Echoed \o Coming, D.out)
    BY <1>4, <2>2, EmbedsSelf
  <2>4. At(D)
    BY <1>4 DEF Init, At, Reading
  <2> QED
    BY <1>4, <2>1, <2>2, <2>3, <2>4 DEF Link, Agrees, Shows
<1>8. Goal(D)
  <2>1. ModsAgree(D.mods, held)
    BY <1>4 DEF Init, ModsAgree
  <2>2. presses["CAPS_LOCK"] = 0 /\ presses["SCROLL_LOCK"] = 0
    BY DEF Init, InitialLock
  <2>3. locks["caps_lock"] = 0 /\ locks["num_lock"] = 1 /\ locks["scroll_lock"] = 0
    BY DEF Init
  <2>4. LocksAgree(D.locks, presses)
    BY <1>4, <2>2, <2>3 DEF LocksAgree
  <2> QED
    BY <1>4, <2>1, <2>4 DEF Goal, Init
<1>9. Begins(D.out, typed)
  BY <1>4 DEF Begins, Init
<1>10. Path(st)
  BY <1>2, <1>5, <1>6, <1>7, <1>8, <1>9 DEF Path
<1> QED
  BY <1>1, <1>2, <1>10 DEF PathInv, Leftover

\* The user presses or releases a key.
LEMMA EventStep ==
  ASSUME PathInv, NEW k \in Keys, Press(k) \/ Release(k), "kb_buf" \notin overflowed'
  PROVE  Leftover' /\ \E st : Path(st)'
<1>1. /\ wire = <<>> /\ kb_buf' = kb_buf /\ (Paced => AtRest)
      /\ UNCHANGED <<pc, key, scan_code, code_with_E0, count_E1, mods, locks, out_buffer, screen,
                     overflowed>>
  BY DEF Press, Release, UserMoves, decodeVars
<1>2. TypeInv /\ k \in RealKeys
  BY UserAssumption DEF PathInv
<1>3. Paced => Rest = <<>> /\ key = NoKey
  BY <1>1, <1>2, RestType DEF AtRest
<1>4. Leftover'
  <2>1. NoKey.raw \notin Specials
    BY DEF NoKey, Specials
  <2>2. Leftover
    BY <1>1 DEF PathInv
  <2> QED
    BY <1>1, <1>3, <2>1, <2>2 DEF Leftover
<1>5. PICK st : Path(st)
  BY <1>1 DEF PathInv
<1>6. Link(st[0])'
  BY <1>1, <1>5, LinkFrame DEF Path
<1> DEFINE D == st[Len(Rest)]
<1>7. D \in States /\ Goal(D) /\ typed \in Seq(Texts)
  <2>1. Len(Rest) \in 0 .. Len(Rest)
    BY <1>2, RestType
  <2>2. st \in [0 .. Len(Rest) -> States]
    BY <1>5 DEF Path, Run
  <2>3. Goal(D)
    BY <1>5 DEF Path
  <2> QED
    BY <1>2, <2>1, <2>2, <2>3 DEF TypeInv
<1>8. D.mods \in [Modifiers -> {0, 1}] /\ D.locks \in [Locks -> {0, 1}]
  BY <1>7 DEF States
<1>9. presses \in [DOMAIN InitialLock -> Nat]
  BY <1>2, UserAssumption DEF TypeInv, TypeOK
<1> HIDE DEF D
<1>10. CASE Press(k)
  <2>1. /\ wire' = CodeOfKey(k, 1) /\ held' = held \cup {k} /\ typed' = typed \o Meaning(k)
        /\ presses' = IF k \in DOMAIN presses /\ k \notin held
                      THEN [presses EXCEPT ![k] = @ + 1] ELSE presses
        /\ k \notin held \/ k \in Typematic
    BY <1>10 DEF Press, CodeOfKey
  <2>2. Begins(typed, typed') /\ typed' \in Seq(Texts)
    BY <1>2, <1>7, <2>1, MeaningText, BeginsConcat
  <2>3. ModsAgree(ModsOf(k, 1, D.mods), held')
    BY <1>7, <1>8, <2>1, ModsStep DEF Goal
  <2>4. ASSUME LocksPlain
        PROVE  LocksAgree(LocksOf(k, 1, D.locks), presses')
    <3>1. LocksAgree(D.locks, presses)
      BY <1>7, <2>4 DEF Goal
    <3>2. LocksAgree(LocksOf(k, 1, D.locks),
                     IF k \in DOMAIN presses THEN [presses EXCEPT ![k] = @ + 1] ELSE presses)
      BY <1>8, <1>9, <2>4, <3>1, LocksStep
    <3>3. CASE k \notin held \/ k \notin DOMAIN presses
      BY <2>1, <3>2, <3>3
    <3>4. CASE k \in held /\ k \in DOMAIN presses
      <4>1. k \in Typematic /\ k # "NUM_LOCK"
        BY <2>1, <2>4, <3>4 DEF LocksPlain
      <4>2. k \in {"CAPS_LOCK", "SCROLL_LOCK"}
        BY <1>9, <3>4, <4>1 DEF InitialLock
      <4> QED
        BY <2>4, <4>1, <4>2, ActingKeys DEF LocksPlain
    <3> QED
      BY <3>3, <3>4
  <2>5. ASSUME LocksPlain
        PROVE  D.out \o Yield(k, 1, D.mods, D.locks) = typed'
    <3>1. D.out = typed
      BY <1>7, <2>5 DEF Goal
    <3>2. Yield(k, 1, D.mods, D.locks) = Meaning(k)
      BY <1>2, <1>7, <1>8, <2>5, YieldMeant DEF Goal
    <3> QED
      BY <2>1, <3>1, <3>2
  <2>6. \A E : (/\ E.at = "loop" /\ E.count = 0
                /\ E.mods = ModsOf(k, 1, D.mods) /\ E.locks = LocksOf(k, 1, D.locks)
                /\ E.out = D.out \o Yield(k, 1, D.mods, D.locks))
               => Goal(E)'
    BY <2>3, <2>4, <2>5 DEF Goal
  <2>7. 1 \in {0, 1}
    OBVIOUS
  <2> QED
    BY <1>1, <1>2, <1>3, <1>4, <1>5, <1>6, <2>1, <2>2, <2>6, <2>7, PathEvent DEF D
<1>11. CASE Release(k)
  <2>1. /\ wire' = CodeOfKey(k, 0) /\ held' = held \ {k} /\ typed' = typed /\ presses' = presses
    BY <1>11 DEF Release, CodeOfKey
  <2>2. Begins(typed, typed') /\ typed' \in Seq(Texts)
    BY <1>7, <2>1, BeginsConcat
  <2>3. ModsAgree(ModsOf(k, 0, D.mods), held')
    BY <1>7, <1>8, <2>1, ModsStep DEF Goal
  <2>4. LocksPlain => LocksAgree(LocksOf(k, 0, D.locks), presses')
    BY <1>7, <1>8, <1>9, <2>1, LocksStep DEF Goal
  <2>5. LocksPlain => D.out \o Yield(k, 0, D.mods, D.locks) = typed'
    <3>1. D.out \in Seq(Texts) /\ D.out \o <<>> = D.out
      BY <1>7 DEF States
    <3>2. LocksPlain => D.out = typed
      BY <1>7 DEF Goal
    <3> QED
      BY <2>1, <3>1, <3>2, YieldNothing
  <2>6. \A E : (/\ E.at = "loop" /\ E.count = 0
                /\ E.mods = ModsOf(k, 0, D.mods) /\ E.locks = LocksOf(k, 0, D.locks)
                /\ E.out = D.out \o Yield(k, 0, D.mods, D.locks))
               => Goal(E)'
    BY <2>3, <2>4, <2>5 DEF Goal
  <2>7. 0 \in {0, 1}
    OBVIOUS
  <2> QED
    BY <1>1, <1>2, <1>3, <1>4, <1>5, <1>6, <2>1, <2>2, <2>6, <2>7, PathEvent DEF D
<1> QED
  BY <1>10, <1>11

\* A byte arrives: it moves from the wire to the ring.
LEMMA ArriveStep ==
  ASSUME PathInv, Arrive, "kb_buf" \notin overflowed'
  PROVE  Leftover' /\ \E st : Path(st)'
<1>1. /\ wire # <<>> /\ Len(kb_buf) < KbCapacity /\ kb_buf' = Append(kb_buf, Head(wire))
      /\ wire' = Tail(wire) /\ overflowed' = overflowed
      /\ UNCHANGED <<held, presses, typed, pc, key, scan_code, code_with_E0, count_E1, mods, locks,
                     out_buffer, screen>>
  BY DEF Arrive, decodeVars
<1>2. Rest' = Rest
  <2>1. kb_buf \in Seq(0 .. 255) /\ wire \in Seq(0 .. 255)
    BY DEF PathInv, TypeInv, TypeOK
  <2>2. Head(wire) \in 0 .. 255 /\ Tail(wire) \in Seq(0 .. 255)
    BY <1>1, <2>1, HeadTailProperties
  <2>3. wire = <<Head(wire)>> \o Tail(wire)
    BY <1>1, <2>1
  <2>4. Append(kb_buf, Head(wire)) = kb_buf \o <<Head(wire)>>
    BY <2>1, <2>2
  <2>5. (kb_buf \o <<Head(wire)>>) \o Tail(wire) = kb_buf \o (<<Head(wire)>> \o Tail(wire))
    BY <2>1, <2>2, ConcatAssociative
  <2> QED
    BY <1>1, <2>3, <2>4, <2>5 DEF Rest
<1>3. PICK st : Path(st)
  BY <1>1 DEF PathInv
<1>4. Link(st[0])'
  BY <1>1, <1>3, LinkFrame DEF Path
<1>5. Path(st)'
  BY <1>1, <1>2, <1>3, <1>4, PathKept
<1>6. Leftover'
  BY <1>1, <1>2 DEF PathInv, Leftover
<1> QED
  BY <1>5, <1>6

\* The task takes the next byte of the path.
LEMMA TaskReads ==
  ASSUME PathInv, "kb_buf" \notin overflowed', kb_buf # <<>>, kb_buf' = Tail(kb_buf),
         UNCHANGED <<wire, held, presses, typed, overflowed>>,
         NEW b, b = Head(kb_buf),
         \A D \in States : Link(D) /\ Expected(D, b) => Link(After(D, b))',
         \A D \in States : Link(D) /\ Expected(D, b) /\ key'.raw \in Specials /\ key' # key
                             => Special(D, b)
  PROVE  Leftover' /\ \E st : Path(st)'
<1>1. TypeInv /\ "kb_buf" \notin overflowed /\ Leftover
  BY DEF PathInv
<1>2. PICK st : Path(st)
  BY <1>1 DEF PathInv
<1>3. /\ Rest \in Seq(0 .. 255) /\ Rest # <<>> /\ Len(Rest) >= 1 /\ Rest[1] = b /\ Rest' = Tail(Rest)
  <2>1. Rest \in Seq(0 .. 255) /\ Rest # <<>> /\ Head(Rest) = b /\ Tail(Rest) = Tail(kb_buf) \o wire
    BY <1>1, RestType
  <2> QED
    BY <2>1 DEF Rest
<1>4. st[0] \in States /\ Link(st[0]) /\ Expected(st[0], b) /\ Completes(st[0], b, Len(Rest) = 1)
  <2>1. 1 \in 1 .. Len(Rest) /\ 0 \in 0 .. Len(Rest) /\ 1 - 1 = 0
    BY <1>3
  <2>2. st[0] \in States /\ Expected(st[0], b)
    BY <1>2, <1>3, <2>1 DEF Path, Run
  <2>3. Completes(st[0], b, 1 = Len(Rest))
    BY <1>2, <1>3, <2>1 DEF Path
  <2> QED
    BY <1>2, <2>2, <2>3 DEF Path, Completes
<1>5. Link(After(st[0], b))'
  BY <1>4
<1>6. \E r : Path(r)'
  BY <1>1, <1>2, <1>5, PathRead
<1>7. Leftover'
  <2>1. CASE key' = key
    BY <1>1, <1>3, <2>1 DEF Leftover
  <2>2. CASE key' # key /\ key'.raw \in Specials
    <3>1. Keys \cap Specials # {} /\ (Paced => Len(Rest) = 1)
      BY <1>4, <2>2 DEF Completes
    <3>2. Len(Rest) = 1 => Rest' = <<>>
      BY <1>3
    <3> QED
      BY <3>1, <3>2 DEF Leftover
  <2>3. CASE key'.raw \notin Specials
    BY <2>3 DEF Leftover
  <2> QED
    BY <2>1, <2>2, <2>3
<1> QED
  BY <1>6, <1>7

\* While bytes are under way, an unhurried task holds no leftover.
LEMMA NotPreset ==
  ASSUME TypeInv, Leftover, Unhurried, kb_buf # <<>>
  PROVE  key.raw \notin Specials
  BY RestType DEF Leftover, Unhurried

\* A byte inside a code: nothing is looked up, nothing acts.
LEMMA LinkMoved ==
  ASSUME NEW D \in States, Link(D), ~Pending, ~Pending',
         UNCHANGED <<mods, locks, out_buffer, screen, overflowed>>,
         NEW at, NEW n, at = (IF pc' \in Reading THEN pc' ELSE "loop"),
         n = (IF pc' = "E1" THEN count_E1' ELSE 0)
  PROVE  Link(Moved(D, at, n))'
<1> DEFINE E == Moved(D, at, n)
<1>1. E.at = at /\ E.count = n /\ E.mods = D.mods /\ E.locks = D.locks /\ E.out = D.out
  BY DEF Moved
<1> HIDE DEF E
<1>2. NextMods' = NextMods /\ NextLocks' = NextLocks /\ Coming' = Coming
  BY DEF NextMods, NextLocks, Coming
<1>3. Echoed' = Echoed
  BY DEF Echoed
<1>4. At(E)'
  BY <1>1 DEF At
<1>5. Unhurried => Agrees(E)' /\ Shows(E)'
  BY <1>1, <1>2, <1>3 DEF Link, Agrees, Shows
<1> QED
  BY <1>4, <1>5 DEF Link, E

\* The last byte of another code: the lookup is still to come.
LEMMA LinkFound ==
  ASSUME TypeInv, NEW D \in States, Link(D), ~Pending, pc' = "decode",
         UNCHANGED <<mods, locks, out_buffer, screen, overflowed>>,
         NEW raw \in Texts, NEW mk \in {0, 1},
         Unhurried => Pending' /\ raw = Found' /\ mk = MakeOf(scan_code')
  PROVE  Link(Decoded(D, mk, raw))'
<1> DEFINE E == Decoded(D, mk, raw)
<1>1. /\ E.at = "loop" /\ E.count = 0 /\ E.mods = ModsOf(raw, mk, D.mods)
      /\ E.locks = LocksOf(raw, mk, D.locks) /\ E.out = D.out \o OutOf(raw, mk, D.locks)
  BY DEF Decoded
<1> HIDE DEF E
<1>2. At(E)'
  BY <1>1 DEF At, Reading
<1>3. ASSUME Unhurried PROVE Agrees(E)' /\ Shows(E)'
  <2>1. D.mods = mods /\ D.locks = locks /\ Echoed \o Coming = Echoed /\ D.out \in Seq(Texts)
    <3>1. NextMods = mods /\ NextLocks = locks /\ Coming = <<>>
      BY DEF NextMods, NextLocks, Coming
    <3>2. Echoed \o <<>> = Echoed
      BY EchoedType
    <3> QED
      BY <1>3, <3>1, <3>2 DEF Link, Agrees, States
  <2>2. /\ NextMods' = ModsOf(raw, mk, mods) /\ NextLocks' = LocksOf(raw, mk, locks)
        /\ Coming' = OutOf(raw, mk, locks)
    BY <1>3 DEF NextMods, NextLocks, Coming
  <2>3. Echoed' = Echoed /\ Echoed \in Seq(Texts)
    BY EchoedType DEF Echoed
  <2>4. Embeds(Echoed, D.out) /\ ("out_buffer" \notin overflowed => D.out = Echoed)
    BY <1>3, <2>1 DEF Link, Shows
  <2>5. OutOf(raw, mk, locks) \in Seq(Texts)
    BY OutType
  <2>6. Embeds(Echoed \o OutOf(raw, mk, locks), D.out \o OutOf(raw, mk, locks))
    BY <2>1, <2>3, <2>4, <2>5, EmbedsConcat
  <2>7. Agrees(E)'
    BY <1>1, <2>1, <2>2 DEF Agrees
  <2>8. Shows(E)'
    BY <1>1, <2>1, <2>2, <2>3, <2>4, <2>6 DEF Shows
  <2> QED
    BY <2>7, <2>8
<1> QED
  BY <1>2, <1>3 DEF Link, E

LEMMA ByteTypes ==
  ASSUME TypeInv, kb_buf # <<>>
  PROVE  Head(kb_buf) \in 0 .. 255 /\ MakeOf(Head(kb_buf)) \in {0, 1}
         /\ E0Raw(Head(kb_buf)) \in Texts
         /\ \A m, l : LowRaw(Head(kb_buf), m, l) \in Texts
<1>1. Head(kb_buf) \in 0 .. 255
  BY HeadTailProperties DEF TypeInv, TypeOK
<1>2. Head(kb_buf) % FLAG_BREAK \in Int /\ MakeOf(Head(kb_buf)) \in {0, 1}
  <2>1. \A b \in 0 .. 255 : b % FLAG_BREAK \in Int /\ MakeOf(b) \in {0, 1}
    BY DEF FLAG_BREAK, MakeOf
  <2> QED
    BY <1>1, <2>1
<1>3. \A m, l : ColumnOf(Head(kb_buf), m, l) \in 0 .. 2
  BY DEF ColumnOf
<1>4. 2 \in 0 .. 2
  OBVIOUS
<1> QED
  BY <1>1, <1>2, <1>3, <1>4, EntryText DEF E0Raw, LowRaw

LEMMA ReadFirstStep ==
  ASSUME PathInv, ReadFirst, "kb_buf" \notin overflowed'
  PROVE  Leftover' /\ \E st : Path(st)'
<1>1. /\ pc = "loop" /\ kb_buf # <<>> /\ scan_code' = Head(kb_buf) /\ kb_buf' = Tail(kb_buf)
      /\ count_E1' = 1 /\ (code_with_E0' <=> scan_code' = \hE0)
      /\ UNCHANGED <<wire, held, presses, typed, key, mods, locks, out_buffer, screen, overflowed>>
  BY DEF ReadFirst, GetByte, userVars
<1>2. PICK b : b = Head(kb_buf)
  OBVIOUS
<1>3. /\ b = \hE1 => pc' = "E1"
      /\ b = \hE0 => pc' = "E0"
      /\ b # \hE1 /\ b # \hE0 => pc' = "decode"
  BY <1>1, <1>2 DEF ReadFirst
<1>4. TypeInv /\ Leftover /\ ~Pending
  BY <1>1 DEF PathInv, Pending
<1>5. b \in 0 .. 255 /\ MakeOf(b) \in {0, 1} /\ \A m, l : LowRaw(b, m, l) \in Texts
  BY <1>1, <1>2, <1>4, ByteTypes
<1>6. ASSUME NEW D \in States, Link(D), Expected(D, b) PROVE Link(After(D, b))'
  <2>1. D.at = "loop" /\ D.count = 0
    BY <1>1, <1>6 DEF Link, At, Reading
  <2>2. CASE b = \hE0
    <3>1. pc' = "E0" /\ ~Pending'
      BY <1>3, <2>2 DEF Pending
    <3>2. Link(Moved(D, "E0", 0))'
      BY <1>1, <1>4, <1>6, <3>1, LinkMoved DEF Reading
    <3> QED
      BY <2>1, <2>2, <3>2 DEF After
  <2>3. CASE b = \hE1
    <3>1. pc' = "E1" /\ ~Pending'
      BY <1>3, <2>3 DEF Pending
    <3>2. Link(Moved(D, "E1", 1))'
      BY <1>1, <1>4, <1>6, <3>1, LinkMoved DEF Reading
    <3> QED
      BY <2>1, <2>3, <3>2 DEF After
  <2>4. CASE b # \hE0 /\ b # \hE1
    <3>1. pc' = "decode" /\ ~code_with_E0' /\ scan_code' = b
      BY <1>1, <1>2, <1>3, <2>4
    <3>2. PICK raw, mk : raw = LowRaw(b, D.mods, D.locks) /\ mk = MakeOf(b)
      OBVIOUS
    <3>3. ASSUME Unhurried PROVE Pending' /\ raw = Found' /\ mk = MakeOf(scan_code')
      <4>1. D.mods = mods /\ D.locks = locks
        BY <1>4, <1>6, <3>3 DEF Link, Agrees, NextMods, NextLocks
      <4>2. raw = Found' /\ mk = MakeOf(scan_code')
        BY <1>1, <3>1, <3>2, <4>1 DEF Found
      <4>3. key'.raw \notin Specials
        BY <1>1, <1>4, <3>3, NotPreset
      <4> QED
        BY <3>1, <4>2, <4>3 DEF Pending, Preset, Specials
    <3>4. Link(Decoded(D, mk, raw))'
      BY <1>1, <1>4, <1>5, <1>6, <3>1, <3>2, <3>3, LinkFound
    <3>5. After(D, b) = Decoded(D, mk, raw)
      BY <2>1, <2>4, <3>2 DEF After, DecodedLow
    <3> QED
      BY <3>4, <3>5
  <2> QED
    BY <2>2, <2>3, <2>4
<1> QED
  BY <1>1, <1>2, <1>6, TaskReads

LEMMA ReadE1Step ==
  ASSUME PathInv, ReadE1, "kb_buf" \notin overflowed'
  PROVE  Leftover' /\ \E st : Path(st)'
<1>1. /\ pc = "E1" /\ kb_buf # <<>> /\ kb_buf' = Tail(kb_buf) /\ count_E1' = count_E1 + 1
      /\ UNCHANGED <<wire, held, presses, typed, scan_code, code_with_E0, mods, locks, out_buffer,
                     screen, overflowed>>
  BY DEF ReadE1, GetByte, userVars
<1>2. PICK b : b = Head(kb_buf)
  OBVIOUS
<1>3. /\ pc' = IF b = PauseCode[count_E1 + 1] /\ count_E1 < 5 THEN "E1" ELSE "decode"
      /\ key' = IF b = PauseCode[count_E1 + 1] /\ count_E1 = 5
                THEN [raw |-> "PAUSEBREAK", flags |-> {}] ELSE key
  BY <1>2 DEF ReadE1, GetByte
<1>4. TypeInv /\ Leftover /\ ~Pending /\ count_E1 \in 1 .. 5
  BY <1>1 DEF PathInv, Pending, TypeInv
<1>5. ASSUME NEW D \in States, Link(D), Expected(D, b) PROVE Link(After(D, b))'
  <2>1. D.at = "E1" /\ D.count = count_E1 /\ b = PauseCode[count_E1 + 1]
    BY <1>1, <1>5 DEF Link, At, Reading, Expected
  <2>2. CASE count_E1 < 5
    <3>1. pc' = "E1" /\ ~Pending'
      BY <1>3, <2>1, <2>2 DEF Pending
    <3>2. PICK n : n = count_E1 + 1
      OBVIOUS
    <3>3. Link(Moved(D, "E1", n))'
      BY <1>1, <1>4, <1>5, <3>1, <3>2, LinkMoved DEF Reading
    <3>4. After(D, b) = Moved(D, "E1", n)
      BY <2>1, <2>2, <3>2 DEF After
    <3> QED
      BY <3>3, <3>4
  <2>3. CASE count_E1 = 5
    <3>1. pc' = "decode" /\ key' = [raw |-> "PAUSEBREAK", flags |-> {}]
      BY <1>3, <2>1, <2>3
    <3>2. ~Pending'
      BY <3>1 DEF Pending, Preset
    <3>3. Link(Moved(D, "loop", 0))'
      BY <1>1, <1>4, <1>5, <3>1, <3>2, LinkMoved DEF Reading
    <3>4. After(D, b) = Moved(D, "loop", 0)
      BY <2>1, <2>3 DEF After
    <3> QED
      BY <3>3, <3>4
  <2> QED
    BY <1>4, <2>2, <2>3
<1>6. ASSUME NEW D \in States, Link(D), key' # key PROVE Special(D, b)
  BY <1>1, <1>3, <1>6 DEF Link, At, Reading, Special
<1> QED
  BY <1>1, <1>2, <1>5, <1>6, TaskReads

LEMMA ReadE0Step ==
  ASSUME PathInv, ReadE0, "kb_buf" \notin overflowed'
  PROVE  Leftover' /\ \E st : Path(st)'
<1>1. /\ pc = "E0" /\ kb_buf # <<>> /\ scan_code' = Head(kb_buf) /\ kb_buf' = Tail(kb_buf)
      /\ (code_with_E0' <=> scan_code' \notin {\h2A, \hB7})
      /\ UNCHANGED <<wire, held, presses, typed, key, mods, locks, out_buffer, screen, overflowed>>
  BY DEF ReadE0, GetByte, userVars
<1>2. PICK b : b = Head(kb_buf)
  OBVIOUS
<1>3. /\ b = \h2A => pc' = "E0_2A"
      /\ b = \hB7 => pc' = "E0_B7"
      /\ b # \h2A /\ b # \hB7 => pc' = "decode"
  BY <1>1, <1>2 DEF ReadE0
<1>4. TypeInv /\ Leftover /\ ~Pending
  BY <1>1 DEF PathInv, Pending
<1>5. b \in 0 .. 255 /\ MakeOf(b) \in {0, 1} /\ E0Raw(b) \in Texts
  BY <1>1, <1>2, <1>4, ByteTypes
<1>6. ASSUME NEW D \in States, Link(D), Expected(D, b) PROVE Link(After(D, b))'
  <2>1. D.at = "E0"
    BY <1>1, <1>6 DEF Link, At, Reading
  <2>2. CASE b = \h2A
    <3>1. pc' = "E0_2A" /\ ~Pending'
      BY <1>3, <2>2 DEF Pending
    <3>2. Link(Moved(D, "E0_2A", 0))'
      BY <1>1, <1>4, <1>6, <3>1, LinkMoved DEF Reading
    <3> QED
      BY <2>1, <2>2, <3>2 DEF After
  <2>3. CASE b = \hB7
    <3>1. pc' = "E0_B7" /\ ~Pending'
      BY <1>3, <2>3 DEF Pending
    <3>2. Link(Moved(D, "E0_B7", 0))'
      BY <1>1, <1>4, <1>6, <3>1, LinkMoved DEF Reading
    <3> QED
      BY <2>1, <2>3, <3>2 DEF After
  <2>4. CASE b # \h2A /\ b # \hB7
    <3>1. pc' = "decode" /\ code_with_E0' /\ scan_code' = b
      BY <1>1, <1>2, <1>3, <2>4
    <3>2. PICK raw, mk : raw = E0Raw(b) /\ mk = MakeOf(b)
      OBVIOUS
    <3>3. ASSUME Unhurried PROVE Pending' /\ raw = Found' /\ mk = MakeOf(scan_code')
      <4>1. raw = Found' /\ mk = MakeOf(scan_code')
        BY <3>1, <3>2 DEF Found
      <4>2. key'.raw \notin Specials
        BY <1>1, <1>4, <3>3, NotPreset
      <4> QED
        BY <3>1, <4>1, <4>2 DEF Pending, Preset, Specials
    <3>4. Link(Decoded(D, mk, raw))'
      BY <1>1, <1>4, <1>5, <1>6, <3>1, <3>2, <3>3, LinkFound
    <3>5. After(D, b) = Decoded(D, mk, raw)
      BY <2>1, <2>4, <3>2 DEF After, DecodedE0
    <3> QED
      BY <3>4, <3>5
  <2> QED
    BY <2>2, <2>3, <2>4
<1> QED
  BY <1>1, <1>2, <1>6, TaskReads

LEMMA ReadThirdStep ==
  ASSUME PathInv, ReadThird, "kb_buf" \notin overflowed'
  PROVE  Leftover' /\ \E st : Path(st)'
<1>1. /\ pc \in {"E0_2A", "E0_B7"} /\ kb_buf # <<>> /\ scan_code' = Head(kb_buf)
      /\ kb_buf' = Tail(kb_buf)
      /\ UNCHANGED <<wire, held, presses, typed, key, mods, locks, out_buffer, screen, overflowed>>
  BY DEF ReadThird, GetByte, userVars
<1>2. PICK b : b = Head(kb_buf)
  OBVIOUS
<1>3. ~Pending
  BY <1>1 DEF Pending
<1>4. ASSUME NEW D \in States, Link(D), Expected(D, b) PROVE Link(After(D, b))'
  <2>1. D.at = pc /\ b = \hE0
    BY <1>1, <1>4 DEF Link, At, Reading, Expected
  <2>2. pc' = IF pc = "E0_2A" THEN "E0_2A_E0" ELSE "E0_B7_E0"
    BY <1>1, <1>2, <2>1 DEF ReadThird
  <2>3. PICK at : at = pc'
    OBVIOUS
  <2>4. at = (IF pc' \in Reading THEN pc' ELSE "loop") /\ pc' # "E1" /\ ~Pending'
    BY <2>2, <2>3 DEF Reading, Pending
  <2>5. Link(Moved(D, at, 0))'
    BY <1>1, <1>3, <1>4, <2>4, LinkMoved
  <2>6. After(D, b) = Moved(D, at, 0)
    BY <1>1, <2>1, <2>2, <2>3 DEF After
  <2> QED
    BY <2>5, <2>6
<1> QED
  BY <1>1, <1>2, <1>4, TaskReads

LEMMA ReadFourthStep ==
  ASSUME PathInv, ReadFourth, "kb_buf" \notin overflowed'
  PROVE  Leftover' /\ \E st : Path(st)'
<1>1. /\ pc \in {"E0_2A_E0", "E0_B7_E0"} /\ kb_buf # <<>> /\ scan_code' = Head(kb_buf)
      /\ kb_buf' = Tail(kb_buf) /\ pc' = "decode"
      /\ UNCHANGED <<wire, held, presses, typed, mods, locks, out_buffer, screen, overflowed>>
  BY DEF ReadFourth, GetByte, userVars
<1>2. PICK b : b = Head(kb_buf)
  OBVIOUS
<1>3. ~Pending
  BY <1>1 DEF Pending
<1>4. ASSUME NEW D \in States, Link(D) PROVE D.at = pc /\ Special(D, b)
  BY <1>1, <1>4 DEF Link, At, Reading, Special
<1>5. ASSUME NEW D \in States, Link(D), Expected(D, b) PROVE Link(After(D, b))'
  <2>1. D.at = pc
    BY <1>4, <1>5
  <2>2. b = IF pc = "E0_2A_E0" THEN \h37 ELSE \hAA
    BY <1>1, <1>5, <2>1 DEF Expected
  <2>3. key' = [raw |-> "PRINTSCREEN", flags |-> {}]
    BY <1>1, <1>2, <2>2 DEF ReadFourth
  <2>4. ~Pending'
    BY <2>3 DEF Pending, Preset
  <2>5. Link(Moved(D, "loop", 0))'
    BY <1>1, <1>3, <1>5, <2>4, LinkMoved DEF Reading
  <2>6. After(D, b) = Moved(D, "loop", 0)
    BY <1>1, <2>1 DEF After
  <2> QED
    BY <2>5, <2>6
<1> QED
  BY <1>1, <1>2, <1>4, <1>5, TaskReads

\* A step of the task between two codes changes nothing of the path.
LEMMA TaskTurns ==
  ASSUME PathInv, "kb_buf" \notin overflowed',
         UNCHANGED <<kb_buf, wire, held, presses, typed, mods, locks, overflowed>>,
         pc \notin Reading \cup {"decode"}, pc' \notin Reading \cup {"decode"},
         Echoed' = Echoed, key' = key \/ key' = NoKey
  PROVE  Leftover' /\ \E st : Path(st)'
<1>1. PICK st : Path(st)
  BY DEF PathInv
<1>2. Rest' = Rest
  BY DEF Rest
<1>3. Leftover'
  BY <1>2 DEF PathInv, Leftover, NoKey, Specials
<1>4. NextMods' = NextMods /\ NextLocks' = NextLocks /\ Coming' = Coming
  BY DEF NextMods, NextLocks, Coming, Pending
<1>5. ASSUME NEW D, Link(D) PROVE Link(D)'
  <2>1. At(D)'
    BY <1>5 DEF Link, At, Reading
  <2>2. Unhurried => Agrees(D)' /\ Shows(D)'
    BY <1>4, <1>5 DEF Link, Agrees, Shows
  <2> QED
    BY <2>1, <2>2 DEF Link
<1>6. Path(st)'
  BY <1>1, <1>2, <1>5, PathKept DEF Path
<1> QED
  BY <1>3, <1>6

LEMMA EmitsShown ==
  ASSUME TypeInv, NEW out, Emits(out), screen' = screen
  PROVE  /\ \/ Echoed' = Echoed \o out
            \/ Echoed' = Echoed /\ "out_buffer" \in overflowed'
         /\ overflowed' \in {overflowed, overflowed \cup {"out_buffer"}}
         /\ "out_buffer" \in overflowed => "out_buffer" \in overflowed'
<1>1. Echoed = screen \o Raws(out_buffer) /\ Echoed \in Seq(Texts)
  BY EchoedType
<1>2. Echoed' = screen \o Raws(out_buffer')
  BY DEF Echoed, Raws
<1>3. CASE out = <<>> /\ UNCHANGED <<out_buffer, overflowed>>
  <2>1. Echoed' = Echoed /\ Echoed \o out = Echoed
    BY <1>1, <1>2, <1>3
  <2> QED
    BY <1>3, <2>1
<1>4. ASSUME NEW x \in Texts, NEW f \in SUBSET Flags, out = <<x>>, PutKey([raw |-> x, flags |-> f])
      PROVE  /\ \/ Echoed' = Echoed \o out
                \/ Echoed' = Echoed /\ "out_buffer" \in overflowed'
             /\ overflowed' \in {overflowed, overflowed \cup {"out_buffer"}}
             /\ "out_buffer" \in overflowed => "out_buffer" \in overflowed'
  <2> DEFINE k == [raw |-> x, flags |-> f]
  <2>1. k \in KeyRecs /\ k.raw = x
    BY DEF KeyRecs
  <2>2. CASE Len(out_buffer) < OutCapacity
    <3>1. out_buffer' = Append(out_buffer, k) /\ overflowed' = overflowed
      BY <1>4, <2>2 DEF PutKey
    <3> HIDE DEF k
    <3>2. out_buffer \in Seq(KeyRecs) /\ screen \in Seq(Texts)
      BY DEF TypeInv
    <3>3. Raws(out_buffer') = Raws(out_buffer) \o <<x>>
      BY <2>1, <3>1, <3>2, RawsAppend
    <3>4. Raws(out_buffer) \in Seq(Texts) /\ <<x>> \in Seq(Texts)
      BY <1>4, <3>2, RawsType
    <3>5. screen \o (Raws(out_buffer) \o <<x>>) = (screen \o Raws(out_buffer)) \o <<x>>
      BY <3>2, <3>4, ConcatAssociative
    <3> QED
      BY <1>1, <1>2, <1>4, <3>1, <3>3, <3>5
  <2>3. CASE ~(Len(out_buffer) < OutCapacity)
    <3>1. out_buffer' = out_buffer /\ overflowed' = overflowed \cup {"out_buffer"}
      BY <1>4, <2>3 DEF PutKey
    <3> QED
      BY <1>1, <1>2, <3>1
  <2> QED
    BY <2>2, <2>3
<1> QED
  BY <1>3, <1>4 DEF Emits

LEMMA DecodeStep ==
  ASSUME PathInv, Decode, "kb_buf" \notin overflowed'
  PROVE  Leftover' /\ \E st : Path(st)'
<1>1. /\ pc = "decode" /\ pc' = "loop"
      /\ UNCHANGED <<kb_buf, wire, held, presses, typed, screen>>
  BY DEF Decode, userVars
<1>2. TypeInv /\ Rest' = Rest /\ ~Pending' /\ (Pending <=> ~Preset)
  BY <1>1 DEF PathInv, Rest, Pending
<1>3. /\ mods' = NextMods /\ locks' = NextLocks /\ Emits(Coming)
      /\ key'.raw \in Specials => key.raw \in Specials
  <2>1. CASE Preset
    <3>1. /\ mods' = mods /\ locks' = locks /\ UNCHANGED <<out_buffer, overflowed>>
      BY <1>2, <2>1, DecodePreset
    <3>2. key.raw \in Specials
      BY <2>1 DEF Preset, Specials
    <3> QED
      BY <1>2, <2>1, <3>1, <3>2 DEF NextMods, NextLocks, Coming, Emits
  <2>2. CASE ~Preset
    <3>1. /\ mods' = ModsOf(Found, MakeOf(scan_code), mods)
          /\ locks' = LocksOf(Found, MakeOf(scan_code), locks)
          /\ key'.raw \notin Specials /\ Emits(OutOf(Found, MakeOf(scan_code), locks))
      BY <1>2, <2>2, DecodePending
    <3> QED
      BY <1>2, <2>2, <3>1 DEF NextMods, NextLocks, Coming
  <2> QED
    BY <2>1, <2>2
<1>4. /\ \/ Echoed' = Echoed \o Coming
         \/ Echoed' = Echoed /\ "out_buffer" \in overflowed'
      /\ overflowed' \in {overflowed, overflowed \cup {"out_buffer"}}
      /\ "out_buffer" \in overflowed => "out_buffer" \in overflowed'
  BY <1>1, <1>2, <1>3, EmitsShown
<1>5. "kb_buf" \notin overflowed
  BY <1>4
<1>6. PICK st : Path(st)
  BY <1>5 DEF PathInv
<1>7. /\ st[0] \in States /\ Link(st[0])
  BY <1>2, <1>6, RestType DEF Path, Run
<1>8. Link(st[0])'
  <2>1. PICK D : D = st[0]
    OBVIOUS
  <2>2. At(D)'
    BY <1>1, <1>7, <2>1 DEF Link, At, Reading
  <2>3. ASSUME Unhurried PROVE Agrees(D)' /\ Shows(D)'
    <3>1. NextMods' = mods' /\ NextLocks' = locks' /\ Coming' = <<>>
      BY <1>2 DEF NextMods, NextLocks, Coming
    <3>2. Agrees(D)'
      BY <1>3, <1>7, <2>1, <2>3, <3>1 DEF Link, Agrees
    <3>3. Echoed \in Seq(Texts) /\ Coming \in Seq(Texts) /\ D.out \in Seq(Texts)
      BY <1>2, <1>7, <2>1, EchoedType, ComingType DEF States
    <3>4. Embeds(Echoed \o Coming, D.out) /\ ("out_buffer" \notin overflowed => D.out = Echoed \o Coming)
      BY <1>7, <2>1, <2>3 DEF Link, Shows
    <3>5. Embeds(Echoed, D.out)
      BY <3>3, <3>4, EmbedsFront
    <3>6. Echoed' \o <<>> = Echoed'
      BY <1>4, <3>3
    <3> QED
      BY <1>4, <3>1, <3>2, <3>4, <3>5, <3>6 DEF Shows
  <2> QED
    BY <2>1, <2>2, <2>3 DEF Link
<1>9. Path(st)'
  BY <1>1, <1>2, <1>6, <1>8, PathKept
<1>10. Leftover'
  BY <1>2, <1>3, <1>5 DEF PathInv, Leftover
<1> QED
  BY <1>9, <1>10

LEMMA WriteKeyStep ==
  ASSUME PathInv, WriteKey, "kb_buf" \notin overflowed'
  PROVE  Leftover' /\ \E st : Path(st)'
<1>1. /\ pc = "write" /\ pc' = "write" /\ out_buffer # <<>>
      /\ screen' = Append(screen, Head(out_buffer).raw) /\ out_buffer' = Tail(out_buffer)
      /\ UNCHANGED <<kb_buf, wire, held, presses, typed, mods, locks, overflowed, key>>
  BY DEF WriteKey, userVars, decodeVars
<1>2. out_buffer \in Seq(KeyRecs) /\ screen \in Seq(Texts) /\ TypeInv
  BY DEF PathInv, TypeInv
<1>3. Head(out_buffer) \in KeyRecs /\ Tail(out_buffer) \in Seq(KeyRecs)
  BY <1>1, <1>2, HeadTailProperties
<1>4. Head(out_buffer).raw \in Texts /\ Raws(Tail(out_buffer)) \in Seq(Texts)
  BY <1>3, RawsType DEF KeyRecs
<1>5. Raws(out_buffer) = <<Head(out_buffer).raw>> \o Raws(Tail(out_buffer))
  BY <1>1, <1>2, RawsHead
<1>6. screen' = screen \o <<Head(out_buffer).raw>>
  BY <1>1, <1>2, <1>4, AppendIsConcat
<1>7. Echoed' = screen' \o Raws(Tail(out_buffer))
  BY <1>1 DEF Echoed, Raws
<1>8. (screen \o <<Head(out_buffer).raw>>) \o Raws(Tail(out_buffer))
        = screen \o (<<Head(out_buffer).raw>> \o Raws(Tail(out_buffer)))
  <2>1. <<Head(out_buffer).raw>> \in Seq(Texts)
    BY <1>4
  <2> QED
    BY <1>2, <1>4, <2>1, ConcatAssociative
<1>9. Echoed' = Echoed
  BY <1>2, <1>5, <1>6, <1>7, <1>8, EchoedType
<1>10. pc \notin Reading \cup {"decode"} /\ pc' \notin Reading \cup {"decode"}
  BY <1>1 DEF Reading
<1> QED
  BY <1>1, <1>9, <1>10, TaskTurns

LEMMA OtherStep ==
  ASSUME PathInv, InitTty \/ ReadDone \/ WriteDone, "kb_buf" \notin overflowed'
  PROVE  Leftover' /\ \E st : Path(st)'
<1>1. /\ pc \notin Reading \cup {"decode"} /\ pc' \notin Reading \cup {"decode"}
      /\ key' = key \/ key' = NoKey
      /\ UNCHANGED <<kb_buf, wire, held, presses, typed, mods, locks, overflowed, screen, out_buffer>>
  <2>1. CASE InitTty
    BY <2>1 DEF InitTty, userVars, decodeVars, Reading
  <2>2. CASE ReadDone
    BY <2>2 DEF ReadDone, userVars, decodeVars, Reading
  <2>3. CASE WriteDone
    BY <2>3 DEF WriteDone, userVars, Reading
  <2> QED
    BY <2>1, <2>2, <2>3
<1>2. Echoed' = Echoed
  BY <1>1 DEF Echoed
<1> QED
  BY <1>1, <1>2, TaskTurns

LEMMA PathStep == PathInv /\ [Next]_vars => PathInv'
<1> SUFFICES ASSUME PathInv, [Next]_vars PROVE PathInv'
  OBVIOUS
<1>1. TypeInv'
  BY TypeStep DEF PathInv
<1>2. ASSUME "kb_buf" \notin overflowed' PROVE Leftover' /\ \E st : Path(st)'
  <2>1. CASE UNCHANGED vars
    <3>1. UNCHANGED <<held, wire, typed, presses, kb_buf, pc, key, scan_code, code_with_E0, count_E1,
                      mods, locks, out_buffer, screen, overflowed>>
      BY <2>1 DEF vars, userVars, decodeVars
    <3>2. Leftover' /\ Rest' = Rest
      BY <1>2, <3>1 DEF PathInv, Leftover, Rest
    <3>3. PICK st : Path(st)
      BY <1>2, <3>1 DEF PathInv
    <3>4. Link(st[0])'
      BY <3>1, <3>3, LinkFrame DEF Path
    <3>5. Path(st)'
      BY <3>1, <3>2, <3>3, <3>4, PathKept
    <3> QED
      BY <3>2, <3>5
  <2> QED
    BY <1>2, <2>1, EventStep, ArriveStep, ReadFirstStep, ReadE1Step, ReadE0Step, ReadThirdStep,
       ReadFourthStep, DecodeStep, WriteKeyStep, OtherStep DEF Next, TaskStep
<1> QED
  BY <1>1, <1>2 DEF PathInv

LEMMA PathAlways == Spec => []PathInv
  BY PathInit, PathStep, PTL DEF Spec

-----------------------------------------------------------------------------
(* What follows from it. *)

\* The path has an end, where the decoder agrees with the user, and at rest it
\* is where the decoder is.
LEMMA PathEnds ==
  ASSUME PathInv, "kb_buf" \notin overflowed
  PROVE  \E st : /\ Path(st) /\ Len(Rest) \in Nat
                 /\ st[0] \in States /\ st[0].out \in Seq(Texts)
                 /\ AtRest => Goal(st[0])
<1>1. TypeInv
  BY DEF PathInv
<1>2. PICK st : Path(st)
  BY DEF PathInv
<1>3. Rest \in Seq(0 .. 255) /\ Len(Rest) \in Nat
  BY <1>1, RestType
<1>4. st[0] \in States /\ st[0].out \in Seq(Texts)
  BY <1>2, <1>3 DEF Path, Run, States
<1>5. ASSUME AtRest PROVE Goal(st[0])
  <2>1. Rest = <<>>
    BY <1>1, <1>5, RestType DEF AtRest
  <2>2. Len(Rest) = 0
    BY <2>1
  <2> QED
    BY <1>2, <2>2 DEF Path
<1> QED
  BY <1>2, <1>3, <1>4, <1>5

\* Between codes the decoder's variables are those of the path.
LEMMA RestAgrees ==
  ASSUME TypeInv, AtRest, Unhurried, NEW D, Link(D)
  PROVE  D.mods = mods /\ D.locks = locks /\ Shows(D) /\ Coming = <<>> /\ Echoed = screen
<1>1. ~Pending
  BY DEF AtRest, Pending
<1>2. Raws(out_buffer) = <<>> /\ screen \o <<>> = screen
  BY DEF AtRest, Raws, TypeInv
<1> QED
  BY <1>1, <1>2, EchoedType DEF Link, Agrees, NextMods, NextLocks, Coming

LEMMA FrameSyncInv == PathInv => FrameSync
<1> SUFFICES ASSUME PathInv, pc \in Reading, "kb_buf" \notin overflowed, wire = <<>>, kb_buf = <<>>
             PROVE  FALSE
  BY DEF FrameSync, Reading
<1>1. TypeInv
  BY DEF PathInv
<1>2. PICK st : Path(st)
  BY DEF PathInv
<1>3. Len(Rest) = 0
  BY <1>1, RestType
<1>4. st[0].at = pc /\ st[0].at = "loop"
  BY <1>2, <1>3 DEF Path, Link, At, Goal
<1> QED
  BY <1>4 DEF Reading

\* The decoder keeps in step with the codes, for every set of keys: it is
\* inside a code only while bytes of that code are under way.
THEOREM DecoderInStep == Spec => []FrameSync
  BY PathAlways, FrameSyncInv, PTL

\* Where each modifier key has a variable of its own, and no byte is taken for
\* a key of the byte before, the modifiers are the keys held.
THEOREM ModifiersFollow == (Unhurried /\ "ALT_R" \notin Keys) => (Spec => []ModifiersTrack)
<1> SUFFICES ASSUME Unhurried, "ALT_R" \notin Keys PROVE Spec => []ModifiersTrack
  OBVIOUS
<1>1. PathInv => ModifiersTrack
  <2> SUFFICES ASSUME PathInv, AtRest, "kb_buf" \notin overflowed
               PROVE  \A m \in Modifiers : mods[m] = IF ModifierKeys[m] \in held THEN 1 ELSE 0
    BY DEF ModifiersTrack
  <2>1. PICK st : Path(st) /\ Goal(st[0])
    BY PathEnds
  <2>2. st[0].mods = mods
    BY <2>1, RestAgrees DEF PathInv, Path
  <2> QED
    BY <2>1, <2>2 DEF Goal, ModsAgree, Exempt
<1> QED
  BY <1>1, PathAlways, PTL

\* Where the user has no Num Lock key and the lock keys do not repeat, a lock
\* has changed as often as its key was pressed.
THEOREM LocksFollow == (Unhurried /\ LocksPlain) => (Spec => []LocksTrack)
<1> SUFFICES ASSUME Unhurried, LocksPlain PROVE Spec => []LocksTrack
  OBVIOUS
<1>1. PathInv => LocksTrack
  <2> SUFFICES ASSUME PathInv, AtRest, "kb_buf" \notin overflowed
               PROVE  \A l \in DOMAIN LockKeys :
                        locks[LockKeys[l]] = (InitialLock[l] + presses[l]) % 2
    BY DEF LocksTrack
  <2>1. PICK st : Path(st) /\ Goal(st[0])
    BY PathEnds
  <2>2. st[0].locks = locks
    BY <2>1, RestAgrees DEF PathInv, Path
  <2>3. LocksAgree(locks, presses)
    BY <2>1, <2>2 DEF Goal
  <2>4. presses["CAPS_LOCK"] \in Nat /\ presses["SCROLL_LOCK"] \in Nat /\ presses["NUM_LOCK"] = 0
    BY UserAssumption DEF PathInv, TypeInv, TypeOK, InitialLock, LocksPlain
  <2>5. /\ 0 + presses["CAPS_LOCK"] = presses["CAPS_LOCK"]
        /\ 0 + presses["SCROLL_LOCK"] = presses["SCROLL_LOCK"]
        /\ (1 + presses["NUM_LOCK"]) % 2 = 1
    BY <2>4
  <2> QED
    BY <2>3, <2>5 DEF LocksAgree, LockKeys, InitialLock
<1> QED
  BY <1>1, PathAlways, PTL

\* Under the same conditions what is shown is what was typed: the beginning of
\* it at any time, and all of it at rest.
THEOREM EchoIsTyped == (Unhurried /\ LocksPlain) => (Spec => []EchoFaithful)
<1> SUFFICES ASSUME Unhurried, LocksPlain PROVE Spec => []EchoFaithful
  OBVIOUS
<1>1. PathInv => EchoFaithful
  <2> SUFFICES ASSUME PathInv, overflowed = {}
               PROVE  IsPrefix(Echoed, typed) /\ (AtRest => screen = typed)
    BY DEF EchoFaithful
  <2>1. PICK st : /\ Path(st) /\ Len(Rest) \in Nat /\ st[0].out \in Seq(Texts)
                  /\ AtRest => Goal(st[0])
    BY PathEnds
  <2>2. st[0].out = Echoed \o Coming /\ Begins(st[0].out, typed) /\ TypeInv /\ Link(st[0])
    BY <2>1, SMTT(30) DEF Path, Link, Shows, PathInv
  <2>3. Echoed \in Seq(Texts) /\ Coming \in Seq(Texts) /\ typed \in Seq(Texts)
    BY <2>2, EchoedType, ComingType DEF TypeInv
  <2>4. Begins(Echoed, st[0].out)
    BY <2>2, <2>3, BeginsConcat
  <2>5. Begins(Echoed, typed)
    BY <2>1, <2>2, <2>3, <2>4, BeginsTrans
  <2>6. ASSUME AtRest PROVE screen = typed
    <3>1. Coming = <<>> /\ Echoed = screen /\ Echoed \o <<>> = Echoed
      BY <2>2, <2>3, <2>6, RestAgrees
    <3> QED
      BY <2>1, <2>2, <2>6, <3>1 DEF Goal
  <2> QED
    BY <2>3, <2>5, <2>6, BeginsPrefix
<1> QED
  BY <1>1, PathAlways, PTL

\* And when the output buffer overflows, what is shown is still taken from what
\* was typed in its order.
THEOREM EchoKeepsOrder == (Unhurried /\ LocksPlain) => (Spec => []EchoInOrder)
<1> SUFFICES ASSUME Unhurried, LocksPlain PROVE Spec => []EchoInOrder
  OBVIOUS
<1>1. PathInv => EchoInOrder
  <2> SUFFICES ASSUME PathInv, "kb_buf" \notin overflowed PROVE Embeds(Echoed, typed)
    BY DEF EchoInOrder, Embeds
  <2>1. PICK st : Path(st) /\ Len(Rest) \in Nat /\ st[0].out \in Seq(Texts)
    BY PathEnds
  <2>2. Embeds(Echoed \o Coming, st[0].out) /\ Begins(st[0].out, typed) /\ TypeInv
    BY <2>1 DEF Path, Link, Shows, PathInv
  <2>3. Echoed \in Seq(Texts) /\ Coming \in Seq(Texts) /\ typed \in Seq(Texts)
    BY <2>2, EchoedType, ComingType DEF TypeInv
  <2>4. Embeds(Echoed, st[0].out)
    BY <2>1, <2>2, <2>3, EmbedsFront
  <2> QED
    BY <2>1, <2>2, <2>3, <2>4, EmbedsBegins
<1> QED
  BY <1>1, PathAlways, PTL
=============================================================================
