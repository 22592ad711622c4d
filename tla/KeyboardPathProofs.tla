------------------------- MODULE KeyboardPathProofs -------------------------
(***************************************************************************)
(* Proofs about KeyboardPath, for every set of codes, every ring size and  *)
(* every tick limit.                                                       *)
(*                                                                         *)
(* DisciplineInv is inductive whether or not keys are hit during the boot; *)
(* RingInv needs them not to be.  First, what buffer_put and buffer_get do *)
(* to the contents of a well-formed ring, for every type of element.       *)
(***************************************************************************)
EXTENDS KeyboardPath, TLAPS

\* A well-formed ring is the record of its fields, each in its range.
Fields(b, Value, size) ==
  /\ b = [data |-> b.data, size |-> b.size, read |-> b.read,
          write |-> b.write, count |-> b.count]
  /\ b.data \in [0 .. size - 1 -> Value] /\ b.size = size
  /\ b.read \in 0 .. size - 1 /\ b.write \in 0 .. size - 1
  /\ b.count \in 0 .. size
  /\ b.write = Slot(b, b.count + 1)

LEMMA RingFields ==
  ASSUME NEW Value, NEW size \in Nat \ {0}, NEW b, WellFormed(b, Value, size)
  PROVE  Fields(b, Value, size)
BY DEF WellFormed, Rings, PositionsAgree, Fields

\* A ring stays well formed when buffer_put stores an element or finds no room.
THEOREM PutWellFormed ==
  ASSUME NEW Value, NEW size \in Nat \ {0}, NEW b, NEW c \in Value,
         WellFormed(b, Value, size)
  PROVE  WellFormed(BufferPut(b, c), Value, size)
<1>0. Fields(b, Value, size)
  BY RingFields
<1> USE DEF Fields
<1>1. CASE BufferFull(b)
  BY <1>1 DEF BufferPut
<1>2. CASE ~BufferFull(b)
  <2> DEFINE write == Wrap(b, b.write + 1)
  <2>1. BufferPut(b, c) =
          [data |-> [b.data EXCEPT ![b.write] = c], size |-> size, read |-> b.read,
           write |-> write, count |-> b.count + 1]
    BY <1>2, <1>0 DEF BufferPut
  <2>2. /\ write \in 0 .. size - 1
        /\ b.count + 1 \in 0 .. size
        /\ [b.data EXCEPT ![b.write] = c] \in [0 .. size - 1 -> Value]
    BY <1>2, <1>0 DEF Wrap, BufferFull
  <2>3. write = Slot(BufferPut(b, c), b.count + 2)
    BY <1>2, <2>1, <1>0, SMTT(30) DEF Wrap, Slot, BufferFull
  <2> HIDE DEF write
  <2>4. BufferPut(b, c) \in Rings(Value, size)
    BY <2>1, <2>2, <1>0 DEF Rings
  <2>5. b.count + 1 + 1 = b.count + 2
    BY <1>0
  <2> QED BY <2>1, <2>3, <2>4, <2>5 DEF WellFormed, PositionsAgree
<1> QED BY <1>1, <1>2

\* buffer_put on a ring with room appends the element; on a full ring it
\* changes nothing.
THEOREM PutAppends ==
  ASSUME NEW Value, NEW size \in Nat \ {0}, NEW b, NEW c \in Value,
         WellFormed(b, Value, size)
  PROVE  Contents(BufferPut(b, c)) =
           IF Len(Contents(b)) < size THEN Append(Contents(b), c) ELSE Contents(b)
<1>1. Fields(b, Value, size)
  BY RingFields
<1> USE DEF Fields
<1>2. Contents(b) \in Seq(Value) /\ Len(Contents(b)) = b.count
  <2>1. \A i \in 1 .. b.count : Slot(b, i) \in 0 .. size - 1
    BY <1>1, SMTT(30) DEF Slot
  <2> QED BY <1>1, <2>1, SMTT(30) DEF Contents
<1>3. CASE BufferFull(b)
  BY <1>1, <1>2, <1>3 DEF BufferPut, BufferFull
<1>4. CASE ~BufferFull(b)
  <2> DEFINE p == BufferPut(b, c)
  <2>1. /\ p.count = b.count + 1 /\ p.size = size /\ p.read = b.read
        /\ p.data = [b.data EXCEPT ![b.write] = c]
    BY <1>1, <1>4 DEF BufferPut
  <2>2. b.count < size
    BY <1>1, <1>4 DEF BufferFull
  <2>3. \A i \in 1 .. b.count + 1 : Slot(p, i) = Slot(b, i) /\ Slot(b, i) \in 0 .. size - 1
    BY <1>1, <2>1, <2>2, SMTT(30) DEF Slot
  <2>4. \A i \in 1 .. b.count : Slot(b, i) # b.write
    BY <1>1, <2>2 DEF Slot
  <2>5. Contents(p) = Append(Contents(b), c)
    <3>1. Contents(p) = [i \in 1 .. b.count + 1 |-> p.data[Slot(p, i)]]
      BY <2>1 DEF Contents
    <3>2. Append(Contents(b), c) =
            [i \in 1 .. b.count + 1 |-> IF i = b.count + 1 THEN c ELSE b.data[Slot(b, i)]]
      BY <1>1, <1>2 DEF Contents
    <3>3. \A i \in 1 .. b.count + 1 :
            p.data[Slot(p, i)] = IF i = b.count + 1 THEN c ELSE b.data[Slot(b, i)]
      BY <1>1, <2>1, <2>3, <2>4
    <3> HIDE DEF p
    <3> QED BY <3>1, <3>2, <3>3
  <2> QED BY <1>2, <2>2, <2>5
<1> QED BY <1>3, <1>4

\* A ring stays well formed when buffer_get takes an element or finds none.
THEOREM GetWellFormed ==
  ASSUME NEW Value, NEW size \in Nat \ {0}, NEW b, WellFormed(b, Value, size)
  PROVE  WellFormed(BufferGet(b), Value, size)
<1>0. Fields(b, Value, size)
  BY RingFields
<1> USE DEF Fields
<1>1. CASE BufferEmpty(b)
  BY <1>1 DEF BufferGet
<1>2. CASE ~BufferEmpty(b)
  <2> DEFINE read == Wrap(b, b.read + 1)
  <2>1. BufferGet(b) = [data |-> b.data, size |-> size, read |-> read,
                        write |-> b.write, count |-> b.count - 1]
    BY <1>2, <1>0 DEF BufferGet
  <2>2. read \in 0 .. size - 1 /\ b.count - 1 \in 0 .. size
    BY <1>2, <1>0 DEF Wrap, BufferEmpty
  <2>3. b.write = Slot(BufferGet(b), b.count)
    BY <1>2, <2>1, <1>0 DEF Wrap, Slot, BufferEmpty
  <2> HIDE DEF read
  <2>4. BufferGet(b) \in Rings(Value, size)
    BY <2>1, <2>2, <1>0 DEF Rings
  <2>5. b.count - 1 + 1 = b.count
    BY <1>0
  <2> QED BY <2>1, <2>3, <2>4, <2>5 DEF WellFormed, PositionsAgree
<1> QED BY <1>1, <1>2

\* buffer_get on a ring that holds something takes the oldest element.
THEOREM GetTakes ==
  ASSUME NEW Value, NEW size \in Nat \ {0}, NEW b, WellFormed(b, Value, size),
         ~BufferEmpty(b)
  PROVE  /\ Contents(b) # <<>>
         /\ BufferFront(b) = Head(Contents(b))
         /\ Contents(BufferGet(b)) = Tail(Contents(b))
<1>0. Fields(b, Value, size)
  BY RingFields
<1> USE DEF Fields
<1>1. b.count \in 1 .. size
  BY <1>0 DEF BufferEmpty
<1>2. Contents(b) \in Seq(Value) /\ Len(Contents(b)) = b.count
  <2>1. \A i \in 1 .. b.count : Slot(b, i) \in 0 .. size - 1
    <3>1. /\ b.size = size /\ b.read \in 0 .. size - 1 /\ b.count \in 0 .. size
      BY <1>0
    <3> QED BY <3>1 DEF Slot
  <2> QED BY <1>0, <1>1, <2>1, SMTT(30) DEF Contents
<1>3. Contents(b) # <<>>
  BY <1>0, <1>1, <1>2
<1>4. BufferFront(b) = Head(Contents(b))
  BY <1>0, <1>1, <1>2 DEF BufferFront, Contents, Slot
<1> DEFINE g == BufferGet(b)
<1>5. /\ g.count = b.count - 1 /\ g.size = size /\ g.data = b.data
      /\ g.read = Wrap(b, b.read + 1)
  BY <1>0, <1>1 DEF BufferGet, BufferEmpty
<1>6. Contents(g) = Tail(Contents(b))
  <2>1. Contents(g) = [i \in 1 .. b.count - 1 |-> g.data[Slot(g, i)]]
    BY <1>5 DEF Contents
  <2>2. Tail(Contents(b)) = [i \in 1 .. b.count - 1 |-> b.data[Slot(b, i + 1)]]
    BY <1>0, <1>1, <1>2 DEF Contents
  <2>3. \A i \in 1 .. b.count - 1 : g.data[Slot(g, i)] = b.data[Slot(b, i + 1)]
    BY <1>0, <1>1, <1>5, SMTT(30) DEF Slot, Wrap
  <2> HIDE DEF g
  <2> QED BY <2>1, <2>2, <2>3
<1> QED BY <1>3, <1>4, <1>6

-----------------------------------------------------------------------------
\* At most one handler is on the stack; what is in service follows from where
\* it is.
FramesInv ==
  /\ frames = <<>> \/ \E h \in HandlerLabels : frames = <<h>>
  /\ frames # <<>> => ~intr
  /\ pc \in Critical \cup {"sti"} => frames = <<>> /\ ~intr
  /\ frames = <<>> => isr = {}
  /\ frames = <<"tick">> => isr = {TIMER}
  /\ frames = <<"kbd_eoi">> => isr = {KEYBOARD}
  /\ frames = <<"kbd_read">> => isr = {}
  /\ frames = <<"eoi">> => isr \subseteq {TIMER}

\* The byte in the controller and its interrupt, and that it has only one.
SignalInv ==
  /\ (obf # NoByte) <=> (KEYBOARD \in irr \/ frames \in {<<"kbd_eoi">>, <<"kbd_read">>})
  /\ frames \in {<<"kbd_eoi">>, <<"kbd_read">>} => KEYBOARD \notin irr

\* What the positions and counts are at each step of the task.
CursorInv ==
  /\ kb_buf.read \in 0 .. (IF pc = "wrap" THEN BufferSize ELSE BufferSize - 1)
  /\ pc \notin {"sti", "init_count", "init_size"} => kb_buf.size = BufferSize
  /\ pc = "init_read" => reg <= BufferSize - 1
  /\ pc \in {"cli", "get", "wrap", "load", "store"} => kb_buf.count > 0
  /\ pc = "store" => reg = kb_buf.count

DisciplineInv == TypeOK /\ FramesInv /\ SignalInv /\ CursorInv

\* No key is hit during the boot, and the ring is well formed after it.
RingInv ==
  /\ pc \in Boot => /\ obf = NoByte
                    /\ kb_buf.read = 0 /\ kb_buf.write = 0 /\ kb_buf.count = 0
                    /\ pc = "init_read" => reg = 0
  /\ RingConsistent

USE BufferSizeAssumption, TickLimitAssumption, NoByteAssumption, EarlyKeysAssumption

-----------------------------------------------------------------------------
(* The stack of handlers, when it holds at most one. *)

LEMMA OneFrame ==
  ASSUME NEW h
  PROVE  /\ <<h>> # <<>> /\ Head(<<h>>) = h /\ Tail(<<h>>) = <<>>
         /\ <<h>> \o <<>> = <<h>> /\ Len(<<h>>) = 1
OBVIOUS

\* What a handler's step sees: the stack holds that handler alone.
LEMMA HandlerAlone ==
  ASSUME FramesInv, NEW label, InHandler(label)
  PROVE  frames = <<label>> /\ Tail(frames) = <<>> /\ ~intr
<1>1. PICK h \in HandlerLabels : frames = <<h>>
  BY DEF FramesInv, InHandler
<1>2. h = label
  BY <1>1, OneFrame DEF InHandler
<1> QED BY <1>1, <1>2, OneFrame DEF FramesInv

\* A put leaves a ring of the same type, at any point of the boot too.
LEMMA PutType ==
  ASSUME kb_buf \in KbBufs, kb_buf.read <= BufferSize - 1, NEW c \in Byte
  PROVE  /\ BufferPut(kb_buf, c) \in KbBufs
         /\ BufferPut(kb_buf, c).size = kb_buf.size
         /\ BufferPut(kb_buf, c).read = kb_buf.read
         /\ BufferPut(kb_buf, c).count >= kb_buf.count
<1>1. CASE BufferFull(kb_buf)
  BY <1>1 DEF BufferPut, KbBufs
<1>2. CASE ~BufferFull(kb_buf)
  <2> DEFINE w == Wrap(kb_buf, kb_buf.write + 1)
  <2>1. kb_buf.size = BufferSize /\ kb_buf.count < BufferSize
    BY <1>2 DEF BufferFull, KbBufs
  <2>2. w \in 0 .. BufferSize - 1
    BY <2>1 DEF Wrap, KbBufs
  <2>3. [kb_buf.data EXCEPT ![kb_buf.write] = c] \in [0 .. BufferSize - 1 -> Byte]
    BY DEF KbBufs
  <2>4. BufferPut(kb_buf, c) =
          [data |-> [kb_buf.data EXCEPT ![kb_buf.write] = c], size |-> kb_buf.size,
           read |-> kb_buf.read, write |-> w, count |-> kb_buf.count + 1]
    BY <1>2 DEF BufferPut, KbBufs
  <2> HIDE DEF w
  <2> QED BY <2>1, <2>2, <2>3, <2>4 DEF KbBufs
<1> QED BY <1>1, <1>2

LEMMA DisciplineInit == Init => DisciplineInv
<1> SUFFICES ASSUME Init PROVE DisciplineInv
  OBVIOUS
<1>1. TypeOK
  <2>1. kb_buf = [data |-> [i \in 0 .. BufferSize - 1 |-> 0],
                  size |-> 0, read |-> 0, write |-> 0, count |-> 0]
    BY DEF Init, Uninitialised
  <2>2. kb_buf \in KbBufs
    BY <2>1 DEF Byte, KbBufs
  <2>3. frames \in Seq(HandlerLabels)
    BY DEF Init
  <2>4. reg \in 0 .. BufferSize /\ sys_tick \in 0 .. TickLimit - 1 /\ key_pressed \in {0, 1}
    BY DEF Init
  <2>5. irr \subseteq {TIMER, KEYBOARD} /\ isr \subseteq {TIMER, KEYBOARD} /\ intr \in BOOLEAN
    BY DEF Init
  <2>6. pc \in Labels /\ obf \in Byte \cup {NoByte} /\ scan_code \in Byte
    BY DEF Init, Labels, Boot
  <2> QED BY <2>2, <2>3, <2>4, <2>5, <2>6 DEF TypeOK
<1>2. FramesInv
  BY DEF Init, FramesInv
<1>3. SignalInv
  BY DEF Init, SignalInv
<1>4. CursorInv
  BY DEF Init, CursorInv, Uninitialised
<1> QED BY <1>1, <1>2, <1>3, <1>4 DEF DisciplineInv

-----------------------------------------------------------------------------
LEMMA DisciplineNext == DisciplineInv /\ [Next]_vars => DisciplineInv'
<1> SUFFICES ASSUME DisciplineInv, [Next]_vars PROVE DisciplineInv'
  OBVIOUS
<1> USE DEF DisciplineInv, ioVars, cpuVars, taskVars, TIMER, KEYBOARD
<1>1. ASSUME NEW c \in Code, Present(c) PROVE DisciplineInv'
  <2>0. c \in Byte /\ c # NoByte
    BY <1>1 DEF Byte
  <2>1. TypeOK'
    BY <1>1, <2>0 DEF TypeOK, Present
  <2>2. FramesInv'
    BY <1>1 DEF FramesInv, Present
  <2>3. SignalInv'
    BY <1>1, <2>0 DEF SignalInv, Present
  <2>4. CursorInv'
    BY <1>1 DEF CursorInv, Present
  <2> QED BY <2>1, <2>2, <2>3, <2>4
<1>2. ASSUME TimerTick PROVE DisciplineInv'
  <2>1. TypeOK'
    BY <1>2 DEF TypeOK, KbBufs, TimerTick, Labels, Boot, Critical, HandlerLabels
  <2>2. FramesInv'
    BY <1>2 DEF FramesInv, TimerTick, Critical, HandlerLabels
  <2>3. SignalInv'
    BY <1>2 DEF SignalInv, TimerTick
  <2>4. CursorInv'
    BY <1>2 DEF CursorInv, TimerTick
  <2> QED BY <2>1, <2>2, <2>3, <2>4
<1>3. ASSUME NEW n \in {TIMER, KEYBOARD}, Interrupt(n) PROVE DisciplineInv'
  <2>0. /\ frames = <<>> /\ isr = {} /\ n \in irr
        /\ frames' = <<Handler(n)>> /\ Handler(n) \in HandlerLabels
    BY <1>3, OneFrame DEF FramesInv, Interrupt, Offered, Handler, HandlerLabels
  <2>1. TypeOK'
    <3>1. frames' \in Seq(HandlerLabels)
      BY <2>0
    <3> QED BY <1>3, <3>1 DEF TypeOK, Interrupt, FlagInHandler
  <2>2. FramesInv'
    BY <1>3, <2>0, OneFrame DEF FramesInv, Interrupt, FlagInHandler, Handler, Critical
  <2>3. SignalInv'
    BY <1>3, <2>0, OneFrame DEF SignalInv, Interrupt, Handler
  <2>4. CursorInv'
    BY <1>3 DEF CursorInv, Interrupt
  <2> QED BY <2>1, <2>2, <2>3, <2>4
<1>4. ASSUME Tick PROVE DisciplineInv'
  <2>0. frames = <<"tick">> /\ Tail(frames) = <<>> /\ ~intr
    BY <1>4, HandlerAlone DEF Tick
  <2>1. TypeOK'
    BY <1>4, <2>0, OneFrame DEF TypeOK, KbBufs, Tick, HandlerGoto, Labels, Boot, Critical, HandlerLabels
  <2>2. FramesInv'
    BY <1>4, <2>0, OneFrame DEF FramesInv, Tick, HandlerGoto, Critical, HandlerLabels
  <2>3. SignalInv'
    BY <1>4, <2>0, OneFrame DEF SignalInv, Tick, HandlerGoto
  <2>4. CursorInv'
    BY <1>4, <2>0 DEF CursorInv, Tick, HandlerGoto
  <2> QED BY <2>1, <2>2, <2>3, <2>4
<1>5. ASSUME KeyboardEoi PROVE DisciplineInv'
  <2>0. frames = <<"kbd_eoi">> /\ Tail(frames) = <<>> /\ ~intr
    BY <1>5, HandlerAlone DEF KeyboardEoi
  <2>1. TypeOK'
    BY <1>5, <2>0, OneFrame DEF TypeOK, KbBufs, KeyboardEoi, HandlerGoto, Labels, Boot, Critical, HandlerLabels
  <2>2. FramesInv'
    BY <1>5, <2>0, OneFrame DEF FramesInv, KeyboardEoi, HandlerGoto, Critical, HandlerLabels
  <2>3. SignalInv'
    BY <1>5, <2>0, OneFrame DEF SignalInv, KeyboardEoi, HandlerGoto
  <2>4. CursorInv'
    BY <1>5, <2>0 DEF CursorInv, KeyboardEoi, HandlerGoto
  <2> QED BY <2>1, <2>2, <2>3, <2>4
<1>6. ASSUME KeyboardRead PROVE DisciplineInv'
  <2>0. frames = <<"kbd_read">> /\ Tail(frames) = <<>> /\ ~intr
    BY <1>6, HandlerAlone DEF KeyboardRead
  <2>1. /\ obf \in Byte /\ pc # "wrap"
        /\ kb_buf \in KbBufs /\ kb_buf.read <= BufferSize - 1
    BY <2>0 DEF TypeOK, SignalInv, FramesInv, CursorInv, Critical
  <2>2. /\ kb_buf' \in KbBufs /\ kb_buf'.size = kb_buf.size
        /\ kb_buf'.read = kb_buf.read /\ kb_buf'.count >= kb_buf.count
    BY <1>6, <2>1, PutType DEF KeyboardRead
  <2>3. frames' = <<"eoi">>
    BY <1>6, <2>0, OneFrame DEF KeyboardRead, HandlerGoto
  <2>4. TypeOK'
    BY <1>6, <2>2, <2>3 DEF TypeOK, KeyboardRead, HandlerLabels
  <2>5. FramesInv'
    BY <1>6, <2>0, <2>3, OneFrame DEF FramesInv, KeyboardRead, Critical, HandlerLabels
  <2>6. SignalInv'
    BY <1>6, <2>0, <2>3, OneFrame DEF SignalInv, KeyboardRead
  <2>7. CursorInv'
    <3>1. pc' = pc /\ reg' = reg /\ pc \notin Critical
      BY <1>6, <2>0 DEF KeyboardRead, FramesInv
    <3>2. kb_buf.count \in Nat /\ kb_buf'.count \in Nat
      BY <2>1, <2>2 DEF KbBufs
    <3> QED BY <2>2, <3>1, <3>2 DEF CursorInv, Critical
  <2> QED BY <2>4, <2>5, <2>6, <2>7
<1>7. ASSUME EoiAndReturn PROVE DisciplineInv'
  <2>0. frames = <<"eoi">> /\ frames' = <<>> /\ isr' = {}
    <3>1. frames = <<"eoi">> /\ Tail(frames) = <<>>
      BY <1>7, HandlerAlone DEF EoiAndReturn
    <3>2. isr \subseteq {TIMER}
      BY <3>1 DEF FramesInv
    <3>3. \A n, m \in isr : ~(m < n)
      BY <3>2
    <3> QED BY <1>7, <3>1, <3>3 DEF EoiAndReturn
  <2>1. TypeOK'
    <3>1. frames' \in Seq(HandlerLabels)
      BY <2>0
    <3> QED BY <1>7, <2>0, <3>1 DEF TypeOK, EoiAndReturn
  <2>2. FramesInv'
    BY <1>7, <2>0, OneFrame DEF FramesInv, EoiAndReturn, Critical
  <2>3. SignalInv'
    BY <1>7, <2>0, OneFrame DEF SignalInv, EoiAndReturn
  <2>4. CursorInv'
    BY <1>7 DEF CursorInv, EoiAndReturn
  <2> QED BY <2>1, <2>2, <2>3, <2>4
<1>8. ASSUME EnableGlobal PROVE DisciplineInv'
  <2>1. TypeOK'
    BY <1>8 DEF TypeOK, KbBufs, EnableGlobal, TaskAt, Labels, Boot, Critical, HandlerLabels
  <2>2. FramesInv'
    BY <1>8 DEF FramesInv, EnableGlobal, TaskAt, Critical, HandlerLabels
  <2>3. SignalInv'
    BY <1>8 DEF SignalInv, EnableGlobal, TaskAt
  <2>4. CursorInv'
    BY <1>8 DEF CursorInv, EnableGlobal, TaskAt
  <2> QED BY <2>1, <2>2, <2>3, <2>4
<1>9. ASSUME InitCount PROVE DisciplineInv'
  <2>1. TypeOK'
    BY <1>9, SMTT(30) DEF TypeOK, KbBufs, InitCount, TaskAt, Labels, Boot, Critical, HandlerLabels
  <2>2. FramesInv'
    BY <1>9 DEF FramesInv, InitCount, TaskAt, Critical, HandlerLabels
  <2>3. SignalInv'
    BY <1>9 DEF SignalInv, InitCount, TaskAt
  <2>4. CursorInv'
    BY <1>9 DEF CursorInv, InitCount, TaskAt
  <2> QED BY <2>1, <2>2, <2>3, <2>4
<1>10. ASSUME InitSize PROVE DisciplineInv'
  <2>1. TypeOK'
    BY <1>10 DEF TypeOK, KbBufs, InitSize, TaskAt, Labels, Boot, Critical, HandlerLabels
  <2>2. FramesInv'
    BY <1>10 DEF FramesInv, InitSize, TaskAt, Critical, HandlerLabels
  <2>3. SignalInv'
    BY <1>10 DEF SignalInv, InitSize, TaskAt
  <2>4. CursorInv'
    BY <1>10 DEF CursorInv, InitSize, TaskAt
  <2> QED BY <2>1, <2>2, <2>3, <2>4
<1>11. ASSUME InitWrite PROVE DisciplineInv'
  <2>1. TypeOK'
    BY <1>11, SMTT(30) DEF TypeOK, KbBufs, InitWrite, TaskAt, Labels, Boot, Critical, HandlerLabels
  <2>2. FramesInv'
    BY <1>11 DEF FramesInv, InitWrite, TaskAt, Critical, HandlerLabels
  <2>3. SignalInv'
    BY <1>11 DEF SignalInv, InitWrite, TaskAt
  <2>4. CursorInv'
    BY <1>11 DEF CursorInv, InitWrite, TaskAt
  <2> QED BY <2>1, <2>2, <2>3, <2>4
<1>12. ASSUME InitLoad PROVE DisciplineInv'
  <2>1. TypeOK'
    BY <1>12 DEF TypeOK, KbBufs, InitLoad, TaskAt, Labels, Boot, Critical, HandlerLabels
  <2>2. FramesInv'
    BY <1>12 DEF FramesInv, InitLoad, TaskAt, Critical, HandlerLabels
  <2>3. SignalInv'
    BY <1>12 DEF SignalInv, InitLoad, TaskAt
  <2>4. CursorInv'
    BY <1>12 DEF CursorInv, InitLoad, TaskAt, TypeOK, KbBufs
  <2> QED BY <2>1, <2>2, <2>3, <2>4
<1>13. ASSUME InitRead PROVE DisciplineInv'
  <2>1. TypeOK'
    BY <1>13 DEF TypeOK, KbBufs, InitRead, TaskAt, Labels, Boot, Critical, HandlerLabels
  <2>2. FramesInv'
    BY <1>13 DEF FramesInv, InitRead, TaskAt, Critical, HandlerLabels
  <2>3. SignalInv'
    BY <1>13 DEF SignalInv, InitRead, TaskAt
  <2>4. CursorInv'
    BY <1>13 DEF CursorInv, InitRead, TaskAt, TypeOK, KbBufs
  <2> QED BY <2>1, <2>2, <2>3, <2>4
<1>14. ASSUME Poll PROVE DisciplineInv'
  <2>1. TypeOK'
    BY <1>14 DEF TypeOK, KbBufs, Poll, TaskAt, Labels, Boot, Critical, HandlerLabels
  <2>2. FramesInv'
    BY <1>14 DEF FramesInv, Poll, TaskAt, Critical, HandlerLabels
  <2>3. SignalInv'
    BY <1>14 DEF SignalInv, Poll, TaskAt
  <2>4. CursorInv'
    BY <1>14 DEF CursorInv, Poll, TaskAt, BufferEmpty, TypeOK, KbBufs
  <2> QED BY <2>1, <2>2, <2>3, <2>4
<1>15. ASSUME DisableGlobal PROVE DisciplineInv'
  <2>1. TypeOK'
    BY <1>15 DEF TypeOK, KbBufs, DisableGlobal, TaskAt, Labels, Boot, Critical, HandlerLabels
  <2>2. FramesInv'
    BY <1>15 DEF FramesInv, DisableGlobal, TaskAt, Critical, HandlerLabels
  <2>3. SignalInv'
    BY <1>15 DEF SignalInv, DisableGlobal, TaskAt
  <2>4. CursorInv'
    BY <1>15 DEF CursorInv, DisableGlobal, TaskAt
  <2> QED BY <2>1, <2>2, <2>3, <2>4
<1>16. ASSUME Fetch PROVE DisciplineInv'
  <2>0. /\ kb_buf \in KbBufs /\ kb_buf.size = BufferSize /\ kb_buf.count > 0
        /\ kb_buf.read \in 0 .. BufferSize - 1
    BY <1>16 DEF TypeOK, CursorInv, Fetch, TaskAt
  <2>1. /\ scan_code' = kb_buf.data[kb_buf.read]
        /\ kb_buf' = [data |-> kb_buf.data, size |-> BufferSize, read |-> kb_buf.read + 1,
                       write |-> kb_buf.write, count |-> kb_buf.count]
        /\ pc' = "wrap"
    BY <1>16, <2>0 DEF Fetch, BufferEmpty, BufferFront, KbBufs
  <2>2. scan_code' \in Byte /\ kb_buf' \in KbBufs
    BY <2>0, <2>1 DEF KbBufs
  <2>3. TypeOK'
    BY <1>16, <2>1, <2>2 DEF TypeOK, Fetch, Labels, Critical
  <2>4. FramesInv'
    BY <1>16, <2>1 DEF FramesInv, Fetch, TaskAt, Critical
  <2>5. SignalInv'
    BY <1>16 DEF SignalInv, Fetch
  <2>6. CursorInv'
    BY <1>16, <2>0, <2>1 DEF CursorInv, Fetch, TaskAt
  <2> QED BY <2>3, <2>4, <2>5, <2>6
<1>17. ASSUME WrapRead PROVE DisciplineInv'
  <2> DEFINE r == Wrap(kb_buf, kb_buf.read)
  <2>0. /\ kb_buf \in KbBufs /\ kb_buf.size = BufferSize /\ kb_buf.count > 0
        /\ kb_buf.read \in 0 .. BufferSize
    BY <1>17 DEF TypeOK, CursorInv, WrapRead, TaskAt
  <2>1. r \in 0 .. BufferSize - 1
    BY <2>0 DEF Wrap
  <2>2. kb_buf' = [data |-> kb_buf.data, size |-> BufferSize, read |-> r,
                   write |-> kb_buf.write, count |-> kb_buf.count]
    BY <1>17, <2>0 DEF WrapRead, KbBufs
  <2> HIDE DEF r
  <2>3. TypeOK'
    <3>1. kb_buf' \in KbBufs
      BY <2>0, <2>1, <2>2 DEF KbBufs
    <3> QED BY <1>17, <3>1 DEF TypeOK, WrapRead, Labels, Critical
  <2>4. FramesInv'
    BY <1>17 DEF FramesInv, WrapRead, TaskAt, Critical
  <2>5. SignalInv'
    BY <1>17 DEF SignalInv, WrapRead
  <2>6. CursorInv'
    BY <1>17, <2>0, <2>1, <2>2 DEF CursorInv, WrapRead, TaskAt
  <2> QED BY <2>3, <2>4, <2>5, <2>6
<1>18. ASSUME LoadCount PROVE DisciplineInv'
  <2>1. TypeOK'
    BY <1>18 DEF TypeOK, KbBufs, LoadCount, TaskAt, Labels, Boot, Critical, HandlerLabels
  <2>2. FramesInv'
    BY <1>18 DEF FramesInv, LoadCount, TaskAt, Critical, HandlerLabels
  <2>3. SignalInv'
    BY <1>18 DEF SignalInv, LoadCount, TaskAt
  <2>4. CursorInv'
    BY <1>18 DEF CursorInv, LoadCount, TaskAt
  <2> QED BY <2>1, <2>2, <2>3, <2>4
<1>19. ASSUME StoreCount PROVE DisciplineInv'
  <2>0. /\ kb_buf \in KbBufs /\ kb_buf.size = BufferSize
        /\ reg = kb_buf.count /\ kb_buf.count > 0
    BY <1>19 DEF TypeOK, CursorInv, StoreCount, TaskAt
  <2>1. kb_buf' = [data |-> kb_buf.data, size |-> BufferSize, read |-> kb_buf.read,
                   write |-> kb_buf.write, count |-> reg - 1]
    BY <1>19, <2>0 DEF StoreCount, KbBufs
  <2>2. TypeOK'
    <3>1. kb_buf' \in KbBufs
      BY <2>0, <2>1 DEF KbBufs
    <3> QED BY <1>19, <3>1 DEF TypeOK, StoreCount, Labels, Critical
  <2>3. FramesInv'
    BY <1>19 DEF FramesInv, StoreCount, TaskAt, Critical
  <2>4. SignalInv'
    BY <1>19 DEF SignalInv, StoreCount
  <2>5. CursorInv'
    BY <1>19, <2>0, <2>1 DEF CursorInv, StoreCount, TaskAt
  <2> QED BY <2>2, <2>3, <2>4, <2>5
<1>20. ASSUME EnableAndReturn PROVE DisciplineInv'
  <2>1. TypeOK'
    BY <1>20 DEF TypeOK, KbBufs, EnableAndReturn, TaskAt, Labels, Boot, Critical, HandlerLabels
  <2>2. FramesInv'
    BY <1>20 DEF FramesInv, EnableAndReturn, TaskAt, Critical, HandlerLabels
  <2>3. SignalInv'
    BY <1>20 DEF SignalInv, EnableAndReturn, TaskAt
  <2>4. CursorInv'
    BY <1>20 DEF CursorInv, EnableAndReturn, TaskAt
  <2> QED BY <2>1, <2>2, <2>3, <2>4
<1>21. CASE UNCHANGED vars
  BY <1>21 DEF TypeOK, FramesInv, SignalInv, CursorInv, vars
<1> QED BY <1>1, <1>2, <1>3, <1>4, <1>5, <1>6, <1>7, <1>8, <1>9, <1>10, <1>11, <1>12, <1>13, <1>14, <1>15, <1>16, <1>17, <1>18, <1>19, <1>20, <1>21
     DEF Next, HandlerStep, TaskStep, BootStep, GetStep
-----------------------------------------------------------------------------
(* What a step does to the ring that get_byte_from_kbuf will leave. *)

Idle == Stored' = Stored /\ UNCHANGED <<obf, scan_code>>
Offers == /\ Stored' = Stored /\ scan_code' = scan_code
          /\ obf = NoByte /\ obf' \in Byte
Puts == /\ Stored' = BufferPut(Stored, obf) /\ scan_code' = scan_code
        /\ obf \in Byte /\ obf' = NoByte
Gets == /\ ~BufferEmpty(Stored) /\ obf' = obf
        /\ Stored' = BufferGet(Stored) /\ scan_code' = BufferFront(Stored)
Boots == /\ pc \in Boot /\ Stored.count = 0 /\ Stored'.count = 0
         /\ UNCHANGED <<obf, scan_code>>

\* The steps that leave the ring and the place of the task alone.
LEMMA StoredUnchanged ==
  ASSUME UNCHANGED <<kb_buf, pc>>
  PROVE  Stored' = Stored
BY DEF Stored

LEMMA StoredStep ==
  ASSUME ~EarlyKeys, DisciplineInv, RingInv, [Next]_vars
  PROVE  /\ Boots \/ (pc \notin Boot /\ (Idle \/ Offers \/ Puts \/ Gets))
         /\ pc' \in Boot => /\ pc \in Boot /\ obf' = NoByte
                            /\ kb_buf'.read = 0 /\ kb_buf'.write = 0 /\ kb_buf'.count = 0
                            /\ pc' = "init_read" => reg' = 0
         /\ (pc \in Boot /\ pc' \notin Boot) => RingConsistent'
<1> DEFINE Goal ==
         /\ Boots \/ (pc \notin Boot /\ (Idle \/ Offers \/ Puts \/ Gets))
         /\ pc' \in Boot => /\ pc \in Boot /\ obf' = NoByte
                            /\ kb_buf'.read = 0 /\ kb_buf'.write = 0 /\ kb_buf'.count = 0
                            /\ pc' = "init_read" => reg' = 0
         /\ (pc \in Boot /\ pc' \notin Boot) => RingConsistent'
<1> SUFFICES Goal
  OBVIOUS
<1> USE DEF ioVars, cpuVars, taskVars
<1>a. /\ kb_buf \in KbBufs
      /\ kb_buf = [data |-> kb_buf.data, size |-> kb_buf.size, read |-> kb_buf.read,
                   write |-> kb_buf.write, count |-> kb_buf.count]
  BY DEF DisciplineInv, TypeOK, KbBufs
<1>b. pc \in Boot => Stored = kb_buf /\ Stored.count = 0
  BY DEF RingInv, Stored, Boot
<1>c. ASSUME UNCHANGED <<kb_buf, pc, reg, obf, scan_code>> PROVE Goal
  <2>1. Stored' = Stored
    BY <1>c, StoredUnchanged
  <2> QED BY <1>b, <1>c, <2>1 DEF Boots, Idle, RingInv
<1>1. ASSUME NEW c \in Code, Present(c) PROVE Goal
  <2>1. Stored' = Stored
    BY <1>1, StoredUnchanged DEF Present
  <2> QED BY <1>1, <2>1 DEF Present, Offers, Byte
<1>2. CASE TimerTick
  BY <1>c, <1>2 DEF TimerTick
<1>3. ASSUME NEW n \in {TIMER, KEYBOARD}, Interrupt(n) PROVE Goal
  BY <1>c, <1>3 DEF Interrupt
<1>4. CASE Tick
  BY <1>c, <1>4 DEF Tick
<1>5. CASE KeyboardEoi
  BY <1>c, <1>5 DEF KeyboardEoi
<1>6. CASE KeyboardRead
  <2>1. frames = <<"kbd_read">>
    BY <1>6, HandlerAlone DEF KeyboardRead, DisciplineInv
  <2>2. obf # NoByte /\ pc \notin Critical /\ pc \notin Boot
    BY <2>1 DEF DisciplineInv, SignalInv, FramesInv, RingInv
  <2>3. Stored = kb_buf /\ Stored' = kb_buf'
    BY <1>6, <2>2 DEF Stored, KeyboardRead, Critical
  <2>4. obf \in Byte
    BY <2>2 DEF DisciplineInv, TypeOK
  <2> QED BY <1>6, <2>2, <2>3, <2>4 DEF Puts, KeyboardRead
<1>7. CASE EoiAndReturn
  BY <1>c, <1>7 DEF EoiAndReturn
<1>8. CASE EnableGlobal
  <2>1. kb_buf' = kb_buf /\ pc \in Boot /\ pc' = "init_count"
    BY <1>8 DEF EnableGlobal, TaskAt, Boot
  <2>2. Stored' = kb_buf
    BY <2>1 DEF Stored
  <2> QED BY <1>8, <1>b, <2>1, <2>2 DEF EnableGlobal, Boots, RingInv, Boot
<1>9. CASE InitCount
  <2>1. kb_buf' = kb_buf /\ pc \in Boot /\ pc' = "init_size"
    BY <1>9, <1>a DEF InitCount, TaskAt, Boot, RingInv
  <2>2. Stored' = kb_buf
    BY <2>1 DEF Stored
  <2> QED BY <1>9, <1>b, <2>1, <2>2 DEF InitCount, Boots, RingInv, Boot
<1>10. CASE InitSize
  <2>1. /\ kb_buf'.read = 0 /\ kb_buf'.write = 0 /\ kb_buf'.count = 0
        /\ pc \in Boot /\ pc' = "init_write"
    BY <1>10, <1>a DEF InitSize, TaskAt, Boot, RingInv
  <2>2. Stored' = kb_buf'
    BY <2>1 DEF Stored
  <2> QED BY <1>10, <1>b, <2>1, <2>2 DEF InitSize, Boots, RingInv, Boot
<1>11. CASE InitWrite
  <2>1. kb_buf' = kb_buf /\ pc \in Boot /\ pc' = "init_load"
    BY <1>11, <1>a DEF InitWrite, TaskAt, Boot, RingInv
  <2>2. Stored' = kb_buf
    BY <2>1 DEF Stored
  <2> QED BY <1>11, <1>b, <2>1, <2>2 DEF InitWrite, Boots, RingInv, Boot
<1>12. CASE InitLoad
  <2>1. kb_buf' = kb_buf /\ pc \in Boot /\ pc' = "init_read" /\ reg' = 0
    BY <1>12 DEF InitLoad, TaskAt, Boot, RingInv
  <2>2. Stored' = kb_buf
    BY <2>1 DEF Stored
  <2> QED BY <1>12, <1>b, <2>1, <2>2 DEF InitLoad, Boots, RingInv, Boot
<1>13. CASE InitRead
  <2>1. kb_buf' = kb_buf /\ pc \in Boot /\ pc' = "poll"
    BY <1>13, <1>a DEF InitRead, TaskAt, Boot, RingInv
  <2>2. Stored' = kb_buf
    BY <2>1 DEF Stored
  <2>3. WellFormed(kb_buf, Byte, BufferSize)
    <3>1. /\ kb_buf.size = BufferSize /\ kb_buf.read = 0 /\ kb_buf.write = 0
          /\ kb_buf.count = 0 /\ kb_buf.data \in [0 .. BufferSize - 1 -> Byte]
      BY <1>13, <1>a, <2>1
         DEF InitRead, TaskAt, RingInv, DisciplineInv, CursorInv, KbBufs
    <3>2. kb_buf \in Rings(Byte, BufferSize)
      BY <1>a, <3>1 DEF Rings
    <3>3. PositionsAgree(kb_buf)
      BY <3>1 DEF PositionsAgree, Slot
    <3> QED BY <3>2, <3>3 DEF WellFormed
  <2> QED BY <1>13, <1>b, <2>1, <2>2, <2>3
          DEF InitRead, Boots, RingInv, RingConsistent, Boot
<1>14. CASE Poll
  <2>1. Stored = kb_buf /\ Stored' = kb_buf /\ pc \notin Boot /\ pc' \notin Boot
    BY <1>14 DEF Poll, TaskAt, Stored, Boot
  <2> QED BY <1>14, <2>1 DEF Poll, Idle
<1>15. CASE DisableGlobal
  <2>1. Stored = kb_buf /\ Stored' = kb_buf /\ pc \notin Boot /\ pc' \notin Boot
    BY <1>15 DEF DisableGlobal, TaskAt, Stored, Boot
  <2> QED BY <1>15, <2>1 DEF DisableGlobal, Idle
<1>16. CASE Fetch
  <2>1. /\ ~BufferEmpty(kb_buf) /\ kb_buf.read \in 0 .. BufferSize
        /\ pc = "get" /\ kb_buf.count \in Nat
    BY <1>16, <1>a DEF Fetch, TaskAt, BufferEmpty, DisciplineInv, CursorInv, KbBufs
  <2>2. /\ kb_buf' = [kb_buf EXCEPT !.read = @ + 1] /\ pc' = "wrap"
        /\ scan_code' = BufferFront(kb_buf) /\ obf' = obf
    BY <1>16, <2>1 DEF Fetch
  <2>3. Stored' = [kb_buf' EXCEPT !.read = Wrap(kb_buf', kb_buf'.read),
                                  !.count = kb_buf'.count - 1]
    BY <2>2 DEF Stored
  <2>4. Stored' = [data |-> kb_buf.data, size |-> kb_buf.size,
                   read |-> Wrap(kb_buf, kb_buf.read + 1),
                   write |-> kb_buf.write, count |-> kb_buf.count - 1]
    BY <1>a, <2>2, <2>3 DEF Wrap
  <2>5. BufferGet(kb_buf) = [data |-> kb_buf.data, size |-> kb_buf.size,
                             read |-> Wrap(kb_buf, kb_buf.read + 1),
                             write |-> kb_buf.write, count |-> kb_buf.count - 1]
    BY <1>a, <2>1 DEF BufferGet
  <2>6. Stored = kb_buf
    BY <2>1 DEF Stored
  <2> QED BY <2>1, <2>2, <2>4, <2>5, <2>6 DEF Gets, Boot
<1>17. CASE WrapRead
  <2>1. /\ pc = "wrap" /\ pc' = "load"
        /\ kb_buf' = [kb_buf EXCEPT !.read = Wrap(kb_buf, kb_buf.read)]
        /\ UNCHANGED <<obf, scan_code>>
    BY <1>17 DEF WrapRead, TaskAt
  <2>2. Stored = [kb_buf EXCEPT !.read = Wrap(kb_buf, kb_buf.read),
                                !.count = kb_buf.count - 1]
    BY <2>1 DEF Stored
  <2>3. Stored' = [kb_buf' EXCEPT !.count = kb_buf'.count - 1]
    BY <2>1 DEF Stored
  <2>4. Stored' = Stored
    BY <1>a, <2>1, <2>2, <2>3
  <2> QED BY <2>1, <2>4 DEF Idle, Boot
<1>18. CASE LoadCount
  <2>1. /\ pc = "load" /\ pc' = "store" /\ kb_buf' = kb_buf
        /\ UNCHANGED <<obf, scan_code>>
    BY <1>18 DEF LoadCount, TaskAt
  <2>2. Stored' = Stored
    BY <2>1 DEF Stored
  <2> QED BY <2>1, <2>2 DEF Idle, Boot
<1>19. CASE StoreCount
  <2>1. /\ pc = "store" /\ pc' = "get_sti" /\ reg = kb_buf.count
        /\ kb_buf' = [kb_buf EXCEPT !.count = reg - 1]
        /\ UNCHANGED <<obf, scan_code>>
    BY <1>19 DEF StoreCount, TaskAt, DisciplineInv, CursorInv
  <2>2. Stored = [kb_buf EXCEPT !.count = kb_buf.count - 1] /\ Stored' = kb_buf'
    BY <2>1 DEF Stored
  <2> QED BY <2>1, <2>2 DEF Idle, Boot
<1>20. CASE EnableAndReturn
  <2>1. Stored = kb_buf /\ Stored' = kb_buf /\ pc \notin Boot /\ pc' \notin Boot
    BY <1>20 DEF EnableAndReturn, TaskAt, Stored, Boot
  <2> QED BY <1>20, <2>1 DEF EnableAndReturn, Idle
<1>21. CASE UNCHANGED vars
  BY <1>c, <1>21 DEF vars
<1> HIDE DEF Goal
<1> QED
  BY <1>1, <1>2, <1>3, <1>4, <1>5, <1>6, <1>7, <1>8, <1>9, <1>10, <1>11, <1>12,
     <1>13, <1>14, <1>15, <1>16, <1>17, <1>18, <1>19, <1>20, <1>21
     DEF Next, HandlerStep, TaskStep, BootStep, GetStep

-----------------------------------------------------------------------------
LEMMA RingInit == DisciplineInv /\ Init => RingInv
BY DEF Init, RingInv, RingConsistent, Uninitialised, Boot

LEMMA RingNext == ~EarlyKeys /\ DisciplineInv /\ RingInv /\ [Next]_vars => RingInv'
<1> SUFFICES ASSUME ~EarlyKeys, DisciplineInv, RingInv, [Next]_vars PROVE RingInv'
  OBVIOUS
<1>1. (pc' \in Boot => /\ obf' = NoByte
                       /\ kb_buf'.read = 0 /\ kb_buf'.write = 0 /\ kb_buf'.count = 0
                       /\ pc' = "init_read" => reg' = 0)
  BY StoredStep
<1>2. RingConsistent'
  <2>1. CASE pc \in Boot
    BY <2>1, StoredStep DEF RingConsistent
  <2>2. CASE pc \notin Boot
    <3>1. WellFormed(Stored, Byte, BufferSize)
      BY <2>2 DEF RingInv, RingConsistent
    <3>2. WellFormed(Stored', Byte, BufferSize)
      <4>1. CASE Idle \/ Offers
        BY <3>1, <4>1 DEF Idle, Offers
      <4>2. CASE Puts
        BY <3>1, <4>2, PutWellFormed DEF Puts
      <4>3. CASE Gets
        BY <3>1, <4>3, GetWellFormed DEF Gets
      <4> QED BY <2>2, <4>1, <4>2, <4>3, StoredStep DEF Boots
    <3> QED BY <3>2 DEF RingConsistent
  <2> QED BY <2>1, <2>2
<1> QED BY <1>1, <1>2 DEF RingInv

-----------------------------------------------------------------------------
LEMMA DisciplineCorrect == Spec => []DisciplineInv
BY DisciplineInit, DisciplineNext, PTL DEF Spec

\* The variables keep their types, whenever the keyboard begins to send.
THEOREM TypeCorrect == Spec => []TypeOK
<1>1. DisciplineInv => TypeOK
  BY DEF DisciplineInv
<1> QED BY <1>1, DisciplineCorrect, PTL

\* Handlers never nest, and none runs inside get_byte_from_kbuf's cli .. sti.
THEOREM Exclusion == Spec => []HandlersExcluded
<1>1. DisciplineInv => HandlersExcluded
  <2> SUFFICES ASSUME FramesInv PROVE HandlersExcluded
    BY DEF DisciplineInv
  <2>1. Len(frames) <= 1
    <3>1. CASE frames = <<>>
      BY <3>1
    <3>2. ASSUME NEW h \in HandlerLabels, frames = <<h>> PROVE Len(frames) <= 1
      BY <3>2, OneFrame
    <3> QED BY <3>1, <3>2 DEF FramesInv
  <2> QED BY <2>1 DEF FramesInv, HandlersExcluded
<1> QED BY <1>1, DisciplineCorrect, PTL

\* A handler leaves no line in service.
THEOREM EoiAlways == Spec => []EoiComplete
<1>1. DisciplineInv => EoiComplete
  BY DEF DisciplineInv, FramesInv, EoiComplete
<1> QED BY <1>1, DisciplineCorrect, PTL

\* A byte in the controller always has its interrupt pending or being handled.
THEOREM NoSilentByte == Spec => []ByteSignalled
<1>1. DisciplineInv => ByteSignalled
  <2> SUFFICES ASSUME DisciplineInv PROVE ByteSignalled
    OBVIOUS
  <2>1. CASE frames = <<>>
    BY <2>1 DEF DisciplineInv, SignalInv, ByteSignalled
  <2>2. ASSUME NEW h \in HandlerLabels, frames = <<h>> PROVE ByteSignalled
    <3>1. (\E i \in 1 .. Len(frames) : frames[i] \in {"kbd_eoi", "kbd_read"})
            <=> h \in {"kbd_eoi", "kbd_read"}
      BY <2>2
    <3>2. frames \in {<<"kbd_eoi">>, <<"kbd_read">>} <=> h \in {"kbd_eoi", "kbd_read"}
      BY <2>2
    <3> QED BY <3>1, <3>2 DEF DisciplineInv, SignalInv, ByteSignalled
  <2> QED BY <2>1, <2>2 DEF DisciplineInv, FramesInv
<1> QED BY <1>1, DisciplineCorrect, PTL

\* The count that was polled is still positive when the byte is fetched.
THEOREM GetAlwaysFinds == Spec => []GetFinds
<1>1. DisciplineInv => GetFinds
  BY DEF DisciplineInv, CursorInv, GetFinds
<1> QED BY <1>1, DisciplineCorrect, PTL

LEMMA RingCorrect == ASSUME ~EarlyKeys PROVE Spec => []RingInv
BY ~EarlyKeys, RingInit, RingNext, DisciplineInit, DisciplineCorrect, PTL DEF Spec

\* If no key is hit before init_keyboard is done, the positions of the ring
\* and its count agree at every instant after it.
THEOREM RingAlwaysConsistent == ASSUME ~EarlyKeys PROVE Spec => []RingConsistent
<1>1. RingInv => RingConsistent
  BY DEF RingInv
<1> QED BY <1>1, RingCorrect, PTL

\* If no key is hit before init_keyboard is done, interrupt controller,
\* handlers, ring and task together are the lossy first-in first-out queue.
THEOREM ImplementsScancodeQueue == ASSUME ~EarlyKeys PROVE Spec => ImplementsQueue
<1>1. Init => Queue!Init
  <2> SUFFICES ASSUME Init PROVE Queue!Init
    OBVIOUS
  <2>1. Stored.count = 0
    BY DEF Init, Stored, Uninitialised
  <2>2. Contents(Stored) = <<>>
    BY <2>1 DEF Contents
  <2> QED BY <2>2 DEF Init, Queue!Init
<1>2. DisciplineInv /\ RingInv /\ [Next]_vars => [Queue!Next]_(Queue!vars)
  <2> SUFFICES ASSUME DisciplineInv, RingInv, [Next]_vars
               PROVE  Queue!Next \/ UNCHANGED Queue!vars
    OBVIOUS
  <2>1. CASE Boots
    <3>1. Contents(Stored) = <<>> /\ Contents(Stored)' = <<>>
      BY <2>1 DEF Boots, Contents
    <3> QED BY <2>1, <3>1 DEF Boots, Queue!vars
  <2>2. CASE pc \notin Boot
    <3>1. WellFormed(Stored, Byte, BufferSize)
      BY <2>2 DEF RingInv, RingConsistent
    <3>2. CASE Idle
      BY <3>2 DEF Idle, Queue!vars, Contents, Slot
    <3>3. CASE Offers
      <4>1. Contents(Stored)' = Contents(Stored)
        BY <3>3 DEF Offers, Contents, Slot
      <4>2. Queue!Offer(obf')
        BY <3>3, <4>1 DEF Offers, Queue!Offer
      <4> QED BY <3>3, <4>2 DEF Offers, Queue!Next
    <3>4. CASE Puts
      <4>1. Contents(Stored)' = Contents(BufferPut(Stored, obf))
        BY <3>4 DEF Puts, Contents, Slot
      <4>2. Contents(Stored)' = IF Len(Contents(Stored)) < BufferSize
                                THEN Append(Contents(Stored), obf)
                                ELSE Contents(Stored)
        BY <3>1, <3>4, <4>1, PutAppends, ZenonT(40) DEF Puts
      <4>3. obf # NoByte
        BY <3>4 DEF Puts
      <4> QED BY <3>4, <4>2, <4>3 DEF Puts, Queue!Accept, Queue!Next
    <3>5. CASE Gets
      <4>1. Contents(Stored)' = Contents(BufferGet(Stored))
        BY <3>5 DEF Gets, Contents, Slot
      <4>2. /\ Contents(Stored) # <<>>
            /\ BufferFront(Stored) = Head(Contents(Stored))
            /\ Contents(BufferGet(Stored)) = Tail(Contents(Stored))
        BY <3>1, <3>5, GetTakes DEF Gets
      <4> QED BY <3>5, <4>1, <4>2 DEF Gets, Queue!Take, Queue!Next
    <3> QED BY <2>2, <3>2, <3>3, <3>4, <3>5, StoredStep DEF Boots
  <2> QED BY <2>1, <2>2, StoredStep
<1> QED BY <1>1, <1>2, DisciplineCorrect, RingCorrect, PTL
        DEF Spec, ImplementsQueue, Queue!Spec
=============================================================================
