------------------------------- MODULE Input --------------------------------
(***************************************************************************)
(* The way of a key and of a mouse movement: the reports of the USB        *)
(* drivers (modules/usb-hid), the modifiers of kernel/input/input.c, the   *)
(* event rings of kernel/input/evdev.c, and the compositor that reads them *)
(* (userspace/sbin/vcomp/src/input.c).  A handler runs in an interrupt,    *)
(* the compositor on any core; a section under the ring's lock is a step.  *)
(* The screen has one axis and the mouse two buttons; the others are       *)
(* treated alike.                                                          *)
(***************************************************************************)
EXTENDS Integers, Sequences, SequencesExt

CONSTANTS
    EvSize,          \* EVDEV_MAX_EVENTS, 512
    RepeatDelay,     \* REPEAT_DELAY, 5
    RepeatPeriod,    \* REPEAT_PERIOD, 3
    Width            \* width of the screen

ASSUME InputAssumption ==
    /\ EvSize \in Nat /\ EvSize > 1 /\ Width \in Nat \ {0}
    /\ RepeatDelay \in Nat \ {0} /\ RepeatPeriod \in Nat \ {0}

VARIABLES
    evdev,           \* evdev[d]: head, tail and events of evdev_keyboard and evdev_mouse
    stream,          \* stream[d]: what a reader of d has yet to get
    keys_down,       \* last_modifier and prev_keys of the keyboard driver
    held_count,      \* its count of reports without a change
    calls, half,     \* the calls of input_report_key to come; half of the first is done
    shift, modifier, capslock,     \* the state of input_report_key
    prev_buttons,    \* the buttons as last reported
    cursor, moving,  \* the hardware cursor, and a movement it has yet to make
    seen,            \* the state of the compositor
    pair,            \* the modifier keys of this keyboard, left and right
    pressed,         \* the keys whose last event was a press
    caps,            \* Caps Lock was pressed an odd number of times
    mishaps          \* what has happened: "dropped", "crossed", "repeated", "bumped"

keyboardVars == <<keys_down, held_count, calls, half, shift, modifier, capslock, pair, pressed, caps>>
mouseVars == <<prev_buttons, cursor, moving>>
inputVars == <<evdev, stream, keyboardVars, mouseVars, seen, mishaps>>

Devices == {"keyboard", "mouse"}
Shifts == <<"lshift", "rshift">>
Ctrls == <<"lctrl", "rctrl">>
Buttons == <<"left", "right">>
Keys == <<"caps">>
Event(t, c, v) == [type |-> t, code |-> c, value |-> v]
Syn == Event("syn", "report", 0)
Centre == Width \div 2

InputInit ==
    /\ evdev = [d \in Devices |-> [head |-> 0, tail |-> 0, events |-> [i \in 0 .. EvSize - 1 |-> Syn]]]
    /\ stream = [d \in Devices |-> <<>>]
    /\ keys_down = {} /\ held_count = 0 /\ calls = <<>> /\ half = FALSE
    /\ shift = FALSE /\ modifier = {} /\ capslock = FALSE
    /\ prev_buttons = {} /\ cursor = Centre /\ moving = 0
    /\ seen = [shift |-> FALSE, ctrl |-> FALSE, buttons |-> {}, pos |-> Centre]
    /\ pair \in {Shifts, Ctrls}
    /\ pressed = {} /\ caps = FALSE /\ mishaps = {}

-----------------------------------------------------------------------------

Pushed(r, e) ==
    LET next_head == (r.head + 1) % EvSize
    IN  [head |-> next_head,
         tail |-> IF next_head = r.tail THEN (r.tail + 1) % EvSize ELSE r.tail,
         events |-> [r.events EXCEPT ![r.head] = e]]

(* evdev_free_slots.                                                       *)
FreeSlotsFull(r) ==     \* mutant: the slot that tells full from empty is counted
    IF r.head >= r.tail THEN EvSize - (r.head - r.tail) ELSE r.tail - r.head

FreeSlots(r) ==
    IF r.head >= r.tail THEN EvSize - (r.head - r.tail) - 1 ELSE r.tail - r.head - 1

EvHolds(r) == [i \in 1 .. (r.head - r.tail) % EvSize |-> r.events[(r.tail + i - 1) % EvSize]]

(* The newest events that a ring can hold.                                 *)
Newest(s) == IF Len(s) < EvSize THEN s ELSE Tail(s)

Push(e) ==
    /\ evdev' = [evdev EXCEPT !["keyboard"] = Pushed(@, e)]
    /\ stream' = [stream EXCEPT !["keyboard"] = Newest(Append(@, e))]

-----------------------------------------------------------------------------
(* HIDKeyboard::parse_report, with the modifier and key bytes of a report  *)
(* as the set of the keys that are down.                                   *)
Calls(codes, v) == [i \in DOMAIN codes |-> [code |-> codes[i], value |-> v]]

ModifierCalls(down) ==
    LET changed == SelectSeq(pair, LAMBDA c : (c \in down) # (c \in keys_down))
    IN  [i \in DOMAIN changed |-> [code |-> changed[i], value |-> IF changed[i] \in down THEN 1 ELSE 0]]

Released(down) == Calls(SelectSeq(Keys, LAMBDA c : c \in keys_down \ down), 0)
NewlyDown(down) == Calls(SelectSeq(Keys, LAMBDA c : c \in down \ keys_down), 1)
StillDown(down) == Calls(SelectSeq(Keys, LAMBDA c : c \in down \cap keys_down), 1)

(* The count of reports; counts one period apart are not told apart.       *)
CountUp(h) == IF h = RepeatDelay + RepeatPeriod THEN RepeatDelay + 1 ELSE h + 1
RepeatsAt(h) == h >= RepeatDelay /\ (h - RepeatDelay) % RepeatPeriod = 0

KeyReport(down) ==
    LET unchanged == NewlyDown(down) = <<>> /\ StillDown(down) # <<>>
        count == IF unchanged THEN CountUp(held_count) ELSE 0
        repeated == IF unchanged /\ RepeatsAt(count) THEN StillDown(down) ELSE <<>>
    IN  /\ calls = <<>>
        /\ calls' = ModifierCalls(down) \o Released(down) \o NewlyDown(down) \o repeated
        /\ held_count' = count
        /\ keys_down' = down
        /\ caps' = (caps # ("caps" \in down \ keys_down))
        /\ mishaps' = mishaps \cup IF repeated = <<>> THEN {} ELSE {"repeated"}
        /\ UNCHANGED <<evdev, stream, half, shift, modifier, capslock, pair, pressed, mouseVars, seen>>

(* input_report_key: the event, then ...                                   *)
Lost == IF FreeSlots(evdev["keyboard"]) = 0 THEN {"dropped"} ELSE {}
Crossed == IF ToSet(pair) \subseteq pressed' THEN {"crossed"} ELSE {}
Settled == IF ToSet(pair) \cap pressed' = {} THEN {"crossed"} ELSE {}

KeyEvent ==
    /\ calls # <<>> /\ ~half
    /\ half' = TRUE
    /\ LET c == Head(calls)
       IN  /\ Push(Event("key", c.code, c.value))
           /\ pressed' = IF c.value = 1 THEN pressed \cup {c.code} ELSE pressed \ {c.code}
    /\ mishaps' = (mishaps \cup Lost \cup Crossed) \ Settled
    /\ UNCHANGED <<keys_down, held_count, calls, shift, modifier, capslock, pair, caps, mouseVars, seen>>

(* ... its end mark, and the modifiers.  A Ctrl key takes the place of the *)
(* other one.                                                              *)
Modified(c) ==
    IF c.value = 0 THEN modifier \ {c.code}
    ELSE IF c.code \in ToSet(Ctrls) THEN {c.code}
    ELSE modifier \cup {c.code}

KeyDone ==
    /\ calls # <<>> /\ half
    /\ calls' = Tail(calls) /\ half' = FALSE
    /\ Push(Syn)
    /\ LET c == Head(calls)
       IN  /\ capslock' = (capslock # (c.code = "caps" /\ c.value = 1))
           /\ shift' = IF c.code \in ToSet(Shifts) THEN c.value = 1 ELSE shift
           /\ modifier' = IF c.code \in ToSet(pair) THEN Modified(c) ELSE modifier
    /\ mishaps' = mishaps \cup Lost
    /\ UNCHANGED <<keys_down, held_count, pair, pressed, caps, mouseVars, seen>>

-----------------------------------------------------------------------------
(* HIDMouse::parse_report and evdev_report_mouse: a packet goes into the   *)
(* ring whole, or not at all.                                              *)
Packet(x, buttons) ==
    LET changed == SelectSeq(Buttons, LAMBDA b : (b \in buttons) # (b \in prev_buttons))
    IN  (IF x = 0 THEN <<>> ELSE <<Event("rel", "x", x)>>)
            \o [i \in DOMAIN changed |-> Event("key", changed[i], IF changed[i] \in buttons THEN 1 ELSE 0)]
            \o <<Syn>>

MouseReport(x, buttons) ==
    LET packet == Packet(x, buttons)
    IN  /\ moving = 0
        /\ FreeSlots(evdev["mouse"]) >= Len(packet)
        /\ evdev' = [evdev EXCEPT !["mouse"] = FoldLeft(Pushed, @, packet)]
        /\ stream' = [stream EXCEPT !["mouse"] = @ \o packet]
        /\ prev_buttons' = buttons
        /\ moving' = x
        /\ UNCHANGED <<cursor, keyboardVars, seen, mishaps>>

(* The rest of input_report_mouse: the hardware cursor follows.            *)
Clamp(x, high) == IF x < 0 THEN 0 ELSE IF x > high THEN high ELSE x

MoveCursor ==
    /\ moving # 0
    /\ cursor' = Clamp(cursor + moving, Width)
    /\ mishaps' = (mishaps \cup IF cursor' = Width THEN {"bumped"} ELSE {})
                      \ IF cursor' = 0 THEN {"bumped"} ELSE {}
    /\ moving' = 0
    /\ UNCHANGED <<evdev, stream, prev_buttons, keyboardVars, seen>>

-----------------------------------------------------------------------------
(* read_ev_event of the compositor: its state s after the event e.         *)
Sees(s, e) ==
    CASE e.type = "rel" -> [s EXCEPT !.pos = Clamp(@ + e.value, Width - 1)]
      [] e.type = "key" /\ e.code \in ToSet(Shifts) -> [s EXCEPT !.shift = e.value = 1]
      [] e.type = "key" /\ e.code \in ToSet(Ctrls) -> [s EXCEPT !.ctrl = e.value = 1]
      [] e.type = "key" /\ e.code \in ToSet(Buttons) ->
             [s EXCEPT !.buttons = IF e.value = 1 THEN @ \cup {e.code} ELSE @ \ {e.code}]
      [] OTHER -> s

(* proces_event, one round of its loop, with evdev_read.                   *)
ReadEvent(d) ==
    LET r == evdev[d]
    IN  /\ r.head # r.tail
        /\ seen' = Sees(seen, r.events[r.tail])
        /\ evdev' = [evdev EXCEPT ![d].tail = (@ + 1) % EvSize]
        /\ stream' = [stream EXCEPT ![d] = Tail(@)]
        /\ UNCHANGED <<keyboardVars, mouseVars, mishaps>>

KeyboardNext ==
    \/ \E down \in SUBSET (ToSet(Keys) \cup ToSet(pair)) : KeyReport(down)
    \/ KeyEvent
    \/ KeyDone
    \/ ReadEvent("keyboard")

(* Bound: packets that an empty ring can take.                             *)
MouseNext ==
    \/ \E x \in {-1, 0, 1}, buttons \in SUBSET ToSet(Buttons) :
           Len(Packet(x, buttons)) < EvSize /\ MouseReport(x, buttons)
    \/ MoveCursor
    \/ ReadEvent("mouse")

-----------------------------------------------------------------------------
InputTypeOK ==
    /\ \A d \in Devices : evdev[d].head \in 0 .. EvSize - 1 /\ evdev[d].tail \in 0 .. EvSize - 1
    /\ held_count \in 0 .. RepeatDelay + RepeatPeriod
    /\ cursor \in 0 .. Width /\ seen.pos \in 0 .. Width - 1
    /\ keys_down \cup pressed \cup modifier \subseteq ToSet(Keys) \cup ToSet(pair)
    /\ mishaps \subseteq {"dropped", "crossed", "repeated", "bumped"}

(* The compositor once it has read what is in the ring.                    *)
CaughtUp(d) == FoldLeft(Sees, seen, EvHolds(evdev[d]))

(* evdev_read hands out the newest events in the order of the reports, and *)
(* parse_report turns any sequence of reports into one press and one       *)
(* release per key (modulo repeats): between reports the last event of a   *)
(* key says whether it is down.  input.c and the compositor agree on Shift *)
(* and, unless both keys of the pair were down since the last time both    *)
(* were up, on Ctrl, and then both are right; only an event the full ring  *)
(* dropped may part them.  Caps Lock follows its presses until it is held  *)
(* long enough to repeat.                                                  *)
KeysInStep ==
    /\ EvHolds(evdev["keyboard"]) = stream["keyboard"]
    /\ calls = <<>> => pressed = keys_down
    /\ ~half /\ "dropped" \notin mishaps => CaughtUp("keyboard").shift = shift
    /\ ~half /\ mishaps \cap {"dropped", "crossed"} = {} =>
           CaughtUp("keyboard").ctrl = (modifier \cap ToSet(Ctrls) # {})
    /\ ~half /\ "crossed" \notin mishaps =>
           /\ modifier = pressed \cap ToSet(pair)
           /\ shift = (pressed \cap ToSet(Shifts) # {})
    /\ calls = <<>> /\ "repeated" \notin mishaps => capslock = caps

(* A mouse packet is never torn or overwritten (evdev_report_mouse), the   *)
(* compositor sees the buttons as they were last taken in, whatever was    *)
(* dropped between, and the hardware cursor keeps to its position          *)
(* (input_report_mouse): it is one pixel off at most, and only from the    *)
(* right edge, where the clamps differ by one, back to the left one.       *)
MouseInStep ==
    LET pointer == CaughtUp("mouse")
        hardware == Clamp(cursor + moving, Width)
    IN  /\ EvHolds(evdev["mouse"]) = stream["mouse"]
        /\ pointer.buttons = prev_buttons
        /\ hardware - pointer.pos \in {0, 1}
        /\ "bumped" \notin mishaps /\ hardware < Width => hardware = pointer.pos
=============================================================================
