-------------------------------- MODULE Ps2 --------------------------------
(***************************************************************************)
(* Keyboard and mouse behind one PS/2 controller (drivers/keyboard.c,      *)
(* drivers/mouse.c, object/input.c), polled in turn by the desktop.  The   *)
(* controller queues the bytes of both devices, and the driver whose byte  *)
(* is not at the head gets nothing.  A byte of the mouse that finds the    *)
(* queue full is lost; a key is typed only when the queue has room, so no  *)
(* byte of the keyboard is lost here.  Pause, the one key whose codes      *)
(* begin with E1, is left out: keyboard.c knows the prefix E0 only.        *)
(*                                                                         *)
(* A byte is a number; what else the records of the queue say about it is  *)
(* known to its device and not looked at by the drivers.                   *)
(***************************************************************************)
EXTENDS Integers, Sequences

CONSTANTS
    PortCapacity, \* the bytes the controller can hold
    Movements,    \* what the mouse reports [left, dx, dy, overflow]
    ScanCodes     \* the scan codes of ordinary keys

LeftShift == 42
RightShift == 54
ExtendedPrefix == 224

ASSUME ConstantsAssumption ==
    /\ PortCapacity \in Nat \ {0}
    /\ \A m \in Movements : m.dx \in -256..255 /\ m.dy \in -256..255 /\ {m.left, m.overflow} \subseteq BOOLEAN
    /\ ScanCodes \subseteq 1..127 \ {LeftShift, RightShift, ExtendedPrefix % 128}

VARIABLES
    port,      \* the bytes waiting in the controller
    rest,      \* the bytes of a packet the mouse has yet to send
    held,      \* the shift keys held down
    follows,   \* whether the keyboard has sent a prefix and not the code after it
    packet,    \* packet, of packet_index bytes
    shift,     \* left_shift_pressed and right_shift_pressed
    extended,  \* extended_prefix_received
    turn,      \* the device the desktop reads next
    event      \* the event the last step delivered to the desktop, or that it delivered none

deviceVars == <<rest, held, follows>>
inputVars == <<port, deviceVars, packet, shift, extended, turn, event>>

Nothing == [device |-> "none"]

InputInit ==
    /\ port = <<>>
    /\ rest = <<>>
    /\ held = {}
    /\ follows = FALSE
    /\ packet = <<>>
    /\ shift = {}
    /\ extended = FALSE
    /\ turn = "mouse"
    /\ event = Nothing

\* n & mask is not zero, for a mask of one bit.
Has(n, mask) == (n \div mask) % 2 = 1

-----------------------------------------------------------------------------
(* The devices.                                                             *)

MouseByte(value, part, of) == [device |-> "mouse", value |-> value, part |-> part, of |-> of]

Flag(condition, value) == IF condition THEN value ELSE 0

\* The three bytes of a report.  Positive dy is upward.
Packet(m) ==
    << MouseByte(8 + Flag(m.left, 1) + Flag(m.dx < 0, 16) + Flag(m.dy < 0, 32) + Flag(m.overflow, 64), 1, m),
       MouseByte(m.dx % 256, 2, m),
       MouseByte(m.dy % 256, 3, m) >>

KeyByte(value, kind) ==
    [device |-> "keyboard", value |-> value, kind |-> kind, shifted |-> held # {}]

\* No driver runs in the step.
Driverless == event' = Nothing /\ UNCHANGED <<packet, shift, extended, turn>>

\* A byte comes into the controller.
Arrive(b) == Len(port) < PortCapacity /\ port' = Append(port, b)

MouseMoves(m) ==
    /\ rest = <<>>
    /\ rest' = Packet(m)
    /\ Driverless
    /\ UNCHANGED <<port, held, follows>>

MouseSends ==
    /\ rest # <<>>
    /\ Arrive(Head(rest))
    /\ rest' = Tail(rest)
    /\ Driverless
    /\ UNCHANGED <<held, follows>>

\* The queue is full.
ByteLost ==
    /\ rest # <<>>
    /\ Len(port) = PortCapacity
    /\ rest' = Tail(rest)
    /\ Driverless
    /\ UNCHANGED <<port, held, follows>>

Typed == Driverless /\ UNCHANGED rest

\* An ordinary key or, after a prefix, any code, pressed or released.
KeyTyped(k, pressed) ==
    /\ Arrive(KeyByte(k + Flag(~ pressed, 128), IF follows THEN "extended" ELSE "key"))
    /\ follows' = FALSE
    /\ UNCHANGED held
    /\ Typed

\* A shift key, or the pretended one after a prefix
ShiftTyped(k, pressed) ==
    /\ Arrive(KeyByte(k + Flag(~ pressed, 128), IF follows THEN "extended" ELSE "shift"))
    /\ held' = IF follows THEN held ELSE IF pressed THEN held \cup {k} ELSE held \ {k}
    /\ follows' = FALSE
    /\ Typed

PrefixTyped ==
    /\ ~ follows
    /\ Arrive(KeyByte(ExtendedPrefix, "prefix"))
    /\ follows' = TRUE
    /\ UNCHANGED held
    /\ Typed

-----------------------------------------------------------------------------
(* The drivers.  A poll that does not find a byte of its own device at the  *)
(* head of the queue leaves everything as it is.                            *)

Mine(device) == port # <<>> /\ Head(port).device = device

\* Mutant: a byte that cannot begin a packet begins one.
AcceptsAny(b) == TRUE

\* Whether the byte may be the first of a packet
Accepts(b) == packet # <<>> \/ Has(b.value, 8)

\* Mutant: the second data byte takes the sign of the first.
DecodeOneSign(p) ==
    LET Signed(n, sign) == IF Has(p[1].value, sign) THEN n - 256 ELSE n
        ignored == Has(p[1].value, 64) \/ Has(p[1].value, 128)
    IN  [device |-> "mouse",
         left |-> Has(p[1].value, 1),
         delta_x |-> IF ignored THEN 0 ELSE Signed(p[2].value, 16),
         delta_y |-> IF ignored THEN 0 ELSE - Signed(p[3].value, 16)]

\* The event of three bytes, of which only the numbers are looked at.
Decode(p) ==
    LET Signed(n, sign) == IF Has(p[1].value, sign) THEN n - 256 ELSE n
        ignored == Has(p[1].value, 64) \/ Has(p[1].value, 128)
    IN  [device |-> "mouse",
         left |-> Has(p[1].value, 1),
         delta_x |-> IF ignored THEN 0 ELSE Signed(p[2].value, 16),
         delta_y |-> IF ignored THEN 0 ELSE - Signed(p[3].value, 32)]

\* mouse_poll
MousePoll ==
    /\ port' = Tail(port)
    /\ \/ /\ ~ Accepts(Head(port))
          /\ event' = Nothing
          /\ UNCHANGED packet
       \/ /\ Accepts(Head(port))
          /\ Len(packet) < 2
          /\ packet' = Append(packet, Head(port))
          /\ event' = Nothing
       \/ /\ Accepts(Head(port))
          /\ Len(packet) = 2
          /\ packet' = <<>>
          /\ event' = Decode(Append(packet, Head(port)))
    /\ UNCHANGED <<shift, extended>>

\* Mutant: releasing either shift key ends both.
ShiftAfterEither(code, pressed) == IF pressed THEN shift \cup {code} ELSE {}

\* The shift keys held once this one is pressed or released.
ShiftAfter(code, pressed) == IF pressed THEN shift \cup {code} ELSE shift \ {code}

\* keyboard_poll
KeyboardPoll ==
    LET value == Head(port).value
        pressed == ~ Has(value, 128)
        code == value % 128
    IN  /\ port' = Tail(port)
        /\ \/ /\ value = ExtendedPrefix
              /\ extended' = TRUE
              /\ event' = Nothing
              /\ UNCHANGED shift
           \/ /\ value # ExtendedPrefix /\ extended
              /\ extended' = FALSE
              /\ event' = Nothing
              /\ UNCHANGED shift
           \/ /\ value # ExtendedPrefix /\ ~ extended /\ code \in {LeftShift, RightShift}
              /\ shift' = ShiftAfter(code, pressed)
              /\ event' = Nothing
              /\ UNCHANGED extended
           \/ /\ value # ExtendedPrefix /\ ~ extended /\ code \notin {LeftShift, RightShift}
              /\ event' = [device |-> "keyboard", scancode |-> code, pressed |-> pressed, shifted |-> shift # {}]
              /\ UNCHANGED <<shift, extended>>
        /\ UNCHANGED packet

NoByte == event' = Nothing /\ UNCHANGED <<port, packet, shift, extended>>

\* Mutant: what waits in front of a byte is not skipped.
PollMouseQuietly ==
    /\ turn = "mouse"
    /\ turn' = "keyboard"
    /\ IF Mine("mouse") /\ Accepts(Head(port)) THEN MousePoll ELSE NoByte
    /\ UNCHANGED deviceVars

\* The desktop reads one mouse event: mouse_object_read polls once.
PollMouse ==
    /\ turn = "mouse"
    /\ turn' = "keyboard"
    /\ IF Mine("mouse") THEN MousePoll ELSE NoByte
    /\ UNCHANGED deviceVars

\* It reads one key event: keyboard_object_read polls once.
PollKeyboard ==
    /\ turn = "keyboard"
    /\ turn' = "mouse"
    /\ IF Mine("keyboard") THEN KeyboardPoll ELSE NoByte
    /\ UNCHANGED deviceVars

Polls == PollMouse \/ PollKeyboard

InputNext ==
    \/ Polls
    \/ \E m \in Movements : MouseMoves(m)
    \/ MouseSends \/ ByteLost
    \/ \E pressed \in BOOLEAN :
        \/ \E k \in ScanCodes : KeyTyped(k, pressed)
        \/ \E k \in {LeftShift, RightShift} : ShiftTyped(k, pressed)
    \/ PrefixTyped

\* The desktop's loop goes on, and a report once begun is sent or lost.
InputSpec == InputInit /\ [][InputNext]_inputVars /\ WF_inputVars(Polls) /\ WF_inputVars(MouseSends \/ ByteLost)

-----------------------------------------------------------------------------
IsMouse(b) == b.device = "mouse"

\* b comes after a in what a mouse sends.
Continues(a, b) == b.part = (a.part % 3) + 1 /\ (b.part # 1 => b.of = a.of)

\* The mouse's bytes of s are those of whole reports.
Whole(s) ==
    LET mouse == {i \in DOMAIN s : IsMouse(s[i])} IN
    \A i \in mouse :
        /\ (\A j \in mouse : i <= j) => s[i].part = 1
        /\ (\A j \in mouse : j <= i) => s[i].part = 3
        /\ \A j \in mouse : i < j /\ (\A k \in mouse : k <= i \/ j <= k) => Continues(s[i], s[j])

\* The driver's packets begin where the mouse's do, from those of its bytes that
\* the driver has to those still to come.
InStep == Whole(packet \o port \o rest)

\* The byte at the head of the queue has been read by its driver.
Taken(device) == port # <<>> /\ Head(port).device = device /\ port' = Tail(port)

Reports(m) ==
    [device |-> "mouse", left |-> m.left,
     delta_x |-> IF m.overflow THEN 0 ELSE m.dx,
     delta_y |-> IF m.overflow THEN 0 ELSE - m.dy]

\* In step, the driver stays in step until a byte is lost, and every event it
\* delivers is what the mouse reported: signs, overflow and the turned axis, once.
PacketsFaithful ==
    [][InStep =>
        /\ InStep' \/ ByteLost
        /\ Taken("mouse") =>
            event' = IF Head(port).part = 3 THEN Reports(Head(port).of) ELSE Nothing]_inputVars

CannotBegin(b) == b.part = 1 \/ ~ Has(b.value, 8)

\* Out of step, the driver finds the beginning of a packet again, if no more bytes
\* are lost and the mouse keeps moving, in the end so that no byte after the first
\* can be taken for a first one.  (With others it may stay out of step for ever.)
Resynchronises ==
    /\ <>[][~ ByteLost]_inputVars
    /\ []<>(rest # <<>>)
    /\ <>[](\A i \in DOMAIN rest : CannotBegin(rest[i]))
    => []<>InStep

\* A key is delivered, once, with the shift state in which it was typed, whatever
\* prefixes, pretended shifts and mouse bytes come in between; nothing else is.
KeysFaithful ==
    [][Taken("keyboard") =>
        event' = IF Head(port).kind = "key"
                 THEN [device |-> "keyboard", scancode |-> Head(port).value % 128,
                       pressed |-> Head(port).value < 128, shifted |-> Head(port).shifted]
                 ELSE Nothing]_inputVars

Waits(device) == \E i \in DOMAIN port : port[i].device = device

\* Neither device blocks the other for good: while its bytes keep coming, they are read.
BytesAreRead ==
    \A device \in {"mouse", "keyboard"} : []<>Waits(device) => []<><<Taken(device)>>_inputVars
=============================================================================
