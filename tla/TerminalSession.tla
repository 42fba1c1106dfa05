-------------------------- MODULE TerminalSession --------------------------
(***************************************************************************)
(* The three user programs behind the terminal window: the desktop         *)
(* (user/apps/desktop), the terminal (user/apps/terminal) and the VENU     *)
(* shell (user/apps/venu), joined by two channels.  A channel is the pair  *)
(* of bounded FIFOs that ChannelSpec promises and Channel.tla implements.  *)
(*                                                                         *)
(* One action is one system call with the computation that follows it.     *)
(* The terminal and the shell send through a loop that yields and retries  *)
(* while the peer's queue is full; the messages one handler sends are its  *)
(* outbox, sent in order before the program reads anything again.  The     *)
(* desktop never waits: a key that finds the queue full is dropped.        *)
(***************************************************************************)
EXTENDS Integers, Sequences, FiniteSets

CONSTANTS
    Capacity,      \* CHANNEL_QUEUE_CAPACITY
    LineCapacity,  \* TERMINAL_PROTOCOL_LINE_CAPACITY
    MaxOutput      \* the most OUTPUT and CLEAR messages one command sends

ASSUME BoundsAssumption ==
    /\ Capacity \in Nat \ {0}
    /\ LineCapacity \in Nat \ {0}
    /\ MaxOutput \in Nat

VARIABLES
    desktop_pc,       \* the next call of the desktop's event loop
    terminal_open,    \* desktop->terminal_open
    shown_input,      \* desktop->terminal_input_length
    shown_ready,      \* desktop->terminal_ready
    terminal_pc,      \* the next call of the terminal's loop
    input_length,     \* the line being typed, by its length
    shell_ready,      \* the terminal accepts keys
    terminal_outbox,  \* what the terminal has yet to send, with addressees
    venu_pc,          \* whether VENU runs
    greeted,          \* VENU has answered its first PING
    venu_outbox,      \* what VENU has yet to send to the terminal
    to_terminal, to_desktop, to_venu, from_venu  \* the four queues

desktopVars  == <<desktop_pc, terminal_open, shown_input, shown_ready>>
terminalVars == <<terminal_pc, input_length, shell_ready, terminal_outbox>>
venuVars     == <<venu_pc, greeted, venu_outbox>>
queues       == <<to_terminal, to_desktop, to_venu, from_venu>>
vars == <<desktopVars, terminalVars, venuVars, queues>>

Keys       == {"character", "backspace", "newline", "other"}
KeyMessage == [type : {"KEY"}, key : Keys]
View       == [type : {"STATE"}, length : 0..(LineCapacity - 1)]
                  \cup [type : {"READY"}, ready : BOOLEAN]
Plain(types) == [type : types]

ToTerminal == Plain({"PING"}) \cup KeyMessage
ToDesktop  == Plain({"PONG", "OUTPUT", "CLEAR"}) \cup View
ToVenu     == Plain({"PING", "LINE"})
FromVenu   == Plain({"PONG", "OUTPUT", "CLEAR", "COMPLETE"})

TypeOK ==
    /\ desktop_pc \in {"mouse", "spawn", "ping", "keyboard", "drain", "exited"}
    /\ terminal_open \in BOOLEAN
    /\ shown_input \in 0..(LineCapacity - 1)
    /\ shown_ready \in BOOLEAN
    /\ terminal_pc \in {"unborn", "start", "desktop", "shell", "exited"}
    /\ input_length \in 0..(LineCapacity - 1)
    /\ shell_ready \in BOOLEAN
    /\ terminal_outbox \in Seq([to : {"desktop"}, message : ToDesktop]
                               \cup [to : {"venu"}, message : ToVenu])
    /\ venu_pc \in {"unborn", "running"}
    /\ greeted \in BOOLEAN
    /\ venu_outbox \in Seq(FromVenu)
    /\ to_terminal \in Seq(ToTerminal) /\ Len(to_terminal) <= Capacity
    /\ to_desktop \in Seq(ToDesktop) /\ Len(to_desktop) <= Capacity
    /\ to_venu \in Seq(ToVenu) /\ Len(to_venu) <= Capacity
    /\ from_venu \in Seq(FromVenu) /\ Len(from_venu) <= Capacity

Init ==
    /\ desktop_pc = "mouse"
    /\ terminal_open = FALSE
    /\ shown_input = 0
    /\ shown_ready = FALSE
    /\ terminal_pc = "unborn"
    /\ input_length = 0
    /\ shell_ready = FALSE
    /\ terminal_outbox = <<>>
    /\ venu_pc = "unborn"
    /\ greeted = FALSE
    /\ venu_outbox = <<>>
    /\ to_terminal = <<>> /\ to_desktop = <<>>
    /\ to_venu = <<>> /\ from_venu = <<>>

Msg(type)     == [type |-> type]
Output        == Msg("OUTPUT")
State(length) == [type |-> "STATE", length |-> length]
Ready(ready)  == [type |-> "READY", ready |-> ready]

HasRoom(queue) == Len(queue) < Capacity

-----------------------------------------------------------------------------
(* The desktop: mouse, keyboard, then every message of the terminal        *)

DesktopAt(step) == desktop_pc = step
DesktopGoto(step) == desktop_pc' = step

Spawned == terminal_pc # "unborn"

\* The first click on the icon opens the window and starts the terminal,
\* later ones only open the window; the close box only closes it.
ReadMouse ==
    /\ DesktopAt("mouse")
    /\ \/ DesktopGoto("keyboard") /\ UNCHANGED terminal_open
       \/ /\ terminal_open' = ~ terminal_open
          /\ DesktopGoto(IF terminal_open' /\ ~ Spawned THEN "spawn" ELSE "keyboard")
    /\ UNCHANGED <<shown_input, shown_ready, terminalVars, venuVars, queues>>

\* krishna_channel_create and krishna_process_spawn, either of which may fail
SpawnTerminal ==
    /\ DesktopAt("spawn")
    /\ \/ terminal_pc' = "start" /\ DesktopGoto("ping")
       \/ DesktopGoto("exited") /\ UNCHANGED terminal_pc
    /\ UNCHANGED <<terminal_open, shown_input, shown_ready, input_length, shell_ready,
                   terminal_outbox, venuVars, queues>>

PingTerminal ==
    /\ DesktopAt("ping")
    /\ HasRoom(to_terminal)
    /\ to_terminal' = Append(to_terminal, Msg("PING"))
    /\ DesktopGoto("keyboard")
    /\ UNCHANGED <<terminal_open, shown_input, shown_ready, terminalVars, venuVars,
                   to_desktop, to_venu, from_venu>>

\* Escape closes the window, any other key goes to an open terminal.
ReadKeyboard ==
    /\ DesktopAt("keyboard")
    /\ \/ UNCHANGED <<terminal_open, to_terminal>>
       \/ terminal_open' = FALSE /\ UNCHANGED to_terminal
       \/ \E key \in Keys :
            /\ terminal_open /\ Spawned
            /\ to_terminal' = IF HasRoom(to_terminal)
                              THEN Append(to_terminal, [type |-> "KEY", key |-> key])
                              ELSE to_terminal
            /\ UNCHANGED terminal_open
    /\ DesktopGoto(IF Spawned THEN "drain" ELSE "mouse")
    /\ UNCHANGED <<shown_input, shown_ready, terminalVars, venuVars,
                   to_desktop, to_venu, from_venu>>

\* Mutant: nothing is received while the window is closed.
DrainOpen ==
    /\ DesktopAt("drain")
    /\ IF to_desktop = <<>> \/ ~ terminal_open
       THEN DesktopGoto("mouse") /\ UNCHANGED <<to_desktop, shown_input, shown_ready>>
       ELSE LET message == Head(to_desktop) IN
            /\ to_desktop' = Tail(to_desktop)
            /\ shown_input' = IF message.type = "STATE" THEN message.length ELSE shown_input
            /\ shown_ready' = IF message.type = "READY" THEN message.ready ELSE shown_ready
            /\ UNCHANGED desktop_pc
    /\ UNCHANGED <<terminal_open, terminalVars, venuVars, to_terminal, to_venu, from_venu>>

\* One krishna_channel_receive of the drain loop: messages are taken into
\* account while the window is closed too.
DrainTerminal ==
    /\ DesktopAt("drain")
    /\ IF to_desktop = <<>>
       THEN DesktopGoto("mouse") /\ UNCHANGED <<to_desktop, shown_input, shown_ready>>
       ELSE LET message == Head(to_desktop) IN
            /\ to_desktop' = Tail(to_desktop)
            /\ shown_input' = IF message.type = "STATE" THEN message.length ELSE shown_input
            /\ shown_ready' = IF message.type = "READY" THEN message.ready ELSE shown_ready
            /\ UNCHANGED desktop_pc
    /\ UNCHANGED <<terminal_open, terminalVars, venuVars, to_terminal, to_venu, from_venu>>

Desktop == ReadMouse \/ SpawnTerminal \/ PingTerminal \/ ReadKeyboard \/ DrainTerminal

-----------------------------------------------------------------------------
(* The terminal                                                            *)

TerminalAt(step) == terminal_pc = step /\ terminal_outbox = <<>>

Addressed(to, messages) == [i \in DOMAIN messages |-> [to |-> to, message |-> messages[i]]]

Tell(messages) == terminal_outbox' = Addressed("desktop", messages)

\* start_shell: channel, spawn and PING, or the program exits.
StartShell ==
    /\ TerminalAt("start")
    /\ \/ /\ terminal_pc' = "desktop"
          /\ venu_pc' = "running"
          /\ terminal_outbox' = Addressed("venu", <<Msg("PING")>>)
       \/ /\ terminal_pc' = "exited"
          /\ UNCHANGED <<venu_pc, terminal_outbox>>
    /\ UNCHANGED <<desktopVars, input_length, shell_ready, greeted, venu_outbox, queues>>

\* One round of send_channel: while the queue is full it yields and retries.
TerminalSend ==
    /\ terminal_outbox # <<>>
    /\ LET first == Head(terminal_outbox) IN
       \/ /\ first.to = "desktop"
          /\ HasRoom(to_desktop)
          /\ to_desktop' = Append(to_desktop, first.message)
          /\ UNCHANGED to_venu
       \/ /\ first.to = "venu"
          /\ HasRoom(to_venu)
          /\ to_venu' = Append(to_venu, first.message)
          /\ UNCHANGED to_desktop
    /\ terminal_outbox' = Tail(terminal_outbox)
    /\ UNCHANGED <<desktopVars, terminal_pc, input_length, shell_ready, venuVars,
                   to_terminal, from_venu>>

\* Mutant: the line is left in the buffer after it was submitted.
SubmitKeepLine ==
    /\ shell_ready' = FALSE
    /\ terminal_outbox' = Addressed("desktop", <<Output, Ready(FALSE)>>)
                       \o Addressed("venu", <<Msg("LINE")>>)
                       \o Addressed("desktop", <<State(0)>>)
    /\ UNCHANGED input_length

\* The newline case of handle_key
SubmitLine ==
    /\ shell_ready' = FALSE
    /\ terminal_outbox' = Addressed("desktop", <<Output, Ready(FALSE)>>)
                       \o Addressed("venu", <<Msg("LINE")>>)
                       \o Addressed("desktop", <<State(0)>>)
    /\ input_length' = 0

EditLine(length) ==
    /\ input_length' = length
    /\ Tell(<<State(length)>>)
    /\ UNCHANGED shell_ready

\* Mutant: keys are taken while a command runs.
AcceptsAlways == TRUE

AcceptsKeys == shell_ready

\* handle_key
HandleKey(key) ==
    \/ AcceptsKeys /\ key = "newline" /\ SubmitLine
    \/ AcceptsKeys /\ key = "backspace" /\ input_length # 0 /\ EditLine(input_length - 1)
    \/ /\ AcceptsKeys
       /\ key = "character"
       /\ input_length < LineCapacity - 1
       /\ EditLine(input_length + 1)
    \/ /\ \/ ~ AcceptsKeys
          \/ key = "other"
          \/ key = "backspace" /\ input_length = 0
          \/ key = "character" /\ input_length >= LineCapacity - 1
       /\ UNCHANGED <<input_length, shell_ready, terminal_outbox>>

\* handle_desktop_message
HandleDesktopMessage ==
    /\ TerminalAt("desktop")
    /\ \/ /\ to_terminal = <<>>
          /\ UNCHANGED <<to_terminal, input_length, shell_ready, terminal_outbox>>
       \/ /\ to_terminal # <<>>
          /\ to_terminal' = Tail(to_terminal)
          /\ LET message == Head(to_terminal) IN
             \/ /\ message.type = "PING"
                /\ Tell(<<Msg("PONG"), State(input_length), Ready(shell_ready)>>)
                /\ UNCHANGED <<input_length, shell_ready>>
             \/ message.type = "KEY" /\ HandleKey(message.key)
    /\ terminal_pc' = "shell"
    /\ UNCHANGED <<desktopVars, venuVars, to_desktop, to_venu, from_venu>>

Complete == shell_ready' = TRUE /\ Tell(<<Ready(TRUE)>>)

\* handle_shell_message
HandleShellMessage ==
    /\ TerminalAt("shell")
    /\ \/ /\ from_venu = <<>>
          /\ UNCHANGED <<from_venu, shell_ready, terminal_outbox>>
       \/ /\ from_venu # <<>>
          /\ from_venu' = Tail(from_venu)
          /\ LET type == Head(from_venu).type IN
             \/ type = "PONG" /\ UNCHANGED <<shell_ready, terminal_outbox>>
             \/ type \in {"CLEAR", "OUTPUT"} /\ Tell(<<Msg(type)>>) /\ UNCHANGED shell_ready
             \/ type = "COMPLETE" /\ Complete
    /\ terminal_pc' = "desktop"
    /\ UNCHANGED <<desktopVars, input_length, venuVars, to_terminal, to_desktop, to_venu>>

Terminal == StartShell \/ TerminalSend \/ HandleDesktopMessage \/ HandleShellMessage

-----------------------------------------------------------------------------
(* VENU                                                                    *)

VenuSend ==
    /\ venu_outbox # <<>>
    /\ HasRoom(from_venu)
    /\ from_venu' = Append(from_venu, Head(venu_outbox))
    /\ venu_outbox' = Tail(venu_outbox)
    /\ UNCHANGED <<desktopVars, terminalVars, venu_pc, greeted, to_terminal, to_desktop, to_venu>>

\* Two lines of welcome, each its text and a newline, shortened to MaxOutput
Greeting == [i \in 1..(IF MaxOutput < 4 THEN MaxOutput ELSE 4) |-> Output]

\* Mutant: an empty line is dropped without an answer.
AnswerSometimes(results) == IF results = <<>> THEN <<>> ELSE Append(results, Msg("COMPLETE"))

\* Mutant: the result is reported before the output.
AnswerFirst(results) == <<Msg("COMPLETE")>> \o results

\* execute_line and send_complete: whatever the command, one COMPLETE, last.
Answer(results) == Append(results, Msg("COMPLETE"))

\* One message of VENU's loop
VenuReceive ==
    /\ venu_pc = "running" /\ venu_outbox = <<>>
    /\ to_venu # <<>>
    /\ to_venu' = Tail(to_venu)
    /\ \/ /\ Head(to_venu).type = "PING"
          /\ venu_outbox' = <<Msg("PONG")>> \o (IF greeted THEN <<>> ELSE Answer(Greeting))
          /\ greeted' = TRUE
       \/ /\ Head(to_venu).type = "LINE"
          /\ \E n \in 0..MaxOutput :
               \E results \in [1..n -> Plain({"OUTPUT", "CLEAR"})] :
                   venu_outbox' = Answer(results)
          /\ UNCHANGED greeted
    /\ UNCHANGED <<desktopVars, terminalVars, venu_pc, to_terminal, to_desktop, from_venu>>

Venu == VenuSend \/ VenuReceive

Next == Desktop \/ Terminal \/ Venu

Spec == Init /\ [][Next]_vars

\* The scheduler runs every ready thread again and again.
FairSpec == Spec /\ WF_vars(Desktop) /\ WF_vars(Terminal) /\ WF_vars(Venu)

-----------------------------------------------------------------------------
(* Properties                                                              *)

Count(seq, type) == Cardinality({i \in DOMAIN seq : seq[i].type = type})

\* How many messages the terminal still has to send to VENU
Unsent == Cardinality({i \in DOMAIN terminal_outbox : terminal_outbox[i].to = "venu"})

\* One command at a time: a PING or LINE on its way to VENU and a COMPLETE on
\* its way back are together exactly one while the terminal waits, none when
\* it accepts keys.  Nothing else keeps the terminal from submitting into a
\* full queue while VENU waits for the terminal (send_channel, send_message).
OneCommandAtATime ==
    /\ TypeOK
    /\ venu_pc = "running" =>
         Unsent + Len(to_venu) + Count(venu_outbox, "COMPLETE") + Count(from_venu, "COMPLETE")
         = IF shell_ready THEN 0 ELSE 1

\* The desktop's view converges: once the terminal has sent everything and the
\* desktop has read it, the prompt and the line it shows are the terminal's.
ViewConverges ==
    terminal_pc \in {"desktop", "shell"} /\ terminal_outbox = <<>> /\ to_desktop = <<>> =>
        shown_ready = shell_ready /\ shown_input = input_length

\* There is a READY message the desktop has not yet seen.
ReadyInFlight ==
    \/ \E i \in DOMAIN to_desktop : to_desktop[i].type = "READY"
    \/ \E i \in DOMAIN terminal_outbox : terminal_outbox[i].message.type = "READY"

\* When the desktop shows the prompt again, and no READY is on its way to take
\* it back, all the output of the command has left the shell's channel.
PromptAfterOutput ==
    shown_ready /\ ~ ReadyInFlight =>
        \A type \in {"OUTPUT", "CLEAR"} : Count(venu_outbox, type) = 0 /\ Count(from_venu, type) = 0

\* Every command, whatever it prints and however full the queues, ends with the
\* prompt back on the screen (or the terminal never got its shell started).
PromptReturns ==
    (Spawned /\ ~ shown_ready) ~> (shown_ready \/ terminal_pc = "exited")

\* Nobody waits for a full queue for ever.
SendsComplete ==
    /\ (terminal_outbox # <<>>) ~> (terminal_outbox = <<>>)
    /\ (venu_outbox # <<>>) ~> (venu_outbox = <<>>)

=============================================================================
