-------------------------- MODULE TerminalBridge --------------------------
(***************************************************************************)
(* The bridge between the host's terminal and the tool's, run_interactive  *)
(* of crates/sandbox-guard-runner/src/terminal.rs: one loop that polls the *)
(* keyboard and the tool's terminal, an output filter that holds back      *)
(* mouse modes while the user selects text and drops sequences that act    *)
(* on the host, and the guards that restore the terminal and end the tool. *)
(*                                                                         *)
(* Output is a stream of whole control sequences and texts; one read may   *)
(* end in the middle of an item.                                           *)
(***************************************************************************)
EXTENDS Integers, Sequences

CONSTANTS
    Mode,       \* mouse reporting modes
    MaxItems,   \* bound on what the tool prints
    MaxKeys,    \* bound on what the user types
    MaxUnread,  \* capacity of the tool's terminal for input
    DrainTicks, \* turns of the loop in EXIT_DRAIN_TIMEOUT
    MaxMisfortunes  \* bound on failing calls

VARIABLES
    bridge,     \* the loop: step, exit seen for how long, terminal open
    screen,     \* the host's terminal: raw, mouse modes, items shown
    filter,     \* TerminalOutputFilter: selection, requested modes, partial
    pty,        \* the tool's terminal: output, unread input, in whose hands
    guest,      \* the child process
    typed,      \* keys the bridge has not read, and all typed so far
    printed,    \* everything the tool printed
    imports,    \* clipboard images: stored, reported
    misfortunes

bridgeVars == <<bridge, screen, filter, pty, guest, typed, printed, imports,
                misfortunes>>

\* What the tool prints: mouse modes switched; other text and commands; and
\* what is withheld, commands that act on the host (OSC 52, OSC 1337),
\* control strings, and sequences longer than the filter buffers.
Switch == [kind : {"on", "off"}, modes : (SUBSET Mode) \ {{}}]
Plain(k) == [kind |-> k, modes |-> {}]
Items == Switch \cup {Plain("text"), Plain("withheld")}
Nothing == Plain("none")

Keys == {"key", "select", "paste"}

Init ==
    /\ bridge = [at |-> "start", exit |-> 0, open |-> TRUE, why |-> "none"]
    /\ screen = [raw |-> FALSE, modes |-> {}, shown |-> <<>>]
    /\ filter = [selection |-> FALSE, requested |-> {}, partial |-> Nothing]
    /\ pty = [output |-> <<>>, unread |-> 0, held |-> FALSE]
    /\ guest = "none" /\ typed = [queue |-> <<>>, count |-> 0]
    /\ printed = <<>> /\ imports = [stored |-> 0, reported |-> 0]
    /\ misfortunes = 0

At(p) == bridge.at = p
Goto(p) == bridge' = [bridge EXCEPT !.at = p]
Misfortune == misfortunes < MaxMisfortunes /\ misfortunes' = misfortunes + 1

\* Someone still has the tool's terminal open.
SlaveOpen == guest = "running" \/ pty.held

-----------------------------------------------------------------------------
(* Start and end.                                                          *)

\* The pty is opened and the tool spawned on it; mouse_reporting_default
\* decides the filter's mode.
Spawn ==
    /\ At("start") /\ Goto("enter") /\ guest' = "running"
    /\ \E selection \in BOOLEAN : filter' = [filter EXCEPT !.selection = selection]
    /\ UNCHANGED <<screen, pty, typed, printed, imports, misfortunes>>

\* RawTerminal::enter.
Enter ==
    /\ At("enter") /\ Goto("poll")
    /\ screen' = [screen EXCEPT !.raw = TRUE, !.modes = {}]
    /\ UNCHANGED <<filter, pty, guest, typed, printed, imports, misfortunes>>

\* It fails before the child is guarded: the pty closes and hangs it up.
EnterFails ==
    /\ At("enter") /\ Misfortune
    /\ bridge' = [bridge EXCEPT !.at = "over", !.why = "failure"]
    /\ guest' = (IF guest = "running" THEN "hung up" ELSE guest)
    /\ UNCHANGED <<screen, filter, pty, typed, printed, imports>>

\* Mutant: the child outlives an error.
LeaveUnguarded(why) ==
    /\ bridge' = [bridge EXCEPT !.at = "over", !.why = why]
    /\ screen' = [screen EXCEPT !.raw = FALSE, !.modes = {}]
    /\ UNCHANGED guest

\* Return: ChildGuard kills the child unless it is disarmed, RawTerminal
\* switches the modes off and restores the attributes.
Leave(why) ==
    /\ bridge' = [bridge EXCEPT !.at = "over", !.why = why]
    /\ screen' = [screen EXCEPT !.raw = FALSE, !.modes = {}]
    /\ guest' = (IF guest = "running" THEN "killed" ELSE guest)

\* The loop ends: the status is known and the terminal closed.
Finish ==
    /\ At("poll") /\ bridge.exit > 0 /\ ~bridge.open
    /\ Leave("done")
    /\ UNCHANGED <<filter, pty, typed, printed, imports, misfortunes>>

\* A call of the loop fails: poll, a read, the screen, a resize, try_wait.
CallFails ==
    /\ bridge.at \in {"poll", "output", "wait"} /\ Misfortune
    /\ Leave("failure")
    /\ UNCHANGED <<filter, pty, typed, printed, imports>>

-----------------------------------------------------------------------------
(* The loop.                                                               *)

\* The loop's condition and its poll, which may find keys.
Polled == At("poll") /\ (bridge.exit = 0 \/ bridge.open)

NextKey(k) ==
    /\ Polled /\ typed.queue # <<>> /\ Head(typed.queue) = k
    /\ typed' = [typed EXCEPT !.queue = Tail(@)]

\* Bytes for the tool wait until its terminal has room, and fail once
\* nobody has it open.
Room == SlaveOpen /\ pty.unread < MaxUnread

\* One write to the tool's terminal.
WriteInput == Room /\ pty' = [pty EXCEPT !.unread = @ + 1]

Ordinary ==
    /\ NextKey("key") /\ WriteInput
    /\ UNCHANGED <<bridge, screen, filter, guest, printed, imports, misfortunes>>

\* Mutant: an image is pasted and not reported.
PasteUnreported ==
    /\ NextKey("paste")
    /\ \/ UNCHANGED <<pty, imports>>
       \/ WriteInput /\ imports' = [imports EXCEPT !.stored = @ + 1]
    /\ UNCHANGED <<bridge, screen, filter, guest, printed, misfortunes>>

\* handle_clipboard_paste: disabled, unavailable, or stored in the inbox,
\* its reference pasted and reported.
Paste ==
    /\ NextKey("paste")
    /\ \/ UNCHANGED <<pty, imports>>
       \/ /\ WriteInput
          /\ imports' = [stored |-> imports.stored + 1,
                         reported |-> imports.reported + 1]
    /\ UNCHANGED <<bridge, screen, filter, guest, printed, misfortunes>>

\* The tool's terminal is closed: the write is an error of the whole run; a
\* pasted image is stored all the same.
WriteFails ==
    /\ ~SlaveOpen
    /\ \/ NextKey("key") /\ UNCHANGED imports
       \/ /\ NextKey("paste")
          /\ imports' = [imports EXCEPT !.stored = @ + 1]
    /\ Leave("closed")
    /\ UNCHANGED <<filter, pty, printed, misfortunes>>

\* Mutant: restoring forgets what the tool asked for.
SelectForgets ==
    /\ NextKey("select")
    /\ filter' = [filter EXCEPT !.selection = ~@]
    /\ screen' = [screen EXCEPT !.modes = {}]
    /\ UNCHANGED <<bridge, pty, guest, printed, imports, misfortunes>>

\* toggle_selection_mode and the control it writes to the host.
Select ==
    /\ NextKey("select")
    /\ filter' = [filter EXCEPT !.selection = ~@]
    /\ screen' = [screen EXCEPT !.modes = IF filter.selection
                                            THEN filter.requested ELSE {}]
    /\ UNCHANGED <<bridge, pty, guest, printed, imports, misfortunes>>

\* Everything read is handled, or nothing was typed.
InputDone ==
    /\ Polled /\ Goto("output")
    /\ UNCHANGED <<screen, filter, pty, guest, typed, printed, imports,
                   misfortunes>>

\* filter_mouse_reporting_modes.
Requested(item) ==
    CASE item.kind = "on"  -> filter.requested \cup item.modes
      [] item.kind = "off" -> filter.requested \ item.modes
      [] OTHER             -> filter.requested

\* Mutant: everything but mouse modes passes.
PassesAll(item) == item.kind \in {"text", "withheld"}

\* What reaches the host beside mouse modes.
Passes(item) == item.kind = "text"

\* A whole item leaves the filter.
Emit(item) ==
    /\ filter' = [filter EXCEPT !.requested = Requested(item),
                                !.partial = Nothing]
    /\ screen' = [screen EXCEPT
          !.modes = IF filter.selection THEN @ ELSE
                    CASE item.kind = "on"  -> @ \cup item.modes
                      [] item.kind = "off" -> @ \ item.modes
                      [] OTHER             -> @,
          !.shown = IF Passes(item) THEN Append(@, item) ELSE @]

\* A read of the tool's terminal: the rest of an item, an item, or the
\* beginning of one, which the filter keeps.
ReadOutput ==
    /\ At("output") /\ bridge.open
    /\ \/ /\ filter.partial # Nothing
          /\ Emit(filter.partial) /\ UNCHANGED pty
       \/ /\ filter.partial = Nothing /\ pty.output # <<>>
          /\ pty' = [pty EXCEPT !.output = Tail(@)]
          /\ \/ Emit(Head(pty.output))
             \/ /\ Head(pty.output).kind # "text"
                /\ filter' = [filter EXCEPT !.partial = Head(pty.output)]
                /\ UNCHANGED screen
    /\ Goto("wait")
    /\ UNCHANGED <<guest, typed, printed, imports, misfortunes>>

\* Nothing to read yet; or nobody has the terminal open and all is read.
ReadNothing ==
    /\ At("output")
    /\ bridge' = [bridge EXCEPT !.at = "wait",
          !.open = @ /\ (SlaveOpen \/ pty.output # <<>> \/ filter.partial # Nothing)]
    /\ UNCHANGED <<screen, filter, pty, guest, typed, printed, imports,
                   misfortunes>>

\* Mutant: no drain timeout.
WaitOpen ==
    /\ At("wait")
    /\ bridge' = [bridge EXCEPT !.at = "poll",
                                !.exit = IF guest = "running" THEN 0 ELSE 1]
    /\ UNCHANGED <<screen, filter, pty, guest, typed, printed, imports,
                   misfortunes>>

\* Resize, try_wait, and the drain timeout once the exit has been seen.
Wait ==
    /\ At("wait")
    /\ LET exit == IF bridge.exit > 0 THEN bridge.exit + 1
                   ELSE IF guest = "running" THEN 0 ELSE 1
       IN bridge' = [bridge EXCEPT !.at = "poll",
                        !.exit = IF exit > DrainTicks THEN DrainTicks ELSE exit,
                        !.open = @ /\ exit < DrainTicks]
    /\ UNCHANGED <<screen, filter, pty, guest, typed, printed, imports,
                   misfortunes>>

-----------------------------------------------------------------------------
(* The tool and the user.                                                  *)

Environment ==
    \/ \E item \in Items :
          /\ guest = "running" /\ Len(printed) < MaxItems
          /\ printed' = Append(printed, item)
          /\ pty' = [pty EXCEPT !.output = Append(@, item)]
          /\ UNCHANGED <<guest, typed>>
    \/ /\ guest = "running" /\ pty.unread > 0
       /\ pty' = [pty EXCEPT !.unread = @ - 1]
       /\ UNCHANGED <<guest, typed, printed>>
    \/ /\ guest = "running" /\ guest' = "exited"
       /\ \E held \in BOOLEAN : pty' = [pty EXCEPT !.held = held]
       /\ UNCHANGED <<typed, printed>>
    \/ \E k \in Keys :
          /\ bridge.at \notin {"start", "over"} /\ typed.count < MaxKeys
          /\ typed' = [queue |-> Append(typed.queue, k), count |-> typed.count + 1]
          /\ UNCHANGED <<pty, guest, printed>>

World ==
    Environment /\ UNCHANGED <<bridge, screen, filter, imports, misfortunes>>

Loop ==
    \/ Spawn \/ Enter \/ Finish \/ Ordinary \/ Paste \/ WriteFails
    \/ Select \/ InputDone \/ ReadOutput \/ ReadNothing \/ Wait

Next == Loop \/ EnterFails \/ CallFails \/ World

Spec == Init /\ [][Next]_bridgeVars

\* The bridge's own steps are taken.
FairSpec == Spec /\ WF_bridgeVars(Loop)

-----------------------------------------------------------------------------
(* Properties.                                                             *)

\* Type correctness.
TypeOK ==
    /\ bridge.exit \in 0..DrainTicks /\ bridge.open \in BOOLEAN
    /\ screen.modes \subseteq Mode /\ filter.requested \subseteq Mode
    /\ pty.unread \in 0..MaxUnread
    /\ guest \in {"none", "running", "exited", "killed", "hung up"}

\* While the bridge runs, the host's terminal reports the mouse exactly as
\* the tool last asked, and not at all in selection mode, however requests,
\* toggles and reads that split a request interleave.
MouseFollows ==
    screen.raw =>
        screen.modes = IF filter.selection THEN {} ELSE filter.requested

\* f numbers the texts among the first n items of a sequence, in order.
NumbersTexts(f, items, n) ==
    /\ \A i, j \in DOMAIN f : i < j => f[i] < f[j]
    /\ {f[i] : i \in DOMAIN f} = {i \in 1..n : items[i].kind = "text"}

\* The host sees what the tool printed, in order, without a gap and without
\* the items that act on the host.
OutputFiltered ==
    \E n \in 0..Len(printed),
       f \in [1..Len(screen.shown) -> 1..Len(printed)] :
          /\ NumbersTexts(f, printed, n)
          /\ \A i \in DOMAIN f : screen.shown[i] = printed[f[i]]

\* However the bridge returns, the terminal is as it was, without mouse
\* reporting, and the child is not running.
TerminalRestored ==
    At("over") => ~screen.raw /\ screen.modes = {} /\ guest # "running"

\* A run that returns its status has reported every stored image; one that
\* fails without a failing call has met a key on a closed terminal.
ReturnsExplained ==
    At("over") =>
        /\ bridge.why = "done" => imports.stored = imports.reported
        /\ bridge.why = "failure" => misfortunes > 0
        /\ bridge.why = "closed" => guest = "exited" /\ typed.count > 0

\* After the child's exit the bridge returns, although a process it left
\* behind may keep the terminal open, unless such a process lets a key wait
\* for ever.
BridgeReturns ==
    (guest = "exited") ~> (At("over") \/ (pty.held /\ pty.unread = MaxUnread))

\* The bridge shows the tool's output and mouse requests as they are meant,
\* and leaves the terminal as it was, with a reason for its return.
TerminalFaithful ==
    /\ TypeOK
    /\ MouseFollows /\ OutputFiltered /\ TerminalRestored /\ ReturnsExplained

=============================================================================
