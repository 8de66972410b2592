--------------------------- MODULE DeviceControl ---------------------------
(***************************************************************************)
(* One press of the LED or the pump button on its two ways at once: the    *)
(* POST that writes the plant's row (ControlDb) and the request that sets  *)
(* the board's pin (NodeMcu), both issued by the monitoring screen         *)
(* (Monitor).  The two ways know nothing of each other: this module is     *)
(* where their orders, losses and restarts meet.                           *)
(*                                                                         *)
(* A command is also the connection that carries it to the board; Foreign  *)
(* are connections of browsers on the board's network.                     *)
(***************************************************************************)
EXTENDS Naturals, Sequences, FiniteSets

CONSTANTS
    Cmds, Foreign, NPlants, Slots, MaxVisits, MaxLoads, MaxTaps, NoCmd, NoConn,
    FaultSets       \* the environments: sets of AllFaults, one of which a behaviour has

\* "timeout": a board request ends unanswered; "reset": the board restarts;
\* "partial": a request line is cut short; "leaver": a connection closes early;
\* "post": a POST fails or gets lost; "retry": it times out and is repeated;
\* "list": a download fails;
\* "hide": the user leaves or hides the screen; "death": Android reclaims the app;
\* "blind": the user confirms a command before any plant is known; "plants": more than
\* the first plant gets registered.
WayFaults == {"timeout", "reset", "partial", "leaver", "hide", "death", "blind"}
AllFaults == WayFaults \cup {"post", "retry", "list", "plants"}

ASSUME DeviceAssumption ==
    /\ FaultSets \subseteq SUBSET AllFaults
    /\ Cmds \cap Foreign = {} /\ NoCmd \notin Cmds /\ NoConn \notin Cmds \cup Foreign
    /\ {NPlants, Slots, MaxVisits, MaxLoads, MaxTaps} \subseteq Nat
    /\ Slots # 0 /\ MaxLoads # 0

VARIABLES
    screen, visit, loads, shownLoads, registered, executor, results, plantData, plantList,
    count, changed, sel, due, panel, modelNumber, label, dialogs, held, want, issued, ran, lost
phoneVars == <<screen, visit, loads, shownLoads, registered, executor, results, plantData,
               plantList, count, changed, sel, due, panel, modelNumber, label, dialogs, held,
               want, issued, ran, lost>>

VARIABLES posted, phase, tries, wire, back, info, acked, turn, clock, executed, writer, crossed
dbVars == <<posted, phase, tries, wire, back, info, acked, turn, clock, executed, writer, crossed>>

VARIABLES pc, client, request, pins, unclaimed, st, open, rx, asked, answered
boardVars == <<pc, client, request, pins, unclaimed, st, open, rx, asked, answered>>

VARIABLES
    effects,        \* history: connections in the order in which they set a pin
    faults          \* what the environment does in this behaviour

vars == <<phoneVars, dbVars, boardVars, effects, faults>>

Conns == Cmds \cup Foreign

Phone == INSTANCE Monitor
Board == INSTANCE NodeMcu WITH None <- NoConn

\* Led_On and Led_Off write the column led, Pump_On and Pump_Off w_pump.
Column(pin) == IF pin = "led" THEN "led" ELSE "w_pump"
Value(level) == IF level = "HIGH" THEN "ON" ELSE "OFF"

\* A faulty variant of DbOrder: the "off" scripts as copies of the "on" ones.
DbOrderOn(o) == [cell |-> <<o.plant, Column(o.pin)>>, value |-> "ON"]

DbOrder(o) == [cell |-> <<o.plant, Column(o.pin)>>, value |-> Value(o.level)]

Db == INSTANCE ControlDb WITH Models <- 1..NPlants, want <- posted

\* A faulty variant of Path: the pump's paths where the LED's are meant.
PathOfPump(c) == [pin |-> "pump", level |-> want[c].level]

\* The path "/ledOn", "/ledOff", "/pumpOn" or "/pumpOff" of the request.
Path(c) == [pin |-> want[c].pin, level |-> want[c].level]

Init ==
    /\ Phone!Init /\ Db!Init /\ Board!Init
    /\ effects = <<>>
    /\ faults \in FaultSets

----------------------------------------------------------------------------
(* Faulty variants of definitions below, each with one slip. *)

\* Requests on a thread pool.
ConnectAny(c) ==
    /\ \E i \in 1..Len(executor) : executor[i] = Phone!HttpTask(c)
    /\ Board!Accept(c, Path(c))
    /\ UNCHANGED <<phoneVars, dbVars, effects, faults>>

----------------------------------------------------------------------------
(* The phone. *)

\* Steps of the screen that touch neither the network nor the process.
Screen ==
    /\ \/ Phone!Open
       \/ "hide" \in faults /\ (Phone!Stop \/ Phone!Restart \/ Phone!Leave)
       \/ Phone!DropResult \/ Phone!ApplyResult \/ Phone!Layout \/ Phone!ItemSelected
       \/ \E i \in 1..Slots : Phone!Pick(i)
       \/ \E p \in Phone!Pins : Phone!Press(p)
       \/ Phone!Cancel
       \/ \E p \in Phone!Plants : (p = 1 \/ "plants" \in faults) /\ Phone!Register(p)
    /\ UNCHANGED <<dbVars, boardVars, effects, faults>>

Download(outcome) ==
    /\ outcome = Phone!Failed => "list" \in faults
    /\ Phone!Download(outcome)
    /\ UNCHANGED <<dbVars, boardVars, effects, faults>>

Confirm(c) ==
    /\ Phone!Confirm(c)
    /\ Db!Post(c, DbOrder(want'[c]))
    /\ UNCHANGED <<boardVars, effects, faults>>

\* The process ends, in the background or by an exception: Volley goes with it.
Die ==
    /\ \/ "death" \in faults /\ Phone!Killed
       \/ "blind" \in faults /\ Phone!ConfirmBlind
    /\ IF \E c \in Cmds : phase[c] = "waiting" THEN Db!AppKilled ELSE UNCHANGED dbVars
    /\ UNCHANGED <<boardVars, effects, faults>>

\* The serial executor runs the task at its head.
Running(c) == executor # <<>> /\ Head(executor) = Phone!HttpTask(c)

\* The running task opens its connection to the board.
Connect(c) ==
    /\ Running(c)
    /\ Board!Accept(c, Path(c))
    /\ UNCHANGED <<phoneVars, dbVars, effects, faults>>

\* execute() returns when the board has closed the connection after its page, or
\* throws when the connection fails or a time-out of ten seconds has passed.
EndRequest(c) ==
    /\ c \in answered \/ "timeout" \in faults
    /\ Phone!EndHttp(c)
    /\ UNCHANGED <<dbVars, boardVars, effects, faults>>

----------------------------------------------------------------------------
(* The network, the server and the board. *)

Volley ==
    /\ \/ \E s \in wire : Db!Execute(s[1], s[2])
       \/ \E c \in Cmds, body \in Db!Bodies : Db!Hear(c, body)
       \/ "retry" \in faults /\ \E c \in Cmds : Db!Timeout(c)
       \/ /\ "post" \in faults
          /\ \/ \E c \in Cmds : Db!Fail(c)
             \/ \E s \in wire : Db!DbDown(s[1], s[2]) \/ Db!LoseRequest(s[1], s[2])
    /\ UNCHANGED <<phoneVars, boardVars, effects, faults>>

\* A browser asks for anything; the phone's tasks use Connect.
Browse(f, w) ==
    /\ Board!Accept(f, w)
    /\ UNCHANGED <<phoneVars, dbVars, effects, faults>>

Deliver(c) ==
    /\ Board!Deliver(c)
    /\ rx'[c] = "line" \/ "partial" \in faults
    /\ UNCHANGED <<phoneVars, dbVars, effects, faults>>

\* The phone's end of a connection closes when its task has ended; a browser
\* may close whenever it likes.
PeerClose(c) ==
    /\ "leaver" \in faults
    /\ ~Running(c)
    /\ Board!PeerClose(c)
    /\ UNCHANGED <<phoneVars, dbVars, effects, faults>>

Actuate ==
    /\ Board!Actuate
    /\ effects' = IF request = Board!NoSwitch THEN effects ELSE Append(effects, client)
    /\ UNCHANGED <<phoneVars, dbVars, faults>>

Loop ==
    /\ Board!ConnectWiFi \/ Board!Claim \/ Board!ReadRequest \/ Board!Reply
    /\ UNCHANGED <<phoneVars, dbVars, effects, faults>>

Reset ==
    /\ "reset" \in faults
    /\ Board!Reset
    /\ UNCHANGED <<phoneVars, dbVars, effects, faults>>

Next ==
    \/ Screen
    \/ \E outcome \in Phone!Listings(registered) \cup {Phone!Failed} : Download(outcome)
    \/ \E c \in Cmds : Confirm(c)
    \/ Die
    \/ \E c \in Cmds : Connect(c)
    \/ \E c \in Cmds : EndRequest(c)
    \/ Volley
    \/ \E f \in Foreign, w \in Board!Asks : Browse(f, w)
    \/ \E c \in Conns : Deliver(c)
    \/ \E c \in Conns : PeerClose(c)
    \/ Actuate
    \/ Loop
    \/ Reset

Spec == Init /\ [][Next]_vars

\* The board runs its loop, TCP delivers what was sent, and OkHttp runs the task at
\* the head of the executor.  Nothing is promised of browsers and the list server.
FairSpec ==
    /\ Spec
    /\ WF_vars(Loop) /\ WF_vars(Actuate)
    /\ \A c \in Cmds : WF_vars(Connect(c)) /\ WF_vars(Deliver(c)) /\ WF_vars(EndRequest(c))

----------------------------------------------------------------------------
(* Properties. *)

\* The commands of a pin or of a column that have been confirmed, and the last.
IssuedFor(p) == {i \in 1..Len(issued) : want[issued[i]].pin = p}
LastFor(p) == issued[CHOOSE i \in IssuedFor(p) : \A j \in IssuedFor(p) : j <= i]

\* The board applies the phone's commands in the order in which the user
\* confirmed them and each at most once, through time-outs after which the
\* phone goes on to its next request, half-open connections, resets of the
\* board, restarts of the app and list downloads in between.
EffectsAsConfirmed ==
    LET place(c) == CHOOSE i \in 1..Len(issued) : issued[i] = c
    IN \A i, j \in 1..Len(effects) :
          i < j /\ {effects[i], effects[j]} \subseteq Cmds => place(effects[i]) < place(effects[j])

\* No command is on its way any more.
Settled ==
    /\ executor = <<>>
    /\ wire = {} /\ \A c \in Cmds : phase[c] # "waiting"
    /\ pc = "loop" /\ unclaimed = <<>>

\* Neither the board, nor the way to it, nor the screen is disturbed.
Undisturbed == faults \cap WayFaults = {} /\ Foreign = {}

\* Without resets, browsers and failures on the way to the board, once nothing is
\* on its way each pin is where the last command for it wanted it, on whichever
\* instance of the screen and for whichever plant it was given, and whatever
\* became of the POSTs.
SettledPins ==
    Undisturbed /\ Settled => \A p \in Phone!Pins :
        pins[p] = IF IssuedFor(p) = {} THEN "LOW" ELSE want[LastFor(p)].level

\* If its POST was executed, the row of the plant that command was given for says
\* the same as the pin, unless an earlier command for that column could still run
\* when that last one was confirmed.
SettledRows ==
    Undisturbed /\ Settled => \A p \in Phone!Pins : IssuedFor(p) # {} =>
        LET last == LastFor(p)
        IN last \in executed /\ (\A d \in Cmds : <<d, last>> \notin crossed)
              => info[<<want[last].plant, Column(p)>>] = Value(pins[p])

\* The label of a button, from which the next dialog is made, turns when a command
\* is confirmed and is never read back; once nothing is on its way it still says
\* what the pin is, with failed POSTs and lists loaded in between, as long as the
\* commands came from the instance that is on the screen.
SettledLabels ==
    Undisturbed /\ Settled /\ screen # "closed" => \A p \in Phone!Pins : label[p] = pins[p]

Confirmed(c) == \E i \in 1..Len(issued) : issued[i] = c
TookEffect(c) == \E i \in 1..Len(effects) : effects[i] = c

\* While the process lives and OkHttp is not timed out, every confirmed command gets
\* its effect, unless in the end the board waits for a browser, which may stay silent
\* or leave, or the executor for a list download, which has no time-out.
EffectUnlessBlocked ==
    \A c \in Cmds :
        \/ Confirmed(c) ~> TookEffect(c)
        \/ <>[](client \in Foreign /\ Board!Silent)
        \/ <>[](executor # <<>> /\ ~Phone!IsHttp(Head(executor)))
=============================================================================
