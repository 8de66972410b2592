----------------------------- MODULE ControlDb -----------------------------
(***************************************************************************)
(* How a confirmed LED or pump command of the app reaches the plant's row  *)
(* in the table INFO: a Volley POST (Led_On, Led_Off, Pump_On, Pump_Off)   *)
(* that the server executes with php/led_on.php, led_off.php, pump_on.php  *)
(* and pump_off.php.                                                       *)
(*                                                                         *)
(* MonitorActivity makes a request queue of its own for every command, so  *)
(* nothing orders two requests.  Volley sends a request again when no      *)
(* answer came in time, so nothing makes it execute once, and a request it *)
(* has given up on may still be executed.  Each command is issued once;    *)
(* the names of models and the text of answers are abstracted.             *)
(***************************************************************************)
EXTENDS Naturals, Sequences

CONSTANTS
    Cmds,           \* the commands that may ever be confirmed
    Models,         \* the model numbers that have a row
    NoCmd

ASSUME NoCmdAssumption == NoCmd \notin Cmds

VARIABLES
    want,           \* what each issued command asks for
    phase,          \* the Volley request of each command
    tries,          \* how often it has been sent
    wire,           \* sendings <<c, k>> the server has not executed yet
    back,           \* answers on their way to the app
    info,           \* the columns led and w_pump of INFO
    acked,          \* commands whose listener reached its "success" log
    turn,           \* history: the place of a command among the confirmed ones
    clock,          \* history: how many have been confirmed
    executed,       \* history: commands whose UPDATE has run
    writer,         \* history: the command that wrote each column last
    crossed         \* history: pairs <<d, c>>: when c was confirmed, the earlier
                    \* d for the same column could still run

vars == <<want, phase, tries, wire, back, info, acked, turn, clock, executed, writer, crossed>>

Columns == {"led", "w_pump"}
Values  == {"ON", "OFF"}
Cells   == Models \X Columns
Orders  == [cell : Cells, value : Values]
NoOrder == [cell |-> <<>>, value |-> "none"]

\* DefaultRetryPolicy: one retry, after the first time-out.
MaxTries == 2

\* The body of an answer: a JSON object with "success", or what is no JSON object.
\* The script encodes $response, which it never sets, and so sends the word null
\* after its UPDATE; without the database it sends an error text.
Bodies == {"noise", "success"}
ExecutedBody == "noise"

TypeOK ==
    /\ want \in [Cmds -> Orders \cup {NoOrder}]
    /\ phase \in [Cmds -> {"idle", "waiting", "heard", "failed"}]
    /\ \A c \in Cmds : phase[c] # "idle" => want[c] \in Orders
    /\ tries \in [Cmds -> 0..MaxTries]
    /\ wire \subseteq Cmds \X (1..MaxTries)
    /\ back \subseteq [cmd : Cmds, try : 1..MaxTries, body : Bodies]
    /\ info \in [Cells -> Values]
    /\ acked \subseteq Cmds
    /\ turn \in [Cmds -> Nat]
    /\ clock \in Nat
    /\ executed \subseteq Cmds
    /\ writer \in [Cells -> Cmds \cup {NoCmd}]
    /\ crossed \subseteq Cmds \X Cmds

\* AnyFarm_Register inserts a plant with both columns "OFF".
Init ==
    /\ want = [c \in Cmds |-> NoOrder]
    /\ phase = [c \in Cmds |-> "idle"]
    /\ tries = [c \in Cmds |-> 0]
    /\ wire = {}
    /\ back = {}
    /\ info = [cell \in Cells |-> "OFF"]
    /\ acked = {}
    /\ turn = [c \in Cmds |-> 0]
    /\ clock = 0
    /\ executed = {}
    /\ writer = [cell \in Cells |-> NoCmd]
    /\ crossed = {}

\* A sending that times out, fails or is answered takes its socket with it: an
\* answer reaches the app only while its own sending is waited for.
Unanswered(c) == {b \in back : b.cmd # c}
Answered(c, k, body) ==
    IF phase[c] = "waiting" /\ tries[c] = k
    THEN back \cup {[cmd |-> c, try |-> k, body |-> body]} ELSE back

\* A command that is on the wire, or that a time-out may put there again.
Loose(c) == phase[c] = "waiting" \/ \E k \in 1..MaxTries : <<c, k>> \in wire

\* The columns for which some command was confirmed too early.
CrossedCells == {want[pair[2]].cell : pair \in crossed}

----------------------------------------------------------------------------
(* Faulty variants of definitions below, each with one slip; the properties *)
(* at the end are checked to notice them.                                   *)

\* An UPDATE with one condition more, that the column is 'OFF'.
ExecuteIfOff(c, k) ==
    /\ <<c, k>> \in wire
    /\ wire' = wire \ {<<c, k>>}
    /\ IF info[want[c].cell] = "OFF"
       THEN /\ info' = [info EXCEPT ![want[c].cell] = want[c].value]
            /\ writer' = [writer EXCEPT ![want[c].cell] = c]
       ELSE UNCHANGED <<info, writer>>
    /\ executed' = executed \cup {c}
    /\ back' = Answered(c, k, ExecutedBody)
    /\ UNCHANGED <<want, phase, tries, acked, turn, clock, crossed>>

\* The timer of a request that the answer does not cancel.
TimeoutNotCancelled(c) ==
    /\ phase[c] \in {"waiting", "heard"}
    /\ IF tries[c] < MaxTries
       THEN /\ tries' = [tries EXCEPT ![c] = @ + 1]
            /\ wire' = wire \cup {<<c, tries[c] + 1>>}
            /\ UNCHANGED phase
       ELSE /\ phase' = [phase EXCEPT ![c] = "failed"]
            /\ UNCHANGED <<tries, wire>>
    /\ back' = Unanswered(c)
    /\ UNCHANGED <<want, info, acked, turn, clock, executed, writer, crossed>>

----------------------------------------------------------------------------
(* The app and Volley. *)

\* The positive button of the dialog: new Led_On(...), newRequestQueue, add.
Post(c, w) ==
    /\ phase[c] = "idle"
    /\ want' = [want EXCEPT ![c] = w]
    /\ phase' = [phase EXCEPT ![c] = "waiting"]
    /\ tries' = [tries EXCEPT ![c] = 1]
    /\ wire' = wire \cup {<<c, 1>>}
    /\ clock' = clock + 1
    /\ turn' = [turn EXCEPT ![c] = clock']
    /\ crossed' = crossed \cup {<<d, c>> : d \in {e \in Cmds : Loose(e) /\ want[e].cell = w.cell}}
    /\ UNCHANGED <<back, info, acked, executed, writer>>

\* No answer in time: the same request once more, then the null error listener.
Timeout(c) ==
    /\ phase[c] = "waiting"
    /\ IF tries[c] < MaxTries
       THEN /\ tries' = [tries EXCEPT ![c] = @ + 1]
            /\ wire' = wire \cup {<<c, tries[c] + 1>>}
            /\ UNCHANGED phase
       ELSE /\ phase' = [phase EXCEPT ![c] = "failed"]
            /\ UNCHANGED <<tries, wire>>
    /\ back' = Unanswered(c)
    /\ UNCHANGED <<want, info, acked, turn, clock, executed, writer, crossed>>

\* No connection, or an HTTP error: Volley gives up at once and tells nobody.
Fail(c) ==
    /\ phase[c] = "waiting"
    /\ phase' = [phase EXCEPT ![c] = "failed"]
    /\ back' = Unanswered(c)
    /\ UNCHANGED <<want, tries, wire, info, acked, turn, clock, executed, writer, crossed>>

\* onResponse(): only a JSON object with the field "success" gets to the log.
Hear(c, body) ==
    /\ phase[c] = "waiting"
    /\ [cmd |-> c, try |-> tries[c], body |-> body] \in back
    /\ back' = Unanswered(c)
    /\ phase' = [phase EXCEPT ![c] = "heard"]
    /\ acked' = IF body = "success" THEN acked \cup {c} ELSE acked
    /\ UNCHANGED <<want, tries, wire, info, turn, clock, executed, writer, crossed>>

\* The process dies with its requests; what it has sent stays sent.
AppKilled ==
    /\ \E c \in Cmds : phase[c] = "waiting"
    /\ phase' = [c \in Cmds |-> IF phase[c] = "waiting" THEN "failed" ELSE phase[c]]
    /\ back' = {}
    /\ UNCHANGED <<want, tries, wire, info, acked, turn, clock, executed, writer, crossed>>

----------------------------------------------------------------------------
(* The server and the network. *)

\* The UPDATE of one script, and its answer.
Execute(c, k) ==
    /\ <<c, k>> \in wire
    /\ wire' = wire \ {<<c, k>>}
    /\ info' = [info EXCEPT ![want[c].cell] = want[c].value]
    /\ writer' = [writer EXCEPT ![want[c].cell] = c]
    /\ executed' = executed \cup {c}
    /\ back' = Answered(c, k, ExecutedBody)
    /\ UNCHANGED <<want, phase, tries, acked, turn, clock, crossed>>

\* mysqli_connect failed and the script answers with the error and exits, or the
\* UPDATE failed and it answers as if it had not.
DbDown(c, k) ==
    /\ <<c, k>> \in wire
    /\ wire' = wire \ {<<c, k>>}
    /\ back' = Answered(c, k, "noise")
    /\ UNCHANGED <<want, phase, tries, info, acked, turn, clock, executed, writer, crossed>>

LoseRequest(c, k) ==
    /\ <<c, k>> \in wire
    /\ wire' = wire \ {<<c, k>>}
    /\ UNCHANGED <<want, phase, tries, back, info, acked, turn, clock, executed, writer, crossed>>

Next ==
    \/ \E c \in Cmds, w \in Orders : Post(c, w)
    \/ \E c \in Cmds : Timeout(c)
    \/ \E c \in Cmds : Fail(c)
    \/ \E c \in Cmds, body \in Bodies : Hear(c, body)
    \/ AppKilled
    \/ \E s \in wire : Execute(s[1], s[2])
    \/ \E s \in wire : DbDown(s[1], s[2])
    \/ \E s \in wire : LoseRequest(s[1], s[2])

Spec == Init /\ [][Next]_vars

----------------------------------------------------------------------------
(* Properties. *)

\* Every request on the network is a sending of an issued command, every answer
\* is to the sending its command waits for, and no sending is both answered and
\* still to be executed.
SendingsExact ==
    /\ \A s \in wire : phase[s[1]] # "idle" /\ s[2] <= tries[s[1]]
    /\ \A b \in back : /\ phase[b.cmd] = "waiting"
                       /\ b.try = tries[b.cmd]
                       /\ <<b.cmd, b.try>> \notin wire

IssuedFor(cell) == {c \in Cmds : phase[c] # "idle" /\ want[c].cell = cell}
Done(cell) == executed \cap IssuedFor(cell)

\* Nothing but an overlap the user made loses a command.  If a column does not
\* show what the latest command executed for it asked (d's sending came late, was
\* repeated by Volley, or ran after Volley or the process had given d up), then d
\* could still run at the very moment the user confirmed that later command.
RowExplained ==
    \A cell \in Cells :
        IF Done(cell) = {} THEN info[cell] = "OFF"
        ELSE \E d \in Done(cell) :
                /\ info[cell] = want[d].value
                /\ \A c \in Done(cell) : turn[d] < turn[c] => <<d, c>> \in crossed

\* For a user who confirms a command for a column only when no earlier one for
\* it can still run, a late or repeated sending never brings an old value back:
\* the column's writer is the latest of the commands that were executed for it.
PatientUserWins ==
    \A cell \in Cells \ CrossedCells : \A c \in Done(cell) :
        writer[cell] # NoCmd /\ turn[c] <= turn[writer[cell]]

\* Why: the last UPDATE of a column is an executed command for it, and whatever
\* was executed and is later than that had met it.
WriterExplains ==
    \A cell \in Cells :
        IF writer[cell] = NoCmd THEN Done(cell) = {} /\ info[cell] = "OFF"
        ELSE /\ writer[cell] \in Done(cell)
             /\ info[cell] = want[writer[cell]].value
             /\ \A c \in Done(cell) :
                    turn[writer[cell]] < turn[c] => <<writer[cell], c>> \in crossed

\* And why that: every confirmed command has a place of its own, and a command
\* that can still run has met all later ones for its column.
LooseMetLater ==
    /\ \A c \in Cmds : IF phase[c] = "idle" THEN turn[c] = 0 ELSE turn[c] \in 1..clock
    /\ \A c, d \in Cmds : phase[c] # "idle" /\ turn[c] = turn[d] => c = d
    /\ \A c \in executed : phase[c] # "idle"
    /\ \A pair \in crossed : phase[pair[1]] # "idle" /\ phase[pair[2]] # "idle"
    /\ \A cell \in Cells : \A c, d \in IssuedFor(cell) :
          Loose(d) /\ turn[d] < turn[c] => <<d, c>> \in crossed

\* The scripts' comments: a command that was executed properly sets "success"
\* and the JSON data is returned (led_on.php:20, 26), so the app should log it.
ExecutedIsAcked ==
    \A c \in executed : phase[c] = "heard" /\ tries[c] = 1 => c \in acked
=============================================================================
