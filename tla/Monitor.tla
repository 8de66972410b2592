------------------------------ MODULE Monitor ------------------------------
(***************************************************************************)
(* The monitoring screen (MonitorActivity.java): it loads the user's       *)
(* plants into a spinner and an array, keeps the model number that the LED *)
(* and pump buttons command, and runs its list downloads and its requests  *)
(* to the board one after another on AsyncTask's serial executor.          *)
(*                                                                         *)
(* A visit is one instance of the activity: its fields and labels start    *)
(* afresh, the executor belongs to the process and goes on.  Everything    *)
(* but the downloads and the board requests runs on the UI thread, so each *)
(* handler is one step; Android (executor, spinner, lifecycle) is modelled *)
(* from how the activity uses it.  Plants are numbered in the order of     *)
(* their model numbers, which is the order the server lists them in; the   *)
(* measured values, their colours and the wording are left out.            *)
(***************************************************************************)
EXTENDS Naturals, Sequences, FiniteSets

CONSTANTS
    Cmds,           \* the commands that may ever be confirmed
    NPlants,        \* how many plants the user may come to own
    Slots,          \* length of plantData: 9 in the code
    MaxVisits,      \* bound: instances of the activity
    MaxLoads,       \* bound: list downloads in one visit
    MaxTaps,        \* bound: dialogs open at a time
    NoCmd

ASSUME MonitorAssumption ==
    /\ NPlants \in Nat /\ Slots \in Nat \ {0} /\ MaxVisits \in Nat /\ MaxLoads \in Nat \ {0}
    /\ MaxTaps \in Nat /\ NoCmd \notin Cmds

VARIABLES
    screen,         \* lifecycle of the activity
    visit,          \* which instance of the activity is on the screen
    loads,          \* downloads started in this visit
    shownLoads,     \* downloads whose result this visit has applied
    registered,     \* the user's plants in INFO
    executor,       \* AsyncTask.SERIAL_EXECUTOR: the head is running
    results,        \* onPostExecute calls posted to the UI thread
    plantData,      \* plant in each slot
    plantList,      \* the adapter's items
    count,          \* items the spinner knows of
    changed,        \* notifyDataSetChanged, not yet laid out
    sel,            \* position the spinner shows, 0 for none
    due,            \* an onItemSelected call is posted
    panel,          \* plant whose values are in the text views
    modelNumber,    \* the field: plant the next command is for
    label,          \* led_text and pump_text
    dialogs,        \* open confirmation dialogs, the topmost last
    held,           \* the field "dialog" refers to the topmost one
    want,           \* what each confirmed command asks for
    issued,         \* history: commands in the order of their confirmation
    ran,            \* history: board requests in the order they ended
    lost            \* history: commands whose request died with the process

spinnerVars == <<plantData, plantList, count, changed, sel, due, panel, modelNumber>>
panelVars   == <<label, dialogs, held>>
orderVars   == <<want, issued, ran, lost>>
vars == <<screen, visit, loads, shownLoads, registered, executor, results,
          spinnerVars, panelVars, orderVars>>

Plants  == 1..NPlants
NoPlant == 0
Pins    == {"led", "pump"}
Levels  == {"LOW", "HIGH"}
Asks    == [pin : Pins, level : Levels]
NoOrder == [plant |-> NoPlant, pin |-> "none", level |-> "LOW"]
Orders  == [plant : Plants, pin : Pins, level : Levels]
Failed  == <<NoPlant>>          \* doInBackground returned null

ListTask(v) == [kind |-> "list", visit |-> v, cmd |-> NoCmd]
HttpTask(c) == [kind |-> "http", visit |-> 0, cmd |-> c]
IsHttp(t)   == t.kind = "http"

Opposite(level) == IF level = "LOW" THEN "HIGH" ELSE "LOW"

\* anyfarm_list.php: the user's rows ORDER BY modelNumber ASC.
Listings(plants) ==
    {list \in [1..Cardinality(plants) -> plants] :
        \A i, j \in 1..Cardinality(plants) : i < j => list[i] < list[j]}

NoSlots == [i \in 1..Slots |-> NoPlant]
AllLow  == [p \in Pins |-> "LOW"]

TypeOK ==
    /\ screen \in {"closed", "started", "stopped"}
    /\ visit \in 0..MaxVisits /\ loads \in 0..MaxLoads /\ shownLoads \in 0..loads
    /\ registered \subseteq Plants
    /\ executor \in Seq({ListTask(v) : v \in 1..visit} \cup {HttpTask(c) : c \in Cmds})
    /\ results \in Seq([visit : 1..visit, outcome : Seq(Plants) \cup {Failed}])
    /\ plantData \in [1..Slots -> Plants \cup {NoPlant}]
    /\ plantList \in Seq(Plants) /\ Len(plantList) <= Slots
    /\ count \in 0..Slots /\ sel \in 0..count
    /\ changed \in BOOLEAN /\ due \in BOOLEAN /\ held \in BOOLEAN
    /\ panel \in Plants \cup {NoPlant} /\ modelNumber \in Plants \cup {NoPlant}
    /\ label \in [Pins -> Levels]
    /\ dialogs \in Seq(Asks) /\ Len(dialogs) <= MaxTaps
    /\ want \in [Cmds -> Orders \cup {NoOrder}]
    /\ issued \in Seq(Cmds) /\ ran \in Seq(Cmds) /\ lost \subseteq Cmds

Init ==
    /\ screen = "closed"
    /\ visit = 0 /\ loads = 0 /\ shownLoads = 0
    /\ registered = {}
    /\ executor = <<>> /\ results = <<>>
    /\ plantData = NoSlots /\ plantList = <<>>
    /\ count = 0 /\ changed = FALSE /\ sel = 0 /\ due = FALSE
    /\ panel = NoPlant /\ modelNumber = NoPlant
    /\ label = AllLow /\ dialogs = <<>> /\ held = FALSE
    /\ want = [c \in Cmds |-> NoOrder]
    /\ issued = <<>> /\ ran = <<>> /\ lost = {}

----------------------------------------------------------------------------
(* Faulty variants of definitions below, each with one slip; the properties *)
(* at the end are checked to notice them.                                   *)

\* A plantData that grows with the list.
FillPastSlots(list) ==
    /\ plantData' = [i \in 1..Slots |-> IF i <= Len(list) THEN list[i] ELSE plantData[i]]
    /\ plantList' = list
    /\ modelNumber' = IF list = <<>> THEN modelNumber ELSE list[Len(list)]

\* A loop that stops one row early.
FillShort(list) ==
    LET n == IF Len(list) < Slots THEN Len(list) ELSE Slots IN
    /\ plantData' = [i \in 1..Slots |-> IF i < n THEN list[i] ELSE plantData[i]]
    /\ plantList' = SubSeq(list, 1, n)
    /\ modelNumber' = IF n = 0 THEN modelNumber ELSE list[n]

\* The label turned where the dialog is made.
PressTurns(p) ==
    /\ screen = "started"
    /\ Len(dialogs) < MaxTaps
    /\ dialogs' = Append(dialogs, [pin |-> p, level |-> Opposite(label[p])])
    /\ held' = TRUE
    /\ label' = [label EXCEPT ![p] = Opposite(@)]
    /\ UNCHANGED <<screen, visit, loads, shownLoads, registered, executor, results, spinnerVars,
                   orderVars>>

\* executeOnExecutor(THREAD_POOL_EXECUTOR): any request may end first.
EndHttpParallel(c) ==
    /\ \E i \in 1..Len(executor) :
          /\ executor[i] = HttpTask(c)
          /\ executor' = SubSeq(executor, 1, i - 1) \o SubSeq(executor, i + 1, Len(executor))
    /\ ran' = Append(ran, c)
    /\ UNCHANGED <<screen, visit, loads, shownLoads, registered, results, spinnerVars, panelVars,
                   want, issued, lost>>

\* onItemSelected() that takes the position for the model number.
SelectPosition ==
    /\ screen # "closed"
    /\ due /\ ~changed
    /\ due' = FALSE
    /\ modelNumber' = sel
    /\ panel' = sel
    /\ UNCHANGED <<screen, visit, loads, shownLoads, registered, executor, results, plantData,
                   plantList, count, changed, sel, panelVars, orderVars>>

\* onItemSelected() that shows the values and leaves modelNumber alone.
SelectValues ==
    /\ screen # "closed"
    /\ due /\ ~changed
    /\ due' = FALSE
    /\ panel' = plantData[sel]
    /\ UNCHANGED <<screen, visit, loads, shownLoads, registered, executor, results, plantData,
                   plantList, count, changed, sel, modelNumber, panelVars, orderVars>>

----------------------------------------------------------------------------
(* Lifecycle. *)

\* onCreate() and onStart() of a new instance: fields, labels and spinner start
\* from nothing, and a download is queued.
Open ==
    /\ screen = "closed"
    /\ visit < MaxVisits
    /\ screen' = "started"
    /\ visit' = visit + 1
    /\ loads' = 1 /\ shownLoads' = 0
    /\ executor' = Append(executor, ListTask(visit'))
    /\ plantData' = NoSlots /\ plantList' = <<>>
    /\ count' = 0 /\ changed' = FALSE /\ sel' = 0 /\ due' = FALSE
    /\ panel' = NoPlant /\ modelNumber' = NoPlant
    /\ label' = AllLow /\ dialogs' = <<>> /\ held' = FALSE
    /\ UNCHANGED <<registered, results, orderVars>>

\* onStop(): the dialog the field refers to is dismissed, any other stays open.
Stop ==
    /\ screen = "started"
    /\ screen' = "stopped"
    /\ dialogs' = IF held THEN SubSeq(dialogs, 1, Len(dialogs) - 1) ELSE dialogs
    /\ held' = FALSE
    /\ UNCHANGED <<visit, loads, shownLoads, registered, executor, results, spinnerVars,
                   label, orderVars>>

\* onStart() of an instance that was only hidden: the list is loaded again.
Restart ==
    /\ screen = "stopped"
    /\ loads < MaxLoads
    /\ screen' = "started"
    /\ loads' = loads + 1
    /\ executor' = Append(executor, ListTask(visit))
    /\ UNCHANGED <<visit, shownLoads, registered, results, spinnerVars, panelVars, orderVars>>

\* A navigation dialog confirmed, or the back key: finish().  The instance and
\* its windows go, its tasks stay in the executor.
Leave ==
    /\ screen # "closed"
    /\ screen' = "closed"
    /\ dialogs' = <<>> /\ held' = FALSE
    /\ UNCHANGED <<visit, loads, shownLoads, registered, executor, results, spinnerVars,
                   label, orderVars>>

\* The end of the process: its queued and running requests end with it.
Die ==
    /\ screen' = "closed"
    /\ executor' = <<>> /\ results' = <<>>
    /\ lost' = lost \cup {executor[i].cmd : i \in {j \in 1..Len(executor) : IsHttp(executor[j])}}
    /\ dialogs' = <<>> /\ held' = FALSE
    /\ UNCHANGED <<visit, loads, shownLoads, registered, spinnerVars, label, want, issued, ran>>

\* Android reclaims a process whose activity is not on the screen.
Killed == screen # "started" /\ Die

----------------------------------------------------------------------------
(* The list of plants. *)

\* AnyFarm_Register.php, from this phone or another one.
Register(p) ==
    /\ p \notin registered
    /\ registered' = registered \cup {p}
    /\ UNCHANGED <<screen, visit, loads, shownLoads, executor, results, spinnerVars,
                   panelVars, orderVars>>

\* BackgroundTask.doInBackground() ends, with the rows as the server read them
\* or with null; onPostExecute is posted.
Download(outcome) ==
    /\ executor # <<>>
    /\ ~IsHttp(Head(executor))
    /\ outcome \in Listings(registered) \cup {Failed}
    /\ results' = Append(results, [visit |-> Head(executor).visit, outcome |-> outcome])
    /\ executor' = Tail(executor)
    /\ UNCHANGED <<screen, visit, loads, shownLoads, registered, spinnerVars, panelVars, orderVars>>

\* onPostExecute() of an instance that is gone: nobody sees what it does.
DropResult ==
    /\ results # <<>>
    /\ Head(results).visit # visit \/ screen = "closed"
    /\ results' = Tail(results)
    /\ UNCHANGED <<screen, visit, loads, shownLoads, registered, executor, spinnerVars,
                   panelVars, orderVars>>

\* The loop of onPostExecute() over the rows: slots, items and modelNumber are
\* overwritten row by row, until there is no row or no slot left.
Fill(list) ==
    LET n == IF Len(list) < Slots THEN Len(list) ELSE Slots IN
    /\ plantData' = [i \in 1..Slots |-> IF i <= n THEN list[i] ELSE plantData[i]]
    /\ plantList' = SubSeq(list, 1, n)
    /\ modelNumber' = IF n = 0 THEN modelNumber ELSE list[n]

\* onPostExecute(): the items are cleared first; a null result, or a row for
\* which there is no slot, ends in the catch block before notifyDataSetChanged.
ApplyResult ==
    /\ results # <<>>
    /\ Head(results).visit = visit
    /\ screen # "closed"
    /\ results' = Tail(results)
    /\ shownLoads' = shownLoads + 1
    /\ LET list == Head(results).outcome IN
          IF list = Failed
          THEN /\ plantList' = <<>>
               /\ UNCHANGED <<plantData, modelNumber, count, changed>>
          ELSE /\ Fill(list)
               /\ IF Len(list) <= Slots
                  THEN count' = Len(list) /\ changed' = TRUE
                  ELSE UNCHANGED <<count, changed>>
    /\ UNCHANGED <<screen, visit, loads, registered, executor, sel, due, panel, panelVars, orderVars>>

----------------------------------------------------------------------------
(* The spinner. *)

\* The layout after a data change keeps the position if it still exists, shows
\* the first item if none was shown, and posts a call only for a new position.
Layout ==
    /\ changed
    /\ screen = "started"
    /\ changed' = FALSE
    /\ sel' = IF count = 0 THEN 0 ELSE IF sel = 0 THEN 1 ELSE IF sel <= count THEN sel ELSE count
    /\ due' = (due \/ (sel' # sel /\ sel' # 0))
    /\ UNCHANGED <<screen, visit, loads, shownLoads, registered, executor, results, plantData,
                   plantList, count, panel, modelNumber, panelVars, orderVars>>

Pick(i) ==
    /\ screen = "started"
    /\ ~changed /\ dialogs = <<>>
    /\ i \in 1..count /\ i # sel
    /\ sel' = i
    /\ due' = TRUE
    /\ UNCHANGED <<screen, visit, loads, shownLoads, registered, executor, results, plantData,
                   plantList, count, changed, panel, modelNumber, panelVars, orderVars>>

\* onItemSelected(): the posted call waits while a data change is not laid out.
\* Integer.parseInt() of the four values cannot throw: every row's are the text of an
\* int (arduino.ino 70-79, AnyFarm_Register.java 65-68).
ItemSelected ==
    /\ screen # "closed"
    /\ due /\ ~changed
    /\ due' = FALSE
    /\ modelNumber' = plantData[sel]
    /\ panel' = plantData[sel]
    /\ UNCHANGED <<screen, visit, loads, shownLoads, registered, executor, results, plantData,
                   plantList, count, changed, sel, panelVars, orderVars>>

----------------------------------------------------------------------------
(* The LED and pump buttons. *)

\* ledBtn and pumpBtn: a dialog that offers the opposite of the label.  A second
\* tap may come before the first dialog covers the buttons.
Press(p) ==
    /\ screen = "started"
    /\ Len(dialogs) < MaxTaps
    /\ dialogs' = Append(dialogs, [pin |-> p, level |-> Opposite(label[p])])
    /\ held' = TRUE
    /\ UNCHANGED <<screen, visit, loads, shownLoads, registered, executor, results, spinnerVars,
                   label, orderVars>>

Top == dialogs[Len(dialogs)]
CloseTop == dialogs' = SubSeq(dialogs, 1, Len(dialogs) - 1) /\ held' = FALSE

\* "아니오"
Cancel ==
    /\ screen = "started"
    /\ dialogs # <<>>
    /\ CloseTop
    /\ UNCHANGED <<screen, visit, loads, shownLoads, registered, executor, results, spinnerVars,
                   label, orderVars>>

\* "예": the POST for modelNumber as it is now (see ControlDb), the label, and the
\* request to the board at the end of the executor.
Confirm(c) ==
    /\ screen = "started"
    /\ dialogs # <<>>
    /\ want[c] = NoOrder
    /\ modelNumber # NoPlant
    /\ want' = [want EXCEPT ![c] = [plant |-> modelNumber, pin |-> Top.pin, level |-> Top.level]]
    /\ issued' = Append(issued, c)
    /\ label' = [label EXCEPT ![Top.pin] = Top.level]
    /\ executor' = Append(executor, HttpTask(c))
    /\ CloseTop
    /\ UNCHANGED <<screen, visit, loads, shownLoads, registered, results, spinnerVars, ran, lost>>

\* "예" before any plant is known: Log.d is handed a null message and throws
\* on the UI thread before anything is sent.
ConfirmBlind ==
    /\ screen = "started"
    /\ dialogs # <<>>
    /\ modelNumber = NoPlant
    /\ Die

\* HttpRequestTask.doInBackground() ends, by an answer or an exception.
EndHttp(c) ==
    /\ executor # <<>>
    /\ Head(executor) = HttpTask(c)
    /\ executor' = Tail(executor)
    /\ ran' = Append(ran, c)
    /\ UNCHANGED <<screen, visit, loads, shownLoads, registered, results, spinnerVars, panelVars,
                   want, issued, lost>>

Next ==
    \/ Open \/ Stop \/ Restart \/ Leave \/ Killed
    \/ \E p \in Plants : Register(p)
    \/ \E outcome \in Listings(registered) \cup {Failed} : Download(outcome)
    \/ DropResult \/ ApplyResult
    \/ Layout \/ ItemSelected
    \/ \E i \in 1..Slots : Pick(i)
    \/ \E p \in Pins : Press(p)
    \/ Cancel \/ ConfirmBlind
    \/ \E c \in Cmds : Confirm(c)
    \/ \E c \in Cmds : EndHttp(c)

Spec == Init /\ [][Next]_vars

----------------------------------------------------------------------------
(* Properties. *)

\* The requests to the board that have ended, run or wait, in this order, with
\* NoCmd where a download waits.
Line == ran \o [i \in 1..Len(executor) |-> executor[i].cmd]

\* The board is asked, once for each command, in the order in which the user
\* confirmed them, whatever lists are loaded in between and whichever instance of
\* the screen the user is on; only the end of the process takes requests out.
RunsAsConfirmed ==
    /\ {Line[k] : k \in 1..Len(Line)} \ {NoCmd} = {issued[i] : i \in 1..Len(issued)} \ lost
    /\ \A i, j \in 1..Len(issued), k, l \in 1..Len(Line) :
          Line[k] = issued[i] /\ Line[l] = issued[j] => (i < j <=> k < l)

\* onItemSelected() never meets an empty slot of plantData, though the slots, the
\* items and the position the spinner shows change in three different handlers.
SelectionBacked ==
    screen # "closed" /\ due /\ ~changed => sel # 0 /\ plantData[sel] # NoPlant

\* A command, sent or still to be confirmed, is for a plant the user owns.
OnlyOwnPlants ==
    /\ modelNumber # NoPlant => modelNumber \in registered
    /\ \A c \in Cmds : want[c] # NoOrder => want[c].plant \in registered

\* Once the calls posted for the first list have run, the buttons command the
\* plant the spinner shows and the values on the screen are that plant's.  (A
\* later load of the same instance breaks it: onPostExecute leaves modelNumber
\* on the last row and no call is posted for an unchanged position.)
FirstLoadTarget ==
    screen = "started" /\ shownLoads <= 1 /\ ~changed /\ ~due /\ sel # 0
        => modelNumber = plantData[sel] /\ panel = plantData[sel]

=============================================================================
