# AnyFarm in TLA+

AnyFarm is a smart flowerpot: an Arduino with sensors (`Arduino/Arduino`), a
NodeMCU board that switches an LED and a pump (`Arduino/nodemcu`), a PHP/MySQL
server (`php`) and an Android app (`AnyFarm`).  This directory holds TLA+
models of its concurrent parts, TLC configurations that check them on small
instances and TLAPS proofs of the properties that hold on every instance.  All
paths below are relative to the repository; everything here is translated from
the code, and what the code uses but does not contain (Android, Volley, OkHttp,
MySQL) is modelled from the way it is used and marked external in
`PROJECT.json`.

## 1. The system

| part | state it keeps | operations | talks to |
|---|---|---|---|
| Actuator board, `nodemcu.ino` | two output pins | `setup()`, one `loop()` per client | HTTP clients on its network |
| its TCP stack, `libraries/ESP8266wifi` | list of unclaimed connections, receive buffer and pcb of each | accept, receive, peer close, `available()`, read, write, flush, destructor | `loop()`, by callbacks between any two of its steps and in every delay of a call |
| Sensor node, `arduino.ino` with `DHT.cpp` | last reading, modem's line | join WiFi, read, send one GET, sleep | `anyfarm_update.php` through an AT modem |
| Table INFO, control scripts `led_on/led_off/pump_on/pump_off.php` | columns `led`, `w_pump` of each plant | one UPDATE each | the app's four request classes |
| Telemetry scripts `anyfarm_update.php`, `anyfarm_list.php` | the measured columns of INFO | UPDATE + SELECT, SELECT of a user's rows | sensor node, monitoring screen |
| Registration and account scripts | tables INFO and USER | check, insert, update, log in | the app's forms |
| Monitoring screen, `MonitorActivity` | plant array, spinner, `modelNumber`, labels, dialogs | list download, selection, LED and pump dialogs | control scripts (Volley), board (OkHttp) |
| Forms: `RegisterActivity`, `AnyFarm_Register`, `EditInformation`, `LoginActivity` | text fields, "validated" flag | check an id, submit | account scripts (Volley) |
| `UserManager` and the stack of screens | the id of the user, in memory; what each screen took of it | set at login, read by a screen when it is created; open, replace, back, rotate, reclaim | all screens, Android |

What is hard: the board serves one client at a time while its stack goes on;
a command travels on two ways that know nothing of each other; Volley orders
nothing and repeats; AsyncTask orders everything, list downloads included; the
screen can be hidden, finished or reclaimed at any step; the server tests and
inserts in two statements; the sensor node's modem answers when it likes, and
its clock wraps; the user's id dies with the process and the screens do not.

What makes each part correct:

* board: requests take effect in the order of arrival, each at most once, and
  no pin moves otherwise; a waiting client is served unless another one blocks;
* control scripts: a column that does not show the latest command executed for
  it shows one the user did not wait for before confirming a later one;
* monitoring screen: a command is for a plant the user owns and for the plant
  on the screen, and board requests keep the order of the confirmations;
* end to end: when nothing is on its way, pin, row and last command agree;
* registration: no two rows for one key, only a checked id is submitted, and a
  dialog that reports a registration stands for a row;
* sensor node: a row is a reading of one moment, newer ones replace older ones,
  and no answer of the modem is taken for that of another command;
* TCP connection: what is written arrives in order and once, a flush that
  reports success and a synchronous write leave nothing unacknowledged, the
  window is what was read, and every call returns;
* session: nobody acts under an id that did not log in, and a password the user
  was told to be saved is the one that opens the account.

## 2. Modules

| module | models | abstracts |
|---|---|---|
| `Actuator` | the promise of the board: `Submit`, `Perform`, `Discard`, `Answer`, `PowerLoss` | everything inside |
| `NodeMcu` | `nodemcu.ino` on `WiFiServer`, `WiFiClient`, `ClientContext` | bytes to "none / part / line"; the page to "answered" |
| `NodeMcu_proofs` | theorems about `NodeMcu` | |
| `ControlDb` | the four Volley POSTs, Volley's retry, the four scripts, two columns of INFO | names and texts |
| `ControlDb_proofs` | theorems about `ControlDb` | |
| `Monitor` | `MonitorActivity` with its executor and spinner | measured values, colours, wording |
| `Monitor_proofs` | theorems about `Monitor` | |
| `DeviceControl` | the composition of `Monitor`, `ControlDb`, `NodeMcu` | |
| `DeviceControl_proofs` | theorems about `DeviceControl`, from those about its parts | |
| `Volley` | the life of the forms' POSTs: sent, repeated, given up, answered | the contents of a request, to the module that extends it |
| `MemberRegistration` | `RegisterActivity` with `UserValidate.php` and `UserRegister.php` | the fields other than the id |
| `PlantRegistration` | `AnyFarm_Register` with its script | user and kind of the plant |
| `Registration_proofs` | theorems about `MemberRegistration` and `PlantRegistration` | |
| `SensorNode` | `arduino.ino`, the cache of `DHT.cpp`, `anyfarm_update.php` | a reading to its number, text to the words the sketch looks for |
| `SensorNode_proofs` | theorems about `SensorNode` | |
| `ClientContext` | `ClientContext.h`, `DataSource.h` and `WiFiClient` around them | bytes to their numbers, time to ticks |
| `ClientContext_proofs` | theorems about `ClientContext` | |
| `Session` | `UserManager`, login, the stack of screens, `EditInformation`, two account scripts | layout, the fields other than id and password |
| `Session_proofs` | theorems about `Session` | |
| `MC...` | symmetry, views and fault sets for TLC | |

### NodeMcu

`pc` names the places of `nodemcu.ino` where another actor can get in between:
`"setup"` (10-48), `"loop"` (before line 53), `"wait"` (60), `"act"` (after 67),
`"reply"` (88-110).  `unclaimed` is `WiFiServer::_unclaimed`; `open[c]` says that
the pcb of `ClientContext` is not null; `rx[c]` how much of the request line is
in `_rx_buf`.

* `Accept` is `_accept` with `slist_append_tail`; `Deliver` and `PeerClose` are
  `_recv` with and without a pbuf (and `_error`).  A peer's close clears the pcb
  and leaves the received bytes.
* `Claim` is `server.available()` and the test of line 54: a connection whose
  pcb is gone is "not connected" even if its whole request has arrived, and the
  destructor at the `return` throws it away.
* `ReadRequest` ends the wait of line 60, which looks at the bytes only, and
  reads up to `'\r'`.  With a line cut short the result may or may not contain
  the path, so both outcomes are allowed.
* `Actuate` is lines 70-83.  The four tests are alternatives because a request
  line holds at most one of the page's paths.
* `Reply` is the page and the end of `loop()`, with the destructor.
* `Reset` may happen anywhere; `setup()` sets both pins LOW.

### ControlDb

`wire` is the set of sendings the server has not run yet, in no order (each
command has a request queue of its own, `MonitorActivity.java:211, 258, 311,
357`).  `Timeout` sends once more and then gives up (Volley's default policy);
a sending that was given up stays on the wire.  `Execute` is a whole script;
its answer is the word `null`, because the scripts encode a variable that is
never set.  `turn`, `clock`, `executed`, `writer` and `crossed` are history
variables: no guard reads them.  `crossed` holds the pairs `<<d, c>>` of commands
for one column such that `d` could still run when `c` was confirmed.

### Monitor

One action per handler of the UI thread, and the two `doInBackground` methods,
which the serial executor runs one after another.  `plantData`, `plantList`,
`count`, `changed`, `sel`, `due` are the array, the adapter's items, what the
spinner believes, a pending relayout, the position and a posted
`onItemSelected`: the last four are Android's, and they are why the array, the
items and the spinner can disagree.  `held` says that the field `dialog` refers
to the topmost dialog, the only one `onStop` dismisses.  `Listings` is what
`anyfarm_list.php` may send of the plants registered by then, in ascending order;
`Line` is the board requests that have ended, run or wait, with the list
downloads between them.

### DeviceControl

`Confirm` is one step of the phone and the database client at once, `Connect`
one of the phone's task and the board's stack.  `faults`, chosen in `Init` from
the constant `FaultSets`, says what the environment of this behaviour does:
time-outs, resets, cut or half-open connections, failing or repeated POSTs,
failing lists, leaving or hiding the screen, the end of the process, a command
confirmed before any plant is known, a second plant.  `Browse` is a browser on the
board's network, which asks for anything; the page it is answered with is no code
of the app's.  A configuration names the
sets its question is about; `EndRequest` needs the board's page unless time-outs
are among them.  `Undisturbed` is the precondition of what holds only if nothing
disturbs the way to the board.

### Volley, MemberRegistration, PlantRegistration

A request is `idle`, `waiting` or `over`; its sendings `<<r, k>>` wait on `wire`
until a script takes them, in any order, and may be lost.  A sending that timed
out can still be executed, but its answer is lost with its connection.

A phone is one instance of the sign-up form.  `Type` is possible until
`validate` is set, because only the answer to a check disables the field
(`RegisterActivity.java:103`).  `HearCheck` sets the flag for the form as it is
then, whichever id was checked.  `UserRegister` is one INSERT, which fails on
the key of USER (`EditInformation.java:61` calls the id the primary key) and may
fail on a free id too, and an answer that depends on neither.  A SELECT of
`UserValidate` that fails finds nothing.  `found`, `hasty` and `unsaved` (the
registrations whose INSERT failed on a free id) are history variables.

`AnyFarm_Register.php` is two steps, `Select` (11-35) and `Insert` (37-45),
between which other scripts run.  The repository has no schema, so whether INFO
has a key on `modelNumber` is chosen in `Init` (`keyed`) and both cases are
checked.  `Execute` is the INSERT itself, which the key refuses or the database, and
the script notices neither; a SELECT that fails lets the script pass.  `unguarded`
(models whose test could not guard the INSERT) and `plantUnsaved` are history
variables.  What both modules have (`Init`,
`Network`, ...) carries `Plant` in the names of `PlantRegistration`, so that
`Registration_proofs` can extend both.

Leaving a form ends its steps: an answer that comes later throws when it shows
its dialog, before any field is set, and is caught.

### SensorNode

`pc` names the places of the sketch between two of its calls that take time.
Time is in seconds and passes only in the sketch's own steps, by what each of
its `delay()` and `find()` takes; `millis` wraps at `Wrap`, `age` is the real
time since the sensor was asked.  `Read` is `DHT::read`: within two seconds it
answers from `data`, which a frame that failed leaves `Torn`.

The modem is external.  It works on one command at a time (`cmd`), ignores what
is written while it is busy, and answers to anything but the join within
`MaxLag` seconds; its words wait in `rx` until a `find()` takes them.  So
`Found`, `ReadOn` and `GaveUp` are `Stream::find`: it drops everything up to the
word it looks for and gives up after a silent second.  `Connected` is line 97
*not* finding "Error", which the sketch takes for success.  `link` is the
connection that is open, `requests` the GETs the server has not run: of each
connection the first, because the server answers one line and closes.

Left out: the two analog inputs, text typed at the serial console (nobody types),
and an answer of the server that contains ">".

### ClientContext

The sketch and lwIP take turns: the callbacks (`Connected`, `Receive`, `Acked`,
`Poll`, `Closed`, `Error`) run while a call of the sketch is in a delay (`pc` is
`"connecting"`, `"writing"` or `"flushing"`) and between calls.  `Closed` is `_recv`
without data, where `abort()` takes the callbacks back first.  In an error lwIP has
freed the pcb before it calls: `Freed` is lwIP's step, `Error` is `_error`, nothing
comes between them, and what `_error` still does with the freed pcb
(`ClientContext.h:600-603`) has no outcome the model can tell apart: in between the
pcb is `Dangling`.

The loops around `delay(1)` count `turns`, which start again in each round, and the
clock `waited` runs from `_op_start_time`, by one or two ticks a turn; the first ends
a wait, the second the write (`Late`).  `flushed` is what `wait_until_sent` came to,
and for `stop()` the close after it.  `WriteRound` is one
round of `_write_from_source` with `_write_some`, which lwIP may refuse; the two
data sources are `Fetched`, `Offered` and `Released`.  `FlushLoop` decides, as
lines 341-343 do, on the pcb as it is and the buffer as it was before the delay.
`Consume` crosses the ends of pbufs.

Kept as the code has it: `discard_received` gives the window back for the whole
chain although part of its head was read already, which lwIP clamps, and a
synchronous write ignores whether its wait succeeded.  Left out: copies of a
`WiFiClient`, socket options, the data of an array that lwIP does not copy, and a
stream that has fewer bytes than its `available()` said (`get_buffer` would wait).

### Session

`stack` is the back stack, the screen on top last; `user` is what an instance
took from `UserManager` in `onCreate()`, or the text of its field.  `Open` starts
a screen on top, `Go` replaces (`startActivity` and `finish`), `ConfirmEdited`
puts a login in place of the edit screen and leaves what is below.  `asked` are
the requests whose listener belongs to an instance: an answer for one that is
gone shows nothing.  `Hide` is `onStop`, which dismisses the one dialog the
field remembers; dialogs pile up when two answers come.  `Reclaim` ends the
process: `UserManager` and all listeners go, the stack and the fields' text stay,
and each screen is created again when it is shown (`Recreate`).

A login captures the id of its click, so several may be under way with other ids.
`SubmitEditBlind` is line 87 on a screen without a user: the exception ends the
process.  The names of requests are used again when nothing is left of them, so
behaviours are not bounded in length, only in what is under way at once.

Left out: the questions before a screen is replaced (a step with their answer),
the developer's screen, tapping twice while a screen opens.

## 3. Runs

| run | question | bounds |
|---|---|---|
| `NodeMcu` | Does the sketch keep the board's promise, and is the wait at line 60 a trap? | 3 connections: one served, one queued, one that comes late; any request |
| `ControlDb` | What can a row hold after lost, late, repeated and reordered POSTs? | 3 commands, 2 columns, 2 sendings each: the third command sees an earlier pair in any order |
| `ControlDbAck` | Is an executed command acknowledged? (No: finding) | 1 command |
| `Monitor` | Is a command for an owned plant, for the plant shown, in order? | 3 plants for 2 slots (so the overflow of `plantData` happens), 2 instances, 2 loads each, 2 stacked dialogs, 2 commands |
| `DeviceControl` | Order and at-most-once through time-outs, resets, cut and half-open connections, death of the app; and do pin, row, label and last command agree when nothing is on its way, with POSTs and lists that fail? | 2 commands, 2 instances of the screen, 2 plants; repetition of a POST is the question of `ControlDb` |
| `DeviceControlLive` | Can anything but a silent browser or an endless list download keep a command from its effect? | 1 command, 1 browser, 2 loads of the list, the second with the command behind it |
| `MemberRegistration` | Which id does a form lock and submit, and what does "registration complete" mean? | 2 forms, 2 ids, 4 requests: a check and a submission each, or three checks of one form; 1 sending, because the form does not see a repetition, `PlantRegistration` has it, and the theorems hold for any number |
| `MemberCheck` | Is every submitted id checked? (No: finding) | 1 form, 2 ids, 2 requests |
| `PlantRegistration` | When does a model number get two rows, and what do the dialogs mean? | 3 requests for 2 model numbers, 2 sendings each, any number of scripts at once, with and without a key |
| `SensorNode` | What is a row a reading of, and can an answer be taken for that of another command? | 3 passes and a restart, so answers and requests of one pass reach two others; 2 of the 10 attempts; a clock of 16 s, which wraps within the passes; 3 answers in the buffer, which overflows; answers within 2 s |
| `ClientContext` | Are bytes lost, doubled or reordered, what does the end of a write or a flush say of them, is the window right, does every call return? | 2 writes of up to 3 bytes through a buffer of 2, 4 received bytes through a window of 3: every write and every pbuf can be cut; time-outs of one tick |
| `Session` | Under which id does a screen act, and what is a saved password worth? | 2 ids, 2 passwords, 2 requests at once or 2 sendings of one, 4 screens on the stack; the four combinations of `SmallRooms` |

Deadlock is checked in `Session`, which can always go on.  It is not checked
elsewhere: the other models stop when their connections, commands, visits,
passes or bytes are used up, or (the boards) when a wait has no end.

`DeviceControl` uses a VIEW that hides the database client in the behaviours in
which the way to the board is disturbed: no step of the phone or the board reads
those variables, and of the properties only those that need `Undisturbed` do.
The VIEW of `Session` forgets a request of which nothing is left, and the field
of a login, which is captured by the click and read by nothing after it.

### What they show

* The board keeps its promise, but a client that connects, is claimed and
  leaves before its first byte stops it until the next reset
  (`WedgeIsForGood`); together with a silent client and an endless list download
  it is the only way in which a command waits forever (`EffectUnlessBlocked`).
* A client that sends its whole request and closes before its turn is dropped
  unheard, so a command may have no effect on the board although its row says so.
* A column can show an older command than the latest executed one, by a late, a
  repeated or an abandoned sending, but only one that could still run when the
  user confirmed the later one (`RowExplained`).  So a user who waits until a
  command can no longer run, which no answer tells, never sees an old value come
  back (`PatientUserWins`).
* `FirstLoadTarget` needs its condition too: after a second load of one
  instance `modelNumber` is the last row of the list although the spinner shows
  another plant.
* The submissions of one form carry one id, and a user who leaves the field
  alone during a check submits an id that was free when it was checked
  (`OneIdPerForm`, `PatientIdWasFree`); the latter needs its condition.
* Two rows for one model number need a table without a key and two scripts that
  overlap, possibly of one repeated request, or a SELECT that failed.  The dialog "refused" may stand
  for a registration that succeeded: the repeated request finds its own row.

* `SettledLabels` and `SettledPins` hold with failing POSTs, because nothing
  reads the row back: the row alone is wrong then, and nobody is told.
* The sketch of the sensor node keeps its answers apart although it never looks
  at what command they belong to, because its delays add up to more than the
  modem's lag: the two seconds of `PromptInStep` are sharp, and with three a
  late ">" is taken for that of the next pass.
* Temperature and humidity of a row may come from two frames, when the two
  seconds of the cache end between the two calls, but only from one and the next,
  and bytes of a frame that failed are never sent (`OneMoment`).
* A node hangs for good after ten attempts only if the modem said no "OK" before
  the last `find()` had given up, or the buffer lost it (`HangNeedsSilence`).  An
  "OK" that comes later is heard by nobody: nothing is repeated then.
* A synchronous write can return with bytes unacknowledged on a live connection,
  but only when its wait timed out (`SyncIdleIsAcked`); a flush that returns true
  can have lost bytes, but only with the connection (`FlushMeansAcked`).
* The end of a `WiFiClient` throws unread bytes away *before* it closes, without
  which lwIP would reset the connection and lose the page.
* After an edit, a new login may be somebody else's while a main screen of the
  earlier user is still in the stack.  It greets the earlier user when it
  comes back, but everything opened from it belongs to the new one
  (`FormsOfSession`, `FreshIsCurrent`).
* The plant form keeps its owner when the process is reclaimed, the other screens
  lose theirs; that is the only way to a screen without a user
  (`BlindNeedsReclaim`).
* Neither registration script looks at what its INSERT returned.  What the dialogs
  of the two forms still mean is `ToldUnlessInsertFailed` and
  `RegisteredUnlessInsertFailed`: a row, unless an INSERT of this form or request
  failed.

### Findings

`MemberCheck`: `RegisterActivity.java:103-104` locks the text the field has when
the answer arrives, not the id that was checked, so an id that was never checked
can be submitted, against the message of line 144.

`ControlDbAck`: `php/led_on.php:27` (and the other three control scripts) encode
`$response`, which they never set, and answer `null`; the comments at lines 20
and 26 promise the JSON data with `success`.  The app's listener always ends in
its `catch` block.

The others are about properties that hold because they except, by name, what the
code does against its own texts; each run reaches the excepted states.

* `MemberRegistration`, `ToldUnlessInsertFailed`: `UserRegister.php:22-25` answers
  `success = true` although its INSERT failed, and `RegisterActivity.java:173` says
  that the registration is complete.
* `PlantRegistration`, `RegisteredUnlessInsertFailed`: the same of
  `AnyFarm_Register.php:42-45` and the dialog of `AnyFarm_Register.java:104`.
* `SensorNode`, `HangNeedsSilence`: the comment at `arduino.ino:54` says that the
  join is requested again until it is connected, of the branch that ends in
  `while (1)` after ten attempts and requests nothing.
* `ClientContext`, `SyncIdleIsAcked`: `_write_from_source` throws the result of
  `wait_until_sent()` away (`ClientContext.h:473`), against the comment at 506 and
  the promise of `setSync()` at `WiFiClient.h:115`.
* `ClientContext`, `FlushMeansAcked`: the return of true at `ClientContext.h:346`,
  "All data flushed", is also reached when the connection broke during the wait.

## 4. Fairness

`DeviceControl` assumes that the board's processor keeps calling `loop()`, that
TCP delivers what was sent on an open connection of the phone, and that the
executor's thread runs the board request at its head until the board's page has
arrived.  Nothing is assumed of browsers, of the user, of the servers or of the
list download, which sets no time-out.

`ClientContext` assumes that a call of the sketch that can go on does (the
processor runs it) and that the clock runs while it waits.  Nothing is assumed of
lwIP or the peer, except that lwIP makes the error callback of a pcb it has freed: a
call returns by its time-out even if no other callback ever comes.

The other modules state no fairness: their properties are safety properties.

## 5. Proofs

`NodeMcu_proofs` proves, for every set of connections:

* `BoardIsSound`: `Spec => [](TypeOK /\ BoardSound)`.  `BoardSound` is inductive
  together with `TypeOK`: that the queue has no duplicate needs that a queued
  connection has the status `"queued"`, and that the pins get what was asked for
  needs that `client` is a claimed connection.
* `WedgeTheorem`: `Spec => WedgeIsForGood`, from that invariant.
* `BoardTheorem`: `Spec => Board!Spec`, with the refinement mapping `Pending`
  (the client in `loop()` until the pins are set, then the queue) and `Verdict`.

`ControlDb_proofs` proves, for every set of commands and models, `RowTheorem`
and `PatientTheorem`.  `RowExplained` is not inductive.  `LooseMetLater` says of a
command that can still run that it met (is `crossed` with) every later one confirmed
for its column, however it came to be still on the wire; so whichever command an
execution makes the column's writer, `WriterExplains` goes on to hold: what was
executed and is later than the writer had met it.  Both properties follow.

`Registration_proofs` is about both forms, for any phones, ids, model numbers,
requests and number of sendings.

* `OneIdTheorem` and `PatientIdTheorem` of `MemberRegistration` need `ChecksCurrent`:
  a check that may still be answered to a form whose user left the field alone is of
  the id the form shows.
* `PlantIsSound` and `OneRowTheorem` of `PlantRegistration`: `SelectStands` carries the
  SELECT over to the INSERT; if it did not fail and no other script for the model number
  came in between, what the SELECT found is still so.  `SendingsKnown` says that a sending is in one
  place.
* `ToldTheorem`, `RegisteredTheorem` and `RefusedTheorem` say what the dialogs of the
  two mean, with a failed INSERT, of which the answer says nothing, as the exception.
  They follow a request from its script to its dialog: what the script did stands beside
  the answer on its way, and no later script takes it back.

`ClientContext_proofs` proves the six safety properties of `ClientContext`, for any buffer
sizes, time-outs and lengths.

* `WrittenTheorem` needs `Exact`: the buffer of a stream holds what was fetched and not
  released, which `FetchedExact` and `ReleasedExact` show of the two operations of a
  source and `RoundExact` carries through a round of a write.
* `FlushTheorem` needs `SeenBounds`: after what a wait has seen of the send buffer,
  lwIP has only got rid of bytes.  `SyncTheorem` needs in addition that a step which
  ends no call leaves a context at rest with no more to be acknowledged (`SyncAcked`).
* `WindowTheorem` and `TypeTheorem` need `Received` (what the peer may send and the
  chain account for the whole window as long as there is a pcb, and a context starts
  with all of it) and `Bounded` (`turns` never pass the time-out and the clock stops at
  `Longest`, which is past every limit it is compared with).
* `UnrefTheorem` follows from the window: what `discard_received` gives back is at least
  what is unread, and lwIP clamps the rest.

The length of a chain is a recursive function of its pbufs.  What these theorems need
of it (a longer chain is longer by its last pbuf, dropping the head takes the head's
length away) is proved through a least counterexample (`LeastNumber`), because an
induction theorem, which takes a predicate, is out of the prover's reach.

`Session_proofs` proves all six properties of `Session` for any ids, passwords,
requests and depth of the stack.  The invariant is about the back stack entry by
entry (`Fits`: what a screen may have taken of `UserManager`, which requests it
waits for and which dialogs it shows) and has one fact about its shape: only a
login, the main screen or the preferences ever lie below another screen.  That is
why no form of a user is ever left below the login of another one.  The lemmas say
that pushing, popping and replacing a screen, and changing every screen at once
(the end of the process), keep a stack that fits.  `SavedTheorem` needs in addition
that after a password was reported saved no sending with another one is left.

`SensorNode_proofs` proves all six properties of `SensorNode`, for any number of
passes, restarts and attempts and any size of the buffer.

* `Clock` relates the real age of the reading to `millis - lastreadtime` modulo the
  wrap.  Each word that waits or may still come can cost a `find()` one more second,
  and with all of them the clock does not come round between two readings;
  `CacheTheorem` and, with `Shown` (what `data` and `lastresult` say about the last
  frame), `MomentTheorem` follow.
* `InStep` says which commands can be under way, and which words can wait, at each
  place of the sketch, and with how many of the modem's seconds left:
  `PromptTheorem`.
* `Newest` and `Forward` say that there is at most one undisturbed request, that it
  is of the open connection, and that it is not older than the row: `RowsTheorem`.
* `Silent` says that an "OK" the modem said is still in the buffer while `setup()`
  looks for one: `HangTheorem`.

Of these only `PromptTheorem` limits the modem, with `MaxLag <= 2`, the two seconds the
sketch leaves it; TLC finds `PromptInStep` violated with three.

`Monitor_proofs` proves all five properties of `Monitor`, for any number of plants,
slots, visits, downloads, dialogs and commands.

* `Counted`: of a visit, the downloads that wait, the results that are posted and
  those that were shown are no more than were started (`MonitorTypes`).
* `Lists`: the lists on their way, in the order in which they will be applied, never
  get shorter, and none is shorter than what the spinner has.  The server only ever
  gains plants and the executor keeps the downloads in order.  So the spinner's items
  never shrink below its position, and with `Backed` (a slot is filled for each item)
  `SelectionTheorem` follows, also after a list that was longer than `plantData`.
* `Owned`: every plant in a slot, a posted list, a field or a command is the user's
  (`OwnTheorem`).
* `FirstLoad`: before the first list nothing is shown; after it the position is new,
  so a call is posted and sets the model number (`FirstTargetTheorem`).
* `Once`: a command is confirmed once and only a confirmed one is lost.  With it
  `RunsAsConfirmed` is inductive: a confirmation joins both orders at the end,
  a download joins and leaves the line without changing the order, and a process
  that ends cuts the line behind the requests that have ended (`OrderTheorem`).

`DeviceControl_proofs` proves the four safety properties of the composition, for any
number of commands, browsers, plants, slots, visits, loads and dialogs, and for every
choice of `FaultSets`.

* `CompositionTheorem`: `Spec => Phone!Spec /\ Db!Spec /\ Board!Spec`.  Every step of the
  composition is a step or a stutter of each part (`PhoneStep`, `DbStep`, `BoardStep`).
  So the theorems of `Monitor_proofs`, `ControlDb_proofs` and `NodeMcu_proofs`, which are
  about any environment, hold here too, and `Parts`, the joint invariant of the parts, is
  the ground of all that follows.  `DeviceBoardTheorem`: the board implements `Actuator`
  with the phone and the browsers as its peers.
* `EffectsTheorem` needs `OrderInv`: a connection got to the board only for a command
  that has ended, died or runs (`Started`), what died with the process was confirmed
  before anything that waits (`LostFirst`), and the effects, the connection `loop()`
  serves and those that wait are in the order of the confirmations (`Ordered`).  The
  phone's order (`RunsAsConfirmed`) and the board's, to serve in the order of arrival,
  meet in the one connection of the running command.
* `PinsTheorem` and `LabelsTheorem` need `Calm`, which says of the undisturbed behaviours
  that a request ends only when it was answered, that a connection asks for what its
  command was confirmed for, and that a pin says what the last command served for it
  asked for (`CalmPins`), a label what the last one confirmed asked for.  When nothing is
  on its way every command was served (`AllServed`), and the two agree.
* `RowsTheorem` needs `Posted`: the server is asked what the board is asked, and the
  history of `ControlDb` counts the confirmations of `Monitor`.  With `PatientUserWins` of
  the part the row of a plant is that of the last command.

The constants are only assumed to be sets; `MaxTries` is a positive number, and
`None` and `NoCmd` are none of the values they stand beside.  `Session` assumes a
stack with room for one screen.  `SensorNode` assumes that the interval of the cache
is at most nine seconds (it is two) and that the clock does not wrap within it, the
buffer's words and nine seconds more (it wraps after 49 days).  Each assumption is
named in the module that declares the constant and evaluated by the runs.
`DeviceControl` assumes natural numbers, with a slot for a plant and a load of the list.

The type invariants of `NodeMcu`, `ControlDb` and the two registrations, and
`SendingsExact` of `ControlDb`, are conjuncts of what is proved here and are in
no run for that reason.

Only model-checked are the liveness properties, `CallsReturn` of `ClientContext` and
`EffectUnlessBlocked` of `DeviceControl`: an argument from fairness needs ENABLED, which
the prover does not reach.  Every safety and action property of a passing run is stated
by a theorem.

## 6. Not modelled

* `php/test.php` and `php/userManager.php`: no part of the system requests them,
  and they only read.
* `DeveloperGuide`, `ListViewAdapter`, `ListViewItem`: layout only.
* What `_error` does through a pcb that lwIP has freed (`ClientContext.h:600-603`): its
  effect lies outside of what these models keep.
* Texts that are no number: `Integer.parseInt` in `MonitorActivity.onItemSelected` throws
  on a measured value that is none, but the sensor node and the plant form write whole
  numbers only.
* The colours of the measured values (`MonitorActivity.java:106-172`): a pure
  function of one row, of which no state depends.
* Of the TCP stack: the station that joins the network, socket options, copies of
  a `WiFiClient`, TLS.  Neither the sketch nor its error paths reach them.
* Almost all of `Arduino/libraries` (the bulk of the repository's lines): copies
  of third-party libraries for displays, SD cards, other boards, TLS or HTTP
  clients that neither sketch includes.  The two sketches include `ESP8266WiFi`,
  `DHT`, `SoftwareSerial`, `ArduinoJson` and `String`; `arduino.ino` never calls
  `ArduinoJson`.  A model of the rest would say nothing about AnyFarm, which is
  why the map covers a small share of the repository's C++.

## 7. Plan

`Panel`: the thresholds of `onItemSelected` against the ranges its comments name.
