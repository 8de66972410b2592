------------------------ MODULE DeviceControl_proofs ------------------------
(***************************************************************************)
(* What TLC checks of DeviceControl for three commands and two plants,     *)
(* proved for any number of commands, browsers, plants, slots, visits,     *)
(* loads and dialogs, and for every choice of the environment's faults.    *)
(*                                                                         *)
(* Every step of the composition is one of each part, or leaves it alone   *)
(* (PhoneStep, DbStep, BoardStep), so the theorems about Monitor,          *)
(* ControlDb and NodeMcu hold of the parts here: Parts is their joint      *)
(* invariant.  Three invariants relate the parts:                          *)
(*   - OrderInv: a connection reached the board only for a command that    *)
(*     has ended, died or runs; the effects, the connection loop() serves  *)
(*     and those that wait are in the order of the confirmations.          *)
(*   - Calm: undisturbed, each pin says what the last command served for   *)
(*     it asked for, each label what the last one confirmed asked for.     *)
(*   - Posted: the server is asked what the board is asked, and the        *)
(*     history of ControlDb counts the confirmations of Monitor.           *)
(***************************************************************************)
EXTENDS DeviceControl, TLAPS

\* The parts once more, with their theorems.
PhoneP == INSTANCE Monitor_proofs
BoardP == INSTANCE NodeMcu_proofs WITH None <- NoConn
DbP    == INSTANCE ControlDb_proofs WITH Models <- 1..NPlants, want <- posted

----------------------------------------------------------------------------
(* The components. *)

\* What the components assume of their constants holds of those they get here.
LEMMA ParametersFit ==
    /\ NPlants \in Nat /\ Slots \in Nat \ {0} /\ MaxVisits \in Nat /\ MaxLoads \in Nat \ {0}
    /\ MaxTaps \in Nat /\ NoCmd \notin Cmds
    /\ NoConn \notin Conns
BY DeviceAssumption DEF DeviceAssumption, Conns

\* The specifications the components' theorems are about are those composed here.
LEMMA SamePhone ==
    (Phone!Init => PhoneP!Init) /\ (Phone!Next => PhoneP!Next) /\ Phone!vars = PhoneP!vars
<1> USE DEF Phone!spinnerVars, PhoneP!spinnerVars, Phone!panelVars, PhoneP!panelVars,
         Phone!orderVars, PhoneP!orderVars, Phone!vars, PhoneP!vars, Phone!Plants,
         PhoneP!Plants, Phone!NoPlant, PhoneP!NoPlant, Phone!NoOrder, PhoneP!NoOrder,
         Phone!Failed, PhoneP!Failed, Phone!ListTask, PhoneP!ListTask, Phone!HttpTask,
         PhoneP!HttpTask, Phone!IsHttp, PhoneP!IsHttp, Phone!Opposite, PhoneP!Opposite,
         Phone!Listings, PhoneP!Listings, Phone!NoSlots, PhoneP!NoSlots, Phone!AllLow,
         PhoneP!AllLow, Phone!Init, PhoneP!Init, Phone!Open, PhoneP!Open, Phone!Stop,
         PhoneP!Stop, Phone!Restart, PhoneP!Restart, Phone!Leave, PhoneP!Leave, Phone!Die,
         PhoneP!Die, Phone!Killed, PhoneP!Killed, Phone!Register, PhoneP!Register,
         Phone!Download, PhoneP!Download, Phone!DropResult, PhoneP!DropResult, Phone!Fill,
         PhoneP!Fill, Phone!ApplyResult, PhoneP!ApplyResult, Phone!Layout, PhoneP!Layout,
         Phone!Pick, PhoneP!Pick, Phone!ItemSelected, PhoneP!ItemSelected, Phone!Press,
         PhoneP!Press, Phone!Top, PhoneP!Top, Phone!CloseTop, PhoneP!CloseTop, Phone!Cancel,
         PhoneP!Cancel, Phone!Confirm, PhoneP!Confirm, Phone!ConfirmBlind,
         PhoneP!ConfirmBlind, Phone!EndHttp, PhoneP!EndHttp, Phone!Cardinality,
         PhoneP!Cardinality, Phone!Pins, PhoneP!Pins
<1>1. Phone!Init => PhoneP!Init
  BY Zenon
<1>2. Phone!vars = PhoneP!vars
  BY Zenon
<1>3. /\ Phone!Open => PhoneP!Open
      /\ Phone!Stop => PhoneP!Stop
      /\ Phone!Restart => PhoneP!Restart
      /\ Phone!Leave => PhoneP!Leave
      /\ Phone!Killed => PhoneP!Killed
  BY Zenon
<1>4. \A p : Phone!Register(p) => PhoneP!Register(p)
  BY Zenon
<1>5. \A outcome : Phone!Download(outcome) => PhoneP!Download(outcome)
  BY Zenon
<1>6. /\ Phone!DropResult => PhoneP!DropResult
      /\ Phone!ApplyResult => PhoneP!ApplyResult
      /\ Phone!Layout => PhoneP!Layout
      /\ Phone!ItemSelected => PhoneP!ItemSelected
      /\ \A i : Phone!Pick(i) => PhoneP!Pick(i)
  BY Zenon
<1>7. /\ \A p : Phone!Press(p) => PhoneP!Press(p)
      /\ Phone!Cancel => PhoneP!Cancel
      /\ Phone!ConfirmBlind => PhoneP!ConfirmBlind
      /\ \A c : Phone!Confirm(c) => PhoneP!Confirm(c)
      /\ \A c : Phone!EndHttp(c) => PhoneP!EndHttp(c)
  BY Zenon
<1>8. /\ Phone!Plants = PhoneP!Plants /\ Phone!Pins = PhoneP!Pins
      /\ Phone!Listings(registered) \cup {Phone!Failed} = PhoneP!Listings(registered) \cup {PhoneP!Failed}
  BY Zenon
<1> QED
  BY <1>1, <1>2, <1>3, <1>4, <1>5, <1>6, <1>7, <1>8, Zenon DEF Phone!Next, PhoneP!Next

LEMMA SameBoard ==
    (Board!Init => BoardP!Init) /\ (Board!Next => BoardP!Next) /\ Board!vars = BoardP!vars
  BY Zenon DEF Board!vars, BoardP!vars, Board!NoSwitch, BoardP!NoSwitch, Board!Asks,
         BoardP!Asks, Board!Alive, BoardP!Alive, Board!Init, BoardP!Init, Board!Accept,
         BoardP!Accept, Board!Deliver, BoardP!Deliver, Board!PeerClose, BoardP!PeerClose,
         Board!ConnectWiFi, BoardP!ConnectWiFi, Board!Claim, BoardP!Claim, Board!ReadRequest,
         BoardP!ReadRequest, Board!Actuate, BoardP!Actuate, Board!Reply, BoardP!Reply,
         Board!Reset, BoardP!Reset, Board!Next, BoardP!Next,
         Board!Board!Pins, BoardP!Board!Pins, Board!Board!Levels, BoardP!Board!Levels,
         Board!Board!AllLow, BoardP!Board!AllLow, Board!Board!Switches, BoardP!Board!Switches,
         Board!Board!NoSwitch, BoardP!Board!NoSwitch, Board!Board!Asks, BoardP!Board!Asks,
         Board!Board!Switched, BoardP!Board!Switched

LEMMA SameDb ==
    (Db!Init => DbP!Init) /\ (Db!Next => DbP!Next) /\ Db!vars = DbP!vars
  BY Zenon DEF Db!vars, DbP!vars, Db!Columns, DbP!Columns, Db!Values, DbP!Values, Db!Cells,
         DbP!Cells, Db!Orders, DbP!Orders, Db!NoOrder, DbP!NoOrder, Db!MaxTries, DbP!MaxTries,
         Db!Bodies, DbP!Bodies, Db!ExecutedBody, DbP!ExecutedBody, Db!Init, DbP!Init,
         Db!Unanswered, DbP!Unanswered, Db!Answered, DbP!Answered, Db!Loose, DbP!Loose,
         Db!Post, DbP!Post, Db!Timeout, DbP!Timeout, Db!Fail, DbP!Fail, Db!Hear, DbP!Hear,
         Db!AppKilled, DbP!AppKilled, Db!Execute, DbP!Execute, Db!DbDown, DbP!DbDown,
         Db!LoseRequest, DbP!LoseRequest, Db!Next, DbP!Next

\* A step of the composition is a step of the screen or leaves it alone.
LEMMA PhoneStep == [Next]_vars => [Phone!Next]_Phone!vars
<1> SUFFICES ASSUME [Next]_vars PROVE Phone!Next \/ UNCHANGED Phone!vars
  OBVIOUS
<1>0. UNCHANGED phoneVars => UNCHANGED Phone!vars
  BY DEF phoneVars, Phone!vars, Phone!spinnerVars, Phone!panelVars, Phone!orderVars
<1>1. CASE Screen
  BY <1>1 DEF Screen, Phone!Next
<1>2. ASSUME NEW outcome \in Phone!Listings(registered) \cup {Phone!Failed}, Download(outcome)
      PROVE  Phone!Next
  BY <1>2 DEF Download, Phone!Next
<1>3. ASSUME NEW c \in Cmds, Confirm(c) PROVE Phone!Next
  BY <1>3 DEF Confirm, Phone!Next
<1>4. CASE Die
  BY <1>4 DEF Die, Phone!Next
<1>5. ASSUME NEW c \in Cmds, EndRequest(c) PROVE Phone!Next
  BY <1>5 DEF EndRequest, Phone!Next
<1>6. (\E c \in Cmds : Connect(c)) \/ Volley \/ (\E f \in Foreign, w \in Board!Asks : Browse(f, w))
        \/ (\E c \in Conns : Deliver(c)) \/ (\E c \in Conns : PeerClose(c)) \/ Actuate \/ Loop \/ Reset
        \/ UNCHANGED vars
      => UNCHANGED phoneVars
  BY DEF Connect, Volley, Browse, Deliver, PeerClose, Actuate, Loop, Reset, vars
<1> QED
  BY <1>0, <1>1, <1>2, <1>3, <1>4, <1>5, <1>6 DEF Next

\* The composition runs the screen as Monitor specifies it.
LEMMA PhoneSpec == Spec => PhoneP!Spec
<1>1. Init => PhoneP!Init
  BY SamePhone DEF Init
<1>2. [Next]_vars => [PhoneP!Next]_PhoneP!vars
  <2>1. UNCHANGED Phone!vars => UNCHANGED PhoneP!vars
    BY DEF Phone!vars, Phone!spinnerVars, Phone!panelVars, Phone!orderVars,
           PhoneP!vars, PhoneP!spinnerVars, PhoneP!panelVars, PhoneP!orderVars
  <2> QED BY <2>1, SamePhone, PhoneStep
<1> QED BY <1>1, <1>2, PTL DEF Spec, PhoneP!Spec

LEMMA PhoneInv == Spec => []PhoneP!Inv
<1>1. PhoneP!MonitorAssumption
  BY ParametersFit DEF PhoneP!MonitorAssumption
<1> QED BY <1>1, PhoneSpec, PhoneP!MonitorInv, PTL

\* The commands that have been confirmed, and those whose board request has ended.
Given == {issued[i] : i \in 1..Len(issued)}
Ended == {ran[k] : k \in 1..Len(ran)}

LEMMA PhoneTerms ==
    /\ \A c : Phone!HttpTask(c) = PhoneP!HttpTask(c)
    /\ \A t : Phone!IsHttp(t) = PhoneP!IsHttp(t)
    /\ Phone!NoOrder = PhoneP!NoOrder /\ Phone!Orders = PhoneP!Orders
    /\ Phone!Pins = PhoneP!Pins /\ Phone!Levels = PhoneP!Levels /\ Phone!Plants = PhoneP!Plants
BY DEF Phone!HttpTask, PhoneP!HttpTask, Phone!IsHttp, PhoneP!IsHttp, Phone!NoOrder, PhoneP!NoOrder,
       Phone!Orders, PhoneP!Orders, Phone!Pins, PhoneP!Pins, Phone!Levels, PhoneP!Levels,
       Phone!Plants, PhoneP!Plants, Phone!NoPlant, PhoneP!NoPlant

\* What the screen's invariant says of the commands.
LEMMA PhoneTypes ==
    ASSUME PhoneP!Inv
    PROVE  /\ issued \in Seq(Cmds) /\ ran \in Seq(Cmds) /\ lost \subseteq Given
           /\ executor \in Seq(PhoneP!Tasks)
           /\ want \in [Cmds -> Phone!Orders \cup {Phone!NoOrder}]
           /\ \A c \in Given : c \in Cmds /\ want[c] \in Phone!Orders
           /\ \A i, j \in 1..Len(issued) : issued[i] = issued[j] => i = j
           /\ label \in [Phone!Pins -> Phone!Levels]
<1>1. PhoneP!Types /\ PhoneP!Once
  BY DEF PhoneP!Inv
<1>2. /\ issued \in Seq(Cmds) /\ ran \in Seq(Cmds) /\ executor \in Seq(PhoneP!Tasks)
      /\ want \in [Cmds -> Phone!Orders \cup {Phone!NoOrder}]
      /\ label \in [Phone!Pins -> Phone!Levels]
  BY <1>1, PhoneTerms DEF PhoneP!Types
<1>3. ASSUME NEW c \in Given PROVE c \in Cmds /\ want[c] \in Phone!Orders
  <2>1. PICK i \in 1..Len(issued) : c = issued[i]
    BY DEF Given
  <2>2. want[c] # Phone!NoOrder /\ c \in Cmds
    BY <1>1, <1>2, <2>1, PhoneTerms DEF PhoneP!Once
  <2> QED BY <1>2, <2>2
<1> QED BY <1>1, <1>2, <1>3 DEF PhoneP!Once, Given

\* What the screen's invariant says of the executor: a command that was confirmed
\* and has not died with the process has ended or waits in it, those that have
\* ended came before those that wait.
LEMMA PhoneLine ==
    ASSUME PhoneP!Inv
    PROVE  /\ Ended \subseteq Given \ lost
           /\ \A l \in 1..Len(executor), c \in Cmds :
                 executor[l] = Phone!HttpTask(c) => c \in Given \ lost
           /\ \A c \in Given \ lost :
                 c \in Ended \/ \E l \in 1..Len(executor) : executor[l] = Phone!HttpTask(c)
           /\ \A i, j \in 1..Len(issued), l \in 1..Len(executor) :
                 issued[i] \in Ended /\ executor[l] = Phone!HttpTask(issued[j]) => i < j
<1>0. /\ issued \in Seq(Cmds) /\ ran \in Seq(Cmds) /\ executor \in Seq(PhoneP!Tasks)
      /\ NoCmd \notin Cmds /\ PhoneP!RunsAsConfirmed
  BY PhoneTypes, ParametersFit DEF PhoneP!Inv
<1> DEFINE cmds == [i \in 1..Len(executor) |-> executor[i].cmd]
           R == Len(ran)
           E == Len(executor)
<1>1. cmds \in Seq(Cmds \cup {NoCmd}) /\ Len(cmds) = E /\ E \in Nat /\ R \in Nat
  <2>1. \A i \in 1..E : executor[i].cmd \in Cmds \cup {NoCmd}
    BY <1>0 DEF PhoneP!Tasks, PhoneP!ListTask, PhoneP!HttpTask
  <2> QED BY <1>0, <2>1
<1>2. PhoneP!Line = ran \o cmds
  BY DEF PhoneP!Line
<1>3. /\ Len(PhoneP!Line) = R + E
      /\ \A k \in 1..R : PhoneP!Line[k] = ran[k]
      /\ \A l \in 1..E : PhoneP!Line[R + l] = executor[l].cmd
      /\ \A k \in 1..(R + E) : PhoneP!Line[k] = IF k <= R THEN ran[k] ELSE cmds[k - R]
  <2> HIDE DEF cmds
  <2>1. ran \in Seq(Cmds \cup {NoCmd})
    BY <1>0
  <2>2. /\ Len(ran \o cmds) = R + E
        /\ \A k \in 1..(R + E) : (ran \o cmds)[k] = IF k <= R THEN ran[k] ELSE cmds[k - R]
    BY <1>1, <2>1
  <2>3. \A l \in 1..E : R + l \in 1..(R + E) /\ ~(R + l <= R) /\ (R + l) - R = l
    BY <1>1
  <2>4. \A l \in 1..E : (ran \o cmds)[R + l] = cmds[l]
    BY <2>2, <2>3
  <2>5. \A k \in 1..R : k \in 1..(R + E) /\ k <= R
    BY <1>1
  <2> QED BY <1>2, <2>2, <2>4, <2>5 DEF cmds
<1> HIDE DEF cmds
<1>4. {PhoneP!Line[k] : k \in 1..(R + E)} \ {NoCmd} = Given \ lost
  BY <1>0, <1>3 DEF PhoneP!RunsAsConfirmed, Given
<1>5. ASSUME NEW k \in 1..R PROVE ran[k] \in Given \ lost
  <2>1. k \in 1..(R + E) /\ PhoneP!Line[k] = ran[k] /\ ran[k] # NoCmd
    BY <1>0, <1>1, <1>3
  <2> QED BY <1>4, <2>1
<1>6. ASSUME NEW l \in 1..E, NEW c \in Cmds, executor[l] = Phone!HttpTask(c)
      PROVE  c \in Given \ lost
  <2>1. R + l \in 1..(R + E) /\ PhoneP!Line[R + l] = c /\ c # NoCmd
    BY <1>0, <1>1, <1>3, <1>6 DEF Phone!HttpTask
  <2> QED BY <1>4, <2>1
<1>7. ASSUME NEW c \in Given \ lost
      PROVE  c \in Ended \/ \E l \in 1..E : executor[l] = Phone!HttpTask(c)
  <2>1. PICK k \in 1..(R + E) : PhoneP!Line[k] = c /\ c # NoCmd
    BY <1>4
  <2>2. CASE k <= R
    BY <1>1, <1>3, <2>1, <2>2 DEF Ended
  <2>3. CASE ~(k <= R)
    <3>1. k - R \in 1..E /\ R + (k - R) = k
      BY <1>1, <2>3
    <3>2. executor[k - R].cmd = c
      BY <1>3, <2>1, <3>1
    <3>3. executor[k - R] = Phone!HttpTask(c)
      <4>1. executor[k - R] \in PhoneP!Tasks /\ c # NoCmd
        BY <1>0, <2>1, <3>1
      <4>2. PICK v : executor[k - R] = PhoneP!ListTask(v) \/ executor[k - R] = PhoneP!HttpTask(v)
        BY <4>1 DEF PhoneP!Tasks
      <4>3. executor[k - R] = PhoneP!HttpTask(v)
        BY <3>2, <4>1, <4>2 DEF PhoneP!ListTask
      <4>4. v = c
        BY <3>2, <4>3 DEF PhoneP!HttpTask
      <4> QED BY <4>3, <4>4, PhoneTerms
    <3> QED BY <3>1, <3>3
  <2> QED BY <2>2, <2>3
<1>8. ASSUME NEW i \in 1..Len(issued), NEW j \in 1..Len(issued), NEW l \in 1..E,
             issued[i] \in Ended, executor[l] = Phone!HttpTask(issued[j])
      PROVE  i < j
  <2>1. PICK k \in 1..R : ran[k] = issued[i]
    BY <1>8 DEF Ended
  <2>2. k \in 1..(R + E) /\ R + l \in 1..(R + E) /\ k < R + l
    BY <1>1
  <2>3. PhoneP!Line[k] = issued[i] /\ PhoneP!Line[R + l] = issued[j]
    BY <1>3, <1>8, <2>1 DEF Phone!HttpTask
  <2>4. i < j <=> k < R + l
    BY <1>0, <1>3, <2>2, <2>3 DEF PhoneP!RunsAsConfirmed
  <2> QED BY <2>2, <2>4
<1> QED BY <1>5, <1>6, <1>7, <1>8 DEF Ended

\* What a confirmed command asks the board for, and what it asks the server for.
LEMMA OrderType ==
    ASSUME NEW o \in Phone!Orders
    PROVE  /\ [pin |-> o.pin, level |-> o.level] \in Board!Asks
           /\ DbOrder(o) \in Db!Orders
BY DEF Phone!Orders, Phone!Plants, Phone!Pins, Phone!Levels, Board!Asks, Board!Board!Asks,
       Board!Board!Pins, Board!Board!Levels, Board!Board!Switches, DbOrder, Db!Orders, Db!Cells,
       Db!Columns, Db!Values, Column, Value

\* The order a confirmed dialog makes.
LEMMA ConfirmedOrder ==
    ASSUME PhoneP!Inv, NEW c \in Cmds, Phone!Confirm(c)
    PROVE  want' = [want EXCEPT ![c] = want'[c]] /\ want'[c] \in Phone!Orders /\ want[c] = Phone!NoOrder
<1>1. /\ want \in [Cmds -> Phone!Orders \cup {Phone!NoOrder}]
      /\ modelNumber \in Phone!Plants \cup {Phone!NoPlant}
      /\ dialogs \in Seq(PhoneP!Asks)
  BY PhoneTerms DEF PhoneP!Inv, PhoneP!Types, Phone!NoPlant, PhoneP!NoPlant
<1> DEFINE o == [plant |-> modelNumber, pin |-> Phone!Top.pin, level |-> Phone!Top.level]
<1>2. want' = [want EXCEPT ![c] = o] /\ modelNumber # Phone!NoPlant /\ dialogs # <<>> /\ want[c] = Phone!NoOrder
  BY DEF Phone!Confirm
<1>3. Phone!Top \in PhoneP!Asks
  BY <1>1, <1>2 DEF Phone!Top
<1>4. o \in Phone!Orders
  BY <1>1, <1>2, <1>3, PhoneTerms DEF PhoneP!Asks, Phone!Orders
<1> HIDE DEF o
<1>5. want'[c] = o
  BY <1>1, <1>2
<1> QED BY <1>1, <1>2, <1>4, <1>5

LEMMA DbStep == PhoneP!Inv /\ [Next]_vars => [Db!Next]_Db!vars
<1> SUFFICES ASSUME PhoneP!Inv, [Next]_vars PROVE Db!Next \/ UNCHANGED Db!vars
  OBVIOUS
<1>0. UNCHANGED dbVars => UNCHANGED Db!vars
  BY DEF dbVars, Db!vars
<1>1. ASSUME NEW c \in Cmds, Confirm(c) PROVE Db!Next
  <2>1. Db!Post(c, DbOrder(want'[c])) /\ Phone!Confirm(c)
    BY <1>1 DEF Confirm
  <2>2. DbOrder(want'[c]) \in Db!Orders
    BY <2>1, ConfirmedOrder, OrderType
  <2> QED BY <2>1, <2>2 DEF Db!Next
<1>2. CASE Die
  BY <1>0, <1>2 DEF Die, Db!Next
<1>3. CASE Volley
  <2>1. CASE \E s \in wire : Db!Execute(s[1], s[2]) \/ Db!DbDown(s[1], s[2]) \/ Db!LoseRequest(s[1], s[2])
    BY <2>1 DEF Db!Next
  <2>2. CASE \E c \in Cmds : Db!Timeout(c) \/ Db!Fail(c) \/ \E body \in Db!Bodies : Db!Hear(c, body)
    BY <2>2 DEF Db!Next
  <2> QED BY <1>3, <2>1, <2>2 DEF Volley
<1>4. Screen \/ (\E outcome \in Phone!Listings(registered) \cup {Phone!Failed} : Download(outcome))
        \/ (\E c \in Cmds : Connect(c)) \/ (\E c \in Cmds : EndRequest(c))
        \/ (\E f \in Foreign, w \in Board!Asks : Browse(f, w))
        \/ (\E c \in Conns : Deliver(c)) \/ (\E c \in Conns : PeerClose(c)) \/ Actuate \/ Loop \/ Reset
        \/ UNCHANGED vars
      => UNCHANGED dbVars
  BY DEF Screen, Download, Connect, EndRequest, Browse, Deliver, PeerClose, Actuate, Loop, Reset, vars
<1> QED
  BY <1>0, <1>1, <1>2, <1>3, <1>4 DEF Next

\* The head of the executor is a command that was confirmed and has not ended.
LEMMA RunningGiven ==
    ASSUME PhoneP!Inv, NEW c \in Cmds, Running(c)
    PROVE  /\ c \in Given \ lost
           /\ executor \in Seq(PhoneP!Tasks) /\ 1 \in 1..Len(executor) /\ executor[1] = Phone!HttpTask(c)
<1>1. executor \in Seq(PhoneP!Tasks) /\ executor # <<>>
  BY PhoneTypes DEF Running
<1>2. 1 \in 1..Len(executor) /\ executor[1] = Phone!HttpTask(c)
  BY <1>1 DEF Running
<1> QED BY <1>1, <1>2, PhoneLine

LEMMA BoardStep == PhoneP!Inv /\ [Next]_vars => [Board!Next]_Board!vars
<1> SUFFICES ASSUME PhoneP!Inv, [Next]_vars PROVE Board!Next \/ UNCHANGED Board!vars
  OBVIOUS
<1>0. UNCHANGED boardVars => UNCHANGED Board!vars
  BY DEF boardVars, Board!vars
<1>1. ASSUME NEW c \in Cmds, Connect(c) PROVE Board!Next
  <2>1. Path(c) \in Board!Asks
    BY <1>1, RunningGiven, PhoneTypes, OrderType DEF Connect, Path
  <2> QED BY <1>1, <2>1 DEF Connect, Board!Next, Conns
<1>2. ASSUME NEW f \in Foreign, NEW w \in Board!Asks, Browse(f, w) PROVE Board!Next
  BY <1>2 DEF Browse, Board!Next, Conns
<1>3. ASSUME NEW c \in Conns, Deliver(c) \/ PeerClose(c) PROVE Board!Next
  BY <1>3 DEF Deliver, PeerClose, Board!Next
<1>4. ASSUME Actuate \/ Loop \/ Reset PROVE Board!Next
  BY <1>4 DEF Actuate, Loop, Reset, Board!Next
<1>5. Screen \/ (\E outcome \in Phone!Listings(registered) \cup {Phone!Failed} : Download(outcome))
        \/ (\E c \in Cmds : Confirm(c)) \/ (\E c \in Cmds : EndRequest(c)) \/ Die \/ Volley
        \/ UNCHANGED vars
      => UNCHANGED boardVars
  BY DEF Screen, Download, Confirm, EndRequest, Die, Volley, vars
<1> QED
  BY <1>0, <1>1, <1>2, <1>3, <1>4, <1>5 DEF Next

LEMMA DbSpec == Spec => DbP!Spec
<1>1. Init => DbP!Init
  BY SameDb DEF Init
<1>2. PhoneP!Inv /\ [Next]_vars => [DbP!Next]_DbP!vars
  <2>1. UNCHANGED Db!vars => UNCHANGED DbP!vars
    BY DEF Db!vars, DbP!vars
  <2> QED BY <2>1, SameDb, DbStep
<1> QED BY <1>1, <1>2, PhoneInv, PTL DEF Spec, DbP!Spec

LEMMA BoardSpec == Spec => BoardP!Spec
<1>1. Init => BoardP!Init
  BY SameBoard DEF Init
<1>2. PhoneP!Inv /\ [Next]_vars => [BoardP!Next]_BoardP!vars
  <2>1. UNCHANGED Board!vars => UNCHANGED BoardP!vars
    BY DEF Board!vars, BoardP!vars
  <2> QED BY <2>1, SameBoard, BoardStep
<1> QED BY <1>1, <1>2, PhoneInv, PTL DEF Spec, BoardP!Spec

LEMMA DbInv == Spec => []DbP!Sound
<1>1. DbP!NoCmdAssumption
  BY ParametersFit DEF DbP!NoCmdAssumption
<1> QED BY <1>1, DbSpec, DbP!ControlDbIsSound, PTL

LEMMA BoardInv == Spec => [](BoardP!TypeOK /\ BoardP!BoardSound)
<1>1. BoardP!NoneAssumption
  BY ParametersFit DEF BoardP!NoneAssumption
<1> QED BY <1>1, BoardSpec, BoardP!BoardIsSound, PTL

LEMMA BoardKept == Spec => BoardP!ImplementsBoard
<1>1. BoardP!NoneAssumption
  BY ParametersFit DEF BoardP!NoneAssumption
<1> QED BY <1>1, BoardSpec, BoardP!BoardTheorem, PTL

\* The parts of the composition keep their own invariants.
Parts == PhoneP!Inv /\ BoardP!TypeOK /\ BoardP!BoardSound /\ DbP!Sound

LEMMA PartsInv == Spec => []Parts
BY PhoneInv, BoardInv, DbInv, PTL DEF Parts

\* What the board's invariant says of the connections.
LEMMA BoardFacts ==
    ASSUME Parts
    PROVE  /\ pc \in {"setup", "loop", "wait", "act", "reply"}
           /\ client \in Conns \cup {NoConn}
           /\ unclaimed \in Seq(Conns)
           /\ st \in [Conns -> {"new", "queued", "claimed", "served", "dropped"}]
           /\ rx \in [Conns -> {"none", "part", "line"}]
           /\ pins \in [Phone!Pins -> Phone!Levels]
           /\ asked \in [Conns -> Board!Asks]
           /\ answered \subseteq Conns
           /\ \A i \in 1..Len(unclaimed) : st[unclaimed[i]] = "queued"
           /\ pc \in {"wait", "act", "reply"} => client \in Conns
           /\ \A c \in Conns : st[c] = "claimed" <=> c = client /\ pc \in {"wait", "act"}
           /\ \A c \in Conns : st[c] = "queued" <=> \E i \in 1..Len(unclaimed) : unclaimed[i] = c
           /\ pc = "reply" => st[client] = "served"
<1>1. BoardP!TypeOK /\ BoardP!QueueExact /\ BoardP!ClientExact
  BY DEF Parts, BoardP!BoardSound
<1>2. BoardP!Pins = Phone!Pins /\ BoardP!Levels = Phone!Levels /\ BoardP!Asks = Board!Asks
  BY DEF BoardP!Pins, BoardP!Board!Pins, Phone!Pins, BoardP!Levels, BoardP!Board!Levels, Phone!Levels,
         BoardP!Asks, BoardP!Board!Asks, Board!Asks, Board!Board!Asks, Board!Board!Switches,
         BoardP!Board!Switches, Board!Board!Pins, Board!Board!Levels, Board!Board!NoSwitch,
         BoardP!Board!NoSwitch
<1>3. /\ pc \in {"setup", "loop", "wait", "act", "reply"}
      /\ client \in Conns \cup {NoConn}
      /\ unclaimed \in Seq(Conns)
      /\ st \in [Conns -> {"new", "queued", "claimed", "served", "dropped"}]
      /\ rx \in [Conns -> {"none", "part", "line"}]
      /\ pins \in [Phone!Pins -> Phone!Levels]
      /\ asked \in [Conns -> Board!Asks]
      /\ answered \subseteq Conns
  BY <1>1, <1>2 DEF BoardP!TypeOK
<1>4. \A i \in 1..Len(unclaimed) : unclaimed[i] \in Conns /\ st[unclaimed[i]] = "queued"
  BY <1>1, <1>3 DEF BoardP!QueueExact
<1>5. pc \in {"wait", "act", "reply"} => client \in Conns
  BY <1>1, <1>3 DEF BoardP!ClientExact, BoardP!Busy
<1> QED BY <1>1, <1>3, <1>4, <1>5 DEF BoardP!ClientExact, BoardP!QueueExact

----------------------------------------------------------------------------
(* The order of the effects. *)

\* A command whose connection reached the board has ended or is the running one,
\* unless it died with the process.
Started == \A c \in Cmds : st[c] # "new" => c \in lost \cup Ended \/ Running(c)

\* What died with the process was confirmed before anything that waits now.
LostFirst ==
    \A i, j \in 1..Len(issued), k \in 1..Len(executor) :
        issued[i] \in lost /\ executor[k] = Phone!HttpTask(issued[j]) => i < j

Effective == effects \in Seq(Conns) /\ \A i \in 1..Len(effects) : st[effects[i]] = "served"

\* c was confirmed before d, if both are commands.
Before(c, d) == \A i, j \in 1..Len(issued) : issued[i] = c /\ issued[j] = d => i < j

\* Effects, the connection loop() serves and those that wait are in this order.
Ordered ==
    /\ \A i, j \in 1..Len(effects) : i < j => Before(effects[i], effects[j])
    /\ \A i, j \in 1..Len(unclaimed) : i < j => Before(unclaimed[i], unclaimed[j])
    /\ \A i \in 1..Len(effects), j \in 1..Len(unclaimed) : Before(effects[i], unclaimed[j])
    /\ pc \in {"wait", "act"} =>
          /\ \A i \in 1..Len(effects) : Before(effects[i], client)
          /\ \A j \in 1..Len(unclaimed) : Before(client, unclaimed[j])

OrderInv == Started /\ LostFirst /\ Effective /\ Ordered

LEMMA OrderInitially == Init => OrderInv
<1> SUFFICES ASSUME Init PROVE OrderInv
  OBVIOUS
<1>1. /\ effects = <<>> /\ unclaimed = <<>> /\ pc = "setup" /\ lost = {}
      /\ \A c \in Conns : st[c] = "new"
  BY DEF Init, Phone!Init, Board!Init
<1>2. Started /\ LostFirst
  BY <1>1 DEF Started, LostFirst, Conns
<1>3. Len(effects) = 0 /\ Len(unclaimed) = 0 /\ effects \in Seq(Conns)
  BY <1>1
<1>4. Effective /\ Ordered
  BY <1>1, <1>3 DEF Effective, Ordered
<1> QED BY <1>2, <1>4 DEF OrderInv

\* The steps by what they do to the commands on the phone: nothing (then the board
\* or the server may move), or one of five things while the board stands still.
CommandsKept == UNCHANGED <<executor, want, issued, ran, lost>>

LEMMA StepKinds ==
    ASSUME PhoneP!Inv, [Next]_vars
    PROVE  \/ CommandsKept
           \/ /\ UNCHANGED <<boardVars, effects, faults>>
              /\ \/ /\ UNCHANGED <<want, issued, ran, lost>>
                    /\ \/ \E v : executor' = Append(executor, Phone!ListTask(v))
                       \/ executor # <<>> /\ ~Phone!IsHttp(Head(executor)) /\ executor' = Tail(executor)
                 \/ \E c \in Cmds : Confirm(c)
                 \/ Die
                 \/ \E c \in Cmds : EndRequest(c)
<1>1. CASE Screen
  <2>1. CASE Phone!Open \/ Phone!Restart
    BY <1>1, <2>1 DEF Screen, Phone!Open, Phone!Restart, Phone!orderVars
  <2>2. CASE \/ Phone!Stop \/ Phone!Leave \/ Phone!DropResult \/ Phone!ApplyResult \/ Phone!Layout
             \/ Phone!ItemSelected \/ Phone!Cancel \/ \E i \in 1..Slots : Phone!Pick(i)
             \/ \E p : Phone!Press(p) \/ Phone!Register(p)
    BY <2>2 DEF CommandsKept, Phone!Stop, Phone!Leave, Phone!DropResult, Phone!ApplyResult,
         Phone!Layout, Phone!ItemSelected, Phone!Cancel, Phone!Pick, Phone!Press, Phone!Register,
         Phone!orderVars
  <2> QED BY <1>1, <2>1, <2>2 DEF Screen
<1>2. CASE \E outcome \in Phone!Listings(registered) \cup {Phone!Failed} : Download(outcome)
  BY <1>2 DEF Download, Phone!Download, Phone!orderVars
<1>3. CASE (\E c \in Cmds : Confirm(c)) \/ Die \/ (\E c \in Cmds : EndRequest(c))
  BY <1>3 DEF Confirm, Die, EndRequest
<1>4. CASE \/ (\E c \in Cmds : Connect(c)) \/ Volley \/ (\E f \in Foreign, w \in Board!Asks : Browse(f, w))
           \/ (\E c \in Conns : Deliver(c)) \/ (\E c \in Conns : PeerClose(c)) \/ Actuate \/ Loop \/ Reset
           \/ UNCHANGED vars
  BY <1>4 DEF Connect, Volley, Browse, Deliver, PeerClose, Actuate, Loop, Reset, vars, phoneVars,
       CommandsKept
<1> QED BY <1>1, <1>2, <1>3, <1>4 DEF Next

\* The steps by what they do to the connections.
LEMMA BoardKinds ==
    ASSUME [Next]_vars
    PROVE  \/ UNCHANGED <<pc, client, unclaimed, st, effects>>
           \/ \E c \in Cmds : Connect(c)
           \/ \E f \in Foreign, w \in Board!Asks : Browse(f, w)
           \/ Actuate \/ Loop \/ Reset
<1>1. \/ Screen \/ (\E outcome \in Phone!Listings(registered) \cup {Phone!Failed} : Download(outcome))
      \/ (\E c \in Cmds : Confirm(c)) \/ (\E c \in Cmds : EndRequest(c)) \/ Die \/ Volley
      \/ UNCHANGED vars
      => UNCHANGED <<pc, client, unclaimed, st, effects>>
  BY DEF Screen, Download, Confirm, EndRequest, Die, Volley, vars, boardVars
<1>2. (\E c \in Conns : Deliver(c)) \/ (\E c \in Conns : PeerClose(c))
      => UNCHANGED <<pc, client, unclaimed, st, effects>>
  BY DEF Deliver, PeerClose, Board!Deliver, Board!PeerClose
<1> QED BY <1>1, <1>2 DEF Next

LEMMA StartedStep == Parts /\ Started /\ [Next]_vars => Started'
<1> SUFFICES ASSUME Parts, Started, [Next]_vars, NEW c \in Cmds, st'[c] # "new"
             PROVE  c \in lost' \cup Ended' \/ Running(c)'
  BY DEF Started
<1> USE DEF Phone!HttpTask, Phone!ListTask, Phone!IsHttp
<1>0. /\ PhoneP!Inv /\ executor \in Seq(PhoneP!Tasks) /\ ran \in Seq(Cmds) /\ c \in Conns
      /\ st \in [Conns -> {"new", "queued", "claimed", "served", "dropped"}]
  BY PhoneTypes, BoardFacts DEF Parts, Conns
<1>1. CASE CommandsKept
  <2>0. lost' = lost /\ Ended' = Ended /\ (Running(c)' <=> Running(c))
    BY <1>1 DEF CommandsKept, Ended, Running
  <2>1. CASE st[c] # "new"
    BY <2>0, <2>1 DEF Started
  <2>2. ASSUME st[c] = "new" PROVE Running(c)
    <3>1. CASE UNCHANGED <<pc, client, unclaimed, st, effects>>
      BY <2>2, <3>1
    <3>2. CASE \E d \in Cmds : Connect(d)
      BY <1>0, <2>2, <3>2 DEF Connect, Board!Accept
    <3>3. CASE \E f \in Foreign, w \in Board!Asks : Browse(f, w)
      BY <1>0, <2>2, <3>3, DeviceAssumption DEF Browse, Board!Accept, DeviceAssumption
    <3>4. CASE Actuate
      BY <1>0, <2>2, <3>4, BoardFacts DEF Actuate, Board!Actuate
    <3>5. CASE Loop
      <4>1. CASE Board!Claim
        <5>1. unclaimed # <<>> /\ unclaimed \in Seq(Conns)
          BY <4>1, BoardFacts DEF Board!Claim
        <5>2. st[Head(unclaimed)] = "queued"
          BY <5>1, BoardFacts
        <5> QED BY <1>0, <2>2, <4>1, <5>2 DEF Board!Claim
      <4>2. CASE Board!ConnectWiFi \/ Board!ReadRequest \/ Board!Reply
        BY <2>2, <4>2 DEF Board!ConnectWiFi, Board!ReadRequest, Board!Reply
      <4> QED BY <3>5, <4>1, <4>2 DEF Loop
    <3>6. CASE Reset
      BY <1>0, <2>2, <3>6 DEF Reset, Board!Reset, Board!Alive
    <3> QED BY <3>1, <3>2, <3>3, <3>4, <3>5, <3>6, BoardKinds
  <2> QED BY <2>0, <2>1, <2>2
<1>2. ASSUME UNCHANGED <<boardVars, effects, faults>> PROVE c \in lost \cup Ended \/ Running(c)
  BY <1>2 DEF boardVars, Started
<1>3. ASSUME NEW t, executor' = Append(executor, t), Running(c) PROVE Running(c)'
  BY <1>0, <1>3 DEF Running
<1>4. CASE UNCHANGED <<want, issued, ran, lost>> /\ \E v : executor' = Append(executor, Phone!ListTask(v))
                /\ UNCHANGED <<boardVars, effects, faults>>
  BY <1>2, <1>3, <1>4 DEF Ended
<1>5. CASE UNCHANGED <<want, issued, ran, lost, boardVars, effects, faults>> /\ executor # <<>>
             /\ ~Phone!IsHttp(Head(executor)) /\ executor' = Tail(executor)
  BY <1>2, <1>5 DEF Ended, Running
<1>6. CASE \E d \in Cmds : Confirm(d)
  <2>1. UNCHANGED <<boardVars, effects, faults, ran, lost>>
           /\ \E d \in Cmds : executor' = Append(executor, Phone!HttpTask(d))
    BY <1>6 DEF Confirm, Phone!Confirm
  <2> QED BY <1>2, <1>3, <2>1 DEF Ended
<1>7. CASE Die
  <2>1. Phone!Die /\ UNCHANGED <<boardVars, effects, faults>>
    BY <1>7 DEF Die, Phone!Killed, Phone!ConfirmBlind
  <2>2. UNCHANGED ran /\ lost \subseteq lost'
    BY <2>1 DEF Phone!Die
  <2>3. ASSUME Running(c) PROVE c \in lost'
    <3>1. 1 \in 1..Len(executor) /\ executor[1] = Phone!HttpTask(c)
      BY <1>0, <2>3, RunningGiven
    <3> QED BY <2>1, <3>1 DEF Phone!Die
  <2> QED BY <1>2, <2>1, <2>2, <2>3 DEF Ended
<1>8. CASE \E d \in Cmds : EndRequest(d)
  <2>1. PICK d \in Cmds : EndRequest(d)
    BY <1>8
  <2>2. /\ UNCHANGED <<boardVars, effects, faults, lost>> /\ ran' = Append(ran, d)
        /\ Head(executor) = Phone!HttpTask(d)
    BY <2>1 DEF EndRequest, Phone!EndHttp
  <2>3. Ended \subseteq Ended' /\ d \in Ended'
    BY <1>0, <2>2 DEF Ended
  <2> QED BY <1>2, <2>2, <2>3 DEF Running
<1> QED BY <1>0, <1>1, <1>4, <1>5, <1>6, <1>7, <1>8, StepKinds

\* The connection that the running task opens belongs to a command confirmed after
\* all those whose connections have reached the board.
LEMMA AfterAll ==
    ASSUME Parts, Started, LostFirst, NEW c \in Cmds, Running(c), st[c] = "new",
           NEW d \in Conns, st[d] # "new"
    PROVE  Before(d, c)
<1> SUFFICES ASSUME NEW i \in 1..Len(issued), NEW j \in 1..Len(issued), issued[i] = d, issued[j] = c
             PROVE  i < j
  BY DEF Before
<1>1. PhoneP!Inv /\ d \in Cmds
  BY PhoneTypes DEF Parts
<1>2. 1 \in 1..Len(executor) /\ executor[1] = Phone!HttpTask(issued[j])
  BY <1>1, RunningGiven
<1>3. CASE d \in lost
  BY <1>2, <1>3 DEF LostFirst
<1>4. CASE d \in Ended
  BY <1>1, <1>2, <1>4, PhoneLine
<1>5. ~Running(d)
  <2>1. c # d
    OBVIOUS
  <2> QED BY <2>1 DEF Running, Phone!HttpTask
<1> QED BY <1>1, <1>3, <1>4, <1>5 DEF Started

LEMMA NotGiven ==
    ASSUME PhoneP!Inv, NEW c, want[c] = Phone!NoOrder
    PROVE  c \notin Given
<1>1. Phone!NoOrder \notin Phone!Orders
  <2>1. \A o \in Phone!Orders : o.pin \in Phone!Pins
    BY DEF Phone!Orders
  <2>2. Phone!NoOrder.pin \notin Phone!Pins
    BY DEF Phone!NoOrder, Phone!Pins
  <2> QED BY <2>1, <2>2
<1> QED BY <1>1, PhoneTypes

LEMMA LostFirstStep == Parts /\ LostFirst /\ [Next]_vars => LostFirst'
<1> SUFFICES ASSUME Parts, LostFirst, [Next]_vars,
                    NEW i \in 1..Len(issued'), NEW j \in 1..Len(issued'), NEW k \in 1..Len(executor'),
                    issued'[i] \in lost', executor'[k] = Phone!HttpTask(issued'[j])
             PROVE  i < j
  BY DEF LostFirst, Phone!HttpTask
<1>0. /\ PhoneP!Inv /\ executor \in Seq(PhoneP!Tasks) /\ issued \in Seq(Cmds) /\ lost \subseteq Given
  BY PhoneTypes DEF Parts
<1>1. CASE UNCHANGED <<issued, lost>> /\ executor' = executor
  BY <1>1 DEF LostFirst
<1>2. CASE UNCHANGED <<issued, lost>> /\ \E v : executor' = Append(executor, Phone!ListTask(v))
  <2>1. k \in 1..Len(executor) /\ executor'[k] = executor[k]
    BY <1>0, <1>2 DEF Phone!ListTask, Phone!HttpTask
  <2> QED BY <1>2, <2>1 DEF LostFirst
<1>3. CASE UNCHANGED <<issued, lost>> /\ executor # <<>> /\ executor' = Tail(executor)
  <2>1. k + 1 \in 1..Len(executor) /\ executor'[k] = executor[k + 1]
    BY <1>0, <1>3
  <2> QED BY <1>3, <2>1 DEF LostFirst
<1>4. ASSUME NEW c \in Cmds, Confirm(c) PROVE i < j
  <2>1. /\ issued' = Append(issued, c) /\ lost' = lost /\ executor' = Append(executor, Phone!HttpTask(c))
        /\ want[c] = Phone!NoOrder
    BY <1>4 DEF Confirm, Phone!Confirm
  <2>2. c \notin Given
    BY <1>0, <2>1, NotGiven
  <2>3. i \in 1..Len(issued) /\ issued'[i] = issued[i]
    BY <1>0, <2>1, <2>2
  <2>4. CASE j = Len(issued) + 1
    BY <1>0, <2>3, <2>4
  <2>5. CASE j # Len(issued) + 1
    <3>1. j \in 1..Len(issued) /\ issued'[j] = issued[j]
      BY <1>0, <2>1, <2>5
    <3>2. k \in 1..Len(executor) /\ executor'[k] = executor[k]
      BY <1>0, <2>1, <2>2, <3>1 DEF Phone!HttpTask, Given
    <3> QED BY <2>1, <2>3, <3>1, <3>2 DEF LostFirst
  <2> QED BY <2>4, <2>5
<1>5. CASE Die
  <2>1. executor' = <<>>
    BY <1>5 DEF Die, Phone!Killed, Phone!ConfirmBlind, Phone!Die
  <2> QED BY <2>1
<1>6. ASSUME NEW c \in Cmds, EndRequest(c) PROVE UNCHANGED <<issued, lost>> /\ executor # <<>> /\ executor' = Tail(executor)
  BY <1>6 DEF EndRequest, Phone!EndHttp
<1> QED BY <1>0, <1>1, <1>2, <1>3, <1>4, <1>5, <1>6, StepKinds DEF CommandsKept

LEMMA EffectiveStep == Parts /\ Effective /\ [Next]_vars => Effective'
<1> SUFFICES ASSUME Parts, Effective, [Next]_vars PROVE Effective'
  OBVIOUS
<1>0. /\ st \in [Conns -> {"new", "queued", "claimed", "served", "dropped"}]
      /\ effects \in Seq(Conns) /\ \A i \in 1..Len(effects) : st[effects[i]] = "served"
      /\ unclaimed \in Seq(Conns) /\ \A i \in 1..Len(unclaimed) : st[unclaimed[i]] = "queued"
      /\ pc \in {"wait", "act"} => client \in Conns /\ st[client] = "claimed"
  BY BoardFacts DEF Effective
<1>1. ASSUME effects' = effects, \A c \in Conns : st[c] = "served" => st'[c] = "served"
      PROVE  Effective'
  BY <1>0, <1>1 DEF Effective
<1>2. CASE UNCHANGED <<pc, client, unclaimed, st, effects>>
  BY <1>1, <1>2
<1>3. CASE (\E c \in Cmds : Connect(c)) \/ \E f \in Foreign, w \in Board!Asks : Browse(f, w)
  <2>1. PICK c \in Conns : /\ st[c] = "new" /\ st' = [st EXCEPT ![c] = "queued"] /\ effects' = effects
    BY <1>3 DEF Connect, Browse, Board!Accept, Conns
  <2> QED BY <1>0, <1>1, <2>1
<1>4. CASE Actuate
  <2>1. /\ client \in Conns /\ st' = [st EXCEPT ![client] = "served"]
        /\ effects' \in {effects, Append(effects, client)}
    BY <1>0, <1>4 DEF Actuate, Board!Actuate
  <2>2. CASE effects' = effects
    BY <1>0, <1>1, <2>1, <2>2
  <2>3. CASE effects' = Append(effects, client)
    <3>1. /\ effects' \in Seq(Conns) /\ Len(effects') = Len(effects) + 1
          /\ \A i \in 1..Len(effects) : effects'[i] = effects[i]
          /\ effects'[Len(effects) + 1] = client
      BY <1>0, <2>1, <2>3
    <3>2. ASSUME NEW i \in 1..Len(effects') PROVE st'[effects'[i]] = "served"
      BY <1>0, <2>1, <3>1
    <3> QED BY <3>1, <3>2 DEF Effective
  <2> QED BY <2>1, <2>2, <2>3
<1>5. CASE Loop
  <2>1. CASE Board!Claim
    <3>1. effects' = effects /\ unclaimed # <<>>
      BY <1>5, <2>1 DEF Loop, Board!Claim
    <3>2. st[Head(unclaimed)] = "queued" /\ Head(unclaimed) \in Conns
      BY <1>0, <3>1
    <3>3. \A c \in Conns : st[c] = "served" => st'[c] = "served"
      BY <1>0, <2>1, <3>2 DEF Board!Claim
    <3> QED BY <1>1, <3>1, <3>3
  <2>2. CASE Board!ConnectWiFi \/ Board!ReadRequest \/ Board!Reply
    BY <1>1, <1>5, <2>2 DEF Loop, Board!ConnectWiFi, Board!ReadRequest, Board!Reply
  <2> QED BY <1>5, <2>1, <2>2 DEF Loop
<1>6. CASE Reset
  BY <1>0, <1>1, <1>6 DEF Reset, Board!Reset, Board!Alive
<1> QED BY <1>2, <1>3, <1>4, <1>5, <1>6, BoardKinds

\* A command that is confirmed now was not confirmed before any of the others.
LEMMA BeforeKept ==
    ASSUME Parts, Started, [Next]_vars, NEW c \in Conns, NEW d \in Conns, st[c] # "new", st[d] # "new",
           Before(c, d)
    PROVE  Before(c, d)'
<1>0. PhoneP!Inv /\ issued \in Seq(Cmds)
  BY PhoneTypes DEF Parts
<1>1. CASE issued' = issued
  BY <1>1 DEF Before
<1>2. ASSUME NEW e \in Cmds, Confirm(e) PROVE Before(c, d)'
  <2>1. issued' = Append(issued, e) /\ want[e] = Phone!NoOrder
    BY <1>2 DEF Confirm, Phone!Confirm
  <2>2. e \notin Given
    BY <1>0, <2>1, NotGiven
  <2>3. c # e /\ d # e
    <3>1. ASSUME st[e] # "new" PROVE e \in Given
      BY <1>0, <3>1, PhoneLine, PhoneTypes, RunningGiven DEF Started
    <3> QED BY <2>2, <3>1
  <2>4. ASSUME NEW i \in 1..Len(issued'), issued'[i] \in {c, d}
        PROVE  i \in 1..Len(issued) /\ issued'[i] = issued[i]
    BY <1>0, <2>1, <2>3, <2>4
  <2> QED BY <2>4 DEF Before
<1>3. ASSUME UNCHANGED <<want, issued, ran, lost>> PROVE issued' = issued
  BY <1>3
<1>4. CASE Die \/ \E e \in Cmds : EndRequest(e)
  BY <1>1, <1>4 DEF Die, Phone!Killed, Phone!ConfirmBlind, Phone!Die, EndRequest, Phone!EndHttp
<1> QED BY <1>0, <1>1, <1>2, <1>3, <1>4, StepKinds DEF CommandsKept

LEMMA OrderedStep == Parts /\ OrderInv /\ [Next]_vars => Ordered'
<1> SUFFICES ASSUME Parts, OrderInv, [Next]_vars PROVE Ordered'
  OBVIOUS
<1> DEFINE Later(c, d) == \A i, j \in 1..Len(issued') : issued'[i] = c /\ issued'[j] = d => i < j
<1>0. /\ Started /\ LostFirst /\ Effective /\ Ordered
      /\ st \in [Conns -> {"new", "queued", "claimed", "served", "dropped"}]
      /\ unclaimed \in Seq(Conns) /\ effects \in Seq(Conns)
  BY BoardFacts DEF OrderInv, Effective
<1>1. /\ \A i \in 1..Len(effects) : effects[i] \in Conns /\ st[effects[i]] # "new"
      /\ \A i \in 1..Len(unclaimed) : unclaimed[i] \in Conns /\ st[unclaimed[i]] # "new"
      /\ pc \in {"wait", "act"} => client \in Conns /\ st[client] # "new"
  BY <1>0, BoardFacts DEF Effective
<1>2. \A c, d \in Conns : st[c] # "new" /\ st[d] # "new" /\ Before(c, d) => Later(c, d)
  <2> SUFFICES ASSUME NEW c \in Conns, NEW d \in Conns, st[c] # "new", st[d] # "new", Before(c, d)
               PROVE  Later(c, d)
    OBVIOUS
  <2>1. Before(c, d)'
    BY <1>0, BeforeKept
  <2> QED BY <2>1 DEF Before
<1>3. Ordered' <=>
        /\ \A i, j \in 1..Len(effects') : i < j => Later(effects'[i], effects'[j])
        /\ \A i, j \in 1..Len(unclaimed') : i < j => Later(unclaimed'[i], unclaimed'[j])
        /\ \A i \in 1..Len(effects'), j \in 1..Len(unclaimed') : Later(effects'[i], unclaimed'[j])
        /\ pc' \in {"wait", "act"} =>
              /\ \A i \in 1..Len(effects') : Later(effects'[i], client')
              /\ \A j \in 1..Len(unclaimed') : Later(client', unclaimed'[j])
  BY DEF Ordered, Before
<1> HIDE DEF Later
\* The old order in the new state.
<1>4. /\ \A i, j \in 1..Len(effects) : i < j => Later(effects[i], effects[j])
      /\ \A i, j \in 1..Len(unclaimed) : i < j => Later(unclaimed[i], unclaimed[j])
      /\ \A i \in 1..Len(effects), j \in 1..Len(unclaimed) : Later(effects[i], unclaimed[j])
      /\ pc \in {"wait", "act"} =>
            /\ \A i \in 1..Len(effects) : Later(effects[i], client)
            /\ \A j \in 1..Len(unclaimed) : Later(client, unclaimed[j])
  BY <1>0, <1>1, <1>2 DEF Ordered
<1>5. CASE UNCHANGED <<pc, client, unclaimed, st, effects>>
  BY <1>3, <1>4, <1>5
<1>6. CASE (\E c \in Cmds : Connect(c)) \/ \E f \in Foreign, w \in Board!Asks : Browse(f, w)
  <2>1. PICK c \in Conns : /\ \E w : Board!Accept(c, w)
                           /\ UNCHANGED <<effects, issued>>
                           /\ c \in Cmds => Running(c)
    BY <1>6, DeviceAssumption DEF Connect, Browse, Conns, phoneVars, DeviceAssumption
  <2>2. /\ st[c] = "new" /\ unclaimed' = Append(unclaimed, c) /\ UNCHANGED <<pc, client>>
    BY <2>1 DEF Board!Accept
  <2>3. ASSUME NEW d \in Conns, st[d] # "new" PROVE Later(d, c)
    <3>1. Before(d, c)
      <4>1. CASE c \in Cmds
        BY <1>0, <2>1, <2>2, <2>3, <4>1, AfterAll
      <4>2. CASE c \notin Cmds
        <5>1. issued \in Seq(Cmds)
          BY PhoneTypes DEF Parts
        <5>2. \A j \in 1..Len(issued) : issued[j] # c
          BY <4>2, <5>1
        <5> QED BY <5>2 DEF Before
      <4> QED BY <4>1, <4>2
    <3> QED BY <2>1, <3>1 DEF Before, Later
  <2>4. /\ Len(unclaimed') = Len(unclaimed) + 1 /\ unclaimed'[Len(unclaimed) + 1] = c
        /\ \A i \in 1..Len(unclaimed) : unclaimed'[i] = unclaimed[i]
    BY <1>0, <2>2
  <2>5. \A i, j \in 1..Len(unclaimed') : i < j => Later(unclaimed'[i], unclaimed'[j])
    <3> SUFFICES ASSUME NEW i \in 1..Len(unclaimed'), NEW j \in 1..Len(unclaimed'), i < j
                 PROVE  Later(unclaimed'[i], unclaimed'[j])
      OBVIOUS
    <3>1. i \in 1..Len(unclaimed) /\ unclaimed'[i] = unclaimed[i]
      BY <1>0, <2>4
    <3>2. CASE j = Len(unclaimed) + 1
      BY <1>1, <2>3, <2>4, <3>1, <3>2
    <3>3. CASE j # Len(unclaimed) + 1
      <4>1. j \in 1..Len(unclaimed)
        BY <1>0, <2>4, <3>3
      <4> QED BY <1>4, <2>4, <3>1, <4>1
    <3> QED BY <3>2, <3>3
  <2>6. \A d \in Conns : st[d] # "new" /\ (\A j \in 1..Len(unclaimed) : Later(d, unclaimed[j]))
           => \A j \in 1..Len(unclaimed') : Later(d, unclaimed'[j])
    <3> SUFFICES ASSUME NEW d \in Conns, st[d] # "new", \A j \in 1..Len(unclaimed) : Later(d, unclaimed[j]),
                        NEW j \in 1..Len(unclaimed')
                 PROVE  Later(d, unclaimed'[j])
      OBVIOUS
    <3>1. j = Len(unclaimed) + 1 \/ j \in 1..Len(unclaimed)
      BY <1>0, <2>4
    <3> QED BY <2>3, <2>4, <3>1
  <2>7. effects' = effects /\ pc' = pc /\ client' = client
    BY <2>1, <2>2
  <2>8. \A i \in 1..Len(effects'), j \in 1..Len(unclaimed') : Later(effects'[i], unclaimed'[j])
    BY <1>1, <1>4, <2>6, <2>7
  <2> QED BY <1>1, <1>3, <1>4, <2>5, <2>6, <2>7, <2>8
<1>7. CASE Actuate
  <2>1. /\ pc = "act" /\ pc' = "reply" /\ unclaimed' = unclaimed
        /\ effects' \in {effects, Append(effects, client)}
    BY <1>7 DEF Actuate, Board!Actuate
  <2>2. CASE effects' = effects
    BY <1>3, <1>4, <2>1, <2>2
  <2>3. CASE effects' = Append(effects, client)
    <3>1. /\ Len(effects') = Len(effects) + 1 /\ effects'[Len(effects) + 1] = client
          /\ \A i \in 1..Len(effects) : effects'[i] = effects[i]
      BY <1>0, <1>1, <2>1, <2>3
    <3>2. \A i \in 1..Len(effects') : i = Len(effects) + 1 \/ i \in 1..Len(effects)
      BY <1>0, <3>1
    <3>3. ASSUME NEW i \in 1..Len(effects'), NEW j \in 1..Len(effects'), i < j
          PROVE  Later(effects'[i], effects'[j])
      <4>1. i \in 1..Len(effects)
        BY <1>0, <3>1, <3>3
      <4> QED BY <1>4, <2>1, <3>1, <3>2, <3>3, <4>1
    <3> QED BY <1>3, <1>4, <2>1, <3>1, <3>2, <3>3
  <2> QED BY <2>1, <2>2, <2>3
<1>8. CASE Loop
  <2>0. effects' = effects
    BY <1>8 DEF Loop
  <2>1. CASE Board!Claim
    <3>1. /\ unclaimed # <<>> /\ unclaimed' = Tail(unclaimed)
          /\ pc = "loop"
          /\ (pc' = "wait" /\ client' = Head(unclaimed)) \/ pc' = "loop"
      BY <2>1 DEF Board!Claim
    <3>2. /\ 1 \in 1..Len(unclaimed) /\ Head(unclaimed) = unclaimed[1]
          /\ \A j \in 1..Len(unclaimed') : j + 1 \in 1..Len(unclaimed) /\ unclaimed'[j] = unclaimed[j + 1]
      BY <1>0, <3>1
    <3>3. \A i, j \in 1..Len(unclaimed') : i < j => Later(unclaimed'[i], unclaimed'[j])
      <4> SUFFICES ASSUME NEW i \in 1..Len(unclaimed'), NEW j \in 1..Len(unclaimed'), i < j
                   PROVE  Later(unclaimed'[i], unclaimed'[j])
        OBVIOUS
      <4>1. i + 1 < j + 1
        OBVIOUS
      <4> QED BY <1>4, <3>2, <4>1
    <3>4. \A j \in 1..Len(unclaimed') : Later(unclaimed[1], unclaimed'[j])
      <4> SUFFICES ASSUME NEW j \in 1..Len(unclaimed') PROVE Later(unclaimed[1], unclaimed'[j])
        OBVIOUS
      <4>1. 1 < j + 1
        OBVIOUS
      <4> QED BY <1>4, <3>2, <4>1
    <3> QED BY <1>3, <1>4, <2>0, <3>1, <3>2, <3>3, <3>4
  <2>2. CASE Board!ConnectWiFi \/ Board!ReadRequest \/ Board!Reply
    <3>1. /\ UNCHANGED unclaimed
          /\ pc' \in {"wait", "act"} => pc \in {"wait", "act"} /\ client' = client
      BY <2>2 DEF Board!ConnectWiFi, Board!ReadRequest, Board!Reply
    <3> QED BY <1>3, <1>4, <2>0, <3>1
  <2> QED BY <1>8, <2>1, <2>2 DEF Loop
<1>9. CASE Reset
  <2>1. effects' = effects /\ unclaimed' = <<>> /\ pc' = "setup"
    BY <1>9 DEF Reset, Board!Reset
  <2>2. Len(unclaimed') = 0
    BY <2>1
  <2> QED BY <1>3, <1>4, <2>1, <2>2
<1> QED BY <1>5, <1>6, <1>7, <1>8, <1>9, BoardKinds

LEMMA OrderStep == Parts /\ OrderInv /\ [Next]_vars => OrderInv'
BY StartedStep, LostFirstStep, EffectiveStep, OrderedStep DEF OrderInv

LEMMA OrderAlways == Spec => []OrderInv
BY PartsInv, OrderInitially, OrderStep, PTL DEF Spec

\* The board applies the commands in the order of their confirmation, each at most
\* once, for any number of commands, browsers and plants and whatever of the faults
\* happens: time-outs, resets, half-open connections, restarts of the app.
THEOREM EffectsTheorem == Spec => []EffectsAsConfirmed
<1>1. Parts /\ OrderInv => EffectsAsConfirmed
  <2> SUFFICES ASSUME Parts, OrderInv, NEW i \in 1..Len(effects), NEW j \in 1..Len(effects),
                      i < j, {effects[i], effects[j]} \subseteq Cmds
               PROVE  (CHOOSE k \in 1..Len(issued) : issued[k] = effects[i])
                         < (CHOOSE k \in 1..Len(issued) : issued[k] = effects[j])
    BY DEF EffectsAsConfirmed
  <2>1. effects[i] \in Given /\ effects[j] \in Given
    <3>1. ASSUME NEW c \in Cmds, st[c] = "served" PROVE c \in Given
      BY <3>1, PhoneLine, PhoneTypes, RunningGiven DEF OrderInv, Started, Parts
    <3> QED BY <3>1 DEF OrderInv, Effective
  <2>2. Before(effects[i], effects[j])
    BY DEF OrderInv, Ordered
  <2> DEFINE m == CHOOSE k \in 1..Len(issued) : issued[k] = effects[i]
             n == CHOOSE k \in 1..Len(issued) : issued[k] = effects[j]
  <2>3. m \in 1..Len(issued) /\ issued[m] = effects[i]
    BY <2>1 DEF Given
  <2>4. n \in 1..Len(issued) /\ issued[n] = effects[j]
    BY <2>1 DEF Given
  <2> HIDE DEF m, n
  <2>5. m < n
    BY <2>2, <2>3, <2>4 DEF Before
  <2> QED BY <2>5 DEF m, n
<1> QED BY <1>1, PartsInv, OrderAlways, PTL

----------------------------------------------------------------------------
(* Without disturbances. *)

\* The level that the last of the commands at the places D of issued asked for.
LastSays(D, level) ==
    IF D = {} THEN level = "LOW"
    ELSE \E i \in D : (\A j \in D : j <= i) /\ level = want[issued[i]].level

ServedFor(p) == {i \in IssuedFor(p) : st[issued[i]] = "served"}

\* The process lives, the first instance of the screen stays, and its labels are
\* what was last asked for.
CalmPhone ==
    /\ lost = {}
    /\ screen = "closed" => issued = <<>>
    /\ screen # "closed" => \A p \in Phone!Pins : LastSays(IssuedFor(p), label[p])

\* A request has ended only when it was answered, a connection says what its command
\* was confirmed for, and loop() has read all of it.
CalmBoard ==
    /\ Ended \subseteq answered
    /\ \A c \in answered : st[c] = "served"
    /\ \A c \in Conns : rx[c] # "part"
    /\ pc = "act" => request = asked[client]
    /\ \A c \in Cmds : st[c] # "new" => asked[c] = Path(c)

CalmPins == \A p \in Phone!Pins : LastSays(ServedFor(p), pins[p])

Calm == Undisturbed => CalmPhone /\ CalmBoard /\ CalmPins

LEMMA CalmInitially == Init => Calm
<1> SUFFICES ASSUME Init, Undisturbed PROVE CalmPhone /\ CalmBoard /\ CalmPins
  BY DEF Calm
<1>1. /\ lost = {} /\ issued = <<>> /\ ran = <<>> /\ screen = "closed"
      /\ pc = "setup" /\ answered = {} /\ pins = Board!Board!AllLow
      /\ \A c \in Conns : st[c] = "new" /\ rx[c] = "none"
  BY DEF Init, Phone!Init, Board!Init
<1>2. CalmPhone
  BY <1>1 DEF CalmPhone
<1>3. CalmBoard
  BY <1>1 DEF CalmBoard, Ended, Conns
<1>4. CalmPins
  <2>1. \A p : ServedFor(p) = {}
    BY <1>1 DEF ServedFor, IssuedFor
  <2>2. \A p \in Phone!Pins : pins[p] = "LOW"
    BY <1>1 DEF Board!Board!AllLow, Board!Board!Pins, Phone!Pins
  <2> QED BY <2>1, <2>2 DEF CalmPins, LastSays
<1> QED BY <1>2, <1>3, <1>4

\* What does not happen undisturbed.
LEMMA Quiet ==
    ASSUME Undisturbed, [Next]_vars
    PROVE  /\ ~Die /\ ~Reset /\ Conns = Cmds
           /\ ~\E f \in Foreign, w \in Board!Asks : Browse(f, w)
           /\ \A c : EndRequest(c) => c \in answered
           /\ \A c : Deliver(c) => rx'[c] = "line"
BY DEF Undisturbed, WayFaults, Conns, Die, Reset, EndRequest, Deliver

\* What the screen does to itself and to the labels.
LEMMA QuietScreen ==
    ASSUME Undisturbed, [Next]_vars
    PROVE  \/ Screen /\ Phone!Open
           \/ \E c \in Cmds : Confirm(c)
           \/ UNCHANGED <<screen, label, want, issued, lost>>
<1>1. CASE Screen
  <2>1. CASE Phone!Open
    BY <1>1, <2>1
  <2>2. CASE \/ Phone!DropResult \/ Phone!ApplyResult \/ Phone!Layout
             \/ Phone!ItemSelected \/ Phone!Cancel \/ \E i \in 1..Slots : Phone!Pick(i)
             \/ \E p : Phone!Press(p) \/ Phone!Register(p)
    BY <2>2 DEF Phone!DropResult, Phone!ApplyResult, Phone!Layout, Phone!ItemSelected, Phone!Cancel,
         Phone!Pick, Phone!Press, Phone!Register, Phone!orderVars, Phone!panelVars
  <2>3. "hide" \notin faults
    BY DEF Undisturbed, WayFaults
  <2> QED BY <1>1, <2>1, <2>2, <2>3 DEF Screen
<1>2. CASE \E outcome \in Phone!Listings(registered) \cup {Phone!Failed} : Download(outcome)
  BY <1>2 DEF Download, Phone!Download, Phone!orderVars, Phone!panelVars
<1>3. CASE \E c \in Cmds : EndRequest(c)
  BY <1>3 DEF EndRequest, Phone!EndHttp, Phone!panelVars
<1>4. CASE \/ (\E c \in Cmds : Connect(c)) \/ Volley
           \/ (\E c \in Conns : Deliver(c)) \/ (\E c \in Conns : PeerClose(c)) \/ Actuate \/ Loop
           \/ UNCHANGED vars
  BY <1>4 DEF Connect, Volley, Deliver, PeerClose, Actuate, Loop, vars, phoneVars
<1> QED BY <1>1, <1>2, <1>3, <1>4, Quiet DEF Next

LEMMA FaultsKept == [Next]_vars => faults' = faults
BY DEF Next, Screen, Download, Confirm, Die, Connect, EndRequest, Volley, Browse, Deliver, PeerClose,
       Actuate, Loop, Reset, vars

\* A command confirmed last is the last one of its pin, and changes nothing for the other.
LEMMA ConfirmLast ==
    ASSUME Parts, NEW c \in Cmds, Confirm(c)
    PROVE  /\ c \notin Given
           /\ issued \in Seq(Cmds) /\ issued' = Append(issued, c)
           /\ want'[c] \in Phone!Orders /\ want' = [want EXCEPT ![c] = want'[c]]
           /\ \A i \in 1..Len(issued) : issued'[i] = issued[i] /\ want'[issued[i]] = want[issued[i]]
           /\ \A p : IssuedFor(p)' = IF p = want'[c].pin THEN IssuedFor(p) \cup {Len(issued) + 1}
                                     ELSE IssuedFor(p)
<1>1. PhoneP!Inv /\ Phone!Confirm(c)
  BY DEF Parts, Confirm
<1>2. /\ issued \in Seq(Cmds) /\ issued' = Append(issued, c)
      /\ want'[c] \in Phone!Orders /\ want' = [want EXCEPT ![c] = want'[c]] /\ c \notin Given
      /\ want \in [Cmds -> Phone!Orders \cup {Phone!NoOrder}]
  BY <1>1, ConfirmedOrder, NotGiven, PhoneTypes DEF Phone!Confirm
<1>3. \A i \in 1..Len(issued) : issued'[i] = issued[i] /\ issued[i] \in Cmds \ {c}
  BY <1>2 DEF Given
<1>4. \A i \in 1..Len(issued) : want'[issued[i]] = want[issued[i]]
  BY <1>2, <1>3
<1>5. Len(issued') = Len(issued) + 1 /\ issued'[Len(issued) + 1] = c /\ Len(issued) \in Nat
  BY <1>2
<1>6. ASSUME NEW p PROVE IssuedFor(p)' = IF p = want'[c].pin THEN IssuedFor(p) \cup {Len(issued) + 1}
                                         ELSE IssuedFor(p)
  <2>1. \A i : i \in 1..Len(issued') <=> i \in 1..Len(issued) \/ i = Len(issued) + 1
    BY <1>5
  <2>2. \A i : i \in IssuedFor(p)' <=> (i \in IssuedFor(p) \/ (i = Len(issued) + 1 /\ p = want'[c].pin))
    BY <1>3, <1>4, <1>5, <2>1 DEF IssuedFor
  <2> QED BY <2>2
<1> QED BY <1>2, <1>3, <1>4, <1>6

LEMMA CalmPhoneStep == Parts /\ Undisturbed /\ CalmPhone /\ [Next]_vars => CalmPhone'
<1> SUFFICES ASSUME Parts, Undisturbed, CalmPhone, [Next]_vars PROVE CalmPhone'
  OBVIOUS
<1>1. CASE Screen /\ Phone!Open
  <2>1. /\ screen = "closed" /\ screen' = "started" /\ UNCHANGED <<want, issued, ran, lost>>
        /\ label' = Phone!AllLow
    BY <1>1 DEF Phone!Open, Phone!orderVars
  <2>2. issued = <<>> /\ lost = {}
    BY <2>1 DEF CalmPhone
  <2>3. \A p : IssuedFor(p)' = {}
    BY <2>1, <2>2 DEF IssuedFor
  <2> QED BY <2>1, <2>2, <2>3 DEF CalmPhone, LastSays, Phone!AllLow
<1>2. ASSUME NEW c \in Cmds, Confirm(c) PROVE CalmPhone'
  <2>1. /\ screen # "closed" /\ screen' = screen /\ lost' = lost
        /\ label' = [label EXCEPT ![want'[c].pin] = want'[c].level]
    <3>1. /\ screen = "started" /\ screen' = screen /\ lost' = lost
          /\ label' = [label EXCEPT ![Phone!Top.pin] = Phone!Top.level]
          /\ want' = [want EXCEPT ![c] = [plant |-> modelNumber, pin |-> Phone!Top.pin,
                                          level |-> Phone!Top.level]]
      BY <1>2 DEF Confirm, Phone!Confirm
    <3>2. want'[c] = [plant |-> modelNumber, pin |-> Phone!Top.pin, level |-> Phone!Top.level]
      BY <3>1, PhoneTypes DEF Parts
    <3>3. want'[c].pin = Phone!Top.pin /\ want'[c].level = Phone!Top.level
      BY <3>2
    <3> QED BY <3>1, <3>3
  <2>2. ASSUME NEW p \in Phone!Pins PROVE LastSays(IssuedFor(p), label[p])'
    <3>0. label \in [Phone!Pins -> Phone!Levels] /\ LastSays(IssuedFor(p), label[p])
      BY <2>1, PhoneTypes DEF Parts, CalmPhone
    <3>1. CASE p = want'[c].pin
      <4>1. /\ IssuedFor(p)' = IssuedFor(p) \cup {Len(issued) + 1}
            /\ issued'[Len(issued) + 1] = c /\ label'[p] = want'[c].level
        BY <1>2, <2>1, <3>0, <3>1, ConfirmLast
      <4>2. \A j \in IssuedFor(p) : j <= Len(issued) + 1
        BY <1>2, ConfirmLast DEF IssuedFor
      <4>3. Len(issued) + 1 <= Len(issued) + 1
        BY <1>2, ConfirmLast
      <4> QED BY <4>1, <4>2, <4>3 DEF LastSays
    <3>2. CASE p # want'[c].pin
      <4>1. IssuedFor(p)' = IssuedFor(p) /\ label'[p] = label[p]
        BY <1>2, <2>1, <3>0, <3>2, ConfirmLast
      <4>2. \A i \in IssuedFor(p) : want'[issued'[i]].level = want[issued[i]].level
        BY <1>2, ConfirmLast DEF IssuedFor
      <4> QED BY <3>0, <4>1, <4>2 DEF LastSays
    <3> QED BY <3>1, <3>2
  <2> QED BY <2>1, <2>2 DEF CalmPhone
<1>3. CASE UNCHANGED <<screen, label, want, issued, lost>>
  <2>1. \A p : IssuedFor(p)' = IssuedFor(p)
    BY <1>3 DEF IssuedFor
  <2> QED BY <1>3, <2>1 DEF CalmPhone, LastSays
<1> QED BY <1>1, <1>2, <1>3, QuietScreen

\* A connection that is not served yet is that of the running request.
LEMMA CalmRunning ==
    ASSUME Parts, Started, CalmPhone, CalmBoard, NEW c \in Cmds, st[c] \notin {"new", "served"}
    PROVE  Running(c)
BY DEF Started, CalmPhone, CalmBoard

LEMMA CalmBoardStep == Parts /\ Started /\ Undisturbed /\ CalmPhone /\ CalmBoard /\ [Next]_vars => CalmBoard'
<1> SUFFICES ASSUME Parts, Started, Undisturbed, CalmPhone, CalmBoard, [Next]_vars PROVE CalmBoard'
  OBVIOUS
<1>0. /\ PhoneP!Inv /\ Conns = Cmds
      /\ \A c \in answered : c \in Conns /\ st[c] = "served"
      /\ st \in [Conns -> {"new", "queued", "claimed", "served", "dropped"}]
      /\ ran \in Seq(Cmds)
  BY Quiet, BoardFacts, PhoneTypes DEF CalmBoard, Parts
<1>1. Ended' \subseteq answered'
  <2>1. CASE UNCHANGED ran
    <3>1. Ended' = Ended
      BY <2>1 DEF Ended
    <3>2. answered \subseteq answered'
      <4>1. CASE Loop
        BY <4>1 DEF Loop, Board!ConnectWiFi, Board!Claim, Board!ReadRequest, Board!Reply
      <4>2. CASE ~Loop
        BY <4>2, Quiet DEF Next, Screen, Download, Confirm, Die, Connect, EndRequest, Volley, Browse,
             Deliver, PeerClose, Actuate, Reset, vars, boardVars, Board!Accept, Board!Deliver,
             Board!PeerClose, Board!Actuate, Board!Reset
      <4> QED BY <4>1, <4>2
    <3> QED BY <3>1, <3>2 DEF CalmBoard
  <2>2. ASSUME NEW c \in Cmds, EndRequest(c) PROVE Ended' \subseteq answered'
    <3>1. ran' = Append(ran, c) /\ UNCHANGED answered /\ c \in answered
      BY <2>2, Quiet DEF EndRequest, Phone!EndHttp, boardVars
    <3>2. Ended' \subseteq Ended \cup {c}
      BY <1>0, <3>1 DEF Ended
    <3> QED BY <3>1, <3>2 DEF CalmBoard
  <2>3. UNCHANGED ran \/ \E c \in Cmds : EndRequest(c)
    BY <1>0, StepKinds, Quiet DEF CommandsKept, Confirm, Phone!Confirm
  <2> QED BY <2>1, <2>2, <2>3
\* Steps that leave the board alone.
<1>2. ASSUME UNCHANGED boardVars, \A c \in Cmds : st[c] # "new" => want'[c] = want[c] PROVE CalmBoard'
  <2>1. \A c \in Cmds : st[c] # "new" => Path(c)' = Path(c)
    BY <1>2 DEF Path
  <2> QED BY <1>1, <1>2, <2>1 DEF CalmBoard, boardVars
<1>3. CASE Screen \/ (\E outcome \in Phone!Listings(registered) \cup {Phone!Failed} : Download(outcome))
        \/ (\E c \in Cmds : EndRequest(c)) \/ Volley \/ UNCHANGED vars
  <2>1. UNCHANGED boardVars
    BY <1>3 DEF Screen, Download, EndRequest, Volley, vars
  <2>2. want' = want
    BY <1>3, QuietScreen DEF Screen, Phone!Open, Phone!orderVars, Download, Phone!Download, EndRequest, Phone!EndHttp,
         Volley, vars, phoneVars, Phone!Stop, Phone!Restart, Phone!Leave, Phone!DropResult, Phone!ApplyResult,
         Phone!Layout, Phone!ItemSelected, Phone!Pick, Phone!Press, Phone!Cancel, Phone!Register
  <2> QED BY <1>2, <2>1, <2>2
<1>4. ASSUME NEW c \in Cmds, Confirm(c) PROVE CalmBoard'
  <2>1. UNCHANGED boardVars /\ c \notin Given /\ want' = [want EXCEPT ![c] = want'[c]]
    BY <1>4, ConfirmLast DEF Confirm
  <2>2. ASSUME NEW d \in Cmds, st[d] # "new" PROVE d # c
    <3>1. d \in Given
      BY <1>0, <2>2, PhoneLine, PhoneTypes, RunningGiven DEF Started
    <3> QED BY <2>1, <3>1
  <2>3. want \in [Cmds -> Phone!Orders \cup {Phone!NoOrder}]
    BY <1>0, PhoneTypes
  <2> QED BY <1>2, <2>1, <2>2, <2>3
\* Steps of the board and of those who connect to it.
<1>5. ASSUME want' = want,
             \A c \in answered' : st'[c] = "served",
             \A c \in Conns : rx'[c] # "part",
             pc' = "act" => request' = asked'[client'],
             \A c \in Cmds : st'[c] # "new" => asked'[c] = Path(c)
      PROVE  CalmBoard'
  <2>1. \A c \in Cmds : Path(c)' = Path(c)
    BY <1>5 DEF Path
  <2> QED BY <1>1, <1>5, <2>1 DEF CalmBoard
<1>6. /\ \A c \in answered : st[c] = "served" /\ c \in Cmds
      /\ \A c \in Conns : rx[c] # "part"
      /\ pc = "act" => request = asked[client]
      /\ \A c \in Cmds : st[c] # "new" => asked[c] = Path(c)
      /\ asked \in [Conns -> Board!Asks] /\ rx \in [Conns -> {"none", "part", "line"}]
      /\ pc \in {"wait", "act", "reply"} => client \in Conns
      /\ \A c \in Conns : st[c] = "claimed" <=> c = client /\ pc \in {"wait", "act"}
      /\ pc = "reply" => st[client] = "served"
  BY <1>0, BoardFacts DEF CalmBoard
<1>7. ASSUME NEW c \in Cmds, Connect(c) PROVE CalmBoard'
  <2>1. /\ st[c] = "new" /\ st' = [st EXCEPT ![c] = "queued"] /\ asked' = [asked EXCEPT ![c] = Path(c)]
        /\ UNCHANGED <<pc, client, request, rx, answered, want>>
    BY <1>7 DEF Connect, Board!Accept, phoneVars
  <2> QED BY <1>0, <1>5, <1>6, <2>1
<1>8. ASSUME NEW c \in Conns, Deliver(c) PROVE CalmBoard'
  <2>1. /\ UNCHANGED <<pc, client, request, st, asked, answered, want>>
        /\ \E more : rx' = [rx EXCEPT ![c] = more]
        /\ rx'[c] = "line"
    BY <1>8, Quiet DEF Deliver, Board!Deliver, phoneVars
  <2> QED BY <1>5, <1>6, <2>1, Zenon
<1>9. ASSUME NEW c \in Conns, PeerClose(c) PROVE CalmBoard'
  BY <1>5, <1>6, <1>9 DEF PeerClose, Board!PeerClose, phoneVars
<1>10. CASE Actuate
  <2>1. /\ client \in Conns /\ st' = [st EXCEPT ![client] = "served"] /\ pc = "act" /\ pc' = "reply"
        /\ UNCHANGED <<rx, asked, answered, want>>
    BY <1>6, <1>10 DEF Actuate, Board!Actuate, phoneVars
  <2> QED BY <1>0, <1>5, <1>6, <2>1
<1>11. CASE Loop
  <2>0. want' = want
    BY <1>11 DEF Loop, phoneVars
  <2>1. CASE Board!ConnectWiFi
    BY <1>5, <1>6, <2>0, <2>1 DEF Board!ConnectWiFi
  <2>2. CASE Board!Claim
    <3> DEFINE h == Head(unclaimed)
    <3>1. /\ unclaimed # <<>> /\ UNCHANGED <<request, asked, answered>> /\ pc' # "act"
          /\ \/ st' = [st EXCEPT ![h] = "claimed"] /\ rx' = rx
             \/ st' = [st EXCEPT ![h] = "dropped"] /\ rx' = [rx EXCEPT ![h] = "none"]
      BY <2>2 DEF Board!Claim
    <3>2. h \in Conns /\ st[h] = "queued"
      BY <3>1, BoardFacts
    <3> HIDE DEF h
    <3> QED BY <1>0, <1>5, <1>6, <2>0, <3>1, <3>2
  <2>3. CASE Board!ReadRequest
    <3>1. /\ client \in Conns /\ request' = asked[client]
          /\ UNCHANGED <<client, st, rx, asked, answered>>
      BY <1>6, <2>3 DEF Board!ReadRequest
    <3> QED BY <1>5, <1>6, <2>0, <3>1
  <2>4. CASE Board!Reply
    <3>1. /\ client \in Conns /\ st[client] = "served"
          /\ answered' \subseteq answered \cup {client} /\ rx' = [rx EXCEPT ![client] = "none"]
          /\ pc' # "act" /\ UNCHANGED <<st, asked>>
      BY <1>6, <2>4 DEF Board!Reply
    <3> QED BY <1>5, <1>6, <2>0, <3>1
  <2> QED BY <1>11, <2>1, <2>2, <2>3, <2>4 DEF Loop
<1> QED BY <1>3, <1>4, <1>7, <1>8, <1>9, <1>10, <1>11, Quiet DEF Next

LEMMA CalmPinsStep ==
    Parts /\ Started /\ Undisturbed /\ CalmPhone /\ CalmBoard /\ CalmPins /\ [Next]_vars => CalmPins'
<1> SUFFICES ASSUME Parts, Started, Undisturbed, CalmPhone, CalmBoard, CalmPins, [Next]_vars,
                    NEW p \in Phone!Pins
             PROVE  LastSays(ServedFor(p), pins[p])'
  BY DEF CalmPins
<1>0. /\ PhoneP!Inv /\ Conns = Cmds /\ issued \in Seq(Cmds)
      /\ \A c \in Given : c \in Cmds /\ want[c] \in Phone!Orders
      /\ st \in [Conns -> {"new", "queued", "claimed", "served", "dropped"}]
      /\ pins \in [Phone!Pins -> Phone!Levels]
      /\ LastSays(ServedFor(p), pins[p])
      /\ \A i \in 1..Len(issued) : issued[i] \in Cmds
  BY Quiet, BoardFacts, PhoneTypes DEF CalmPins, Parts
\* Steps that serve nobody.
<1>1. ASSUME UNCHANGED <<want, issued, pins>>, \A c \in Cmds : st'[c] = "served" <=> st[c] = "served"
      PROVE  LastSays(ServedFor(p), pins[p])'
  <2>1. ServedFor(p)' = ServedFor(p)
    BY <1>0, <1>1 DEF ServedFor, IssuedFor
  <2> QED BY <1>0, <1>1, <2>1 DEF LastSays
<1>2. ASSUME NEW c \in Cmds, Confirm(c) PROVE LastSays(ServedFor(p), pins[p])'
  <2>1. UNCHANGED <<st, pins>> /\ c \notin Given /\ issued' = Append(issued, c)
    BY <1>2, ConfirmLast DEF Confirm, boardVars
  <2>2. st[c] # "served"
    BY <1>0, <2>1, PhoneLine, PhoneTypes, RunningGiven DEF Started
  <2>3. \A i \in IssuedFor(p) : /\ i \in 1..Len(issued)
                                /\ issued'[i] = issued[i] /\ want'[issued'[i]] = want[issued[i]]
    BY <1>2, ConfirmLast DEF IssuedFor
  <2>4. issued'[Len(issued) + 1] = c
    BY <1>0, <2>1
  <2>5. ServedFor(p)' = ServedFor(p)
    <3>1. ServedFor(p)' = {i \in IssuedFor(p)' : st[issued'[i]] = "served"}
      BY <2>1 DEF ServedFor
    <3>2. IssuedFor(p)' = IssuedFor(p) \/ IssuedFor(p)' = IssuedFor(p) \cup {Len(issued) + 1}
      BY <1>2, ConfirmLast
    <3>3. {i \in IssuedFor(p)' : st[issued'[i]] = "served"} = {i \in IssuedFor(p) : st[issued[i]] = "served"}
      BY <2>2, <2>3, <2>4, <3>2
    <3> QED BY <3>1, <3>3 DEF ServedFor
  <2>6. \A i \in ServedFor(p) : want'[issued'[i]].level = want[issued[i]].level
    BY <2>3 DEF ServedFor
  <2> QED BY <1>0, <2>1, <2>5, <2>6 DEF LastSays
<1>3. CASE Actuate
  <2>1. /\ pc = "act" /\ client \in Cmds /\ st[client] = "claimed" /\ st' = [st EXCEPT ![client] = "served"]
        /\ pins' = Board!Board!Switched(pins, request) /\ UNCHANGED <<want, issued>>
    BY <1>0, <1>3, BoardFacts DEF Actuate, Board!Actuate, phoneVars
  <2>2. request = Path(client)
    BY <2>1 DEF CalmBoard
  <2>3. Running(client) /\ client \in Given
    BY <1>0, <2>1, CalmRunning, RunningGiven
  <2>4. PICK n \in 1..Len(issued) : issued[n] = client
    BY <2>3 DEF Given
  <2>5. pins'[p] = IF want[client].pin = p THEN want[client].level ELSE pins[p]
    BY <2>1, <2>2 DEF Board!Board!Switched, Board!Board!Pins, Phone!Pins, Path
  <2>6. ASSUME NEW j \in 1..Len(issued), st[issued[j]] = "served" PROVE j < n
    <3>1. issued[j] \in Ended
      BY <1>0, <2>1, <2>3, <2>6 DEF Started, CalmPhone, Running, Phone!HttpTask
    <3>2. 1 \in 1..Len(executor) /\ executor[1] = Phone!HttpTask(issued[n])
      BY <1>0, <2>1, <2>3, <2>4, RunningGiven
    <3> QED BY <1>0, <2>4, <3>1, <3>2, PhoneLine
  <2>7. \A i \in 1..Len(issued) : issued[i] = client => i = n
    BY <1>0, <2>4, PhoneTypes
  <2>8. \A i \in 1..Len(issued) : st'[issued[i]] = "served" <=> st[issued[i]] = "served" \/ i = n
    BY <1>0, <2>1, <2>4, <2>7
  <2>9. IssuedFor(p)' = IssuedFor(p) /\ issued' = issued /\ want' = want
    BY <2>1 DEF IssuedFor
  <2>10. CASE want[client].pin = p
    <3>1. ServedFor(p)' = ServedFor(p) \cup {n}
      BY <2>4, <2>8, <2>9, <2>10 DEF ServedFor, IssuedFor
    <3>2. \A j \in ServedFor(p) : j <= n
      BY <2>6 DEF ServedFor, IssuedFor
    <3>3. \A j \in ServedFor(p)' : j <= n
      BY <3>1, <3>2
    <3>4. n \in ServedFor(p)' /\ want'[issued'[n]].level = pins'[p]
      BY <2>4, <2>5, <2>9, <2>10, <3>1
    <3> QED BY <3>3, <3>4 DEF LastSays
  <2>11. CASE want[client].pin # p
    <3>1. ServedFor(p)' = ServedFor(p)
      BY <2>4, <2>8, <2>9, <2>11 DEF ServedFor, IssuedFor
    <3> QED BY <1>0, <2>5, <2>9, <2>11, <3>1 DEF LastSays
  <2> QED BY <2>10, <2>11
<1>4. CASE Loop
  <2>0. UNCHANGED <<want, issued>>
    BY <1>4 DEF Loop, phoneVars
  <2>1. CASE Board!Claim
    <3>1. /\ unclaimed # <<>> /\ pins' = pins
          /\ \/ st' = [st EXCEPT ![Head(unclaimed)] = "claimed"]
             \/ st' = [st EXCEPT ![Head(unclaimed)] = "dropped"]
      BY <2>1 DEF Board!Claim
    <3>2. Head(unclaimed) \in Conns /\ st[Head(unclaimed)] = "queued"
      BY <3>1, BoardFacts
    <3>3. \A c \in Cmds : st'[c] = "served" <=> st[c] = "served"
      BY <1>0, <3>1, <3>2
    <3> QED BY <1>1, <2>0, <3>1, <3>3
  <2>2. CASE Board!ConnectWiFi \/ Board!ReadRequest \/ Board!Reply
    BY <1>1, <2>0, <2>2 DEF Board!ConnectWiFi, Board!ReadRequest, Board!Reply
  <2> QED BY <1>4, <2>1, <2>2 DEF Loop
<1>5. ASSUME NEW c \in Cmds, Connect(c) PROVE LastSays(ServedFor(p), pins[p])'
  <2>1. st[c] = "new" /\ st' = [st EXCEPT ![c] = "queued"] /\ UNCHANGED <<want, issued, pins>>
    BY <1>5 DEF Connect, Board!Accept, phoneVars
  <2> QED BY <1>0, <1>1, <2>1
<1>6. CASE (\E c \in Conns : Deliver(c)) \/ (\E c \in Conns : PeerClose(c))
  BY <1>1, <1>6 DEF Deliver, PeerClose, Board!Deliver, Board!PeerClose, phoneVars
<1>7. CASE Screen \/ (\E outcome \in Phone!Listings(registered) \cup {Phone!Failed} : Download(outcome))
        \/ (\E c \in Cmds : EndRequest(c)) \/ Volley \/ UNCHANGED vars
  <2>1. UNCHANGED boardVars
    BY <1>7 DEF Screen, Download, EndRequest, Volley, vars
  <2>2. UNCHANGED <<want, issued>>
    BY <1>7, QuietScreen DEF Screen, Phone!Open, Phone!orderVars, Download, Phone!Download, EndRequest, Phone!EndHttp,
         Volley, vars, phoneVars, Phone!Stop, Phone!Restart, Phone!Leave, Phone!DropResult, Phone!ApplyResult,
         Phone!Layout, Phone!ItemSelected, Phone!Pick, Phone!Press, Phone!Cancel, Phone!Register
  <2> QED BY <1>1, <2>1, <2>2 DEF boardVars
<1> QED BY <1>2, <1>3, <1>4, <1>5, <1>6, <1>7, Quiet DEF Next

LEMMA CalmAlways == Spec => []Calm
<1>1. Parts /\ OrderInv /\ Calm /\ [Next]_vars => Calm'
  <2> SUFFICES ASSUME Parts, OrderInv, Calm, [Next]_vars, Undisturbed'
               PROVE  (CalmPhone /\ CalmBoard /\ CalmPins)'
    BY DEF Calm
  <2>1. Undisturbed
    BY FaultsKept DEF Undisturbed
  <2>2. CalmPhone /\ CalmBoard /\ CalmPins /\ Started
    BY <2>1 DEF Calm, OrderInv
  <2> QED BY <2>1, <2>2, CalmPhoneStep, CalmBoardStep, CalmPinsStep
<1> QED BY <1>1, PartsInv, OrderAlways, CalmInitially, PTL DEF Spec

\* The last of the commands of a pin, in the words of the properties.
LEMMA LastPlace ==
    ASSUME NEW p, NEW level, LastSays(IssuedFor(p), level), IssuedFor(p) # {}
    PROVE  \E m \in 1..Len(issued) :
              /\ issued[m] = LastFor(p) /\ want[issued[m]].pin = p /\ level = want[issued[m]].level
              /\ \A j \in IssuedFor(p) : j <= m
<1> DEFINE m == CHOOSE i \in IssuedFor(p) : \A j \in IssuedFor(p) : j <= i
<1>1. PICK i \in IssuedFor(p) : (\A j \in IssuedFor(p) : j <= i) /\ level = want[issued[i]].level
  BY DEF LastSays
<1>2. m \in IssuedFor(p) /\ \A j \in IssuedFor(p) : j <= m
  BY <1>1
<1>3. LastFor(p) = issued[m]
  BY DEF LastFor
<1> HIDE DEF m
<1>4. i = m
  BY <1>1, <1>2 DEF IssuedFor
<1> QED BY <1>1, <1>2, <1>3, <1>4 DEF IssuedFor

LEMMA LastIs ==
    ASSUME NEW p, NEW level, LastSays(IssuedFor(p), level)
    PROVE  /\ level = IF IssuedFor(p) = {} THEN "LOW" ELSE want[LastFor(p)].level
           /\ IssuedFor(p) # {} => LastFor(p) \in Given /\ want[LastFor(p)].pin = p
<1>1. CASE IssuedFor(p) = {}
  BY <1>1 DEF LastSays
<1>2. CASE IssuedFor(p) # {}
  BY <1>2, LastPlace DEF Given
<1> QED BY <1>1, <1>2

\* Once nothing is on its way, all that was confirmed has been served.
LEMMA AllServed ==
    ASSUME Parts, Calm, Undisturbed, Settled, NEW p
    PROVE  ServedFor(p) = IssuedFor(p)
<1>1. executor = <<>> /\ Len(executor) = 0 /\ CalmPhone /\ CalmBoard /\ PhoneP!Inv
  BY DEF Settled, Calm, Parts
<1>2. \A c \in Given : st[c] = "served"
  BY <1>1, PhoneLine DEF CalmPhone, CalmBoard
<1> QED BY <1>2 DEF ServedFor, IssuedFor, Given

LEMMA PinsSettle == Parts /\ Calm => SettledPins
<1> SUFFICES ASSUME Parts, Calm, Undisturbed, Settled, NEW p \in Phone!Pins
             PROVE  pins[p] = IF IssuedFor(p) = {} THEN "LOW" ELSE want[LastFor(p)].level
  BY DEF SettledPins
<1>1. LastSays(IssuedFor(p), pins[p])
  BY AllServed DEF Calm, CalmPins
<1> QED BY <1>1, LastIs

\* Undisturbed, each pin ends where the last command for it wanted it.
THEOREM PinsTheorem == Spec => []SettledPins
BY PartsInv, CalmAlways, PinsSettle, PTL

\* Undisturbed, the labels of the first screen end as the pins do, though nothing
\* ever reads a pin back.
THEOREM LabelsTheorem == Spec => []SettledLabels
<1>1. Parts /\ Calm => SettledLabels
  <2> SUFFICES ASSUME Parts, Calm, Undisturbed, Settled, screen # "closed", NEW p \in Phone!Pins
               PROVE  label[p] = pins[p]
    BY DEF SettledLabels
  <2>1. LastSays(IssuedFor(p), label[p])
    BY DEF Calm, CalmPhone
  <2> QED BY <2>1, LastIs, PinsSettle DEF SettledPins
<1> QED BY <1>1, PartsInv, CalmAlways, PTL

----------------------------------------------------------------------------
(* The rows. *)

\* The server is asked what the board is asked, in the order of the confirmations.
Posted ==
    /\ clock = Len(issued) /\ \A i \in 1..Len(issued) : turn[issued[i]] = i
    /\ \A c \in Cmds : phase[c] # "idle" <=> c \in Given
    /\ \A c \in Given : posted[c] = DbOrder(want[c])

LEMMA PostedInitially == Init => Posted
<1> SUFFICES ASSUME Init PROVE Posted
  OBVIOUS
<1>1. issued = <<>> /\ clock = 0 /\ \A c \in Cmds : phase[c] = "idle"
  BY DEF Init, Phone!Init, Db!Init
<1>2. Len(issued) = 0 /\ Given = {}
  BY <1>1 DEF Given
<1> QED BY <1>1, <1>2 DEF Posted

LEMMA PostedStep == Parts /\ Posted /\ [Next]_vars => Posted'
<1> SUFFICES ASSUME Parts, Posted, [Next]_vars PROVE Posted'
  OBVIOUS
<1>0. /\ PhoneP!Inv /\ issued \in Seq(Cmds)
      /\ \A c \in Given : c \in Cmds
      /\ posted \in [Cmds -> Db!Orders \cup {Db!NoOrder}]
      /\ phase \in [Cmds -> {"idle", "waiting", "heard", "failed"}]
      /\ turn \in [Cmds -> Nat]
  <2>1. DbP!TypeOK
    BY DEF Parts, DbP!Sound
  <2>2. DbP!Orders = Db!Orders /\ DbP!NoOrder = Db!NoOrder
    BY DEF DbP!Orders, Db!Orders, DbP!NoOrder, Db!NoOrder, DbP!Cells, Db!Cells, DbP!Columns, Db!Columns,
           DbP!Values, Db!Values
  <2> QED BY <2>1, <2>2, PhoneTypes DEF Parts, DbP!TypeOK
\* Steps that confirm nothing.
<1>1. ASSUME UNCHANGED <<want, issued, posted, turn, clock>>,
             \A c \in Cmds : phase'[c] = "idle" <=> phase[c] = "idle"
      PROVE  Posted'
  <2>1. Given' = Given
    BY <1>1 DEF Given
  <2>2. \A c \in Given : DbOrder(want'[c]) = DbOrder(want[c])
    BY <1>1
  <2> QED BY <1>1, <2>1, <2>2 DEF Posted
<1>2. ASSUME UNCHANGED <<posted, turn, clock>> /\ \A c \in Cmds : phase'[c] = "idle" <=> phase[c] = "idle",
             ~\E c \in Cmds : Confirm(c)
      PROVE  Posted'
  <2>1. UNCHANGED <<want, issued>>
    BY <1>0, <1>2, StepKinds DEF CommandsKept, Die, Phone!Killed, Phone!ConfirmBlind, Phone!Die,
         EndRequest, Phone!EndHttp
  <2> QED BY <1>1, <1>2, <2>1
<1>3. ASSUME NEW c \in Cmds, Confirm(c) PROVE Posted'
  <2>1. /\ posted' = [posted EXCEPT ![c] = DbOrder(want'[c])] /\ phase' = [phase EXCEPT ![c] = "waiting"]
        /\ clock' = clock + 1 /\ turn' = [turn EXCEPT ![c] = clock + 1]
    BY <1>3 DEF Confirm, Db!Post
  <2>2. /\ c \notin Given /\ issued' = Append(issued, c)
        /\ \A i \in 1..Len(issued) : issued'[i] = issued[i] /\ want'[issued[i]] = want[issued[i]]
    BY <1>3, ConfirmLast
  <2>3. /\ Len(issued') = Len(issued) + 1 /\ issued'[Len(issued) + 1] = c /\ Len(issued) \in Nat
        /\ \A i \in 1..Len(issued') : i \in 1..Len(issued) \/ i = Len(issued) + 1
    BY <1>0, <2>2
  <2>4. Given' = Given \cup {c}
    BY <2>2, <2>3 DEF Given
  <2>5. \A i \in 1..Len(issued) : issued[i] \in Cmds \ {c}
    BY <1>0, <2>2 DEF Given
  <2>6. ASSUME NEW i \in 1..Len(issued') PROVE turn'[issued'[i]] = i
    <3>1. CASE i = Len(issued) + 1
      BY <1>0, <2>1, <2>3, <3>1 DEF Posted
    <3>2. CASE i \in 1..Len(issued)
      BY <1>0, <2>1, <2>2, <2>5, <3>2 DEF Posted
    <3> QED BY <2>3, <3>1, <3>2
  <2>7. \A d \in Cmds : phase'[d] # "idle" <=> d \in Given'
    BY <1>0, <2>1, <2>4 DEF Posted
  <2>8. ASSUME NEW d \in Given' PROVE posted'[d] = DbOrder(want'[d])
    <3>1. CASE d = c
      BY <1>0, <2>1, <3>1
    <3>2. CASE d # c
      <4>1. d \in Given /\ want'[d] = want[d]
        BY <2>2, <2>4, <3>2 DEF Given
      <4>2. posted'[d] = posted[d]
        BY <1>0, <2>1, <3>2, <4>1
      <4> QED BY <4>1, <4>2 DEF Posted
    <3> QED BY <3>1, <3>2
  <2> QED BY <2>1, <2>3, <2>6, <2>7, <2>8 DEF Posted
<1>4. CASE UNCHANGED dbVars /\ ~\E c \in Cmds : Confirm(c)
  BY <1>2, <1>4 DEF dbVars
<1>5. CASE Db!AppKilled /\ ~\E c \in Cmds : Confirm(c)
  BY <1>0, <1>2, <1>5 DEF Db!AppKilled
<1>6. CASE Volley /\ ~\E c \in Cmds : Confirm(c)
  <2>1. CASE \E s \in wire : Db!Execute(s[1], s[2]) \/ Db!DbDown(s[1], s[2]) \/ Db!LoseRequest(s[1], s[2])
    BY <1>2, <1>6, <2>1 DEF Db!Execute, Db!DbDown, Db!LoseRequest
  <2>2. ASSUME NEW c \in Cmds, Db!Timeout(c) \/ Db!Fail(c) \/ \E body \in Db!Bodies : Db!Hear(c, body)
        PROVE  Posted'
    <3>1. /\ phase[c] = "waiting" /\ UNCHANGED <<posted, turn, clock>>
          /\ phase' = phase \/ phase' = [phase EXCEPT ![c] = "failed"] \/ phase' = [phase EXCEPT ![c] = "heard"]
      BY <2>2 DEF Db!Timeout, Db!Fail, Db!Hear
    <3> QED BY <1>0, <1>2, <1>6, <3>1
  <2> QED BY <1>6, <2>1, <2>2 DEF Volley
<1>7. CASE Screen \/ (\E outcome \in Phone!Listings(registered) \cup {Phone!Failed} : Download(outcome))
        \/ (\E c \in Cmds : Connect(c)) \/ (\E c \in Cmds : EndRequest(c))
        \/ (\E f \in Foreign, w \in Board!Asks : Browse(f, w))
        \/ (\E c \in Conns : Deliver(c)) \/ (\E c \in Conns : PeerClose(c)) \/ Actuate \/ Loop \/ Reset
        \/ UNCHANGED vars
  <2>1. UNCHANGED dbVars
    BY <1>7 DEF Screen, Download, Connect, EndRequest, Browse, Deliver, PeerClose, Actuate, Loop, Reset, vars
  <2> QED BY <1>3, <1>4, <2>1
<1>8. CASE Die
  BY <1>3, <1>4, <1>5, <1>8 DEF Die
<1> QED BY <1>3, <1>6, <1>7, <1>8 DEF Next

LEMMA PostedAlways == Spec => []Posted
BY PartsInv, PostedInitially, PostedStep, PTL DEF Spec

LEMMA RowsSettle == Parts /\ Calm /\ Posted => SettledRows
<1> SUFFICES ASSUME Parts, Calm, Posted, Undisturbed, Settled, NEW p \in Phone!Pins, IssuedFor(p) # {},
                    LastFor(p) \in executed, \A d \in Cmds : <<d, LastFor(p)>> \notin crossed
             PROVE  info[<<want[LastFor(p)].plant, Column(p)>>] = Value(pins[p])
  BY DEF SettledRows
<1> DEFINE c == LastFor(p)
           cell == <<want[c].plant, Column(p)>>
           w == writer[cell]
<1>1. LastSays(IssuedFor(p), pins[p])
  BY AllServed DEF Calm, CalmPins
<1>2. c \in Given /\ want[c].pin = p /\ pins[p] = want[c].level
  BY <1>1, LastIs
<1>3. c \in Cmds /\ want[c] \in Phone!Orders /\ phase[c] # "idle" /\ posted[c] = DbOrder(want[c])
  BY <1>2, PhoneTypes DEF Parts, Posted
<1>4. posted[c].cell = cell /\ posted[c].value = Value(pins[p])
  BY <1>2, <1>3 DEF DbOrder
<1>5. cell \in DbP!Cells
  <2>1. want[c].plant \in 1..NPlants
    BY <1>3 DEF Phone!Orders, Phone!Plants
  <2> QED BY <2>1 DEF DbP!Cells, DbP!Columns, Column
<1> HIDE DEF c, cell
<1>6. c \in executed /\ \A d \in Cmds : <<d, c>> \notin crossed
  BY DEF c
<1>6a. c \in DbP!Done(cell)
  BY <1>3, <1>4, <1>6 DEF DbP!Done, DbP!IssuedFor
<1>6b. w # NoCmd /\ w \in DbP!Done(cell) /\ info[cell] = posted[w].value
       /\ (turn[w] < turn[c] => <<w, c>> \in crossed)
  BY <1>5, <1>6a DEF Parts, DbP!Sound, DbP!WriterExplains
<1>6c. w \in Cmds /\ w \in executed /\ posted[w].cell = cell
  BY <1>6b DEF DbP!Done, DbP!IssuedFor
<1>7. w # NoCmd /\ turn[c] <= turn[w]
  <2>1. turn[c] \in Nat /\ turn[w] \in Nat
    BY <1>3, <1>6c DEF Parts, DbP!Sound, DbP!TypeOK
  <2> QED BY <1>6, <1>6b, <1>6c, <2>1
<1>8. w \in Cmds /\ w \in executed /\ posted[w].cell = cell /\ posted[w].value = info[cell]
  BY <1>6b, <1>6c
<1>9. w \in Given /\ posted[w] = DbOrder(want[w])
  BY <1>8 DEF Parts, DbP!Sound, DbP!LooseMetLater, Posted
<1>10. want[w].pin = p
  <2>1. want[w] \in Phone!Orders
    BY <1>9, PhoneTypes DEF Parts
  <2>2. Column(want[w].pin) = Column(p)
    BY <1>8, <1>9 DEF DbOrder, cell
  <2>3. want[w].pin \in Phone!Pins
    BY <2>1 DEF Phone!Orders
  <2> QED BY <2>2, <2>3 DEF Column, Phone!Pins
<1>11. PICK k \in 1..Len(issued) : issued[k] = w
  BY <1>9 DEF Given
<1>12. PICK m \in 1..Len(issued) : issued[m] = c /\ \A j \in IssuedFor(p) : j <= m
  BY <1>1, LastPlace DEF c
<1>13. k \in IssuedFor(p)
  BY <1>10, <1>11 DEF IssuedFor
<1>14. turn[w] = k /\ turn[c] = m
  BY <1>11, <1>12 DEF Posted
<1>15. k = m
  BY <1>7, <1>12, <1>13, <1>14
<1>16. w = c
  BY <1>11, <1>12, <1>15
<1>17. info[cell] = Value(pins[p])
  BY <1>4, <1>8, <1>16
<1> QED BY <1>17 DEF c, cell

\* Undisturbed, the row of a plant ends as the pin does, if the last command's POST
\* was executed and none crossed it.
THEOREM RowsTheorem == Spec => []SettledRows
BY PartsInv, CalmAlways, PostedAlways, RowsSettle, PTL

----------------------------------------------------------------------------
(* The composition refines its parts, and the board's promise. *)

LEMMA SameActuator ==
    /\ BoardP!Board!Init => Board!Board!Init
    /\ BoardP!Board!Next => Board!Board!Next
    /\ UNCHANGED BoardP!Board!actVars => UNCHANGED Board!Board!actVars
<1> USE DEF Board!Board!actVars, BoardP!Board!actVars, Board!Pending, BoardP!Pending,
         Board!Verdict, BoardP!Verdict, Board!Board!Pins, BoardP!Board!Pins,
         Board!Board!Levels, BoardP!Board!Levels, Board!Board!AllLow, BoardP!Board!AllLow,
         Board!Board!Switches, BoardP!Board!Switches, Board!Board!NoSwitch, BoardP!Board!NoSwitch,
         Board!Board!Asks, BoardP!Board!Asks, Board!Board!Switched, BoardP!Board!Switched,
         Board!Board!Init, BoardP!Board!Init, Board!Board!Submit, BoardP!Board!Submit,
         Board!Board!Perform, BoardP!Board!Perform, Board!Board!Discard, BoardP!Board!Discard,
         Board!Board!Answer, BoardP!Board!Answer, Board!Board!PowerLoss, BoardP!Board!PowerLoss
<1>1. BoardP!Board!Init => Board!Board!Init
  BY Zenon
<1>2. BoardP!Board!Next => Board!Board!Next
  BY Zenon DEF Board!Board!Next, BoardP!Board!Next
<1>3. UNCHANGED BoardP!Board!actVars => UNCHANGED Board!Board!actVars
  BY Zenon
<1> QED BY <1>1, <1>2, <1>3

\* The composition is one of Monitor, ControlDb and NodeMcu: whatever they were shown
\* to promise alone, for any environment, they keep promising here.
THEOREM CompositionTheorem == Spec => Phone!Spec /\ Db!Spec /\ Board!Spec
<1>1. Init => Phone!Init /\ Db!Init /\ Board!Init
  BY DEF Init
<1> QED
  BY <1>1, PhoneStep, DbStep, BoardStep, PhoneInv, PTL DEF Spec, Phone!Spec, Db!Spec, Board!Spec

\* So the board serves the phone and the browsers as Actuator says.
THEOREM DeviceBoardTheorem == Spec => Board!ImplementsBoard
<1>1. [BoardP!Board!Next]_BoardP!Board!actVars => [Board!Board!Next]_Board!Board!actVars
  BY SameActuator
<1>2. BoardP!Board!Init => Board!Board!Init
  BY SameActuator
<1> QED
  BY <1>1, <1>2, BoardKept, PTL DEF BoardP!ImplementsBoard, BoardP!Board!Spec, Board!ImplementsBoard, Board!Board!Spec
=============================================================================
