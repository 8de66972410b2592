-------------------------- MODULE SensorNode_proofs --------------------------
(***************************************************************************)
(* What SensorNode promises, proved for any interval of the sensor, any    *)
(* period of the clock, any size of the buffer and any number of passes    *)
(* and restarts.                                                           *)
(*                                                                         *)
(* The invariant says, beside the types,                                   *)
(*   - which modem can stand behind which place of the sketch (Modem);     *)
(*   - that the cache of the sensor holds its last frame (Shown);          *)
(*   - that an "OK" the sketch has not read is still in the buffer (Silent);*)
(*   - how far the clock has come since the sensor was read (Clock);       *)
(*   - which commands may be under way where (InStep), and with which      *)
(*     connection and which request (Forward).                             *)
(***************************************************************************)
EXTENDS SensorNode, TLAPS

Heard    == [word : Words, pass : 0..MaxPasses]
Commands == [kind : Kinds, pass : 0..MaxPasses, lag : 0..MaxLag]
Gets     == [link : 1..MaxPasses, row : Rows]

\* A word is in the buffer.
Waits(word) == \E i \in 1..Len(rx) : rx[i].word = word

----------------------------------------------------------------------------
(* The parts of the invariant. *)

\* The modem waits for data on a connection only, a command of loop() is of a pass,
\* and setup() has an attempt left before each.
Modem ==
    /\ prompting => link # 0
    /\ pc \in {"humid", "connect", "prompt", "drain"} => pass # 0
    /\ cmd.kind = "start" => cmd.pass # 0
    /\ cmd.kind = "none" => cmd = NoCmd
    /\ pc = "join" => attempt < Attempts

\* The cache: a good result is that of the last frame, and the temperature of this
\* pass is the one the cache had.
Shown ==
    /\ lastresult => data = polls /\ polls # 0
    /\ pc = "humid" => temp = IF lastresult THEN polls ELSE NaN
    /\ OneMoment

\* The "OK" that was heard is there to be found.
Silent ==
    /\ HangNeedsSilence
    /\ pc \in {"join", "joining"} /\ heardOk => Waits("OK")

\* Seconds on the clock since the sensor was read, as Cached computes them, and 1
\* while the modem works on a command.
Since == (millis + Wrap - lastreadtime) % Wrap
Busy  == IF cmd = NoCmd THEN 0 ELSE 1

\* The clock of the cache shows the real age of the last reading, or both are past
\* the interval.  In loop(), every word that waits or will be answered can cost a
\* find() one more second, and with all of them the clock does not come round.
Clock ==
    /\ pc \in {"joining", "setup"} => age >= 3
    /\ pc = "temp" => age = Since \/ (Since >= MinInterval /\ age >= MinInterval)
    /\ pc \in {"humid", "connect", "prompt", "drain"} => age = Since
    /\ pc = "humid" => Since <= MinInterval + 1
    /\ pc = "connect" => Since + Len(rx) + Busy <= MinInterval + RxSlots + 2
    /\ pc = "prompt" => Since + Len(rx) + Busy <= MinInterval + RxSlots + 4
    /\ pc = "drain" => Since + Len(rx) + Busy <= MinInterval + RxSlots + 7

\* A ">" that can still come or be found is that of this pass; an AT+CIPSEND of an
\* earlier one is answered before time passes again.
InStep ==
    /\ pc \in {"joining", "setup"} => cmd.kind # "send"
    /\ pc \in {"temp", "humid", "connect", "drain"} /\ cmd.kind = "send" => cmd.lag = MaxLag
    /\ pc = "prompt" => /\ \A i \in 1..Len(rx) : rx[i].word = ">" => rx[i].pass = pass
                        /\ cmd.kind = "send" => cmd.pass = pass
    /\ PromptInStep

\* Readings only get newer, and of one connection there is one request.
Newest ==
    /\ row.pass <= pass
    /\ \A r \in requests : r.row.pass <= pass
    /\ \A r, s \in requests : r.link = s.link => r = s

\* While nothing has been disturbed: what is requested is requested on the open
\* connection and is newer than the row, that connection is closed only when nothing
\* is requested, and the modem asks for data only where loop() will send them or where
\* setup() will waste them.
Forward ==
    ~disturbed =>
        /\ \A r \in requests : r.link = link /\ row.pass <= r.row.pass
        /\ cmd.kind = "close" => link = 0
        /\ prompting => pc \in {"join", "joining", "setup", "hung", "prompt"}
        /\ cmd.kind = "send" => pc \in {"join", "joining", "hung", "prompt"} /\ rx = <<>>
        /\ pc = "prompt" => IF cmd = NoCmd THEN link = 0 \/ Waits(">") ELSE cmd.kind = "send"

----------------------------------------------------------------------------
(* What the clock and the modem do in a step. *)

LEMMA AgedStays ==
    ASSUME NEW c \in Commands, NEW d \in Nat
    PROVE  /\ Aged(c, d) \in Commands
           /\ Aged(c, d).kind = c.kind
           /\ Aged(c, d).pass = c.pass
           /\ Aged(c, d).lag = IF c.kind \in {"none", "join"} THEN 0 ELSE AtMost(c.lag + d, MaxLag)
  BY SensorAssumption DEF Commands, Aged, AtMost

\* A command given just now.
LEMMA AgedNew ==
    ASSUME NEW c \in Commands, NEW d \in Nat, c.lag = 0, c.kind # "none"
    PROVE  /\ Aged(c, d) \in Commands
           /\ Aged(c, d).kind = c.kind
           /\ Aged(c, d).pass = c.pass
           /\ Aged(c, d).lag = IF c.kind = "join" THEN 0 ELSE AtMost(d, MaxLag)
  <1>1. AtMost(c.lag + d, MaxLag) = AtMost(d, MaxLag)
    BY DEF AtMost
  <1> QED
    BY <1>1, AgedStays

LEMMA AgedNone ==
    ASSUME NEW d \in Nat
    PROVE  /\ NoCmd \in Commands
           /\ Aged(NoCmd, d) = NoCmd
  BY SensorAssumption DEF Commands, Aged, AtMost, NoCmd, Kinds

\* Time passes.
LEMMA ElapseTypes ==
    ASSUME NEW d \in Nat, NEW since \in Nat, millis \in 0..(Wrap - 1),
           Elapse(d, since)
    PROVE  millis' \in 0..(Wrap - 1) /\ age' \in 0..Wrap
  BY SensorAssumption DEF Elapse, AtMost

\* What can come of a command or of a GET given to the modem: it is data, or it is
\* taken, or it is ignored.
LEMMA WriteCases ==
    ASSUME TypeOK, Modem, pass' \in 0..MaxPasses,
           NEW kind \in Kinds \ {"none"}, NEW before \in Nat, NEW after \in Nat,
           Write(kind, before, after)
    PROVE  /\ cmd' \in Commands /\ prompting' = FALSE /\ cmd'.kind # "none"
           /\ prompting =>
                 /\ cmd'.kind = "data" /\ cmd'.pass = pass'
                 /\ cmd'.lag = AtMost(after, MaxLag)
                 /\ \/ requests' = requests
                    \/ /\ kind = "get" /\ ~Requested(link)
                       /\ requests' = requests \cup {GetOfPass}
           /\ ~prompting => requests' = requests
           /\ ~prompting /\ cmd = NoCmd =>
                 /\ cmd'.kind = kind /\ cmd'.pass = pass'
                 /\ cmd'.lag = IF kind = "join" THEN 0 ELSE AtMost(after, MaxLag)
           /\ ~prompting /\ cmd # NoCmd =>
                 /\ cmd' = Aged(cmd, before + after)
                 /\ cmd'.kind = cmd.kind /\ cmd'.pass = cmd.pass
  <1> DEFINE given == [kind |-> kind, pass |-> pass', lag |-> 0]
             told  == [given EXCEPT !.kind = "data"]
  <1>1. /\ given \in Commands /\ given.kind = kind /\ given.pass = pass' /\ given.lag = 0
        /\ told \in Commands /\ told.kind = "data" /\ told.pass = pass' /\ told.lag = 0
    BY SensorAssumption DEF Commands, Kinds
  <1>2. cmd \in Commands /\ prompting \in BOOLEAN
    BY DEF TypeOK, Commands
  <1>3. IF prompting
        THEN /\ cmd' = Aged(told, after) /\ prompting' = FALSE
             /\ \/ requests' = requests
                \/ kind = "get" /\ ~Requested(link) /\ requests' = requests \cup {GetOfPass}
        ELSE /\ cmd' = IF cmd = NoCmd THEN Aged(given, after) ELSE Aged(cmd, before + after)
             /\ prompting' = prompting /\ requests' = requests
    BY DEF Write
  <1> HIDE DEF given, told
  <1>4. CASE prompting
    <2>1. /\ Aged(told, after) \in Commands /\ Aged(told, after).kind = "data"
          /\ Aged(told, after).pass = pass'
          /\ Aged(told, after).lag = AtMost(after, MaxLag)
      BY <1>1, AgedNew
    <2>2. /\ cmd' \in Commands /\ prompting' = FALSE /\ cmd'.kind = "data"
          /\ cmd'.pass = pass' /\ cmd'.lag = AtMost(after, MaxLag)
          /\ \/ requests' = requests
             \/ kind = "get" /\ ~Requested(link) /\ requests' = requests \cup {GetOfPass}
      BY <1>3, <1>4, <2>1
    <2>3. cmd'.kind # "none"
      BY <2>2
    <2> QED
      BY <1>4, <2>2, <2>3
  <1>5. CASE ~prompting /\ cmd = NoCmd
    BY <1>1, <1>2, <1>3, <1>5, AgedNew
  <1>6. CASE ~prompting /\ cmd # NoCmd
    <2>1. before + after \in Nat
      OBVIOUS
    <2>2. cmd.kind # "none"
      BY <1>6 DEF Modem
    <2> QED
      BY <1>2, <1>3, <1>6, <2>1, <2>2, AgedStays
  <1> QED
    BY <1>2, <1>4, <1>5, <1>6

\* ... and when nothing is.
LEMMA SilentCases ==
    ASSUME TypeOK, Modem, NEW d \in Nat, WriteNothing(d)
    PROVE  /\ cmd' \in Commands /\ cmd' = Aged(cmd, d)
           /\ cmd'.kind = cmd.kind /\ cmd'.pass = cmd.pass
           /\ cmd = NoCmd => cmd' = NoCmd
           /\ cmd'.kind = "none" => cmd' = NoCmd
           /\ prompting' = prompting /\ requests' = requests
  <1>1. cmd \in Commands
    BY DEF TypeOK, Commands
  <1>2. cmd' = Aged(cmd, d) /\ prompting' = prompting /\ requests' = requests
    BY DEF WriteNothing
  <1>3. cmd.kind = "none" => cmd = NoCmd
    BY DEF Modem
  <1> QED
    BY <1>1, <1>2, <1>3, AgedStays, AgedNone

\* What a find() leaves in the buffer.
LEMMA FoundCases ==
    ASSUME TypeOK, NEW word \in Words, NEW d, Found(word, d)
    PROVE  /\ d \in {0, 1}
           /\ rx' \in Seq(Heard) /\ Len(rx') <= RxSlots /\ Len(rx') < Len(rx)
           /\ prompt' \in 0..MaxPasses
           /\ Waits(word)
           /\ \E i \in 1..Len(rx) : /\ rx[i].word = word
                                    /\ prompt' = IF word = ">" THEN rx[i].pass ELSE 0
           /\ \A j \in 1..Len(rx') : \E i \in 1..Len(rx) : rx'[j] = rx[i]
  <1>1. rx \in Seq(Heard) /\ Len(rx) <= RxSlots
    BY DEF TypeOK, Heard
  <1>2. PICK i \in 1..Len(rx) :
          /\ rx[i].word = word
          /\ prompt' = IF word = ">" THEN rx[i].pass ELSE 0
          /\ rx' = SubSeq(rx, i + 1, Len(rx))
    BY DEF Found
  <1>3. rx[i] \in Heard
    BY <1>1, <1>2
  <1>4. /\ rx' \in Seq(Heard) /\ Len(rx') = Len(rx) - i
        /\ \A j \in 1..(Len(rx) - i) : rx'[j] = rx[j + i]
    BY <1>1, <1>2
  <1>5. /\ Len(rx') <= RxSlots /\ Len(rx') < Len(rx)
        /\ \A j \in 1..Len(rx') : \E k \in 1..Len(rx) : rx'[j] = rx[k]
    <2>1. Len(rx) \in Nat /\ Len(rx') < Len(rx)
      BY <1>1, <1>4
    <2>2. ASSUME NEW j \in 1..Len(rx')
          PROVE  \E k \in 1..Len(rx) : rx'[j] = rx[k]
      <3>1. j + i \in 1..Len(rx) /\ rx'[j] = rx[j + i]
        BY <1>4, <2>1
      <3> QED
        BY <3>1
    <2>3. Len(rx') <= RxSlots
      <3>1. rx' \in Seq(Heard)
        BY <1>4
      <3> QED
        BY <1>1, <2>1, <3>1, SensorAssumption
    <2> QED
      BY <2>1, <2>2, <2>3
  <1>6. d \in {0, 1}
    BY DEF Found
  <1> QED
    <2>1. prompt' \in 0..MaxPasses
      BY <1>2, <1>3, SensorAssumption DEF Heard
    <2> QED
      BY <1>2, <1>4, <1>5, <1>6, <2>1 DEF Waits

\* A later poll only adds to the readings there are.
LEMMA ReadingsGrow ==
    ASSUME TypeOK, polls' \in Nat, polls <= polls'
    PROVE  /\ \A v \in Readings : v \in Readings'
           /\ \A r \in Rows : r \in Rows'
           /\ \A g \in Gets : g \in Gets'
  <1>1. Readings \subseteq Readings'
    BY DEF TypeOK, Readings
  <1>2. Rows \subseteq Rows'
    BY <1>1 DEF Rows
  <1>3. Gets \subseteq Gets'
    BY <1>2 DEF Gets
  <1> QED
    BY <1>1, <1>2, <1>3

\* DHT::read(): the readings stay readings, and the value is one of them.
LEMMA ReadCases ==
    ASSUME TypeOK, Read
    PROVE  /\ lastreadtime' \in 0..(Wrap - 1) /\ lastresult' \in BOOLEAN
           /\ polls' \in Nat /\ polls <= polls'
           /\ data' \in Readings' /\ Value \in Readings'
           /\ Cached => /\ lastreadtime' = lastreadtime /\ lastresult' = lastresult
                        /\ data' = data /\ polls' = polls
           /\ ~Cached => /\ lastreadtime' = millis /\ polls' = polls + 1
                         /\ lastresult' => data' = polls'
  <1>1. CASE Cached
    <2>1. /\ lastreadtime' = lastreadtime /\ lastresult' = lastresult
          /\ data' = data /\ polls' = polls
      BY <1>1 DEF Read, dhtVars
    <2> QED
      BY <1>1, <2>1 DEF TypeOK, Readings, Value
  <1>2. CASE ~Cached
    <2>1. PICK ok \in BOOLEAN :
            /\ lastreadtime' = millis /\ lastresult' = ok /\ polls' = polls + 1
            /\ data' = IF ok THEN polls' ELSE Torn
      BY <1>2 DEF Read
    <2> QED
      BY <1>2, <2>1 DEF TypeOK, Readings, Value, Torn, NaN
  <1> QED
    BY <1>1, <1>2

----------------------------------------------------------------------------
(* Types, and what stands behind each place of the sketch. *)

LEMMA InitTypes == Init => TypeOK /\ Modem
  <1> SUFFICES ASSUME Init PROVE TypeOK /\ Modem
    OBVIOUS
  <1>1. rx = <<>> /\ rx \in Seq([word : Words, pass : 0..MaxPasses]) /\ Len(rx) <= RxSlots
    BY SensorAssumption DEF Init
  <1>2. row \in Rows
    BY SensorAssumption DEF Init, Rows, NoRow, Readings, NaN
  <1>3. cmd \in [kind : Kinds, pass : 0..MaxPasses, lag : 0..MaxLag]
    BY SensorAssumption DEF Init, NoCmd, Kinds
  <1>4. TypeOK
    <2>1. /\ millis \in 0..(Wrap - 1) /\ lastreadtime \in 0..(Wrap - 1) /\ age \in 0..Wrap
          /\ attempt \in 0..Attempts /\ pass \in 0..MaxPasses /\ prompt \in 0..MaxPasses
          /\ link \in 0..MaxPasses /\ resets \in 0..MaxResets /\ polls \in Nat
      BY SensorAssumption DEF Init
    <2>2. /\ temp \in Readings /\ humid \in Readings /\ data \in Readings
          /\ requests \subseteq [link : 1..MaxPasses, row : Rows]
          /\ lastresult \in BOOLEAN /\ prompting \in BOOLEAN
          /\ heardOk \in BOOLEAN /\ disturbed \in BOOLEAN
      BY DEF Init, Readings
    <2>3. pc = "join"
      BY DEF Init
    <2> QED
      BY <1>1, <1>2, <1>3, <2>1, <2>2, <2>3 DEF TypeOK
  <1>5. Modem
    BY SensorAssumption DEF Init, Modem, NoCmd
  <1> QED
    BY <1>4, <1>5

\* The steps that only pass the time, or find a word.
LEMMA WaitTypes ==
    ASSUME TypeOK, Modem, NEW d \in 0..2, Elapse(d, age), WriteNothing(d),
           attempt' = attempt, pass' = pass, temp' = temp, humid' = humid,
           UNCHANGED dhtVars, link' = link, row' = row, polls' = polls, resets' = resets,
           heardOk' = heardOk, disturbed' = disturbed,
           rx' \in Seq(Heard), Len(rx') <= RxSlots, prompt' \in 0..MaxPasses,
           pc' \in {"join", "joining", "setup", "temp", "connect", "prompt", "hung"},
           pc' = "join" => attempt < Attempts,
           pc' \in {"connect", "prompt"} => pc' = pc
    PROVE  TypeOK' /\ Modem'
  <1>1. millis' \in 0..(Wrap - 1) /\ age' \in 0..Wrap
    BY ElapseTypes DEF TypeOK
  <1>2. /\ cmd' \in Commands /\ cmd'.kind = cmd.kind /\ cmd'.pass = cmd.pass
        /\ cmd'.kind = "none" => cmd' = NoCmd
        /\ prompting' = prompting /\ requests' = requests
    BY SilentCases
  <1>3. Readings' = Readings /\ Rows' = Rows
    BY DEF Readings, Rows
  <1>4. TypeOK'
    BY <1>1, <1>2, <1>3 DEF TypeOK, Commands, Heard, dhtVars
  <1>5. Modem'
    BY <1>2 DEF Modem
  <1> QED
    BY <1>4, <1>5

\* What a step that gives something to the modem leaves of types.
LEMMA WriteTypes ==
    ASSUME TypeOK, Modem, pass' \in 0..MaxPasses,
           NEW kind \in Kinds \ {"none"}, NEW before \in Nat, NEW after \in Nat,
           Write(kind, before, after), kind = "start" => pass' # 0
    PROVE  /\ cmd' \in Commands /\ prompting' = FALSE
           /\ requests' \subseteq Gets
           /\ cmd'.kind # "none"
           /\ cmd'.kind = "start" => cmd'.pass # 0
  <1>1. requests \subseteq Gets
    BY DEF TypeOK, Gets
  <1>2. ASSUME prompting PROVE GetOfPass \in Gets
    <2>1. link \in 1..MaxPasses
      BY <1>2 DEF Modem, TypeOK
    <2>2. [pass |-> pass', temp |-> temp, humid |-> humid] \in Rows
      BY DEF TypeOK, Rows
    <2> QED
      BY <2>1, <2>2 DEF Gets, GetOfPass
  <1>3. requests' \subseteq Gets
    BY <1>1, <1>2, WriteCases
  <1>4. cmd.kind = "start" => cmd.pass # 0
    BY DEF Modem
  <1>5. cmd'.kind = "start" => cmd'.pass # 0
    BY <1>4, WriteCases DEF TypeOK
  <1> QED
    BY <1>3, <1>5, WriteCases

\* The steps that write and leave the sensor alone.
LEMMA GiveTypes ==
    ASSUME TypeOK, Modem, NEW kind \in Kinds \ {"none", "start"},
           NEW before \in Nat, NEW after \in Nat, Write(kind, before, after),
           NEW d \in Nat, Elapse(d, age),
           attempt' \in 0..Attempts, pass' = pass, temp' = temp, humid' = humid,
           lastreadtime' \in 0..(Wrap - 1), lastresult' = lastresult, data' = data,
           link' = link, row' = row, polls' = polls, resets' = resets,
           heardOk' = heardOk, disturbed' \in BOOLEAN,
           rx' \in Seq(Heard), Len(rx') <= RxSlots, prompt' \in 0..MaxPasses,
           pc' \in {"joining", "temp", "prompt", "drain"},
           pc' \in {"prompt", "drain"} => pass # 0
    PROVE  TypeOK' /\ Modem'
  <1>1. millis' \in 0..(Wrap - 1) /\ age' \in 0..Wrap
    <2>1. age \in Nat /\ millis \in 0..(Wrap - 1)
      BY DEF TypeOK
    <2> QED
      BY <2>1, ElapseTypes
  <1>2. /\ cmd' \in Commands /\ prompting' = FALSE
        /\ requests' \subseteq Gets
        /\ cmd'.kind # "none"
        /\ cmd'.kind = "start" => cmd'.pass # 0
    <2>1. pass' \in 0..MaxPasses /\ kind \in Kinds \ {"none"} /\ kind # "start"
      BY DEF TypeOK
    <2> QED
      BY <2>1, WriteTypes
  <1>3. Readings' = Readings /\ Rows' = Rows
    BY DEF Readings, Rows
  <1>4. TypeOK'
    BY <1>1, <1>2, <1>3 DEF TypeOK, Commands, Heard, Gets
  <1>5. Modem'
    BY <1>2 DEF Modem
  <1> QED
    BY <1>4, <1>5

\* The two calls that ask the sensor.
LEMMA AskTypes ==
    ASSUME TypeOK, Modem, Read, NEW d \in Nat,
           Elapse(d, IF Cached THEN age ELSE 0),
           attempt' = attempt, pass' \in 1..MaxPasses, prompt' = prompt,
           temp' \in Readings', humid' \in Readings',
           rx' = rx, link' = link, row' = row, resets' = resets,
           heardOk' = heardOk, disturbed' = disturbed,
           cmd' \in Commands, requests' \subseteq Gets, prompting' = FALSE \/ prompting' = prompting,
           cmd'.kind = "start" => cmd'.pass # 0, cmd'.kind = "none" => cmd' = NoCmd,
           pc' \in {"humid", "connect"}
    PROVE  TypeOK' /\ Modem'
  <1>1. millis' \in 0..(Wrap - 1) /\ age' \in 0..Wrap
    <2>1. (IF Cached THEN age ELSE 0) \in Nat
      BY DEF TypeOK
    <2> QED
      BY <2>1, ElapseTypes DEF TypeOK
  <1>2. /\ lastreadtime' \in 0..(Wrap - 1) /\ lastresult' \in BOOLEAN
        /\ polls' \in Nat /\ polls <= polls'
        /\ data' \in Readings'
    BY ReadCases
  <1>3. requests' \subseteq Gets' /\ row' \in Rows'
    BY <1>2, ReadingsGrow DEF TypeOK
  <1>4. TypeOK'
    <2>1. pass' \in 0..MaxPasses
      OBVIOUS
    <2>2. prompting \in BOOLEAN
      BY DEF TypeOK
    <2>3. prompting' \in BOOLEAN
      BY <2>2
    <2> QED
      BY <1>1, <1>2, <1>3, <2>1, <2>3 DEF TypeOK, Commands, Gets
  <1>5. Modem'
    BY DEF Modem
  <1> QED
    BY <1>4, <1>5

\* The words of the answers, and what each does to the connection.
LEMMA AnswerCases ==
    ASSUME TypeOK, Modem, Answer
    PROVE  /\ cmd # NoCmd /\ cmd' = NoCmd
           /\ \E word \in Words :
                 /\ Receive(word)
                 /\ cmd.kind = "join" => word \in {"OK", "other"}
                 /\ word = ">" => cmd.kind = "send" /\ link # 0
                 /\ cmd.kind = "start" /\ word = "OK" => link = 0
                 /\ link' = IF cmd.kind = "start" /\ word = "OK" THEN cmd.pass
                            ELSE IF cmd.kind = "close" THEN 0 ELSE link
                 /\ prompting' = (word = ">")
                 /\ cmd.kind = "send" /\ link # 0 => word = ">"
  <1>1. PICK word \in Answers :
          /\ Receive(word)
          /\ link' = IF cmd.kind = "start" /\ word = "OK" THEN cmd.pass
                     ELSE IF cmd.kind = "close" THEN 0 ELSE link
          /\ prompting' = (word = ">")
    BY DEF Answer
  <1>2. cmd.kind \in Kinds \ {"none"} /\ cmd # NoCmd /\ cmd' = NoCmd
    BY DEF Answer, Modem, TypeOK
  <1>3. /\ word \in Words
        /\ cmd.kind = "join" => word \in {"OK", "other"}
        /\ word = ">" => cmd.kind = "send" /\ link # 0
        /\ cmd.kind = "start" /\ word = "OK" => link = 0
        /\ cmd.kind = "send" /\ link # 0 => word = ">"
    BY <1>2 DEF Answers, Failures, Words, Kinds
  <1> QED
    BY <1>1, <1>2, <1>3

LEMMA ReceiveCases ==
    ASSUME TypeOK, NEW word \in Words, Receive(word)
    PROVE  /\ rx' \in Seq(Heard) /\ Len(rx') <= RxSlots
           /\ heardOk' = (heardOk \/ (Len(rx) < RxSlots /\ word = "OK" /\ pc \in {"join", "joining"}))
           /\ Len(rx) < RxSlots => /\ Len(rx') = Len(rx) + 1
                                   /\ rx'[Len(rx) + 1] = [word |-> word, pass |-> cmd.pass]
           /\ Len(rx) <= Len(rx') /\ \A i \in 1..Len(rx) : rx'[i] = rx[i]
           /\ ~(Len(rx) < RxSlots) => rx' = rx
  <1> DEFINE w == [word |-> word, pass |-> cmd.pass]
  <1>1. w \in Heard
    BY DEF TypeOK, Heard
  <1>2. rx \in Seq(Heard) /\ Len(rx) \in Nat /\ Len(rx) <= RxSlots
    BY DEF TypeOK, Heard
  <1>3. /\ rx' = IF Len(rx) < RxSlots THEN Append(rx, w) ELSE rx
        /\ heardOk' = (heardOk \/ (Len(rx) < RxSlots /\ word = "OK" /\ pc \in {"join", "joining"}))
    BY DEF Receive
  <1> HIDE DEF w
  <1>4. CASE Len(rx) < RxSlots
    <2>1. /\ rx' \in Seq(Heard) /\ Len(rx') = Len(rx) + 1 /\ rx'[Len(rx) + 1] = w
          /\ \A i \in 1..Len(rx) : rx'[i] = rx[i]
      BY <1>1, <1>2, <1>3, <1>4
    <2>2. Len(rx') <= RxSlots
      BY <1>2, <1>4, <2>1, SensorAssumption
    <2> QED
      BY <1>2, <1>3, <1>4, <2>1, <2>2 DEF w
  <1>5. CASE ~(Len(rx) < RxSlots)
    BY <1>2, <1>3, <1>5
  <1> QED
    BY <1>4, <1>5

\* setup() and the two readings.
LEMMA SetupTypes ==
    ASSUME TypeOK, Modem, Join \/ Joined \/ Setup \/ ReadTemperature \/ ReadHumidity
    PROVE  TypeOK' /\ Modem'
  <1>1. /\ pass \in 0..MaxPasses
        /\ rx \in Seq(Heard) /\ Len(rx) <= RxSlots
        /\ attempt \in 0..Attempts /\ age \in Nat
    BY DEF TypeOK, Heard
  <1>2. CASE Join
    <2>1. attempt' \in 0..Attempts
      BY <1>1, <1>2, SensorAssumption DEF Join, Modem
    <2>2. "join" \in Kinds \ {"none", "start"}
      BY DEF Kinds
    <2> QED
      BY <1>1, <1>2, <2>1, <2>2, GiveTypes DEF Join, TypeOK, dhtVars
  <1>3. CASE Joined
    <2>1. PICK d \in {0, 1} :
            /\ \/ Found("OK", d) /\ pc' = "setup"
               \/ d = 1 /\ GaveUp /\ pc' = IF attempt < Attempts THEN "join" ELSE "hung"
            /\ Elapse(d, age)
            /\ WriteNothing(d)
      BY <1>3 DEF Joined
    <2>2. "OK" \in Words
      BY DEF Words
    <2>3. rx' \in Seq(Heard) /\ Len(rx') <= RxSlots /\ prompt' \in 0..MaxPasses
      BY <1>1, <2>1, <2>2, FoundCases, SensorAssumption DEF GaveUp
    <2>4. pc' \in {"setup", "join", "hung"} /\ (pc' = "join" => attempt < Attempts)
      BY <2>1
    <2> QED
      BY <1>3, <2>1, <2>3, <2>4, WaitTypes DEF Joined
  <1>4. CASE Setup
    <2>1. lastreadtime' \in 0..(Wrap - 1)
      BY <1>4, SensorAssumption DEF Setup, TypeOK
    <2>2. "mux" \in Kinds \ {"none", "start"}
      BY DEF Kinds
    <2> QED
      BY <1>1, <1>4, <2>1, <2>2, GiveTypes DEF Setup, TypeOK
  <1>5. CASE ReadTemperature
    <2>1. PICK d \in {0, 1} : Elapse(d, IF Cached THEN age ELSE 0) /\ WriteNothing(d)
      BY <1>5 DEF ReadTemperature
    <2>2. /\ cmd' \in Commands /\ cmd'.kind = cmd.kind /\ cmd'.pass = cmd.pass
          /\ cmd'.kind = "none" => cmd' = NoCmd
          /\ prompting' = prompting /\ requests' = requests
      BY <2>1, SilentCases
    <2>3. /\ pass' \in 1..MaxPasses /\ Read
          /\ temp' \in Readings' /\ humid' = humid /\ polls' \in Nat /\ polls <= polls'
      <3>1. pass' = pass + 1 /\ pass < MaxPasses /\ Read /\ temp' = Value /\ humid' = humid
        BY <1>5 DEF ReadTemperature
      <3>2. pass' \in 1..MaxPasses
        BY <1>1, <3>1, SensorAssumption
      <3> QED
        BY <3>1, <3>2, ReadCases
    <2>4. humid' \in Readings'
      BY <2>3, ReadingsGrow DEF TypeOK
    <2>5. cmd'.kind = "start" => cmd'.pass # 0
      BY <2>2 DEF Modem
    <2>6. requests' \subseteq Gets
      BY <2>2 DEF TypeOK, Gets
    <2> QED
      BY <1>5, <2>1, <2>2, <2>3, <2>4, <2>5, <2>6, AskTypes DEF ReadTemperature
  <1>6. CASE ReadHumidity
    <2>1. "start" \in Kinds \ {"none"}
      BY DEF Kinds
    <2>2. pass' \in 1..MaxPasses
      BY <1>6, SensorAssumption DEF ReadHumidity, Modem, TypeOK
    <2>3. /\ cmd' \in Commands /\ prompting' = FALSE /\ requests' \subseteq Gets
          /\ cmd'.kind # "none"
          /\ cmd'.kind = "start" => cmd'.pass # 0
      <3>1. pass' \in 0..MaxPasses /\ pass' # 0 /\ Write("start", 0, 0)
        BY <1>6, <2>2 DEF ReadHumidity
      <3> QED
        BY <2>1, <3>1, WriteTypes
    <2>4. /\ Read /\ humid' \in Readings' /\ temp' = temp /\ polls' \in Nat /\ polls <= polls'
      BY <1>6, ReadCases DEF ReadHumidity
    <2>5. temp' \in Readings'
      BY <2>4, ReadingsGrow DEF TypeOK
    <2> QED
      BY <1>6, <2>2, <2>3, <2>4, <2>5, AskTypes DEF ReadHumidity
  <1> QED
    BY <1>2, <1>3, <1>4, <1>5, <1>6

\* The rest of loop().
LEMMA LoopTypes ==
    ASSUME TypeOK, Modem, ReadOn \/ ConnectError \/ Connected \/ Send \/ NoPrompt \/ Drain
    PROVE  TypeOK' /\ Modem'
  <1>1. /\ pass \in 0..MaxPasses /\ attempt \in 0..Attempts /\ prompt \in 0..MaxPasses
        /\ rx \in Seq(Heard) /\ Len(rx) <= RxSlots
        /\ age \in Nat /\ lastreadtime \in 0..(Wrap - 1)
    BY DEF TypeOK, Heard
  <1>2. disturbed \in BOOLEAN /\ (disturbed \/ cmd # NoCmd) \in BOOLEAN
    BY DEF TypeOK
  <1>3. 0 \in 0..MaxPasses
    BY SensorAssumption
  <1>4. CASE ReadOn
    <2>1. PICK d \in {0, 1} : Elapse(d, age) /\ WriteNothing(d)
      BY <1>4 DEF ReadOn
    <2>2. rx' \in Seq(Heard) /\ Len(rx') <= RxSlots
      <3>1. rx # <<>> /\ rx' = Tail(rx)
        BY <1>4 DEF ReadOn
      <3>2. rx' \in Seq(Heard) /\ Len(rx') = Len(rx) - 1
        BY <1>1, <3>1
      <3> QED
        BY <1>1, <3>2, SensorAssumption
    <2>3. /\ pc' = pc /\ pc \in {"joining", "connect", "prompt"}
          /\ attempt' = attempt /\ pass' = pass /\ temp' = temp /\ humid' = humid
          /\ prompt' = prompt
      BY <1>4 DEF ReadOn, sketchVars
    <2> QED
      BY <1>1, <1>4, <2>1, <2>2, <2>3, WaitTypes DEF ReadOn
  <1>5. CASE ConnectError
    <2>1. PICK d \in {0, 1} : Found("Error", d) /\ Elapse(d, age) /\ WriteNothing(d)
      BY <1>5 DEF ConnectError
    <2>2. "Error" \in Words
      BY DEF Words
    <2>3. rx' \in Seq(Heard) /\ Len(rx') <= RxSlots /\ prompt' \in 0..MaxPasses
      BY <2>1, <2>2, FoundCases
    <2> QED
      BY <1>5, <2>1, <2>3, WaitTypes DEF ConnectError
  <1>6. CASE Connected
    <2>1. /\ rx' = rx /\ prompt' = 0 /\ pc' = "prompt" /\ pass # 0 /\ pass' = pass
          /\ disturbed' \in BOOLEAN
      BY <1>2, <1>6 DEF Connected, GaveUp, Modem
    <2>2. "send" \in Kinds \ {"none", "start"}
      BY DEF Kinds
    <2> QED
      BY <1>1, <1>3, <1>6, <2>1, <2>2, GiveTypes DEF Connected, dhtVars
  <1>7. CASE Send
    <2>1. PICK d \in {0, 1} : Found(">", d) /\ Elapse(d + 2, age) /\ Write("get", d, 2)
      BY <1>7 DEF Send
    <2>2. ">" \in Words /\ "get" \in Kinds \ {"none", "start"}
      BY DEF Words, Kinds
    <2>3. rx' \in Seq(Heard) /\ Len(rx') <= RxSlots /\ prompt' \in 0..MaxPasses
      BY <2>1, <2>2, FoundCases
    <2>4. pc' = "drain" /\ pass # 0 /\ pass' = pass /\ disturbed' \in BOOLEAN
      BY <1>2, <1>7 DEF Send, Modem
    <2> QED
      BY <1>1, <1>7, <2>1, <2>2, <2>3, <2>4, GiveTypes DEF Send, dhtVars
  <1>8. CASE NoPrompt
    <2>1. /\ rx' = rx /\ prompt' = 0 /\ pc' = "temp" /\ pass' = pass
          /\ disturbed' \in BOOLEAN
      BY <1>2, <1>8 DEF NoPrompt, GaveUp
    <2>2. "close" \in Kinds \ {"none", "start"}
      BY DEF Kinds
    <2> QED
      BY <1>1, <1>3, <1>8, <2>1, <2>2, GiveTypes DEF NoPrompt, dhtVars
  <1>9. CASE Drain
    <2>1. PICK d \in {1, 2} : Elapse(d, age) /\ WriteNothing(d)
      BY <1>9 DEF Drain
    <2>2. rx' \in Seq(Heard) /\ Len(rx') <= RxSlots /\ prompt' \in 0..MaxPasses /\ pc' = "temp"
      BY <1>3, <1>9, SensorAssumption DEF Drain
    <2> QED
      BY <1>9, <2>1, <2>2, WaitTypes DEF Drain
  <1> QED
    BY <1>4, <1>5, <1>6, <1>7, <1>8, <1>9

\* A restart, the modem and the server.
LEMMA OtherTypes ==
    ASSUME TypeOK, Modem,
           Reset \/ Answer \/ LoseLink \/ (\E r \in requests : Update(r) \/ DbDown(r))
    PROVE  TypeOK' /\ Modem'
  <1>1. CASE Reset
    <2>1. <<>> \in Seq([word : Words, pass : 0..MaxPasses]) /\ Len(<<>>) <= RxSlots
      BY SensorAssumption
    <2>2. /\ polls' = polls /\ Readings' = Readings /\ Rows' = Rows
      BY <1>1 DEF Reset, Readings, Rows
    <2>3. NaN \in Readings
      BY DEF Readings
    <2>4. resets' \in 0..MaxResets
      BY <1>1, SensorAssumption DEF Reset, TypeOK
    <2>5. 0 \in 0..(Wrap - 1) /\ 0 \in 0..Attempts /\ 0 \in 0..MaxPasses /\ 0 < Attempts
      BY SensorAssumption
    <2>6. TypeOK'
      BY <1>1, <2>1, <2>2, <2>3, <2>4, <2>5 DEF Reset, TypeOK, modemVars
    <2>7. Modem'
      BY <1>1, <2>5 DEF Reset, Modem, modemVars
    <2> QED
      BY <2>6, <2>7
  <1>2. CASE Answer
    <2>1. cmd' = NoCmd /\ Answer
      BY <1>2, AnswerCases
    <2>2. PICK word \in Words :
            /\ Receive(word)
            /\ word = ">" => cmd.kind = "send" /\ link # 0
            /\ link' = IF cmd.kind = "start" /\ word = "OK" THEN cmd.pass
                       ELSE IF cmd.kind = "close" THEN 0 ELSE link
            /\ prompting' = (word = ">")
      BY <1>2, AnswerCases
    <2>3. rx' \in Seq(Heard) /\ Len(rx') <= RxSlots
      BY <2>2, ReceiveCases
    <2>4. heardOk' \in BOOLEAN
      BY <2>2 DEF Receive
    <2>5. link' \in 0..MaxPasses /\ prompting' \in BOOLEAN /\ (prompting' => link' # 0)
      <3>1. link' \in 0..MaxPasses
        BY <2>2, SensorAssumption DEF TypeOK
      <3>2. prompting' => link' # 0
        BY <2>2
      <3>3. prompting' \in BOOLEAN
        BY <2>2
      <3> QED
        BY <3>1, <3>2, <3>3
    <2>6. /\ polls' = polls /\ Readings' = Readings /\ Rows' = Rows
      BY <2>1 DEF Answer, Readings, Rows
    <2>7. NoCmd \in Commands
      BY AgedNone
    <2>8. TypeOK'
      BY <2>1, <2>3, <2>4, <2>5, <2>6, <2>7 DEF Answer, TypeOK, sketchVars, dhtVars, Heard, Commands
    <2>9. Modem'
      BY <2>1, <2>5 DEF Answer, Modem, sketchVars, NoCmd
    <2> QED
      BY <2>8, <2>9
  <1>3. CASE LoseLink
    <2>1. /\ link' = 0 /\ prompting' = FALSE /\ requests' \subseteq requests
          /\ disturbed' \in BOOLEAN
      BY <1>3 DEF LoseLink
    <2>2. /\ polls' = polls /\ Readings' = Readings /\ Rows' = Rows
      BY <1>3 DEF LoseLink, Readings, Rows
    <2>3. requests' \subseteq [link : 1..MaxPasses, row : Rows]
      BY <2>1 DEF TypeOK
    <2>4. link' \in 0..MaxPasses
      BY <2>1, SensorAssumption
    <2>5. prompting' \in BOOLEAN
      BY <2>1
    <2>6. TypeOK'
      BY <1>3, <2>1, <2>2, <2>3, <2>4, <2>5 DEF LoseLink, TypeOK, sketchVars, dhtVars
    <2>7. Modem'
      BY <1>3, <2>1 DEF LoseLink, Modem, sketchVars
    <2> QED
      BY <2>6, <2>7
  <1>4. ASSUME NEW r \in requests, Update(r) \/ DbDown(r)
        PROVE  TypeOK' /\ Modem'
    <2>1. /\ requests' \subseteq requests
          /\ (link' = 0 /\ prompting' = FALSE) \/ (link' = link /\ prompting' = prompting)
      BY <1>4 DEF Update, DbDown, Taken
    <2>2. /\ polls' = polls /\ Readings' = Readings /\ Rows' = Rows
      BY <1>4 DEF Update, DbDown, Taken, Readings, Rows
    <2>3. row' \in Rows
      BY <1>4 DEF Update, DbDown, TypeOK
    <2>4. link' \in 0..MaxPasses /\ prompting' \in BOOLEAN
      <3>1. link \in 0..MaxPasses /\ 0 \in 0..MaxPasses /\ prompting \in BOOLEAN
        BY SensorAssumption DEF TypeOK
      <3>2. link' = 0 \/ link' = link
        BY <2>1
      <3>3. prompting' = FALSE \/ prompting' = prompting
        BY <2>1
      <3> QED
        BY <3>1, <3>2, <3>3
    <2>5. TypeOK'
      BY <1>4, <2>1, <2>2, <2>3, <2>4 DEF Update, DbDown, Taken, TypeOK, sketchVars, dhtVars
    <2>6. Modem'
      BY <1>4, <2>1 DEF Update, DbDown, Taken, Modem, sketchVars
    <2> QED
      BY <2>5, <2>6
  <1> QED
    BY <1>1, <1>2, <1>3, <1>4

LEMMA NextTypes == TypeOK /\ Modem /\ [Next]_vars => TypeOK' /\ Modem'
  <1> SUFFICES ASSUME TypeOK, Modem, [Next]_vars PROVE TypeOK' /\ Modem'
    OBVIOUS
  <1>1. CASE UNCHANGED vars
    BY <1>1 DEF vars, sketchVars, dhtVars, modemVars, TypeOK, Modem, Rows, Readings
  <1>2. CASE Next
    BY <1>2, SetupTypes, LoopTypes, OtherTypes DEF Next
  <1> QED
    BY <1>1, <1>2

\* The types of the sketch, the modem and the server hold in every state.
THEOREM SensorTypes == Spec => []TypeOK
  <1>1. Init => TypeOK /\ Modem
    BY InitTypes
  <1>2. TypeOK /\ Modem /\ [Next]_vars => (TypeOK /\ Modem)'
    BY NextTypes
  <1> QED
    BY <1>1, <1>2, PTL DEF Spec

----------------------------------------------------------------------------
(* What a GET carries. *)

LEMMA InitShown == Init => Shown
  BY DEF Init, Shown, OneMoment

LEMMA ReadShown ==
    ASSUME TypeOK, Shown, Read
    PROVE  lastresult' => data' = polls' /\ polls' # 0
  <1>1. CASE Cached
    BY <1>1, ReadCases DEF Shown
  <1>2. CASE ~Cached
    <2>1. polls' = polls + 1 /\ polls \in Nat /\ (lastresult' => data' = polls')
      BY <1>2, ReadCases DEF TypeOK
    <2> QED
      BY <2>1
  <1> QED
    BY <1>1, <1>2

LEMMA NextShown == TypeOK /\ Shown /\ [Next]_vars => Shown'
  <1> SUFFICES ASSUME TypeOK, Shown, [Next]_vars PROVE Shown'
    OBVIOUS
  <1> USE DEF Shown, OneMoment
  <1>1. polls \in Nat /\ lastresult \in BOOLEAN
    BY DEF TypeOK
  <1>2. CASE ReadTemperature
    <2>1. /\ pc' = "humid" /\ temp' = Value /\ Read
      BY <1>2 DEF ReadTemperature
    <2>2. lastresult' => data' = polls' /\ polls' # 0
      BY <2>1, ReadShown
    <2>3. temp' = IF lastresult' THEN polls' ELSE NaN
      BY <2>1, <2>2 DEF Value
    <2> QED
      BY <2>1, <2>2, <2>3
  <1>3. CASE ReadHumidity
    <2>1. /\ pc = "humid" /\ pc' = "connect" /\ humid' = Value /\ temp' = temp /\ Read
      BY <1>3 DEF ReadHumidity
    <2>2. lastresult' => data' = polls' /\ polls' # 0
      BY <2>1, ReadShown
    <2>3. humid' = IF lastresult' THEN polls' ELSE NaN
      BY <2>1, <2>2 DEF Value
    <2>4. temp = IF lastresult THEN polls ELSE NaN
      BY <2>1
    <2>5. CASE Cached
      <3>1. lastresult' = lastresult /\ polls' = polls
        BY <2>1, <2>5, ReadCases
      <3> QED
        BY <1>1, <2>1, <2>2, <2>3, <2>4, <3>1 DEF NaN, Torn
    <2>6. CASE ~Cached
      <3>1. polls' = polls + 1
        BY <2>1, <2>6, ReadCases
      <3> QED
        BY <1>1, <2>1, <2>2, <2>3, <2>4, <3>1 DEF NaN, Torn
    <2> QED
      BY <2>5, <2>6
  <1>4. CASE Reset
    BY <1>4 DEF Reset
  \* The other steps leave the sensor and its readings, and reach no new place
  \* where they count.
  <1>5. ASSUME UNCHANGED <<temp, humid, dhtVars, polls>> \/ (Setup /\ pc' = "temp"),
               pc' # "humid" \/ pc' = pc, pc' \in {"connect", "prompt"} => pc \in {"connect", "prompt"}
        PROVE  Shown'
    <2>1. /\ temp' = temp /\ humid' = humid /\ lastresult' = lastresult
          /\ data' = data /\ polls' = polls
      BY <1>5 DEF dhtVars, Setup
    <2> QED
      BY <1>5, <2>1
  <1>6. CASE Join \/ Joined \/ Setup
    BY <1>5, <1>6 DEF Join, Joined, Setup
  <1>7. CASE ReadOn \/ ConnectError \/ Connected \/ Send \/ NoPrompt \/ Drain
    BY <1>5, <1>7 DEF ReadOn, ConnectError, Connected, Send, NoPrompt, Drain, sketchVars
  <1>8. CASE Answer \/ LoseLink
    BY <1>5, <1>8 DEF Answer, LoseLink, sketchVars
  <1>9. ASSUME NEW r \in requests, Update(r) \/ DbDown(r)
        PROVE  Shown'
    BY <1>5, <1>9 DEF Update, DbDown, Taken, sketchVars
  <1>10. CASE UNCHANGED vars
    BY <1>5, <1>10 DEF vars, sketchVars
  <1> QED
    BY <1>2, <1>3, <1>4, <1>6, <1>7, <1>8, <1>9, <1>10 DEF Next

\* A GET carries a temperature and a humidity of one frame, or of one and the next,
\* and no part of a broken one (OneMoment): loop() calls DHT::read twice.
THEOREM MomentTheorem == Spec => []OneMoment
  <1>1. Init => TypeOK /\ Modem /\ Shown
    BY InitTypes, InitShown
  <1>2. TypeOK /\ Modem /\ Shown /\ [Next]_vars => (TypeOK /\ Modem /\ Shown)'
    BY NextTypes, NextShown
  <1>3. Shown => OneMoment
    BY DEF Shown
  <1> QED
    BY <1>1, <1>2, <1>3, PTL DEF Spec

----------------------------------------------------------------------------
(* What a node that hangs has not heard. *)

LEMMA InitSilent == Init => Silent
  BY DEF Init, Silent, HangNeedsSilence

LEMMA NextSilent == TypeOK /\ Modem /\ Silent /\ [Next]_vars => Silent'
  <1> SUFFICES ASSUME TypeOK, Modem, Silent, [Next]_vars PROVE Silent'
    OBVIOUS
  <1> USE DEF Silent, HangNeedsSilence
  <1>1. rx \in Seq(Heard) /\ Len(rx) \in Nat /\ heardOk \in BOOLEAN
    BY DEF TypeOK, Heard
  <1>2. CASE Joined
    <2>1. heardOk' = heardOk /\ pc = "joining"
      BY <1>2 DEF Joined
    <2>2. ASSUME GaveUp, pc' \in {"join", "hung"} PROVE Silent'
      <3>1. ~Waits("OK")
        BY <2>2 DEF GaveUp, Waits
      <3> QED
        BY <2>1, <3>1
    <2>3. pc' = "setup" \/ (GaveUp /\ pc' \in {"join", "hung"})
      BY <1>2 DEF Joined
    <2>4. ASSUME pc' = "setup" PROVE Silent'
      BY <2>4
    <2> QED
      BY <2>2, <2>3, <2>4
  <1>3. CASE ReadOn
    <2>1. heardOk' = heardOk /\ pc' = pc /\ rx # <<>> /\ rx' = Tail(rx)
      BY <1>3 DEF ReadOn, sketchVars
    <2>2. ASSUME pc = "joining", heardOk PROVE Waits("OK")'
      <3>1. PICK i \in 1..Len(rx) : rx[i].word = "OK"
        BY <2>2 DEF Waits
      <3>2. i # 1
        BY <1>3, <2>1, <2>2, <3>1 DEF ReadOn
      <3>3. i - 1 \in 1..Len(rx') /\ rx'[i - 1].word = "OK"
        BY <1>1, <2>1, <3>1, <3>2
      <3> QED
        BY <3>3 DEF Waits
    <2>3. pc \in {"joining", "connect", "prompt"}
      BY <1>3 DEF ReadOn
    <2> QED
      BY <2>1, <2>2, <2>3
  <1>4. CASE Answer
    <2>1. PICK word \in Words : Receive(word)
      BY <1>4, AnswerCases
    <2>2. pc' = pc
      BY <1>4 DEF Answer, sketchVars
    <2>3. pc = "hung" => ~heardOk'
      BY <2>1, ReceiveCases
    <2>4. ASSUME pc \in {"join", "joining"}, heardOk' PROVE Waits("OK")'
      <3>1. CASE heardOk
        <4>1. PICK i \in 1..Len(rx) : rx[i].word = "OK"
          BY <2>4, <3>1 DEF Waits
        <4>2. Len(rx') \in Nat /\ Len(rx) <= Len(rx') /\ rx'[i] = rx[i]
          <5>1. rx' \in Seq(Heard) /\ Len(rx) <= Len(rx') /\ \A j \in 1..Len(rx) : rx'[j] = rx[j]
            BY <2>1, ReceiveCases
          <5> QED
            BY <4>1, <5>1
        <4>3. i \in 1..Len(rx') /\ rx'[i].word = "OK"
          BY <1>1, <4>1, <4>2
        <4> QED
          BY <4>3 DEF Waits
      <3>2. CASE ~heardOk
        <4>1. Len(rx) < RxSlots /\ word = "OK"
          BY <2>1, <2>4, <3>2, ReceiveCases
        <4>2. Len(rx) + 1 \in 1..Len(rx') /\ rx'[Len(rx) + 1].word = "OK"
          <5>1. /\ Len(rx') = Len(rx) + 1
                /\ rx'[Len(rx) + 1] = [word |-> word, pass |-> cmd.pass]
            BY <2>1, <4>1, ReceiveCases
          <5> QED
            BY <1>1, <4>1, <5>1
        <4> QED
          BY <4>2 DEF Waits
      <3> QED
        BY <3>1, <3>2
    <2> QED
      BY <2>2, <2>3, <2>4
  <1>5. CASE Reset
    BY <1>5 DEF Reset
  <1>6. CASE Join
    <2>1. pc = "join" /\ pc' = "joining" /\ heardOk' = heardOk /\ rx' = rx
      BY <1>6 DEF Join
    <2> QED
      BY <2>1 DEF Waits
  \* The steps of loop() and of the server.
  <1>7. ASSUME pc' \notin {"join", "joining", "hung"} PROVE Silent'
    BY <1>7
  <1>8. CASE Setup \/ ReadTemperature \/ ReadHumidity \/ ConnectError
    BY <1>7, <1>8 DEF Setup, ReadTemperature, ReadHumidity, ConnectError
  <1>9. CASE Connected \/ Send \/ NoPrompt \/ Drain
    BY <1>7, <1>9 DEF Connected, Send, NoPrompt, Drain
  <1>10. ASSUME pc' = pc, rx' = rx, heardOk' = heardOk PROVE Silent'
    BY <1>10 DEF Waits
  <1>11. CASE LoseLink
    BY <1>10, <1>11 DEF LoseLink, sketchVars
  <1>12. ASSUME NEW r \in requests, Update(r) \/ DbDown(r)
         PROVE  Silent'
    BY <1>10, <1>12 DEF Update, DbDown, Taken, sketchVars
  <1>13. CASE UNCHANGED vars
    BY <1>10, <1>13 DEF vars, sketchVars
  <1> QED
    BY <1>2, <1>3, <1>4, <1>5, <1>6, <1>8, <1>9, <1>11, <1>12, <1>13 DEF Next

\* A node that hangs in while(1) has not heard "OK", early or late, since it
\* started (HangNeedsSilence): what a find() gave up waiting for is found by the
\* next one.
THEOREM HangTheorem == Spec => []HangNeedsSilence
  <1>1. Init => TypeOK /\ Modem /\ Silent
    BY InitTypes, InitSilent
  <1>2. TypeOK /\ Modem /\ Silent /\ [Next]_vars => (TypeOK /\ Modem /\ Silent)'
    BY NextTypes, NextSilent
  <1>3. Silent => HangNeedsSilence
    BY DEF Silent
  <1> QED
    BY <1>1, <1>2, <1>3, PTL DEF Spec

----------------------------------------------------------------------------
(* Which ">" loop() takes for its own. *)

\* While time passes, an AT+CIPSEND under way stays what it is.
LEMMA WaitSend ==
    ASSUME TypeOK, Modem, NEW d \in Nat, WriteNothing(d)
    PROVE  /\ cmd'.kind = cmd.kind /\ cmd'.pass = cmd.pass
           /\ cmd.kind = "send" /\ cmd.lag = MaxLag => cmd'.lag = MaxLag
  <1>1. cmd \in Commands
    BY DEF TypeOK, Commands
  <1>2. cmd' = Aged(cmd, d)
    BY DEF WriteNothing
  <1>3. cmd'.lag = IF cmd.kind \in {"none", "join"} THEN 0 ELSE AtMost(cmd.lag + d, MaxLag)
    BY <1>1, <1>2, AgedStays
  <1>4. cmd.lag = MaxLag => AtMost(cmd.lag + d, MaxLag) = MaxLag
    BY SensorAssumption DEF AtMost
  <1> QED
    BY <1>1, <1>2, <1>3, <1>4, AgedStays

\* After something is given to the modem, it works on an AT+CIPSEND if that is what
\* it was given, or one that was under way has been waited for a little longer.
LEMMA WriteSend ==
    ASSUME TypeOK, Modem, pass' \in 0..MaxPasses,
           NEW kind \in Kinds \ {"none"}, NEW before \in Nat, NEW after \in Nat,
           Write(kind, before, after), cmd'.kind = "send"
    PROVE  /\ ~prompting
           /\ \/ kind = "send" /\ cmd = NoCmd /\ cmd'.pass = pass'
              \/ /\ cmd # NoCmd /\ cmd.kind = "send" /\ cmd'.pass = cmd.pass
                 /\ cmd'.lag = AtMost(cmd.lag + (before + after), MaxLag)
  <1>1. prompting \in BOOLEAN /\ cmd \in Commands
    BY DEF TypeOK, Commands
  <1>2. ~prompting
    BY <1>1, WriteCases
  <1>3. CASE cmd = NoCmd
    BY <1>2, <1>3, WriteCases
  <1>4. CASE cmd # NoCmd
    <2>1. cmd' = Aged(cmd, before + after) /\ cmd'.kind = cmd.kind /\ cmd'.pass = cmd.pass
      BY <1>2, <1>4, WriteCases
    <2>2. before + after \in Nat
      OBVIOUS
    <2>3. cmd'.lag = IF cmd.kind \in {"none", "join"} THEN 0
                     ELSE AtMost(cmd.lag + (before + after), MaxLag)
      BY <1>1, <2>1, <2>2, AgedStays
    <2> QED
      BY <1>2, <1>4, <2>1, <2>3
  <1> QED
    BY <1>3, <1>4

LEMMA InitInStep == Init => InStep
  BY DEF Init, InStep, PromptInStep, NoCmd

LEMMA SetupInStep ==
    ASSUME MaxLag <= 2, TypeOK, Modem, InStep,
           Join \/ Joined \/ Setup \/ ReadTemperature \/ ReadHumidity
    PROVE  InStep'
  <1> USE DEF InStep, PromptInStep
  <1>1. pass \in 0..MaxPasses /\ MaxLag \in 0..2 /\ cmd.lag \in 0..MaxLag
    BY SensorAssumption DEF TypeOK
  <1>2. CASE Join
    <2>1. /\ pc' = "joining" /\ pass' = pass /\ Write("join", 0, 3)
          /\ cmd.kind \in {"none", "join"} \/ cmd.lag + 3 <= MaxLag
      BY <1>2 DEF Join, Elapse
    <2>2. "join" \in Kinds \ {"none"} /\ pass' \in 0..MaxPasses
      BY <1>1, <2>1 DEF Kinds
    <2>3. cmd.kind # "send"
      BY <1>1, <2>1
    <2>4. cmd'.kind # "send"
      BY <2>1, <2>2, <2>3, WriteSend
    <2> QED
      BY <2>1, <2>4
  <1>3. CASE Joined
    <2>1. PICK d \in {0, 1} : WriteNothing(d)
      BY <1>3 DEF Joined
    <2>2. pc = "joining" /\ pc' \in {"setup", "join", "hung"}
      BY <1>3 DEF Joined
    <2>3. cmd'.kind # "send"
      BY <2>1, <2>2, WaitSend
    <2> QED
      BY <2>2, <2>3
  <1>4. CASE Setup
    <2>1. pc = "setup" /\ pc' = "temp" /\ pass' = pass /\ Write("mux", 5, 1)
      BY <1>4 DEF Setup
    <2>2. "mux" \in Kinds \ {"none"} /\ pass' \in 0..MaxPasses
      BY <1>1, <2>1 DEF Kinds
    <2>3. cmd'.kind # "send"
      BY <2>1, <2>2, WriteSend
    <2> QED
      BY <2>1, <2>3
  <1>5. CASE ReadTemperature
    <2>1. PICK d \in {0, 1} : WriteNothing(d)
      BY <1>5 DEF ReadTemperature
    <2>2. pc = "temp" /\ pc' = "humid"
      BY <1>5 DEF ReadTemperature
    <2>3. cmd'.kind = "send" => cmd'.lag = MaxLag
      BY <2>1, <2>2, WaitSend
    <2> QED
      BY <2>2, <2>3
  <1>6. CASE ReadHumidity
    <2>1. pc = "humid" /\ pc' = "connect" /\ pass' = pass /\ Write("start", 0, 0)
      BY <1>6 DEF ReadHumidity
    <2>2. "start" \in Kinds \ {"none"} /\ pass' \in 0..MaxPasses
      BY <1>1, <2>1 DEF Kinds
    <2>3. ASSUME cmd'.kind = "send" PROVE cmd'.lag = MaxLag
      <3>1. cmd.kind = "send" /\ cmd'.lag = AtMost(cmd.lag + (0 + 0), MaxLag)
        BY <2>1, <2>2, <2>3, WriteSend
      <3> QED
        BY <1>1, <2>1, <3>1 DEF AtMost
    <2> QED
      BY <2>1, <2>3
  <1> QED
    BY <1>2, <1>3, <1>4, <1>5, <1>6

LEMMA LoopInStep ==
    ASSUME MaxLag <= 2, TypeOK, Modem, InStep,
           ReadOn \/ ConnectError \/ Connected \/ Send \/ NoPrompt \/ Drain
    PROVE  InStep'
  <1> USE DEF InStep, PromptInStep
  <1>1. /\ pass \in 0..MaxPasses /\ MaxLag \in 0..2 /\ cmd.lag \in 0..MaxLag
        /\ rx \in Seq(Heard)
    BY SensorAssumption DEF TypeOK, Heard
  <1>2. CASE ReadOn
    <2>1. PICK d \in {0, 1} : WriteNothing(d)
      BY <1>2 DEF ReadOn
    <2>2. /\ pc \in {"joining", "connect", "prompt"} /\ pc' = pc /\ pass' = pass
          /\ rx # <<>> /\ rx' = Tail(rx)
      BY <1>2 DEF ReadOn, sketchVars
    <2>3. /\ cmd'.kind = cmd.kind /\ cmd'.pass = cmd.pass
          /\ cmd.kind = "send" /\ cmd.lag = MaxLag => cmd'.lag = MaxLag
      BY <2>1, WaitSend
    <2>4. ASSUME pc = "prompt", NEW i \in 1..Len(rx'), rx'[i].word = ">"
          PROVE  rx'[i].pass = pass
      <3>1. i + 1 \in 1..Len(rx) /\ rx'[i] = rx[i + 1]
        BY <1>1, <2>2
      <3> QED
        BY <2>4, <3>1
    <2> QED
      BY <2>2, <2>3, <2>4
  <1>3. CASE ConnectError
    <2>1. PICK d \in {0, 1} : WriteNothing(d)
      BY <1>3 DEF ConnectError
    <2>2. pc = "connect" /\ pc' = "temp"
      BY <1>3 DEF ConnectError
    <2>3. cmd'.kind = "send" => cmd'.lag = MaxLag
      BY <2>1, <2>2, WaitSend
    <2> QED
      BY <2>2, <2>3
  <1>4. CASE Connected
    <2>1. /\ pc = "connect" /\ pc' = "prompt" /\ pass' = pass /\ Write("send", 1, 0)
          /\ cmd.kind \in {"none", "join"} \/ cmd.lag + 1 <= MaxLag
          /\ rx' = <<>>
      BY <1>4 DEF Connected, Elapse, GaveUp
    <2>2. "send" \in Kinds \ {"none"} /\ pass' \in 0..MaxPasses
      BY <1>1, <2>1 DEF Kinds
    <2>3. cmd.kind # "send"
      BY <1>1, <2>1
    <2>4. cmd'.kind = "send" => cmd'.pass = pass'
      BY <2>1, <2>2, <2>3, WriteSend
    <2> QED
      BY <2>1, <2>4
  <1>5. CASE Send
    <2>1. PICK d \in {0, 1} : Found(">", d) /\ Write("get", d, 2)
      BY <1>5 DEF Send
    <2>2. pc = "prompt" /\ pc' = "drain" /\ pass' = pass
      BY <1>5 DEF Send
    <2>3. prompt' = pass'
      BY <2>1, <2>2 DEF Found
    <2>4. "get" \in Kinds \ {"none"} /\ pass' \in 0..MaxPasses
      BY <1>1, <2>2 DEF Kinds
    <2>5. ASSUME cmd'.kind = "send" PROVE cmd'.lag = MaxLag
      <3>1. cmd'.lag = AtMost(cmd.lag + (d + 2), MaxLag)
        <4>1. d \in Nat /\ 2 \in Nat /\ Write("get", d, 2) /\ "get" # "send"
          BY <2>1
        <4> QED
          BY <2>4, <2>5, <4>1, WriteSend
      <3> QED
        BY <1>1, <3>1 DEF AtMost
    <2> QED
      BY <2>2, <2>3, <2>5
  <1>6. CASE NoPrompt
    <2>1. pc' = "temp" /\ pass' = pass /\ Write("close", 1, 1)
      BY <1>6 DEF NoPrompt
    <2>2. "close" \in Kinds \ {"none"} /\ pass' \in 0..MaxPasses
      BY <1>1, <2>1 DEF Kinds
    <2>3. ASSUME cmd'.kind = "send" PROVE cmd'.lag = MaxLag
      <3>1. cmd'.lag = AtMost(cmd.lag + (1 + 1), MaxLag)
        BY <2>1, <2>2, <2>3, WriteSend
      <3> QED
        BY <1>1, <3>1 DEF AtMost
    <2> QED
      BY <2>1, <2>3
  <1>7. CASE Drain
    <2>1. PICK d \in {1, 2} : WriteNothing(d)
      BY <1>7 DEF Drain
    <2>2. pc = "drain" /\ pc' = "temp"
      BY <1>7 DEF Drain
    <2>3. cmd'.kind = "send" => cmd'.lag = MaxLag
      BY <2>1, <2>2, WaitSend
    <2> QED
      BY <2>2, <2>3
  <1> QED
    BY <1>2, <1>3, <1>4, <1>5, <1>6, <1>7

LEMMA NextInStep ==
    ASSUME MaxLag <= 2, TypeOK, Modem, InStep, [Next]_vars
    PROVE  InStep'
  <1>1. CASE Reset
    BY <1>1 DEF Reset, InStep, PromptInStep
  <1>2. CASE Answer
    <2>1. pc' = pc /\ pass' = pass /\ prompt' = prompt /\ cmd' = NoCmd
      BY <1>2, AnswerCases DEF Answer, sketchVars
    <2>2. PICK word \in Words : Receive(word) /\ (word = ">" => cmd.kind = "send")
      BY <1>2, AnswerCases
    <2>3. ASSUME pc = "prompt", NEW i \in 1..Len(rx'), rx'[i].word = ">"
          PROVE  rx'[i].pass = pass
      <3>1. /\ Len(rx) \in Nat
            /\ Len(rx') = Len(rx) \/ Len(rx') = Len(rx) + 1
            /\ \A j \in 1..Len(rx) : rx'[j] = rx[j]
            /\ Len(rx') = Len(rx) + 1 => rx'[Len(rx) + 1] = [word |-> word, pass |-> cmd.pass]
        <4>1. Len(rx) \in Nat
          BY DEF TypeOK
        <4> QED
          BY <2>2, <4>1, ReceiveCases
      <3>2. CASE i \in 1..Len(rx)
        BY <2>3, <3>1, <3>2 DEF InStep
      <3>3. CASE i = Len(rx) + 1 /\ Len(rx') = Len(rx) + 1
        BY <2>2, <2>3, <3>1, <3>3 DEF InStep
      <3> QED
        BY <3>1, <3>2, <3>3
    <2> QED
      BY <2>1, <2>3 DEF InStep, PromptInStep, NoCmd
  <1>3. ASSUME pc' = pc, pass' = pass, prompt' = prompt, cmd' = cmd, rx' = rx
        PROVE  InStep'
    BY <1>3 DEF InStep, PromptInStep
  <1>4. CASE LoseLink
    BY <1>3, <1>4 DEF LoseLink, sketchVars
  <1>5. ASSUME NEW r \in requests, Update(r) \/ DbDown(r)
        PROVE  InStep'
    BY <1>3, <1>5 DEF Update, DbDown, Taken, sketchVars
  <1>6. CASE UNCHANGED vars
    BY <1>3, <1>6 DEF vars, sketchVars, modemVars
  <1> QED
    BY <1>1, <1>2, <1>4, <1>5, <1>6, SetupInStep, LoopInStep DEF Next

\* As long as the modem answers within the 2 seconds the sketch leaves it, loop()
\* sends its GET after the ">" of its own AT+CIPSEND (PromptInStep): one that came
\* too late for the pass that asked is not found by the next.
THEOREM PromptTheorem ==
    ASSUME MaxLag <= 2
    PROVE  Spec => []PromptInStep
  <1>1. Init => TypeOK /\ Modem /\ InStep
    BY InitTypes, InitInStep
  <1>2. TypeOK /\ Modem /\ InStep /\ [Next]_vars => (TypeOK /\ Modem /\ InStep)'
    BY NextTypes, NextInStep
  <1>3. InStep => PromptInStep
    BY DEF InStep
  <1> QED
    BY <1>1, <1>2, <1>3, PTL DEF Spec

----------------------------------------------------------------------------
(* The row. *)

\* Giving something to the modem adds at most the GET, and that on a connection
\* nothing is requested on.
LEMMA WriteRequests ==
    ASSUME TypeOK, Modem, pass' \in 0..MaxPasses,
           NEW kind \in Kinds \ {"none"}, NEW before \in Nat, NEW after \in Nat,
           Write(kind, before, after)
    PROVE  \/ requests' = requests
           \/ /\ prompting /\ kind = "get" /\ ~Requested(link)
              /\ requests' = requests \cup {GetOfPass}
  <1>1. prompting \in BOOLEAN
    BY DEF TypeOK
  <1>2. CASE prompting
    BY <1>2, WriteCases
  <1>3. CASE ~prompting
    BY <1>3, WriteCases
  <1> QED
    BY <1>1, <1>2, <1>3

LEMMA InitNewest == Init => Newest
  BY DEF Init, Newest, NoRow

\* The GET of this pass is the newest.
LEMMA SendNewest ==
    ASSUME TypeOK, Newest, pass' = pass, row' = row, ~Requested(link),
           requests' = requests \cup {GetOfPass}
    PROVE  Newest'
  <1>1. GetOfPass.link = link /\ GetOfPass.row.pass = pass
    BY DEF GetOfPass
  <1> DEFINE get == GetOfPass
  <1>2. get.link = link /\ get.row.pass = pass /\ requests' = requests \cup {get}
    BY <1>1
  <1> HIDE DEF get
  <1>3. \A r \in requests : r.link # link
    BY DEF Requested
  <1>4. pass \in Nat
    BY DEF TypeOK
  <1> QED
    BY <1>2, <1>3, <1>4 DEF Newest

LEMMA NextNewest ==
    ASSUME TypeOK, Modem, Newest, [Next]_vars
    PROVE  Newest'
  <1>1. pass \in 0..MaxPasses /\ row.pass \in Nat /\ \A r \in requests : r.row.pass \in Nat
    BY DEF TypeOK, Rows
  \* No new request, and no new row but one that was requested.
  <1>2. ASSUME requests' \subseteq requests, pass' \in Nat, pass <= pass',
               row' = row \/ \E r \in requests : row' = r.row
        PROVE  Newest'
    <2>1. row'.pass \in Nat /\ row'.pass <= pass
      BY <1>1, <1>2 DEF Newest
    <2>2. \A r \in requests' : r.row.pass <= pass'
      BY <1>1, <1>2 DEF Newest
    <2>3. \A r, s \in requests' : r.link = s.link => r = s
      BY <1>2 DEF Newest
    <2>4. row'.pass <= pass'
      BY <1>1, <1>2, <2>1
    <2> QED
      BY <2>2, <2>3, <2>4 DEF Newest
  <1>3. CASE Join \/ Setup \/ ReadHumidity \/ Connected \/ NoPrompt
    <2>1. PICK kind \in Kinds \ {"none", "get"}, before \in Nat, after \in Nat :
            Write(kind, before, after)
      <3>1. /\ "join" \in Kinds \ {"none", "get"} /\ "mux" \in Kinds \ {"none", "get"}
            /\ "start" \in Kinds \ {"none", "get"} /\ "send" \in Kinds \ {"none", "get"}
            /\ "close" \in Kinds \ {"none", "get"}
        BY DEF Kinds
      <3> QED
        BY <1>3, <3>1 DEF Join, Setup, ReadHumidity, Connected, NoPrompt
    <2>2. pass' = pass /\ row' = row
      BY <1>3 DEF Join, Setup, ReadHumidity, Connected, NoPrompt
    <2>3. requests' = requests
      BY <1>1, <2>1, <2>2, WriteRequests
    <2> QED
      BY <1>1, <1>2, <2>2, <2>3
  <1>4. CASE Send
    <2>1. PICK d \in {0, 1} : Write("get", d, 2)
      BY <1>4 DEF Send
    <2>2. d \in Nat /\ 2 \in Nat /\ "get" \in Kinds \ {"none"}
      BY <2>1 DEF Kinds
    <2>3. pass' = pass /\ row' = row
      BY <1>4 DEF Send
    <2>4. \/ requests' = requests
          \/ ~Requested(link) /\ requests' = requests \cup {GetOfPass}
      BY <1>1, <2>1, <2>2, <2>3, WriteRequests
    <2> QED
      BY <1>1, <1>2, <2>3, <2>4, SendNewest
  <1>5. CASE ReadTemperature
    BY <1>1, <1>2, <1>5 DEF ReadTemperature, WriteNothing
  <1>6. CASE Joined \/ ReadOn \/ ConnectError \/ Drain
    BY <1>1, <1>2, <1>6 DEF Joined, ReadOn, ConnectError, Drain, WriteNothing, sketchVars
  <1>7. CASE Reset \/ Answer \/ LoseLink
    BY <1>1, <1>2, <1>7 DEF Reset, Answer, LoseLink, sketchVars
  <1>8. ASSUME NEW r \in requests, Update(r) \/ DbDown(r)
        PROVE  Newest'
    BY <1>1, <1>2, <1>8 DEF Update, DbDown, Taken, sketchVars
  <1>9. CASE UNCHANGED vars
    BY <1>1, <1>2, <1>9 DEF vars, sketchVars
  <1> QED
    BY <1>3, <1>4, <1>5, <1>6, <1>7, <1>8, <1>9 DEF Next

LEMMA InitForward == Init => Forward
  BY DEF Init, Forward, NoCmd

\* The steps of the sketch that only wait, or write something that is neither the
\* AT+CIPSEND, the GET nor the AT+CIPCLOSE, outside of "prompt" and of connectWiFi().
LEMMA IdleForward ==
    ASSUME Forward, disturbed' = disturbed, requests' = requests, row' = row, link' = link,
           pc \notin {"join", "joining", "hung", "prompt"}, pc' # "prompt",
           prompting' => prompting /\ pc # "setup",
           cmd'.kind \in {"send", "close"} => cmd'.kind = cmd.kind
    PROVE  Forward'
  <1> SUFFICES ASSUME ~disturbed
               PROVE  /\ \A r \in requests : r.link = link /\ row.pass <= r.row.pass
                      /\ cmd'.kind = "close" => link = 0
                      /\ ~prompting' /\ cmd'.kind # "send"
    BY DEF Forward
  <1>1. cmd.kind # "send" /\ (prompting => pc = "setup")
    BY DEF Forward
  <1>2. ~prompting' /\ cmd'.kind # "send"
    BY <1>1
  <1> QED
    BY <1>2 DEF Forward

\* connectWiFi() finds no "OK" while the modem works on an AT+CIPSEND of before a restart.
LEMMA JoiningForward ==
    ASSUME Forward, disturbed' = disturbed, requests' = requests, row' = row, link' = link,
           pc = "joining", pc' \in {"joining", "join", "setup", "hung"},
           rx = <<>> => rx' = <<>> /\ pc' # "setup",
           prompting' = prompting, cmd'.kind = cmd.kind
    PROVE  Forward'
  BY DEF Forward

LEMMA SetupForward ==
    ASSUME TypeOK, Modem, Forward,
           Join \/ Joined \/ Setup \/ ReadTemperature \/ ReadHumidity
    PROVE  Forward'
  <1>1. pass \in 0..MaxPasses /\ prompting \in BOOLEAN
    BY DEF TypeOK
  <1>2. CASE Join
    <2>1. /\ pc' = "joining" /\ pass' = pass /\ Write("join", 0, 3)
          /\ link' = link /\ row' = row /\ disturbed' = disturbed /\ rx' = rx
      BY <1>2 DEF Join
    <2>2. "join" \in Kinds \ {"none"} /\ pass' \in 0..MaxPasses /\ "join" # "get"
      BY <1>1, <2>1 DEF Kinds
    <2>4. cmd'.kind = "send" => cmd.kind = "send"
      BY <1>1, <2>1, <2>2, WriteCases
    <2>5. prompting' = FALSE /\ requests' = requests
      BY <2>1, <2>2, WriteCases, WriteRequests
    <2>6. cmd'.kind = "close" => cmd.kind = "close"
      BY <1>1, <2>1, <2>2, WriteCases
    <2> QED
      BY <2>1, <2>4, <2>5, <2>6 DEF Forward
  <1>5. CASE Joined
    <2>1. PICK d \in {0, 1} : /\ Found("OK", d) \/ (GaveUp /\ pc' \in {"join", "hung"})
                              /\ WriteNothing(d)
      BY <1>5 DEF Joined
    <2>2. /\ pc = "joining" /\ pc' \in {"join", "setup", "hung"}
          /\ link' = link /\ row' = row /\ disturbed' = disturbed
      BY <1>5 DEF Joined
    <2>3. cmd'.kind = cmd.kind /\ prompting' = prompting /\ requests' = requests
      BY <2>1, SilentCases
    <2>4. rx = <<>> => rx' = <<>> /\ pc' # "setup"
      BY <2>1 DEF Found, GaveUp
    <2> QED
      BY <2>2, <2>3, <2>4, JoiningForward
  <1>3. CASE ReadTemperature
    <2>1. PICK d \in {0, 1} : WriteNothing(d)
      BY <1>3 DEF ReadTemperature
    <2>2. /\ pc = "temp" /\ pc' # "prompt"
          /\ link' = link /\ row' = row /\ disturbed' = disturbed
      BY <1>3 DEF ReadTemperature
    <2>3. cmd'.kind = cmd.kind /\ prompting' = prompting /\ requests' = requests
      BY <2>1, SilentCases
    <2> QED
      BY <2>2, <2>3, IdleForward
  <1>4. CASE Setup \/ ReadHumidity
    <2>1. PICK kind \in Kinds \ {"none", "get", "send", "close"}, before \in Nat, after \in Nat :
            Write(kind, before, after)
      <3>1. /\ "mux" \in Kinds \ {"none", "get", "send", "close"}
            /\ "start" \in Kinds \ {"none", "get", "send", "close"}
        BY DEF Kinds
      <3> QED
        BY <1>4, <3>1 DEF Setup, ReadHumidity
    <2>2. /\ pc \in {"setup", "humid"} /\ pc' # "prompt" /\ pass' = pass
          /\ link' = link /\ row' = row /\ disturbed' = disturbed
      BY <1>4 DEF Setup, ReadHumidity
    <2>3. /\ pass' \in 0..MaxPasses /\ kind \in Kinds \ {"none"}
          /\ kind \notin {"get", "send", "close"}
      BY <1>1, <2>1, <2>2
    <2>4. requests' = requests
      BY <2>1, <2>3, WriteRequests
    <2>5. prompting' = FALSE
      BY <2>1, <2>3, WriteCases
    <2>6. cmd'.kind \in {"send", "close"} => cmd'.kind = cmd.kind
      BY <1>1, <2>1, <2>3, WriteCases
    <2> QED
      BY <2>2, <2>4, <2>5, <2>6, IdleForward
  <1> QED
    BY <1>2, <1>3, <1>4, <1>5

LEMMA LoopForward ==
    ASSUME TypeOK, Modem, Newest, Forward,
           ReadOn \/ ConnectError \/ Connected \/ Send \/ NoPrompt \/ Drain
    PROVE  Forward'
  <1>1. pass \in 0..MaxPasses /\ prompting \in BOOLEAN /\ disturbed \in BOOLEAN /\ rx \in Seq(Heard)
    BY DEF TypeOK, Heard
  <1>2. CASE ReadOn
    <2>1. PICK d \in {0, 1} : WriteNothing(d)
      BY <1>2 DEF ReadOn
    <2>2. /\ pc \in {"joining", "connect", "prompt"} /\ pc' = pc
          /\ rx # <<>> /\ rx' = Tail(rx)
          /\ pc = "prompt" => rx[1].word # ">"
          /\ link' = link /\ row' = row /\ disturbed' = disturbed
      BY <1>1, <1>2 DEF ReadOn, sketchVars
    <2>3. /\ cmd'.kind = cmd.kind /\ prompting' = prompting /\ requests' = requests
          /\ cmd = NoCmd => cmd' = NoCmd
      BY <2>1, SilentCases
    <2>4. CASE pc = "joining"
      BY <2>2, <2>3, <2>4, JoiningForward
    <2>6. CASE pc = "connect"
      BY <2>2, <2>3, <2>6, IdleForward
    <2>5. CASE pc = "prompt"
      <3>1. ASSUME Waits(">") PROVE Waits(">")'
        <4>1. PICK i \in 1..Len(rx) : rx[i].word = ">"
          BY <3>1 DEF Waits
        <4>2. i - 1 \in 1..Len(rx') /\ rx'[i - 1].word = ">"
          BY <1>1, <2>2, <2>5, <4>1
        <4> QED
          BY <4>2 DEF Waits
      <3>2. ~disturbed => cmd = NoCmd /\ cmd' = NoCmd
        BY <2>2, <2>3, <2>5 DEF Forward
      <3> QED
        BY <2>2, <2>3, <2>5, <3>1, <3>2 DEF Forward
    <2> QED
      BY <2>2, <2>4, <2>5, <2>6
  <1>3. CASE ConnectError \/ Drain
    <2>1. PICK d \in {0, 1, 2} : WriteNothing(d)
      BY <1>3 DEF ConnectError, Drain
    <2>2. /\ pc \in {"connect", "drain"} /\ pc' # "prompt"
          /\ link' = link /\ row' = row /\ disturbed' = disturbed
      BY <1>3 DEF ConnectError, Drain
    <2>3. cmd'.kind = cmd.kind /\ prompting' = prompting /\ requests' = requests
      BY <2>1, SilentCases
    <2> QED
      BY <2>2, <2>3, IdleForward
  <1>4. CASE Connected
    <2> SUFFICES ASSUME ~disturbed' PROVE Forward'
      BY DEF Forward
    <2>1. /\ pc = "connect" /\ pc' = "prompt" /\ pass' = pass /\ Write("send", 1, 0)
          /\ link' = link /\ row' = row /\ rx' = <<>>
          /\ ~disturbed /\ cmd = NoCmd
      BY <1>4 DEF Connected, GaveUp
    <2>2. "send" \in Kinds \ {"none"} /\ pass' \in 0..MaxPasses /\ "send" # "get"
      BY <1>1, <2>1 DEF Kinds
    <2>3. ~prompting
      BY <2>1 DEF Forward
    <2>4. cmd'.kind = "send" /\ requests' = requests
      BY <2>1, <2>2, <2>3, WriteCases
    <2>5. cmd' # NoCmd
      BY <2>4 DEF NoCmd
    <2> QED
      BY <2>1, <2>4, <2>5 DEF Forward
  <1>5. CASE Send
    <2> SUFFICES ASSUME ~disturbed' PROVE Forward'
      BY DEF Forward
    <2>1. PICK d \in {0, 1} : Found(">", d) /\ Write("get", d, 2)
      BY <1>5 DEF Send
    <2>2. /\ pc = "prompt" /\ pc' = "drain" /\ pass' = pass
          /\ link' = link /\ row' = row /\ ~disturbed
      BY <1>5 DEF Send
    <2>3. /\ pass' \in 0..MaxPasses /\ "get" \in Kinds \ {"none"}
          /\ d \in Nat /\ 2 \in Nat
      BY <1>1, <2>1, <2>2 DEF Kinds
    <2>4. cmd = NoCmd
      <3>1. rx # <<>>
        BY <2>1 DEF Found
      <3> QED
        BY <2>2, <3>1 DEF Forward
    <2>5. cmd'.kind \in {"get", "data"} /\ prompting' = FALSE
      BY <1>1, <2>1, <2>3, <2>4, WriteCases
    <2>6. requests' = requests \/ requests' = requests \cup {GetOfPass}
      BY <2>1, <2>3, WriteRequests
    <2>7. GetOfPass.link = link /\ row.pass <= GetOfPass.row.pass
      BY <2>2 DEF GetOfPass, Newest
    <2>8. \A r \in requests' : r.link = link /\ row.pass <= r.row.pass
      BY <2>2, <2>6, <2>7 DEF Forward
    <2> QED
      BY <2>2, <2>5, <2>8 DEF Forward
  <1>6. CASE NoPrompt
    <2> SUFFICES ASSUME ~disturbed' PROVE Forward'
      BY DEF Forward
    <2>1. /\ pc = "prompt" /\ pc' = "temp" /\ pass' = pass /\ Write("close", 1, 1)
          /\ link' = link /\ row' = row /\ rx = <<>>
          /\ ~disturbed /\ cmd = NoCmd
      BY <1>6 DEF NoPrompt, GaveUp
    <2>2. "close" \in Kinds \ {"none"} /\ pass' \in 0..MaxPasses /\ "close" # "get"
      BY <1>1, <2>1 DEF Kinds
    <2>3. link = 0
      <3>1. ~Waits(">")
        BY <2>1 DEF Waits
      <3> QED
        BY <2>1, <3>1 DEF Forward
    <2>4. ~prompting
      BY <2>3 DEF Modem
    <2>5. cmd'.kind = "close" /\ prompting' = FALSE /\ requests' = requests
      BY <2>1, <2>2, <2>4, WriteCases
    <2> QED
      BY <2>1, <2>3, <2>5 DEF Forward
  <1> QED
    BY <1>2, <1>3, <1>4, <1>5, <1>6

LEMMA OtherForward ==
    ASSUME TypeOK, Modem, Newest, Forward,
           Reset \/ Answer \/ LoseLink \/ (\E r \in requests : Update(r) \/ DbDown(r))
    PROVE  Forward'
  <1>1. /\ rx \in Seq(Heard) /\ disturbed \in BOOLEAN /\ prompting \in BOOLEAN
        /\ \A r \in requests : r.link # 0
    BY DEF TypeOK, Heard
  <1>2. CASE Reset
    BY <1>2 DEF Reset, Forward, modemVars
  <1>3. CASE Answer
    <2> SUFFICES ASSUME ~disturbed' PROVE Forward'
      BY DEF Forward
    <2>1. /\ pc' = pc /\ requests' = requests /\ row' = row /\ ~disturbed
          /\ cmd # NoCmd /\ cmd' = NoCmd
      BY <1>3, AnswerCases DEF Answer, sketchVars
    <2>2. PICK word \in Words :
            /\ Receive(word)
            /\ word = ">" => cmd.kind = "send" /\ link # 0
            /\ cmd.kind = "start" /\ word = "OK" => link = 0
            /\ link' = IF cmd.kind = "start" /\ word = "OK" THEN cmd.pass
                       ELSE IF cmd.kind = "close" THEN 0 ELSE link
            /\ prompting' = (word = ">")
            /\ cmd.kind = "send" /\ link # 0 => word = ">"
      BY <1>3, AnswerCases
    <2>3. \A r \in requests : r.link = link' /\ row.pass <= r.row.pass
      BY <1>1, <2>1, <2>2 DEF Forward
    <2>4. prompting' => pc \in {"join", "joining", "hung", "prompt"}
      BY <2>1, <2>2 DEF Forward
    <2>5. ASSUME pc = "prompt" PROVE link' = 0 \/ Waits(">")'
      <3>1. cmd.kind = "send" /\ rx = <<>>
        BY <2>1, <2>5 DEF Forward
      <3>2. CASE link = 0
        BY <2>2, <3>1, <3>2
      <3>3. CASE link # 0
        <4>1. Len(rx) = 0 /\ 0 < RxSlots /\ word = ">"
          BY <2>2, <3>1, <3>3, SensorAssumption
        <4>2. Len(rx') = Len(rx) + 1 /\ rx'[Len(rx) + 1] = [word |-> word, pass |-> cmd.pass]
          BY <2>2, <4>1, ReceiveCases
        <4>3. 1 \in 1..Len(rx') /\ rx'[1].word = ">"
          BY <4>1, <4>2
        <4> QED
          BY <4>3 DEF Waits
      <3> QED
        BY <3>2, <3>3
    <2> QED
      BY <2>1, <2>3, <2>4, <2>5 DEF Forward, NoCmd
  <1>4. CASE LoseLink
    <2> SUFFICES ASSUME ~disturbed' PROVE Forward'
      BY DEF Forward
    <2>1. /\ pc' = pc /\ cmd' = cmd /\ rx' = rx /\ row' = row
          /\ link' = 0 /\ prompting' = FALSE /\ requests' \subseteq requests
          /\ ~disturbed /\ ~Requested(link)
      BY <1>4 DEF LoseLink, sketchVars
    <2>2. requests' = {}
      BY <2>1 DEF Forward, Requested
    <2> QED
      BY <2>1, <2>2 DEF Forward
  <1>5. ASSUME NEW r \in requests, Update(r) \/ DbDown(r)
        PROVE  Forward'
    <2> SUFFICES ASSUME ~disturbed' PROVE Forward'
      BY DEF Forward
    <2>1. /\ pc' = pc /\ cmd' = cmd /\ rx' = rx
          /\ requests' = requests \ {r} /\ ~disturbed
          /\ IF link = r.link THEN link' = 0 /\ prompting' = FALSE
             ELSE UNCHANGED <<link, prompting>>
      BY <1>5 DEF Update, DbDown, Taken, sketchVars
    <2>2. \A s \in requests : s.link = link
      BY <2>1 DEF Forward
    <2>3. requests' = {} /\ link' = 0 /\ prompting' = FALSE
      BY <2>1, <2>2 DEF Newest
    <2> QED
      BY <2>1, <2>3 DEF Forward
  <1> QED
    BY <1>2, <1>3, <1>4, <1>5

LEMMA NextForward ==
    ASSUME TypeOK, Modem, Newest, Forward, [Next]_vars
    PROVE  Forward'
  <1>1. CASE UNCHANGED vars
    BY <1>1 DEF vars, sketchVars, modemVars, Forward, Waits
  <1>2. CASE Next
    BY <1>2, SetupForward, LoopForward, OtherForward DEF Next
  <1> QED
    BY <1>1, <1>2

\* The row never goes back to an older reading, unless the modem answers too late or
\* a connection breaks under a request (RowsForward): there is one request at a time,
\* it is on the open connection, and a new connection is opened only when it is done.
THEOREM RowsTheorem == Spec => RowsForward
  <1> DEFINE RowInv == TypeOK /\ Modem /\ Newest /\ Forward
  <1>1. Init => RowInv
    BY InitTypes, InitNewest, InitForward
  <1>2. RowInv /\ [Next]_vars => RowInv'
    BY NextTypes, NextNewest, NextForward
  <1>3. RowInv /\ [Next]_vars => [row'.pass < row.pass => disturbed]_vars
    <2> SUFFICES ASSUME RowInv, [Next]_vars, row' # row, ~disturbed
                 PROVE  ~(row'.pass < row.pass)
      BY DEF TypeOK, Rows
    <2>1. PICK r \in requests : row' = r.row
      BY DEF Next, Join, Joined, Setup, ReadTemperature, ReadHumidity, ReadOn, ConnectError,
             Connected, Send, NoPrompt, Drain, Reset, Answer, LoseLink, Update, DbDown, vars
    <2>2. row.pass <= r.row.pass
      BY DEF Forward
    <2>3. row.pass \in Nat /\ r.row.pass \in Nat
      BY DEF TypeOK, Rows
    <2> QED
      BY <2>1, <2>2, <2>3
  <1> QED
    BY <1>1, <1>2, <1>3, PTL DEF Spec, RowsForward

----------------------------------------------------------------------------
(* When the sensor is asked. *)

\* The two residues that occur.
LEMMA ModSmall ==
    ASSUME NEW n \in Nat, n < Wrap
    PROVE  n % Wrap = n
  BY SensorAssumption

LEMMA ModOnce ==
    ASSUME NEW n \in Nat, Wrap <= n, n < Wrap + Wrap
    PROVE  n % Wrap = n - Wrap
  BY SensorAssumption

\* As long as the clock does not come round, it shows what passes.
LEMMA SincePasses ==
    ASSUME NEW m \in 0..(Wrap - 1), NEW l \in 0..(Wrap - 1), NEW d \in Nat,
           ((m + Wrap - l) % Wrap) + d < Wrap
    PROVE  ((((m + d) % Wrap) + Wrap - l) % Wrap) = ((m + Wrap - l) % Wrap) + d
  <1>1. Wrap \in Nat /\ d < Wrap
    BY SensorAssumption
  <1>2. CASE l <= m
    <2>1. (m + Wrap - l) % Wrap = m - l
      BY <1>1, <1>2, ModOnce
    <2>2. CASE m + d < Wrap
      <3>1. (m + d) % Wrap = m + d
        BY <1>1, <2>2, ModSmall
      <3>2. (m + d + Wrap - l) % Wrap = m + d - l
        BY <1>1, <1>2, <2>1, <2>2, ModOnce
      <3> QED
        BY <1>1, <2>1, <3>1, <3>2
    <2>3. CASE ~(m + d < Wrap)
      <3>1. (m + d) % Wrap = m + d - Wrap
        BY <1>1, <2>3, ModOnce
      <3>2. (m + d - Wrap + Wrap - l) % Wrap = m + d - l
        BY <1>1, <1>2, <2>1, <2>3, ModSmall
      <3> QED
        BY <1>1, <2>1, <3>1, <3>2
    <2> QED
      BY <2>2, <2>3
  <1>3. CASE ~(l <= m)
    <2>1. (m + Wrap - l) % Wrap = m + Wrap - l
      BY <1>1, <1>3, ModSmall
    <2>2. m + d < Wrap
      BY <1>1, <1>3, <2>1
    <2>3. (m + d) % Wrap = m + d
      BY <1>1, <2>2, ModSmall
    <2>4. (m + d + Wrap - l) % Wrap = m + d + Wrap - l
      BY <1>1, <1>3, <2>1, ModSmall
    <2> QED
      BY <1>1, <2>1, <2>3, <2>4
  <1> QED
    BY <1>2, <1>3

LEMMA ModTwice ==
    ASSUME NEW n \in Nat, Wrap + Wrap <= n, n < Wrap + Wrap + Wrap
    PROVE  n % Wrap = n - (Wrap + Wrap)
  BY SensorAssumption

\* A clock that starts at m.
LEMMA SinceStarts ==
    ASSUME NEW m \in 0..(Wrap - 1), NEW d \in Nat, d < Wrap
    PROVE  (((m + d) % Wrap) + Wrap - m) % Wrap = d
  <1>1. m + Wrap - m = Wrap
    BY SensorAssumption
  <1>2. (m + Wrap - m) % Wrap = 0
    BY <1>1, ModOnce, SensorAssumption
  <1>3. ((m + Wrap - m) % Wrap) + d = d
    BY <1>2
  <1> QED
    BY <1>3, SincePasses

LEMMA SinceRange ==
    ASSUME NEW m \in 0..(Wrap - 1), NEW l \in 0..(Wrap - 1)
    PROVE  (m + Wrap - l) % Wrap \in 0..(Wrap - 1)
  BY SensorAssumption

LEMMA SinceType == ASSUME TypeOK PROVE Since \in 0..(Wrap - 1)
  BY SensorAssumption DEF TypeOK, Since

\* d seconds pass and nothing is read.
LEMMA WaitClock ==
    ASSUME TypeOK, age = Since, NEW d \in Nat, Since + d < Wrap,
           Elapse(d, age), lastreadtime' = lastreadtime
    PROVE  age' = Since' /\ Since' = Since + d
  <1>1. Since' = Since + d
    <2>1. millis \in 0..(Wrap - 1) /\ lastreadtime \in 0..(Wrap - 1) /\ millis' = (millis + d) % Wrap
      BY DEF TypeOK, Elapse
    <2> QED
      BY <2>1, SincePasses DEF Since
  <1>2. age' = age + d
    BY SinceType, SensorAssumption DEF Elapse, AtMost
  <1> QED
    BY <1>1, <1>2

\* The sensor is read, or the cache is young enough.
LEMMA AskClock ==
    ASSUME TypeOK, Read, NEW d \in {0, 1}, Elapse(d, IF Cached THEN age ELSE 0),
           Cached => age = Since
    PROVE  age' = Since' /\ Since' <= MinInterval + 1
  <1>1. /\ Since \in 0..(Wrap - 1) /\ MinInterval \in Nat /\ MinInterval + 1 < Wrap
        /\ millis \in 0..(Wrap - 1) /\ Wrap \in Nat
    BY SinceType, SensorAssumption DEF TypeOK
  <1>2. CASE Cached
    <2>1. Since < MinInterval
      BY <1>2 DEF Cached, Since
    <2>2. lastreadtime' = lastreadtime
      BY <1>2, ReadCases
    <2>3. d \in Nat /\ Since + d < Wrap /\ Elapse(d, age) /\ age = Since
      BY <1>1, <1>2, <2>1
    <2>4. age' = Since' /\ Since' = Since + d
      BY <2>2, <2>3, WaitClock
    <2> QED
      BY <1>1, <2>1, <2>4
  <1>3. CASE ~Cached
    <2>1. lastreadtime' = millis
      BY <1>3, ReadCases
    <2>2. millis' = (millis + d) % Wrap /\ age' = AtMost(0 + d, Wrap)
      BY <1>3 DEF Elapse
    <2>3. d \in Nat /\ d < Wrap
      BY <1>1
    <2>4. Since' = d
      BY <1>1, <2>1, <2>2, <2>3, SinceStarts DEF Since
    <2> QED
      BY <1>1, <2>2, <2>4 DEF AtMost
  <1> QED
    BY <1>2, <1>3

LEMMA InitClock == Init => Clock
  BY DEF Init, Clock

LEMMA SetupClock ==
    ASSUME TypeOK, Modem, Clock,
           Join \/ Joined \/ Setup \/ ReadTemperature \/ ReadHumidity
    PROVE  Clock'
  <1>1. /\ age \in 0..Wrap /\ Wrap \in Nat /\ 10 < Wrap /\ MinInterval \in 0..9
        /\ MinInterval + 1 < Wrap
        /\ millis \in 0..(Wrap - 1) /\ Since \in 0..(Wrap - 1)
    BY SinceType, SensorAssumption DEF TypeOK
  <1>2. CASE Join
    <2>1. pc' = "joining" /\ age' = AtMost(age + 3, Wrap)
      BY <1>2 DEF Join, Elapse
    <2>2. age' >= 3
      BY <1>1, <2>1 DEF AtMost
    <2> QED
      BY <2>1, <2>2 DEF Clock
  <1>3. CASE Joined
    <2>1. PICK d \in {0, 1} : Elapse(d, age)
      BY <1>3 DEF Joined
    <2>2. pc = "joining" /\ pc' \in {"setup", "join", "hung"}
      BY <1>3 DEF Joined
    <2>3. age >= 3 /\ age' = AtMost(age + d, Wrap)
      BY <2>1, <2>2 DEF Clock, Elapse
    <2>4. age' >= 3
      BY <1>1, <2>3 DEF AtMost
    <2> QED
      BY <2>2, <2>4 DEF Clock
  <1>4. CASE Setup
    <2>1. /\ pc = "setup" /\ pc' = "temp" /\ age' = AtMost(age + 6, Wrap)
          /\ millis' = (millis + 6) % Wrap
          /\ lastreadtime' = (millis + 5 + Wrap - MinInterval) % Wrap
      BY <1>4 DEF Setup, Elapse
    <2>2. age >= 3
      BY <2>1 DEF Clock
    <2>3. age' >= MinInterval
      BY <1>1, <2>1, <2>2 DEF AtMost
    <2> DEFINE l == lastreadtime'
               d == MinInterval + 1
    <2>4. l \in 0..(Wrap - 1) /\ d \in Nat /\ d < Wrap
      BY <1>1, <2>1
    <2>5. (l + d) % Wrap = (millis + 6) % Wrap
      <3>1. CASE millis + 5 < MinInterval
        <4>1. l = millis + 5 + Wrap - MinInterval
          BY <1>1, <2>1, <3>1, ModSmall
        <4>2. (l + d) % Wrap = millis + 6
          BY <1>1, <3>1, <4>1, ModOnce
        <4>3. (millis + 6) % Wrap = millis + 6
          BY <1>1, <3>1, ModSmall
        <4> QED
          BY <4>2, <4>3
      <3>2. CASE MinInterval <= millis + 5 /\ millis + 5 - MinInterval < Wrap
        <4>1. l = millis + 5 - MinInterval
          BY <1>1, <2>1, <3>2, ModOnce
        <4>2. l + d = millis + 6
          BY <1>1, <4>1
        <4> QED
          BY <4>2
      <3>3. CASE Wrap <= millis + 5 - MinInterval
        <4>1. l = millis + 5 - MinInterval - Wrap
          BY <1>1, <2>1, <3>3, ModTwice
        <4>2. (l + d) % Wrap = millis + 6 - Wrap
          BY <1>1, <3>3, <4>1, ModSmall
        <4>3. (millis + 6) % Wrap = millis + 6 - Wrap
          BY <1>1, <3>3, ModOnce
        <4> QED
          BY <4>2, <4>3
      <3> QED
        BY <1>1, <3>1, <3>2, <3>3
    <2> HIDE DEF l, d
    <2>6. (((l + d) % Wrap) + Wrap - l) % Wrap = d
      BY <2>4, SinceStarts
    <2>7. Since' = d
      BY <2>1, <2>5, <2>6 DEF Since, l
    <2>8. Since' >= MinInterval
      BY <1>1, <2>7 DEF d
    <2> QED
      BY <2>1, <2>3, <2>8 DEF Clock
  <1>5. CASE ReadTemperature
    <2>1. PICK d \in {0, 1} : Elapse(d, IF Cached THEN age ELSE 0)
      BY <1>5 DEF ReadTemperature
    <2>2. pc = "temp" /\ pc' = "humid" /\ Read
      BY <1>5 DEF ReadTemperature
    <2>3. Cached => age = Since
      BY <1>1, <2>2 DEF Clock, Cached, Since
    <2>4. age' = Since' /\ Since' <= MinInterval + 1
      BY <2>1, <2>2, <2>3, AskClock
    <2> QED
      BY <2>2, <2>4 DEF Clock
  <1>6. CASE ReadHumidity
    <2>1. /\ pc = "humid" /\ pc' = "connect" /\ Read /\ rx' = rx
          /\ Elapse(0, IF Cached THEN age ELSE 0)
      BY <1>6 DEF ReadHumidity
    <2>2. age = Since
      BY <2>1 DEF Clock
    <2>3. age' = Since' /\ Since' <= MinInterval + 1
      BY <2>1, <2>2, AskClock
    <2>4. Len(rx) \in Nat /\ Len(rx) <= RxSlots /\ Busy' \in 0..1 /\ RxSlots \in Nat
      BY SensorAssumption DEF TypeOK, Busy
    <2>5. Since' \in 0..(Wrap - 1)
      <3>1. TypeOK'
        BY <1>6, SetupTypes
      <3>2. millis' \in 0..(Wrap - 1) /\ lastreadtime' \in 0..(Wrap - 1)
        BY <3>1 DEF TypeOK
      <3> QED
        BY <3>2, SinceRange DEF Since
    <2>6. Since' + Len(rx') + Busy' <= MinInterval + RxSlots + 2
      BY <1>1, <2>1, <2>3, <2>4, <2>5
    <2> QED
      BY <2>1, <2>3, <2>6 DEF Clock
  <1> QED
    BY <1>2, <1>3, <1>4, <1>5, <1>6

LEMMA LoopClock ==
    ASSUME TypeOK, Modem, Clock,
           ReadOn \/ ConnectError \/ Connected \/ Send \/ NoPrompt \/ Drain
    PROVE  Clock'
  <1>1. /\ Wrap \in Nat /\ MinInterval \in 0..9 /\ RxSlots \in Nat
        /\ MinInterval + RxSlots + 9 < Wrap
        /\ Since \in 0..(Wrap - 1) /\ Busy \in 0..1 /\ Busy' \in 0..1
        /\ rx \in Seq(Heard) /\ Len(rx) \in Nat /\ age \in 0..Wrap
    BY SinceType, SensorAssumption DEF TypeOK, Busy, Heard
  <1>2. lastreadtime' = lastreadtime
    BY DEF ReadOn, ConnectError, Connected, Send, NoPrompt, Drain, dhtVars
  <1>3. ASSUME NEW d \in 0..3, Elapse(d, age), pc \in {"connect", "prompt", "drain"},
               Since + d < Wrap
        PROVE  age' = Since' /\ Since' = Since + d
    <2>1. age = Since /\ d \in Nat
      BY <1>3 DEF Clock
    <2> QED
      BY <1>2, <1>3, <2>1, WaitClock
  <1>4. CASE ReadOn
    <2>1. PICK d \in {0, 1} : Elapse(d, age) /\ WriteNothing(d)
      BY <1>4 DEF ReadOn
    <2>2. /\ pc \in {"joining", "connect", "prompt"} /\ pc' = pc
          /\ rx # <<>> /\ rx' = Tail(rx)
      BY <1>4 DEF ReadOn, sketchVars
    <2>3. CASE pc = "joining"
      <3>1. age >= 3 /\ age' = AtMost(age + d, Wrap)
        BY <2>1, <2>3 DEF Clock, Elapse
      <3>2. age' >= 3
        BY <1>1, <3>1 DEF AtMost
      <3> QED
        BY <2>2, <2>3, <3>2 DEF Clock
    <2>4. CASE pc # "joining"
      <3>1. Busy' <= Busy
        BY <1>1, <2>1, SilentCases DEF Busy
      <3>2. Len(rx') = Len(rx) - 1 /\ Len(rx) > 0
        BY <1>1, <2>2
      <3>3. Since + d < Wrap
        BY <1>1, <2>2, <2>4, <3>2 DEF Clock
      <3>4. age' = Since' /\ Since' = Since + d
        BY <1>3, <2>1, <2>2, <2>4, <3>3
      <3>5. Since' + Len(rx') + Busy' <= Since + Len(rx) + Busy
        BY <1>1, <2>1, <3>1, <3>2, <3>4
      <3>6. Since' + Len(rx') + Busy' \in Int /\ Since + Len(rx) + Busy \in Int
        BY <1>1, <2>1, <3>2, <3>4
      <3>7. pc = "connect" => Since' + Len(rx') + Busy' <= MinInterval + RxSlots + 2
        BY <1>1, <3>5, <3>6 DEF Clock
      <3>8. pc = "prompt" => Since' + Len(rx') + Busy' <= MinInterval + RxSlots + 4
        BY <1>1, <3>5, <3>6 DEF Clock
      <3> QED
        BY <2>2, <2>4, <3>4, <3>7, <3>8 DEF Clock
    <2> QED
      BY <2>3, <2>4
  <1>5. CASE ConnectError
    <2>1. PICK d \in {0, 1} : Elapse(d, age)
      BY <1>5 DEF ConnectError
    <2>2. pc = "connect" /\ pc' = "temp"
      BY <1>5 DEF ConnectError
    <2>3. Since + d < Wrap
      BY <1>1, <2>1, <2>2 DEF Clock
    <2> QED
      BY <1>3, <2>1, <2>2, <2>3 DEF Clock
  <1>6. CASE Connected
    <2>1. pc = "connect" /\ pc' = "prompt" /\ Elapse(1, age) /\ rx' = rx
      BY <1>6 DEF Connected, GaveUp
    <2>2. Since + 1 < Wrap /\ Since + Len(rx) + Busy <= MinInterval + RxSlots + 2
      BY <1>1, <2>1 DEF Clock
    <2>3. age' = Since' /\ Since' = Since + 1
      BY <1>3, <2>1, <2>2
    <2>4. Since' + Len(rx') + Busy' <= MinInterval + RxSlots + 4
      BY <1>1, <2>1, <2>2, <2>3
    <2> QED
      BY <2>1, <2>3, <2>4 DEF Clock
  <1>7. CASE Send
    <2>1. PICK d \in {0, 1} : Found(">", d) /\ Elapse(d + 2, age)
      BY <1>7 DEF Send
    <2>2. pc = "prompt" /\ pc' = "drain"
      BY <1>7 DEF Send
    <2>3. rx' \in Seq(Heard) /\ Len(rx') < Len(rx)
      <3>1. ">" \in Words
        BY DEF Words
      <3> QED
        BY <2>1, <3>1, FoundCases
    <2>4. Since + (d + 2) < Wrap /\ Since + Len(rx) + Busy <= MinInterval + RxSlots + 4
      BY <1>1, <2>1, <2>2 DEF Clock
    <2>5. age' = Since' /\ Since' = Since + (d + 2)
      BY <1>3, <2>1, <2>2, <2>4
    <2>6. Since' + Len(rx') + Busy' <= MinInterval + RxSlots + 7
      <3>1. Len(rx') \in Nat
        BY <2>3
      <3> QED
        BY <1>1, <2>1, <2>3, <2>4, <2>5, <3>1
    <2> QED
      BY <2>2, <2>5, <2>6 DEF Clock
  <1>8. CASE NoPrompt
    <2>1. pc = "prompt" /\ pc' = "temp" /\ Elapse(2, age)
      BY <1>8 DEF NoPrompt
    <2>2. Since + 2 < Wrap
      BY <1>1, <2>1 DEF Clock
    <2> QED
      BY <1>3, <2>1, <2>2 DEF Clock
  <1>9. CASE Drain
    <2>1. PICK d \in {1, 2} : Elapse(d, age)
      BY <1>9 DEF Drain
    <2>2. pc = "drain" /\ pc' = "temp"
      BY <1>9 DEF Drain
    <2>3. Since + d < Wrap
      BY <1>1, <2>1, <2>2 DEF Clock
    <2> QED
      BY <1>3, <2>1, <2>2, <2>3 DEF Clock
  <1> QED
    BY <1>4, <1>5, <1>6, <1>7, <1>8, <1>9

LEMMA NextClock ==
    ASSUME TypeOK, Modem, Clock, [Next]_vars
    PROVE  Clock'
  <1>1. CASE Reset
    BY <1>1 DEF Reset, Clock
  <1>2. CASE Answer
    <2>1. /\ pc' = pc /\ age' = age /\ Since' = Since
          /\ cmd # NoCmd /\ cmd' = NoCmd
      BY <1>2, AnswerCases DEF Answer, sketchVars, dhtVars, Since
    <2>2. PICK word \in Words : Receive(word)
      BY <1>2, AnswerCases
    <2>3. Busy = 1 /\ Busy' = 0
      BY <2>1 DEF Busy
    <2>4. Len(rx) \in Nat /\ (Len(rx') = Len(rx) \/ Len(rx') = Len(rx) + 1)
      <3>1. Len(rx) \in Nat
        BY DEF TypeOK
      <3> QED
        BY <2>2, <3>1, ReceiveCases
    <2>5. Since \in Nat
      BY SinceType, SensorAssumption
    <2>6. Since' + Len(rx') + Busy' <= Since + Len(rx) + Busy
      BY <2>1, <2>3, <2>4, <2>5
    <2>7. /\ Since' + Len(rx') + Busy' \in Nat /\ Since + Len(rx) + Busy \in Nat
          /\ MinInterval \in Nat /\ RxSlots \in Nat
      BY <2>1, <2>3, <2>4, <2>5, SensorAssumption
    <2> QED
      BY <2>1, <2>6, <2>7 DEF Clock
  <1>3. ASSUME pc' = pc, age' = age, Since' = Since, cmd' = cmd, rx' = rx
        PROVE  Clock'
    BY <1>3 DEF Clock, Busy
  <1>4. CASE LoseLink
    BY <1>3, <1>4 DEF LoseLink, sketchVars, dhtVars, Since
  <1>5. ASSUME NEW r \in requests, Update(r) \/ DbDown(r)
        PROVE  Clock'
    BY <1>3, <1>5 DEF Update, DbDown, Taken, sketchVars, dhtVars, Since
  <1>6. CASE UNCHANGED vars
    BY <1>3, <1>6 DEF vars, sketchVars, dhtVars, modemVars, Since
  <1> QED
    BY <1>1, <1>2, <1>4, <1>5, <1>6, SetupClock, LoopClock DEF Next

\* The sensor is asked exactly when its last answer is MIN_INTERVAL old in real time
\* (CacheExact): neither the wrap of millis() nor a restart, which sets it to zero,
\* misleads the cache.
THEOREM CacheTheorem == Spec => CacheExact
  <1> DEFINE ClockInv == TypeOK /\ Modem /\ Clock
             Asks == (pc = "temp" /\ pc' = "humid") \/ (pc = "humid" /\ pc' = "connect")
  <1>1. Init => ClockInv
    BY InitTypes, InitClock
  <1>2. ClockInv /\ [Next]_vars => ClockInv'
    BY NextTypes, NextClock
  <1>3. ClockInv /\ [Next]_vars => [Asks => (polls' # polls <=> age >= MinInterval)]_vars
    <2> SUFFICES ASSUME ClockInv, Next, Asks
                 PROVE  polls' # polls <=> age >= MinInterval
      OBVIOUS
    <2>1. ReadTemperature \/ ReadHumidity
      BY DEF Next, Join, Joined, Setup, ReadTemperature, ReadHumidity, ReadOn, ConnectError,
             Connected, Send, NoPrompt, Drain, Reset, Answer, LoseLink, Update, DbDown, Taken,
             sketchVars
    <2>2. Read
      BY <2>1 DEF ReadTemperature, ReadHumidity
    <2>3. /\ Since \in 0..(Wrap - 1) /\ age \in 0..Wrap /\ polls \in Nat
          /\ MinInterval \in Nat /\ Wrap \in Nat
      BY SinceType, SensorAssumption DEF TypeOK
    <2>4. polls' # polls <=> ~Cached
      BY <2>2, <2>3, ReadCases
    <2>5. Cached <=> Since < MinInterval
      BY DEF Cached, Since
    <2>6. Since < MinInterval <=> ~(age >= MinInterval)
      BY <2>3 DEF Clock
    <2> QED
      BY <2>4, <2>5, <2>6
  <1> QED
    BY <1>1, <1>2, <1>3, PTL DEF Spec, CacheExact
=============================================================================
