----------------------------- MODULE SensorNode -----------------------------
(***************************************************************************)
(* The sensor node (Arduino/Arduino/arduino.ino): it joins the access      *)
(* point through an AT modem, reads the DHT22 (DHT_sensor_library/DHT.cpp) *)
(* and sends each reading with one GET to anyfarm_update.php.              *)
(*                                                                         *)
(* Time is in seconds and passes only in the steps of the sketch, each of  *)
(* which takes the time of its delay() or its find(); millis() wraps.  The *)
(* modem, which the repository does not contain, works on one command at a *)
(* time, ignores what is written meanwhile, and may answer late: answers   *)
(* wait in the buffer of mySerial.  A reading is the number of its poll;   *)
(* the two analog inputs, which are read in the same pass, are left out,   *)
(* and so is all text but the words the sketch looks for.                  *)
(***************************************************************************)
EXTENDS Integers, Sequences

CONSTANTS
    MinInterval,    \* MIN_INTERVAL of DHT.cpp: 2 seconds
    Wrap,           \* where millis() wraps: 2^32 milliseconds
    Attempts,       \* calls of connectWiFi() in setup(): 10
    MaxLag,         \* bound: seconds until an answer to a command other than AT+CWJAP
    RxSlots,        \* answers the buffer of mySerial holds
    MaxPasses,      \* bound: calls of loop()
    MaxResets       \* bound: restarts of the node

\* The delays of connectWiFi() and setup(), 9 seconds, are no shorter than the
\* interval, and one call of loop() is far shorter than the period of millis(): 9
\* seconds of its own, and one for each answer a find() reads.
ASSUME SensorAssumption ==
    /\ MinInterval \in 0..9 /\ Wrap \in Nat /\ MinInterval + RxSlots + 9 < Wrap
    /\ Attempts \in Nat \ {0} /\ MaxLag \in Nat /\ RxSlots \in Nat \ {0}
    /\ MaxPasses \in Nat /\ MaxResets \in Nat

VARIABLES
    pc,             \* where setup() or loop() is
    attempt,        \* i of setup()
    pass,           \* calls of loop() so far
    temp, humid,    \* t and a of loop()
    prompt,         \* pass whose ">" loop() has found
    millis,
    lastreadtime, lastresult, data,     \* the members of DHT
    rx,             \* received by mySerial and not yet read
    cmd,            \* what the modem is working on
    prompting,      \* the modem has said ">" and waits for the data
    link,           \* pass whose AT+CIPSTART opened the connection, or 0
    requests,       \* of each connection the first GET, if the server has not run it yet
    row             \* the measured columns of INFO
sketchVars == <<pc, attempt, pass, temp, humid, prompt>>
dhtVars    == <<lastreadtime, lastresult, data>>
modemVars  == <<cmd, prompting, link>>

VARIABLES           \* history
    polls,          \* readings taken from the sensor
    age,            \* seconds since the last one
    resets,
    heardOk,        \* an "OK" came in since the last restart, before the node hung
    disturbed       \* an answer came too late, or a connection broke with its request

vars == <<sketchVars, millis, dhtVars, rx, modemVars, requests, row,
          polls, age, resets, heardOk, disturbed>>

NaN   == 0          \* what int makes of it is undefined: a value of its own
Torn  == -1         \* bytes of a frame that did not arrive whole
NoCmd == [kind |-> "none", pass |-> 0, lag |-> 0]
NoRow == [pass |-> 0, temp |-> NaN, humid |-> NaN]

Readings == {NaN, Torn} \cup 1..polls
Rows     == [pass : 0..MaxPasses, temp : Readings, humid : Readings]
Kinds    == {"none", "join", "mux", "start", "send", "close", "get", "data"}
Words    == {"OK", "Error", ">", "other"}

TypeOK ==
    /\ pc \in {"join", "joining", "setup", "temp", "humid", "connect", "prompt", "drain", "hung"}
    /\ attempt \in 0..Attempts /\ pass \in 0..MaxPasses /\ prompt \in 0..MaxPasses
    /\ temp \in Readings /\ humid \in Readings /\ data \in Readings
    /\ millis \in 0..(Wrap - 1) /\ lastreadtime \in 0..(Wrap - 1)
    /\ lastresult \in BOOLEAN
    /\ rx \in Seq([word : Words, pass : 0..MaxPasses]) /\ Len(rx) <= RxSlots
    /\ cmd \in [kind : Kinds, pass : 0..MaxPasses, lag : 0..MaxLag]
    /\ prompting \in BOOLEAN /\ link \in 0..MaxPasses
    /\ requests \subseteq [link : 1..MaxPasses, row : Rows]
    /\ row \in Rows
    /\ polls \in Nat /\ age \in 0..Wrap /\ resets \in 0..MaxResets
    /\ heardOk \in BOOLEAN /\ disturbed \in BOOLEAN

Init ==
    /\ pc = "join" /\ attempt = 0 /\ pass = 0
    /\ temp = NaN /\ humid = NaN /\ prompt = 0
    /\ millis = 0
    /\ lastreadtime = 0 /\ lastresult = FALSE /\ data = NaN
    /\ rx = <<>>
    /\ cmd = NoCmd /\ prompting = FALSE /\ link = 0
    /\ requests = {} /\ row = NoRow
    /\ polls = 0 /\ age = Wrap /\ resets = 0 /\ heardOk = FALSE /\ disturbed = FALSE

----------------------------------------------------------------------------
(* Time. *)

AtMost(n, bound) == IF n < bound THEN n ELSE bound

\* d seconds pass, after which the sensor was last read before d + since.  The modem
\* has answered in time what it was given earlier.
Elapse(d, since) ==
    /\ cmd.kind \in {"none", "join"} \/ cmd.lag + d <= MaxLag
    /\ millis' = (millis + d) % Wrap
    /\ age' = AtMost(since + d, Wrap)

\* The same d seconds for what the modem works on.
Aged(c, d) == [c EXCEPT !.lag = IF c.kind \in {"none", "join"} THEN 0 ELSE AtMost(@ + d, MaxLag)]

----------------------------------------------------------------------------
(* The modem as the sketch sees it. *)

\* The server reads one line of a connection: what is sent after it changes nothing.
Requested(l) == \E r \in requests : r.link = l

\* The GET of loop(), on the connection that is open.
GetOfPass == [link |-> link, row |-> [pass |-> pass', temp |-> temp, humid |-> humid]]

\* println() of a command or of the GET to mySerial, "before" seconds into the step
\* and "after" seconds from its end: data if the modem waits for it, and ignored
\* while it is busy.
Write(kind, before, after) ==
    LET given == [kind |-> kind, pass |-> pass', lag |-> 0] IN
    IF prompting
    THEN /\ cmd' = Aged([given EXCEPT !.kind = "data"], after)
         /\ prompting' = FALSE
         /\ requests' = IF kind = "get" /\ ~Requested(link)
                        THEN requests \cup {GetOfPass}
                        ELSE requests
    ELSE /\ cmd' = IF cmd = NoCmd THEN Aged(given, after) ELSE Aged(cmd, before + after)
         /\ UNCHANGED <<prompting, requests>>

WriteNothing(d) ==
    /\ cmd' = Aged(cmd, d)
    /\ UNCHANGED <<prompting, requests>>

\* The words the modem may answer with: the sketch knows one word for a failure.
Failures == {"Error", "other"}
Answers ==
    CASE cmd.kind = "join" -> {"OK", "other"}
      [] cmd.kind = "mux" -> IF link = 0 THEN {"OK"} ELSE Failures
      [] cmd.kind = "start" -> IF link = 0 THEN {"OK"} \cup Failures ELSE Failures
      [] cmd.kind = "send" -> IF link = 0 THEN Failures ELSE {">"}
      [] cmd.kind = "close" -> IF link = 0 THEN Failures ELSE {"OK"}
      [] cmd.kind = "get" -> Failures
      [] cmd.kind = "data" -> {"OK", "other"}

\* A word of the modem reaches the buffer, if there is room for it.
Receive(word) ==
    LET room == Len(rx) < RxSlots IN
    /\ rx' = IF room THEN Append(rx, [word |-> word, pass |-> cmd.pass]) ELSE rx
    /\ heardOk' = (heardOk \/ (room /\ word = "OK" /\ pc \in {"join", "joining"}))

Answer ==
    /\ cmd # NoCmd
    /\ \E word \in Answers :
          /\ Receive(word)
          /\ link' = IF cmd.kind = "start" /\ word = "OK" THEN cmd.pass
                     ELSE IF cmd.kind = "close" THEN 0 ELSE link
          /\ prompting' = (word = ">")
    /\ cmd' = NoCmd
    /\ UNCHANGED <<sketchVars, millis, dhtVars, requests, row, polls, age, resets, disturbed>>

\* The connection ends otherwise; a request under way may end with it.
LoseLink ==
    /\ link # 0
    /\ link' = 0 /\ prompting' = FALSE
    /\ \E keep \in BOOLEAN :
          requests' = IF keep THEN requests ELSE {r \in requests : r.link # link}
    /\ disturbed' = (disturbed \/ Requested(link))
    /\ UNCHANGED <<sketchVars, millis, dhtVars, rx, cmd, row, polls, age, resets, heardOk>>

----------------------------------------------------------------------------
(* The server: a request of one line is answered by closing its connection. *)

Taken(r) ==
    /\ requests' = requests \ {r}
    /\ IF link = r.link
       THEN link' = 0 /\ prompting' = FALSE
       ELSE UNCHANGED <<link, prompting>>
    /\ UNCHANGED <<sketchVars, millis, dhtVars, rx, cmd, polls, age, resets, heardOk, disturbed>>

\* anyfarm_update.php: one UPDATE of the measured columns.
Update(r) == Taken(r) /\ row' = r.row

\* ... or its connection to the database fails.
DbDown(r) == Taken(r) /\ UNCHANGED row

----------------------------------------------------------------------------
(* find(): reads up to the word, or until nothing has come for one second. *)

Found(word, d) ==
    /\ d \in {0, 1}
    /\ \E i \in 1..Len(rx) :
          /\ rx[i].word = word
          /\ \A j \in 1..(i - 1) : rx[j].word # word
          /\ prompt' = IF word = ">" THEN rx[i].pass ELSE 0
          /\ rx' = SubSeq(rx, i + 1, Len(rx))

GaveUp == rx = <<>> /\ rx' = rx /\ prompt' = 0

----------------------------------------------------------------------------
(* Faulty variants of definitions below, each with one slip; the properties *)
(* at the end are checked to notice them.                                   *)

\* A connectWiFi() that throws away what has come in before it asks.
JoinFlushes ==
    /\ pc = "join"
    /\ Elapse(3, age)
    /\ pc' = "joining"
    /\ attempt' = attempt + 1
    /\ rx' = <<>>
    /\ UNCHANGED pass
    /\ Write("join", 0, 3)
    /\ UNCHANGED <<temp, humid, prompt, dhtVars, link, row, polls, resets, heardOk, disturbed>>

\* for (i = 0; i <= 10; i++)
JoinedOneMore ==
    /\ pc = "joining"
    /\ \E d \in {0, 1} :
          /\ \/ Found("OK", d) /\ pc' = "setup"
             \/ d = 1 /\ GaveUp /\ pc' = IF attempt <= Attempts THEN "join" ELSE "hung"
          /\ Elapse(d, age)
          /\ WriteNothing(d)
    /\ UNCHANGED <<attempt, pass, temp, humid, dhtVars, link, row, polls, resets, heardOk, disturbed>>

\* The comparison without a difference, which does not survive the wrap.
CachedBySum == millis < (lastreadtime + MinInterval) % Wrap

\* A read() that forgets to set _lastresult when the frame is bad.
ReadKeepsResult ==
    IF (millis + Wrap - lastreadtime) % Wrap < MinInterval
    THEN UNCHANGED <<dhtVars, polls>>
    ELSE \E ok \in BOOLEAN :
            /\ lastreadtime' = millis
            /\ lastresult' = (ok \/ lastresult)
            /\ polls' = polls + 1
            /\ data' = IF ok THEN polls' ELSE Torn

\* AT+CIPCLOSE without the delay after it.
NoPromptNoDelay ==
    /\ pc = "prompt"
    /\ GaveUp
    /\ Elapse(1, age)
    /\ pc' = "temp"
    /\ UNCHANGED pass
    /\ Write("close", 1, 0)
    /\ disturbed' = (disturbed \/ cmd # NoCmd)
    /\ UNCHANGED <<attempt, temp, humid, dhtVars, link, row, polls, resets, heardOk>>

\* An AT+CIPCLOSE at the end of each pass.
DrainAndClose ==
    /\ pc = "drain"
    /\ pc' = "temp"
    /\ prompt' = 0
    /\ rx' = <<>>
    /\ Elapse(1, age)
    /\ UNCHANGED pass
    /\ Write("close", 0, 1)
    /\ UNCHANGED <<attempt, temp, humid, dhtVars, link, row, polls, resets, heardOk, disturbed>>

----------------------------------------------------------------------------
(* setup(). *)

\* connectWiFi(): AT+CWJAP and delay(3000).
Join ==
    /\ pc = "join"
    /\ Elapse(3, age)
    /\ pc' = "joining"
    /\ attempt' = attempt + 1
    /\ UNCHANGED pass
    /\ Write("join", 0, 3)
    /\ UNCHANGED <<temp, humid, prompt, dhtVars, rx, link, row, polls, resets, heardOk, disturbed>>

\* find("OK") of connectWiFi(); the tenth failure ends in while(1).
Joined ==
    /\ pc = "joining"
    /\ \E d \in {0, 1} :
          /\ \/ Found("OK", d) /\ pc' = "setup"
             \/ d = 1 /\ GaveUp /\ pc' = IF attempt < Attempts THEN "join" ELSE "hung"
          /\ Elapse(d, age)
          /\ WriteNothing(d)
    /\ UNCHANGED <<attempt, pass, temp, humid, dhtVars, link, row, polls, resets, heardOk, disturbed>>

\* delay(5000), AT+CIPMUX=0, dht.begin() and delay(1000).
Setup ==
    /\ pc = "setup"
    /\ Elapse(6, age)
    /\ pc' = "temp"
    /\ lastreadtime' = (millis + 5 + Wrap - MinInterval) % Wrap
    /\ UNCHANGED pass
    /\ Write("mux", 5, 1)
    /\ UNCHANGED <<attempt, temp, humid, prompt, lastresult, data, rx, link, row, polls, resets,
                   heardOk, disturbed>>

----------------------------------------------------------------------------
(* The sensor. *)

\* A reading of less than two seconds ago is used again.
Cached == (millis + Wrap - lastreadtime) % Wrap < MinInterval

\* DHT::read(): a frame that times out or fails its checksum leaves what it has
\* of it in data[].
Read ==
    IF Cached
    THEN UNCHANGED <<dhtVars, polls>>
    ELSE \E ok \in BOOLEAN :
            /\ lastreadtime' = millis
            /\ lastresult' = ok
            /\ polls' = polls + 1
            /\ data' = IF ok THEN polls' ELSE Torn

Value == IF lastresult' THEN data' ELSE NaN

\* readTemperature(); up to a second of the clock may pass before the next call.
ReadTemperature ==
    /\ pc = "temp"
    /\ pass < MaxPasses
    /\ Read
    /\ temp' = Value
    /\ pc' = "humid"
    /\ pass' = pass + 1
    /\ \E d \in {0, 1} :
          /\ Elapse(d, IF Cached THEN age ELSE 0)
          /\ WriteNothing(d)
    /\ UNCHANGED <<attempt, humid, prompt, rx, link, row, resets, heardOk, disturbed>>

\* readHumidity(), and AT+CIPSTART to the modem.
ReadHumidity ==
    /\ pc = "humid"
    /\ Read
    /\ humid' = Value
    /\ pc' = "connect"
    /\ UNCHANGED pass
    /\ Elapse(0, IF Cached THEN age ELSE 0)
    /\ Write("start", 0, 0)
    /\ UNCHANGED <<attempt, temp, prompt, rx, link, row, resets, heardOk, disturbed>>

----------------------------------------------------------------------------
(* loop() from its first find() on. *)

\* A find() reads words it does not look for and goes on waiting.
ReadOn ==
    /\ pc \in {"joining", "connect", "prompt"}
    /\ rx # <<>>
    /\ Head(rx).word # (IF pc = "joining" THEN "OK" ELSE IF pc = "connect" THEN "Error" ELSE ">")
    /\ rx' = Tail(rx)
    /\ \E d \in {0, 1} :
          /\ Elapse(d, age)
          /\ WriteNothing(d)
    /\ UNCHANGED <<sketchVars, dhtVars, link, row, polls, resets, heardOk, disturbed>>

\* find("Error") ends loop() at once.
ConnectError ==
    /\ pc = "connect"
    /\ pc' = "temp"
    /\ \E d \in {0, 1} :
          /\ Found("Error", d)
          /\ Elapse(d, age)
          /\ WriteNothing(d)
    /\ UNCHANGED <<attempt, pass, temp, humid, dhtVars, link, row, polls, resets, heardOk, disturbed>>

\* No "Error" in a second is taken for success: AT+CIPSEND.
Connected ==
    /\ pc = "connect"
    /\ GaveUp
    /\ Elapse(1, age)
    /\ pc' = "prompt"
    /\ UNCHANGED pass
    /\ Write("send", 1, 0)
    /\ disturbed' = (disturbed \/ cmd # NoCmd)
    /\ UNCHANGED <<attempt, temp, humid, dhtVars, link, row, polls, resets, heardOk>>

\* ">" found: the GET and delay(2000).
Send ==
    /\ pc = "prompt"
    /\ pc' = "drain"
    /\ UNCHANGED pass
    /\ \E d \in {0, 1} :
          /\ Found(">", d)
          /\ Elapse(d + 2, age)
          /\ Write("get", d, 2)
    /\ UNCHANGED <<attempt, temp, humid, dhtVars, link, row, polls, resets, heardOk, disturbed>>

\* No ">" in a second: AT+CIPCLOSE and delay(1000).
NoPrompt ==
    /\ pc = "prompt"
    /\ GaveUp
    /\ Elapse(2, age)
    /\ pc' = "temp"
    /\ UNCHANGED pass
    /\ Write("close", 1, 1)
    /\ disturbed' = (disturbed \/ cmd # NoCmd)
    /\ UNCHANGED <<attempt, temp, humid, dhtVars, link, row, polls, resets, heardOk>>

\* The rest of loop(): what has come is read and shown, then delay(1000).
Drain ==
    /\ pc = "drain"
    /\ pc' = "temp"
    /\ prompt' = 0
    /\ rx' = <<>>
    /\ \E d \in {1, 2} :
          /\ Elapse(d, age)
          /\ WriteNothing(d)
    /\ UNCHANGED <<attempt, pass, temp, humid, dhtVars, link, row, polls, resets, heardOk, disturbed>>

\* The node restarts; the modem is not told.
Reset ==
    /\ resets < MaxResets
    /\ resets' = resets + 1
    /\ pc' = "join" /\ attempt' = 0
    /\ millis' = 0
    /\ lastreadtime' = 0 /\ lastresult' = FALSE /\ data' = NaN
    /\ temp' = NaN /\ humid' = NaN /\ prompt' = 0
    /\ rx' = <<>>
    /\ heardOk' = FALSE
    /\ UNCHANGED <<pass, modemVars, requests, row, polls, age, disturbed>>

Next ==
    \/ Join \/ Joined \/ Setup
    \/ ReadTemperature \/ ReadHumidity
    \/ ReadOn \/ ConnectError \/ Connected \/ Send \/ NoPrompt \/ Drain
    \/ Reset
    \/ Answer \/ LoseLink
    \/ \E r \in requests : Update(r) \/ DbDown(r)

Spec == Init /\ [][Next]_vars

----------------------------------------------------------------------------
(* Properties. *)

\* The sensor is asked exactly when its last answer is two seconds old in real
\* time, though the cache compares values of millis() that wrap and start again.
CacheExact ==
    [][(pc = "temp" /\ pc' = "humid") \/ (pc = "humid" /\ pc' = "connect")
        => (polls' # polls <=> age >= MinInterval)]_vars

\* A GET carries numbers of frames that arrived whole: both of one frame, or,
\* when the two seconds pass between the two calls, of one frame and the next.
\* A temperature of the last frame goes with its humidity and no other.
OneMoment ==
    pc \in {"connect", "prompt"} =>
        /\ Torn \notin {temp, humid}
        /\ humid \in {NaN, polls}
        /\ temp \in {NaN, polls, polls - 1}
        /\ temp = polls /\ temp # NaN => humid = temp

\* The ">" after which loop() sends its GET is the answer to the AT+CIPSEND of the
\* same pass, although find() drops what it does not look for, gives up, and
\* leaves late answers to the next pass.  It takes a modem that answers within two
\* seconds (MaxLag <= 2): the ">" of a slower one is found by the next pass.
PromptInStep == pc = "drain" => prompt = pass

\* The row never goes back to an older reading, as long as the modem answers
\* before find() gives up and no connection breaks under a request: a pass that
\* finds the connection of the last one still open sends nothing.
RowsForward == [][row'.pass < row.pass => disturbed]_vars

\* The comment on the branch that hangs says that the request is repeated until the
\* node is connected (arduino.ino:54); the code gives up after Attempts of them.  What
\* it does keep to: it never gives up on an "OK" that came while it was trying, early,
\* late or between two attempts, if the buffer had room.  One that comes after the
\* last find() finds nobody looking, and the node stays deaf until it is reset.
HangNeedsSilence == pc = "hung" => ~heardOk

=============================================================================
