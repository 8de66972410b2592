------------------------------ MODULE NodeMcu ------------------------------
(***************************************************************************)
(* The actuator board (Arduino/nodemcu/nodemcu.ino) on its TCP stack       *)
(* (Arduino/libraries/ESP8266wifi): one loop() serves one connection at a  *)
(* time, while lwIP, between any two steps of the loop, takes in new       *)
(* connections, delivers bytes and sees peers leave.                       *)
(*                                                                         *)
(* A connection is used once.  Bytes are abstracted to how much of the     *)
(* request line has arrived; a request asks for one switch or for nothing  *)
(* the sketch knows.                                                       *)
(***************************************************************************)
EXTENDS Naturals, Sequences

CONSTANTS
    Conns,          \* the connections that may reach the board
    None            \* no client in loop()

ASSUME NoneAssumption == None \notin Conns

VARIABLES
    pc,             \* where setup() or loop() is
    client,         \* the WiFiClient of loop()
    request,        \* what the line read in loop() asks for
    pins,           \* output levels of GPIO 14 (LED) and GPIO 12 (pump)
    unclaimed,      \* WiFiServer::_unclaimed
    st,             \* what became of each connection
    open,           \* ClientContext::_pcb is not null
    rx,             \* how much of the request line is in ClientContext::_rx_buf
    asked,          \* what the request line of each connection says
    answered        \* connections whose page was written while they were open

vars == <<pc, client, request, pins, unclaimed, st, open, rx, asked, answered>>

\* The board as its clients are promised it: see the module Actuator.  A
\* request is pending from the accept until loop() has set the pins.
Pending == IF pc \in {"wait", "act"} THEN <<client>> \o unclaimed ELSE unclaimed

Verdict ==
    [c \in Conns |->
        CASE st[c] = "new" -> "none"
          [] st[c] \in {"queued", "claimed"} -> "pending"
          [] st[c] = "served" -> "done"
          [] st[c] = "dropped" -> "void"]

Board == INSTANCE Actuator WITH pending <- Pending, verdict <- Verdict

Pins     == Board!Pins
Levels   == Board!Levels
NoSwitch == Board!NoSwitch
Asks     == Board!Asks

Alive == {c \in Conns : st[c] \in {"queued", "claimed"}}

TypeOK ==
    /\ pc \in {"setup", "loop", "wait", "act", "reply"}
    /\ client \in Conns \cup {None}
    /\ request \in Asks
    /\ pins \in [Pins -> Levels]
    /\ unclaimed \in Seq(Conns)
    /\ st \in [Conns -> {"new", "queued", "claimed", "served", "dropped"}]
    /\ open \in [Conns -> BOOLEAN]
    /\ rx \in [Conns -> {"none", "part", "line"}]
    /\ asked \in [Conns -> Asks]
    /\ answered \subseteq Conns

Init ==
    /\ pc = "setup"
    /\ client = None
    /\ request = NoSwitch
    /\ pins = Board!AllLow
    /\ unclaimed = <<>>
    /\ st = [c \in Conns |-> "new"]
    /\ open = [c \in Conns |-> FALSE]
    /\ rx = [c \in Conns |-> "none"]
    /\ asked = [c \in Conns |-> NoSwitch]
    /\ answered = {}

----------------------------------------------------------------------------
(* Faulty boards, each a definition below with one slip.  The properties at *)
(* the end are checked to notice them; the specification uses none.         *)

\* slist_append_tail() written as a push to the front.
AcceptInFront(c, w) ==
    /\ pc # "setup"
    /\ st[c] = "new"
    /\ st' = [st EXCEPT ![c] = "queued"]
    /\ open' = [open EXCEPT ![c] = TRUE]
    /\ asked' = [asked EXCEPT ![c] = w]
    /\ unclaimed' = <<c>> \o unclaimed
    /\ UNCHANGED <<pc, client, request, pins, rx, answered>>

\* available() that does not advance _unclaimed.
ClaimKeepsHead ==
    /\ pc = "loop"
    /\ unclaimed # <<>>
    /\ open[Head(unclaimed)]
    /\ client' = Head(unclaimed)
    /\ pc' = "wait"
    /\ st' = [st EXCEPT ![Head(unclaimed)] = "claimed"]
    /\ UNCHANGED <<unclaimed, request, pins, open, rx, asked, answered>>

\* loop() that waits for a live client at the head instead of dropping a dead one.
ClaimOnlyOpen ==
    /\ pc = "loop"
    /\ unclaimed # <<>>
    /\ open[Head(unclaimed)]
    /\ client' = Head(unclaimed)
    /\ pc' = "wait"
    /\ st' = [st EXCEPT ![Head(unclaimed)] = "claimed"]
    /\ unclaimed' = Tail(unclaimed)
    /\ UNCHANGED <<request, pins, open, rx, asked, answered>>

\* A wait for the first byte that gives up, the one the sketch does not have.
ReadWithTimeout ==
    /\ pc = "wait"
    /\ request' \in {asked[client]} \cup (IF rx[client] = "line" THEN {} ELSE {NoSwitch})
    /\ pc' = "act"
    /\ UNCHANGED <<client, pins, unclaimed, st, open, rx, asked, answered>>

----------------------------------------------------------------------------
(* The TCP stack and the peers. *)

\* The server listens only after server.begin(): a connection of a peer that
\* is about to ask for w goes to the tail of the unclaimed ones.
Accept(c, w) ==
    /\ pc # "setup"
    /\ st[c] = "new"
    /\ st' = [st EXCEPT ![c] = "queued"]
    /\ open' = [open EXCEPT ![c] = TRUE]
    /\ asked' = [asked EXCEPT ![c] = w]
    /\ unclaimed' = Append(unclaimed, c)
    /\ UNCHANGED <<pc, client, request, pins, rx, answered>>

\* Bytes of the request line arrive, up to "\r" or short of it.
Deliver(c) ==
    /\ c \in Alive
    /\ open[c]
    /\ \E more \in IF rx[c] = "none" THEN {"part", "line"}
                   ELSE IF rx[c] = "part" THEN {"line"} ELSE {} :
          rx' = [rx EXCEPT ![c] = more]
    /\ UNCHANGED <<pc, client, request, pins, unclaimed, st, open, asked, answered>>

\* The peer ends or resets the connection: the pcb goes, the bytes stay.
PeerClose(c) ==
    /\ open[c]
    /\ open' = [open EXCEPT ![c] = FALSE]
    /\ UNCHANGED <<pc, client, request, pins, unclaimed, st, rx, asked, answered>>

----------------------------------------------------------------------------
(* setup() and loop(). *)

\* setup() has found the access point and has started the server.
ConnectWiFi ==
    /\ pc = "setup"
    /\ pc' = "loop"
    /\ UNCHANGED <<client, request, pins, unclaimed, st, open, rx, asked, answered>>

\* server.available(): the oldest unclaimed connection.  One that its peer has
\* already closed is not "connected" and ~WiFiClient drops it with its bytes.
Claim ==
    /\ pc = "loop"
    /\ unclaimed # <<>>
    /\ LET c == Head(unclaimed) IN
          IF open[c]
          THEN /\ client' = c
               /\ pc' = "wait"
               /\ st' = [st EXCEPT ![c] = "claimed"]
               /\ UNCHANGED rx
          ELSE /\ st' = [st EXCEPT ![c] = "dropped"]
               /\ rx' = [rx EXCEPT ![c] = "none"]
               /\ UNCHANGED <<client, pc>>
    /\ unclaimed' = Tail(unclaimed)
    /\ UNCHANGED <<request, pins, open, asked, answered>>

\* while(!client.available()) has ended, whether or not the peer is still there.
\* readStringUntil('\r') gives up after its timeout: of a line cut short it
\* may or may not have read the path.
ReadRequest ==
    /\ pc = "wait"
    /\ rx[client] # "none"
    /\ request' \in {asked[client]} \cup (IF rx[client] = "part" THEN {NoSwitch} ELSE {})
    /\ pc' = "act"
    /\ UNCHANGED <<client, pins, unclaimed, st, open, rx, asked, answered>>

\* The four tests of the request line and their digitalWrite.
Actuate ==
    /\ pc = "act"
    /\ pins' = Board!Switched(pins, request)
    /\ st' = [st EXCEPT ![client] = "served"]
    /\ pc' = "reply"
    /\ UNCHANGED <<client, request, unclaimed, open, rx, asked, answered>>

\* The page goes to a peer that is still there; at the end of loop() the
\* WiFiClient and the String go out of scope, the connection is closed and
\* what is left of its bytes is discarded.
Reply ==
    /\ pc = "reply"
    /\ answered' = IF open[client] THEN answered \cup {client} ELSE answered
    /\ open' = [open EXCEPT ![client] = FALSE]
    /\ client' = None
    /\ rx' = [rx EXCEPT ![client] = "none"]
    /\ request' = NoSwitch
    /\ pc' = "loop"
    /\ UNCHANGED <<pins, unclaimed, st, asked>>

\* A power cut or a watchdog reset: everything is lost, the outputs start LOW.
Reset ==
    /\ pc' = "setup"
    /\ client' = None
    /\ request' = NoSwitch
    /\ pins' = Board!AllLow
    /\ unclaimed' = <<>>
    /\ st' = [c \in Conns |-> IF c \in Alive THEN "dropped" ELSE st[c]]
    /\ open' = [c \in Conns |-> FALSE]
    /\ rx' = [c \in Conns |-> "none"]
    /\ UNCHANGED <<asked, answered>>

Next ==
    \/ \E c \in Conns, w \in Asks : Accept(c, w)
    \/ \E c \in Conns : Deliver(c)
    \/ \E c \in Conns : PeerClose(c)
    \/ ConnectWiFi
    \/ Claim
    \/ ReadRequest
    \/ Actuate
    \/ Reply
    \/ Reset

Spec == Init /\ [][Next]_vars

----------------------------------------------------------------------------
(* Properties. *)

Busy == pc \in {"wait", "act", "reply"}

\* _unclaimed holds each connection that waits for its turn once and no other.
QueueExact ==
    /\ \A i, j \in 1..Len(unclaimed) : unclaimed[i] = unclaimed[j] => i = j
    /\ \A c \in Conns : st[c] = "queued" <=> \E i \in 1..Len(unclaimed) : unclaimed[i] = c
    /\ pc = "setup" => unclaimed = <<>>

\* loop() holds a client exactly while it serves it, and the client counts as
\* served as soon as the pins are set.
ClientExact ==
    /\ Busy <=> client # None
    /\ \A c \in Conns : st[c] = "claimed" <=> c = client /\ pc \in {"wait", "act"}
    /\ pc = "reply" => st[client] = "served"

\* An open connection is one the board still holds.
OpenExact == \A c \in Conns : open[c] => c \in Alive \cup {client}

\* What is about to be written to the pins is what the client asked for, or
\* nothing when its line was cut short.
RequestExact == pc = "act" => request \in {asked[client], NoSwitch}

\* The queue of the stack, the client of loop() and the fate of every
\* connection agree between any two steps of the loop and of the stack.
BoardSound == QueueExact /\ ClientExact /\ OpenExact /\ RequestExact

\* The loop does what it promises: requests take effect in the order in which
\* the stack took them in, one at a time and at most once, nothing else moves
\* a pin, and no page is written before the effect.
ImplementsBoard == Board!Spec

\* loop() waits for the first byte of a client that will never send one: it
\* left after it was claimed (nodemcu.ino:60 tests only available()).
Wedged == pc = "wait" /\ ~open[client] /\ rx[client] = "none"

\* Such a board serves nobody again until it is reset: no step of the loop, of
\* the stack or of any other client gets it out of the wait.
WedgeIsForGood == [][Wedged => Wedged' \/ pc' = "setup"]_vars

Silent == pc = "wait" /\ rx[client] = "none"

=============================================================================
