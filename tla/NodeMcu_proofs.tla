--------------------------- MODULE NodeMcu_proofs ---------------------------
(***************************************************************************)
(* What TLC checks of NodeMcu for three connections, proved for any set of *)
(* connections: its types, the agreement of queue, loop and connections,   *)
(* that a wedged board stays wedged, and that the board implements         *)
(* Actuator.  BoardSound is inductive together with TypeOK.                *)
(***************************************************************************)
EXTENDS NodeMcu, SequenceTheorems, TLAPS

\* The initial state is one of the types declared.
LEMMA InitTypeOK == Init => TypeOK
BY DEF Init, TypeOK, Pins, Levels, Asks, NoSwitch, Board!Pins, Board!Levels, Board!Asks,
       Board!NoSwitch, Board!AllLow

\* Setting the pins to what a request asks for gives levels again.
LEMMA SwitchedType ==
    ASSUME NEW levels \in [Pins -> Levels], NEW w \in Asks
    PROVE  Board!Switched(levels, w) \in [Pins -> Levels]
BY DEF Pins, Levels, Asks, Board!Pins, Board!Levels, Board!Asks, Board!NoSwitch,
       Board!Switches, Board!Switched

\* The board's types are preserved by every step of the loop, the stack and
\* the peers, once the client of a busy loop is known to be a connection.
LEMMA NextTypeOK == TypeOK /\ ClientExact /\ [Next]_vars => TypeOK'
<1> SUFFICES ASSUME TypeOK, ClientExact, [Next]_vars PROVE TypeOK'
  OBVIOUS
<1> USE DEF TypeOK, Alive
<1>0. NoSwitch \in Asks /\ Board!AllLow \in [Pins -> Levels]
  BY DEF NoSwitch, Asks, Pins, Levels, Board!NoSwitch, Board!Asks, Board!AllLow, Board!Levels, Board!Pins
<1>1. ASSUME NEW c \in Conns, NEW w \in Asks, Accept(c, w) PROVE TypeOK'
  BY <1>1 DEF Accept
<1>2. ASSUME NEW c \in Conns, Deliver(c) PROVE TypeOK'
  BY <1>2 DEF Deliver
<1>3. ASSUME NEW c \in Conns, PeerClose(c) PROVE TypeOK'
  BY <1>3 DEF PeerClose
<1>4. CASE ConnectWiFi
  BY <1>4 DEF ConnectWiFi
<1>5. CASE Claim
  <2>1. Head(unclaimed) \in Conns /\ Tail(unclaimed) \in Seq(Conns)
    BY <1>5, HeadTailProperties DEF Claim
  <2> QED
    BY <1>5, <2>1 DEF Claim
<1>6. CASE ReadRequest
  <2>1. client \in Conns
    BY <1>6 DEF ReadRequest, ClientExact, Busy
  <2> QED
    BY <1>6, <1>0, <2>1 DEF ReadRequest
<1>7. CASE Actuate
  <2>1. client \in Conns
    BY <1>7 DEF Actuate, ClientExact, Busy
  <2>2. Board!Switched(pins, request) \in [Pins -> Levels]
    BY SwitchedType
  <2> QED
    BY <1>7, <2>1, <2>2 DEF Actuate
<1>8. CASE Reply
  <2>1. client \in Conns
    BY <1>8 DEF Reply, ClientExact, Busy
  <2> QED
    BY <1>8, <1>0, <2>1 DEF Reply
<1>9. CASE Reset
  BY <1>9, <1>0 DEF Reset
<1>10. CASE UNCHANGED vars
  BY <1>10 DEF vars
<1> QED
  BY <1>1, <1>2, <1>3, <1>4, <1>5, <1>6, <1>7, <1>8, <1>9, <1>10 DEF Next

----------------------------------------------------------------------------
(* The queue, the loop and the connections. *)

LEMMA InitBoardSound == Init => BoardSound
BY DEF Init, BoardSound, QueueExact, ClientExact, OpenExact, RequestExact, Busy

LEMMA NextQueueExact == TypeOK /\ BoardSound /\ [Next]_vars => QueueExact'
<1> SUFFICES ASSUME TypeOK, BoardSound, [Next]_vars PROVE QueueExact'
  OBVIOUS
<1> USE DEF TypeOK, BoardSound, QueueExact
<1>1. ASSUME NEW c \in Conns, NEW w \in Asks, Accept(c, w) PROVE QueueExact'
  <2>1. /\ Len(unclaimed') = Len(unclaimed) + 1
        /\ \A i \in 1..Len(unclaimed) : unclaimed'[i] = unclaimed[i]
        /\ unclaimed'[Len(unclaimed) + 1] = c
    BY <1>1 DEF Accept
  <2>2. \A i \in 1..Len(unclaimed) : unclaimed[i] # c
    BY <1>1 DEF Accept
  <2> QED
    BY <1>1, <2>1, <2>2 DEF Accept
<1>2. ASSUME NEW c \in Conns, Deliver(c) PROVE QueueExact'
  BY <1>2 DEF Deliver
<1>3. ASSUME NEW c \in Conns, PeerClose(c) PROVE QueueExact'
  BY <1>3 DEF PeerClose
<1>4. CASE ConnectWiFi
  BY <1>4 DEF ConnectWiFi
<1>5. CASE Claim
  <2> DEFINE h == Head(unclaimed)
  <2>1. /\ h = unclaimed[1]
        /\ h \in Conns
        /\ Len(unclaimed') = Len(unclaimed) - 1
        /\ \A i \in 1..Len(unclaimed') : unclaimed'[i] = unclaimed[i + 1]
    BY <1>5, HeadTailProperties DEF Claim
  <2>2. \A c \in Conns : st'[c] = "queued" <=> st[c] = "queued" /\ c # h
    BY <1>5, <2>1 DEF Claim
  <2>3. \A c \in Conns : (\E i \in 1..Len(unclaimed') : unclaimed'[i] = c)
                           <=> (\E i \in 1..Len(unclaimed) : unclaimed[i] = c) /\ c # h
    <3> TAKE c \in Conns
    <3>1. ASSUME NEW i \in 1..Len(unclaimed'), unclaimed'[i] = c
          PROVE  (\E j \in 1..Len(unclaimed) : unclaimed[j] = c) /\ c # h
      <4>1. i + 1 \in 1..Len(unclaimed) /\ unclaimed[i + 1] = c /\ i + 1 # 1
        BY <2>1, <3>1
      <4> QED
        BY <2>1, <4>1
    <3>2. ASSUME NEW i \in 1..Len(unclaimed), unclaimed[i] = c, c # h
          PROVE  \E j \in 1..Len(unclaimed') : unclaimed'[j] = c
      <4>1. i # 1 /\ i - 1 \in 1..Len(unclaimed') /\ unclaimed'[i - 1] = c
        BY <2>1, <3>2
      <4> QED
        BY <4>1
    <3> QED
      BY <3>1, <3>2
  <2>4. \A i, j \in 1..Len(unclaimed') : unclaimed'[i] = unclaimed'[j] => i = j
    <3> SUFFICES ASSUME NEW i \in 1..Len(unclaimed'), NEW j \in 1..Len(unclaimed'),
                        unclaimed'[i] = unclaimed'[j]
                 PROVE  i = j
      OBVIOUS
    <3>1. i + 1 \in 1..Len(unclaimed) /\ j + 1 \in 1..Len(unclaimed)
      BY <2>1
    <3>2. unclaimed[i + 1] = unclaimed[j + 1]
      BY <2>1
    <3>3. i + 1 = j + 1
      BY <3>1, <3>2
    <3> QED
      BY <3>3
  <2>5. pc' # "setup"
    BY <1>5 DEF Claim
  <2> QED
    BY <2>2, <2>3, <2>4, <2>5
<1>6. CASE ReadRequest
  BY <1>6 DEF ReadRequest
<1>7. CASE Actuate
  BY <1>7 DEF Actuate, ClientExact, Busy
<1>8. CASE Reply
  BY <1>8 DEF Reply
<1>9. CASE Reset
  BY <1>9 DEF Reset, Alive
<1>10. CASE UNCHANGED vars
  BY <1>10 DEF vars
<1> QED
  BY <1>1, <1>2, <1>3, <1>4, <1>5, <1>6, <1>7, <1>8, <1>9, <1>10 DEF Next

LEMMA NextClientExact == TypeOK /\ BoardSound /\ [Next]_vars => ClientExact'
<1> SUFFICES ASSUME TypeOK, BoardSound, [Next]_vars PROVE ClientExact'
  OBVIOUS
<1> USE NoneAssumption DEF TypeOK, BoardSound, ClientExact, Busy
<1>1. ASSUME NEW c \in Conns, NEW w \in Asks, Accept(c, w) PROVE ClientExact'
  BY <1>1 DEF Accept
<1>2. ASSUME NEW c \in Conns, Deliver(c) PROVE ClientExact'
  BY <1>2 DEF Deliver
<1>3. ASSUME NEW c \in Conns, PeerClose(c) PROVE ClientExact'
  BY <1>3 DEF PeerClose
<1>4. CASE ConnectWiFi
  BY <1>4 DEF ConnectWiFi
<1>5. CASE Claim
  <2>1. Head(unclaimed) \in Conns
    BY <1>5, HeadTailProperties DEF Claim
  <2> QED
    BY <1>5, <2>1 DEF Claim
<1>6. CASE ReadRequest
  BY <1>6 DEF ReadRequest
<1>7. CASE Actuate
  BY <1>7 DEF Actuate
<1>8. CASE Reply
  BY <1>8 DEF Reply
<1>9. CASE Reset
  BY <1>9 DEF Reset, Alive
<1>10. CASE UNCHANGED vars
  BY <1>10 DEF vars
<1> QED
  BY <1>1, <1>2, <1>3, <1>4, <1>5, <1>6, <1>7, <1>8, <1>9, <1>10 DEF Next

LEMMA NextOpenRequestExact ==
    TypeOK /\ BoardSound /\ [Next]_vars => OpenExact' /\ RequestExact'
<1> SUFFICES ASSUME TypeOK, BoardSound, [Next]_vars PROVE OpenExact' /\ RequestExact'
  OBVIOUS
<1> USE DEF TypeOK, BoardSound, OpenExact, RequestExact, Alive
<1>1. ASSUME NEW c \in Conns, NEW w \in Asks, Accept(c, w) PROVE OpenExact' /\ RequestExact'
  BY <1>1 DEF Accept, ClientExact, Busy
<1>2. ASSUME NEW c \in Conns, Deliver(c) PROVE OpenExact' /\ RequestExact'
  BY <1>2 DEF Deliver
<1>3. ASSUME NEW c \in Conns, PeerClose(c) PROVE OpenExact' /\ RequestExact'
  BY <1>3 DEF PeerClose
<1>4. CASE ConnectWiFi
  BY <1>4 DEF ConnectWiFi
<1>5. CASE Claim
  <2>1. Head(unclaimed) \in Conns
    BY <1>5, HeadTailProperties DEF Claim
  <2>2. client = None
    BY <1>5 DEF Claim, ClientExact, Busy
  <2> QED
    BY <1>5, <2>1, <2>2, NoneAssumption DEF Claim
<1>6. CASE ReadRequest
  BY <1>6 DEF ReadRequest
<1>7. CASE Actuate
  BY <1>7 DEF Actuate
<1>8. CASE Reply
  BY <1>8 DEF Reply, ClientExact
<1>9. CASE Reset
  BY <1>9 DEF Reset
<1>10. CASE UNCHANGED vars
  BY <1>10 DEF vars
<1> QED
  BY <1>1, <1>2, <1>3, <1>4, <1>5, <1>6, <1>7, <1>8, <1>9, <1>10 DEF Next

\* At every moment the stack's queue, the client of loop() and the fate of the
\* connections agree: nothing is queued twice, served unasked or lost while it
\* is open (WiFiServer::available and loop of nodemcu.ino).
THEOREM BoardIsSound == Spec => [](TypeOK /\ BoardSound)
<1>1. TypeOK /\ BoardSound /\ [Next]_vars => (TypeOK /\ BoardSound)'
  BY NextTypeOK, NextQueueExact, NextClientExact, NextOpenRequestExact DEF BoardSound
<1> QED
  BY InitTypeOK, InitBoardSound, <1>1, PTL DEF Spec

----------------------------------------------------------------------------
(* A board that waits for a client that has left. *)

\* Once loop() waits for a client that closed without a byte, only a reset ends
\* the wait (nodemcu.ino:60 has no way out and a closed pcb gets no bytes).
THEOREM WedgeTheorem == Spec => WedgeIsForGood
<1>1. TypeOK /\ BoardSound /\ [Next]_vars => (Wedged => Wedged' \/ pc' = "setup")
  <2> SUFFICES ASSUME TypeOK, BoardSound, [Next]_vars, Wedged
               PROVE  Wedged' \/ pc' = "setup"
    OBVIOUS
  <2> USE DEF Wedged, TypeOK, BoardSound, ClientExact, Busy
  <2>1. ASSUME NEW c \in Conns, NEW w \in Asks, Accept(c, w) PROVE Wedged'
    BY <2>1 DEF Accept
  <2>2. ASSUME NEW c \in Conns, Deliver(c) PROVE Wedged'
    BY <2>2 DEF Deliver
  <2>3. ASSUME NEW c \in Conns, PeerClose(c) PROVE Wedged'
    BY <2>3 DEF PeerClose
  <2>4. CASE Reset
    BY <2>4 DEF Reset
  <2>5. ~ConnectWiFi /\ ~Claim /\ ~ReadRequest /\ ~Actuate /\ ~Reply
    BY DEF ConnectWiFi, Claim, ReadRequest, Actuate, Reply
  <2>6. CASE UNCHANGED vars
    BY <2>6 DEF vars
  <2> QED
    BY <2>1, <2>2, <2>3, <2>4, <2>5, <2>6 DEF Next
<1> QED
  BY <1>1, BoardIsSound, PTL DEF Spec, WedgeIsForGood

----------------------------------------------------------------------------
(* The board implements Actuator. *)

USE DEF Pins, Levels, Asks, NoSwitch

LEMMA PendingHead ==
    ASSUME TypeOK, client \in Conns
    PROVE  /\ <<client>> \o unclaimed # <<>>
           /\ Head(<<client>> \o unclaimed) = client
           /\ Tail(<<client>> \o unclaimed) = unclaimed
<1> DEFINE s == <<client>> \o unclaimed
<1>1. /\ s \in Seq(Conns)
      /\ Len(s) = 1 + Len(unclaimed)
      /\ \A i \in 1..Len(s) : s[i] = IF i = 1 THEN client ELSE unclaimed[i - 1]
  BY ConcatProperties DEF TypeOK
<1>2. s # <<>> /\ Head(s) = client
  BY <1>1 DEF TypeOK
<1>3. /\ Tail(s) \in Seq(Conns)
      /\ Len(Tail(s)) = Len(unclaimed)
      /\ \A i \in 1..Len(Tail(s)) : Tail(s)[i] = unclaimed[i]
  BY <1>1, <1>2, HeadTailProperties DEF TypeOK
<1>4. Tail(s) = unclaimed
  BY <1>3, SeqEqual DEF TypeOK
<1> QED
  BY <1>2, <1>4

LEMMA PendingAppend ==
    ASSUME TypeOK, client \in Conns, NEW c \in Conns
    PROVE  <<client>> \o Append(unclaimed, c) = Append(<<client>> \o unclaimed, c)
<1> DEFINE a == Append(unclaimed, c)
           s == <<client>> \o unclaimed
<1>1. a \in Seq(Conns) /\ Len(a) = Len(unclaimed) + 1
      /\ \A i \in 1..Len(a) : a[i] = IF i <= Len(unclaimed) THEN unclaimed[i] ELSE c
  BY DEF TypeOK
<1>2. s \in Seq(Conns) /\ Len(s) = 1 + Len(unclaimed)
      /\ \A i \in 1..Len(s) : s[i] = IF i = 1 THEN client ELSE unclaimed[i - 1]
  BY ConcatProperties DEF TypeOK
<1>3. <<client>> \o a \in Seq(Conns) /\ Len(<<client>> \o a) = 1 + Len(a)
      /\ \A i \in 1..1 + Len(a) : (<<client>> \o a)[i] = IF i = 1 THEN client ELSE a[i - 1]
  BY <1>1, ConcatProperties
<1>4. Append(s, c) \in Seq(Conns) /\ Len(Append(s, c)) = Len(s) + 1
      /\ \A i \in 1..Len(s) + 1 : Append(s, c)[i] = IF i <= Len(s) THEN s[i] ELSE c
  BY <1>2
<1>5. \A i \in 1..1 + Len(a) : (<<client>> \o a)[i] = Append(s, c)[i]
  BY <1>1, <1>2, <1>3, <1>4 DEF TypeOK
<1> QED
  BY <1>1, <1>2, <1>3, <1>4, <1>5, SeqEqual DEF TypeOK

LEMMA StepImplementsBoard ==
    TypeOK /\ BoardSound /\ [Next]_vars => [Board!Next]_Board!actVars
<1> SUFFICES ASSUME TypeOK, BoardSound, [Next]_vars
             PROVE  Board!Next \/ UNCHANGED Board!actVars
  OBVIOUS
<1> USE NoneAssumption DEF TypeOK, BoardSound, ClientExact, Busy, Board!actVars
<1>1. ASSUME NEW c \in Conns, NEW w \in Asks, Accept(c, w)
      PROVE  Board!Submit(c, w)
  <2>1. Verdict[c] = "none" /\ Verdict' = [Verdict EXCEPT ![c] = "pending"]
    BY <1>1 DEF Accept, Verdict
  <2>2. Pending' = Append(Pending, c)
    BY <1>1, PendingAppend DEF Accept, Pending
  <2> QED
    BY <1>1, <2>1, <2>2 DEF Accept, Board!Submit
<1>2. ASSUME NEW c \in Conns, Deliver(c) PROVE UNCHANGED Board!actVars
  BY <1>2 DEF Deliver, Pending, Verdict
<1>3. ASSUME NEW c \in Conns, PeerClose(c) PROVE UNCHANGED Board!actVars
  BY <1>3 DEF PeerClose, Pending, Verdict
<1>4. CASE ConnectWiFi
  BY <1>4 DEF ConnectWiFi, Pending, Verdict
<1>5. CASE Claim
  <2>1. Head(unclaimed) \in Conns /\ Tail(unclaimed) \in Seq(Conns)
    BY <1>5, HeadTailProperties DEF Claim
  <2>2. st[Head(unclaimed)] = "queued"
    BY <1>5, <2>1 DEF Claim, QueueExact
  <2>3. CASE open[Head(unclaimed)]
    <3>1. Verdict' = Verdict
      BY <1>5, <2>1, <2>2, <2>3 DEF Claim, Verdict
    <3>2. Pending' = <<Head(unclaimed)>> \o Tail(unclaimed)
      BY <1>5, <2>3 DEF Claim, Pending
    <3>3. <<Head(unclaimed)>> \o Tail(unclaimed) = unclaimed
      <4>1. /\ Len(Tail(unclaimed)) = Len(unclaimed) - 1
            /\ \A i \in 1..Len(Tail(unclaimed)) : Tail(unclaimed)[i] = unclaimed[i + 1]
        BY <1>5, HeadTailProperties DEF Claim
      <4>2. /\ <<Head(unclaimed)>> \o Tail(unclaimed) \in Seq(Conns)
            /\ Len(<<Head(unclaimed)>> \o Tail(unclaimed)) = Len(unclaimed)
            /\ \A i \in 1..Len(unclaimed) : (<<Head(unclaimed)>> \o Tail(unclaimed))[i]
                   = IF i = 1 THEN Head(unclaimed) ELSE Tail(unclaimed)[i - 1]
        BY <2>1, <4>1, ConcatProperties
      <4>3. \A i \in 1..Len(unclaimed) :
               (<<Head(unclaimed)>> \o Tail(unclaimed))[i] = unclaimed[i]
        BY <4>1, <4>2
      <4> QED
        BY <4>2, <4>3, SeqEqual
    <3> QED
      BY <1>5, <2>3, <3>1, <3>2, <3>3 DEF Claim, Pending
  <2>4. CASE ~open[Head(unclaimed)]
    <3>1. Verdict' = [Verdict EXCEPT ![Head(unclaimed)] = "void"]
      BY <1>5, <2>1, <2>4 DEF Claim, Verdict
    <3>2. Pending = unclaimed /\ Pending' = Tail(unclaimed) /\ Pending # <<>>
      BY <1>5, <2>4 DEF Claim, Pending
    <3> QED
      BY <1>5, <2>4, <3>1, <3>2 DEF Claim, Board!Next, Board!Discard
  <2> QED
    BY <2>3, <2>4
<1>6. CASE ReadRequest
  BY <1>6 DEF ReadRequest, Pending, Verdict
<1>7. CASE Actuate
  <2>1. client \in Conns /\ st[client] = "claimed"
    BY <1>7 DEF Actuate
  <2>2. Pending = <<client>> \o unclaimed /\ Pending' = unclaimed
    BY <1>7 DEF Actuate, Pending
  <2>3. Pending # <<>> /\ Head(Pending) = client /\ Tail(Pending) = unclaimed
    BY <2>1, <2>2, PendingHead
  <2>4. Verdict' = [Verdict EXCEPT ![client] = "done"]
    BY <1>7, <2>1 DEF Actuate, Verdict
  <2>5. request \in {asked[client], NoSwitch}
    BY <1>7 DEF Actuate, RequestExact
  <2>6. Board!Perform(request)
    BY <1>7, <2>2, <2>3, <2>4, <2>5 DEF Actuate, Board!Perform
  <2> QED
    BY <2>6 DEF Board!Next
<1>8. CASE Reply
  <2>1. client \in Conns /\ Verdict[client] = "done"
    BY <1>8 DEF Reply, Verdict
  <2>2. Pending' = Pending /\ Verdict' = Verdict
    BY <1>8 DEF Reply, Pending, Verdict
  <2>3. Board!Answer(client) \/ UNCHANGED Board!actVars
    BY <1>8, <2>1, <2>2 DEF Reply, Board!Answer
  <2> QED
    BY <2>1, <2>3 DEF Board!Next
<1>9. CASE Reset
  <2>1. Verdict' = [c \in Conns |-> IF Verdict[c] = "pending" THEN "void" ELSE Verdict[c]]
    BY <1>9 DEF Reset, Verdict, Alive
  <2>2. Pending' = <<>>
    BY <1>9 DEF Reset, Pending
  <2> QED
    BY <1>9, <2>1, <2>2 DEF Reset, Board!Next, Board!PowerLoss
<1>10. CASE UNCHANGED vars
  BY <1>10 DEF vars, Pending, Verdict
<1> QED
  BY <1>1, <1>2, <1>3, <1>4, <1>5, <1>6, <1>7, <1>8, <1>9, <1>10 DEF Next, Board!Next

LEMMA InitImplementsBoard == Init => Board!Init
BY DEF Init, Board!Init, Pending, Verdict

\* Whatever the stack, the peers and the resets do, the board does what
\* Actuator promises: effects in the order of arrival, at most once, and no
\* page before the effect.
THEOREM BoardTheorem == Spec => ImplementsBoard
BY InitImplementsBoard, StepImplementsBoard, BoardIsSound, PTL
   DEF Spec, ImplementsBoard, Board!Spec
=============================================================================
