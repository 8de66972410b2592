------------------------------ MODULE Actuator ------------------------------
(***************************************************************************)
(* What the NodeMCU board promises to the clients on its network, whatever *)
(* its TCP stack and its loop do: the LED pin and the pump pin change only *)
(* because of a request, requests take effect one at a time in the order   *)
(* in which they were taken in, each at most once, a request may be        *)
(* dropped without any effect, and an answer comes only after the effect.  *)
(* NodeMcu implements this specification (nodemcu.ino, loop()).            *)
(***************************************************************************)
EXTENDS Sequences

CONSTANT Conns      \* the connections that may ever reach the board

VARIABLES
    pins,           \* level of each output
    asked,          \* asked[c]: what the request of c says
    pending,        \* requests taken in and not yet decided, oldest first
    verdict,        \* verdict[c]: "none", "pending", "done" or "void"
    answered        \* connections that got their page

actVars == <<pins, asked, pending, verdict, answered>>

Pins   == {"led", "pump"}
Levels == {"LOW", "HIGH"}
AllLow == [p \in Pins |-> "LOW"]

\* What a request line asks for: the four links of the page, or anything else.
Switches == [pin : Pins, level : Levels]
NoSwitch == [pin |-> "none", level |-> "LOW"]
Asks     == Switches \cup {NoSwitch}

\* The levels after a request that asks for w.
Switched(levels, w) ==
    [p \in Pins |-> IF w.pin = p THEN w.level ELSE levels[p]]

Init ==
    /\ pins = AllLow
    /\ asked = [c \in Conns |-> NoSwitch]
    /\ pending = <<>>
    /\ verdict = [c \in Conns |-> "none"]
    /\ answered = {}

Submit(c, w) ==
    /\ verdict[c] = "none"
    /\ asked' = [asked EXCEPT ![c] = w]
    /\ pending' = Append(pending, c)
    /\ verdict' = [verdict EXCEPT ![c] = "pending"]
    /\ UNCHANGED <<pins, answered>>

\* The oldest request takes effect; a request cut short may ask for nothing.
Perform(w) ==
    /\ pending # <<>>
    /\ w \in {asked[Head(pending)], NoSwitch}
    /\ pins' = Switched(pins, w)
    /\ verdict' = [verdict EXCEPT ![Head(pending)] = "done"]
    /\ pending' = Tail(pending)
    /\ UNCHANGED <<asked, answered>>

Discard ==
    /\ pending # <<>>
    /\ verdict' = [verdict EXCEPT ![Head(pending)] = "void"]
    /\ pending' = Tail(pending)
    /\ UNCHANGED <<pins, asked, answered>>

Answer(c) ==
    /\ verdict[c] = "done"
    /\ answered' = answered \cup {c}
    /\ UNCHANGED <<pins, asked, pending, verdict>>

PowerLoss ==
    /\ pins' = AllLow
    /\ verdict' = [c \in Conns |-> IF verdict[c] = "pending" THEN "void" ELSE verdict[c]]
    /\ pending' = <<>>
    /\ UNCHANGED <<asked, answered>>

Next ==
    \/ \E c \in Conns, w \in Asks : Submit(c, w)
    \/ \E w \in Asks : Perform(w)
    \/ Discard
    \/ \E c \in Conns : Answer(c)
    \/ PowerLoss

Spec == Init /\ [][Next]_actVars
=============================================================================
